---------------------------- MODULE UnitRun_proofs ----------------------------
(* The task loop of one unit, for every list of tasks, every set of options *)
(* and every bound: a good row leaves the output of its key, both caches    *)
(* hold what their keys name, a deploy ships what this invocation restored  *)
(* or built and is announced once, and under fail_fast a deploy that is     *)
(* skipped is still what the platform serves.                               *)
EXTENDS UnitRun, FiniteSetTheorems, TLAPS

(* The loop is under way; it has a task in hand. *)
Holding == {"local", "remote", "run", "store", "push"}
Working == Holding \cup {"loop"}

(* What a good key of a plain task is worth. *)
MadeFrom(t, made, key) == made = key \/ <<t, key>> \in raced

Cursor ==
  /\ pc \in Holding => i <= Len(Tasks) /\ Task \in DOMAIN keys /\ Task \notin Notifiers
  /\ pc \in Holding \ {"run"} => Task \in Plain
  /\ pc = "replay" => opts.notify_only /\ rows = <<>>
  /\ pc # "off" => opts \in Options

(* The key in hand is that of the sources the command will read, and what  *)
(* is about to be stored was made from them.                               *)
KeyInHand ==
  /\ pc \in {"local", "remote", "run"} /\ Task \in Plain => MadeFrom(Task, src, keys[Task])
  /\ pc \in {"store", "push"} => MadeFrom(Task, out[Task], keys[Task])

(* A row is of a task the loop has passed; only notifications come later.  *)
RowsArePast ==
  /\ pc \in Working => \A n \in DOMAIN rows : \E j \in 1..(i - 1) : rows[n].task = Tasks[j]
  /\ pc \in Working \cup {"sidecars", "notify"} =>
       \A n \in DOMAIN rows : rows[n].task \notin Notifiers
  /\ \A n \in DOMAIN rows :
       rows[n].outcome = "failed" \/ rows[n].task \in Notifiers \cup DOMAIN keys

(* Under fail_fast the loop goes on only past plain tasks that are good. *)
GoodSoFar ==
  pc \in Working /\ opts.fail_fast =>
    \A j \in 1..(i - 1) : Tasks[j] \in Plain /\ Allowed(Tasks[j]) =>
      \E n \in DOMAIN rows : rows[n].task = Tasks[j] /\ rows[n].outcome \in {"hit", "built"}

IInv ==
  /\ TypeOK /\ Cursor /\ KeyInHand /\ RowsArePast
  /\ CacheIsFaithful /\ GoodRowGoodOutput /\ GoodSoFar /\ EachDeployAnnouncedOnce

-----------------------------------------------------------------------------
(* For the deploys: fail_fast, and their dependencies pass the task filter *)
(* (monad deploy filters for "build", on which every deploy of the         *)
(* integrations depends).                                                  *)
DeploysAreWhole ==
  \A o \in Options, t \in Shippers :
    /\ o.fail_fast
    /\ o.kind = Kind[t] => o.task_filter = {} \/ Deps[t] \subseteq o.task_filter

(* What a record says was shipped is what the platform serves. *)
RecordIsServed ==
  \A t \in Shippers : record[t] # None =>
    /\ DOMAIN record[t] = Deps[t]
    /\ \/ live[t] = Partial
       \/ /\ live[t] = [d \in Deps[t] |-> live[t][d]]
          /\ \A d \in Deps[t] : MadeFrom(d, live[t][d], record[t][d])

(* The key of the deploy in hand is made of the keys of all it ships. *)
ShipKeyIsWhole ==
  pc = "run" /\ Task \in Shippers =>
    /\ Deps[Task] \subseteq DOMAIN keys
    /\ keys[Task] = [d \in Deps[Task] |-> keys[d]]
    /\ \A d \in Deps[Task] : MadeFrom(d, out[d], keys[d])

UnchangedIsWhole ==
  \A n \in DOMAIN rows : rows[n].outcome = "unchanged" =>
    rows[n].task \in Shippers /\ Deps[rows[n].task] \subseteq DOMAIN keys

ServedInv == RecordIsServed /\ ShipKeyIsWhole /\ UnchangedIsWhole /\ UnchangedIsServed
-----------------------------------------------------------------------------
LEMMA TasksFacts ==
  /\ Len(Tasks) \in Nat /\ DOMAIN Tasks = 1..Len(Tasks)
  /\ \A j \in 1..Len(Tasks) : Tasks[j] \in Names
  /\ \A j, k \in 1..Len(Tasks) : Tasks[j] = Tasks[k] => j = k
<1>1. Tasks \in Seq(Names) /\ IsInjective(Tasks)
  BY TasksAreNamed
<1>2. Len(Tasks) \in Nat /\ DOMAIN Tasks = 1..Len(Tasks)
  BY <1>1
<1>3. \A j \in 1..Len(Tasks) : Tasks[j] \in Names
  BY <1>2 DEF Names, ToSet
<1>4. \A j, k \in 1..Len(Tasks) : Tasks[j] = Tasks[k] => j = k
  BY <1>1, <1>2 DEF IsInjective
<1> QED
  BY <1>2, <1>3, <1>4

LEMMA KindsApart ==
  /\ Plain \cap Notifiers = {} /\ Plain \cap Shippers = {} /\ Shippers \cap Notifiers = {}
  /\ Plain \subseteq Names /\ Shippers \subseteq Names /\ Notifiers \subseteq Names
BY DEF Plain, Notifiers, Shippers

LEMMA NamesAreFinite == IsFiniteSet(Names)
<1>1. Tasks \in Surjection(1..Len(Tasks), Names)
  BY TasksFacts, TasksAreNamed DEF Surjection, Names, ToSet
<1>2. IsFiniteSet(1..Len(Tasks))
  BY TasksFacts, FS_Interval
<1> QED
  BY <1>1, <1>2, FS_Surjection

(* A row at the end: the rows before it stay. *)
LEMMA AppendRow ==
  ASSUME NEW s \in Seq(Rows), NEW r \in Rows
  PROVE  /\ Append(s, r) \in Seq(Rows)
         /\ DOMAIN Append(s, r) = DOMAIN s \cup {Len(s) + 1}
         /\ \A n \in DOMAIN s : Append(s, r)[n] = s[n]
         /\ Append(s, r)[Len(s) + 1] = r
<1>1. Len(s) \in Nat /\ DOMAIN s = 1..Len(s)
  OBVIOUS
<1>2. Append(s, r) \in Seq(Rows) /\ Len(Append(s, r)) = Len(s) + 1
  OBVIOUS
<1>3. DOMAIN Append(s, r) = 1..(Len(s) + 1)
  BY <1>2
<1> QED
  BY <1>1, <1>2, <1>3

LEMMA RowFacts ==
  ASSUME rows \in Seq(Rows), NEW n \in DOMAIN rows
  PROVE  rows[n] \in Rows /\ rows[n].task \in Names /\ rows[n].outcome \in Outcomes
<1>1. rows[n] \in Rows
  OBVIOUS
<1> QED
  BY <1>1 DEF Rows

(* What the tree and the keys of the tasks already passed keep. *)
OthersKept ==
  /\ \A t \in Plain \ {Task} : out'[t] = out[t]
  /\ \A t \in DOMAIN keys : t \in DOMAIN keys' /\ (t # Task => keys'[t] = keys[t])
  /\ raced \subseteq raced'

(* Of the platforms only the one of the task in hand may have changed, to  *)
(* what a failed deploy leaves.                                            *)
LiveKept == \A t \in Shippers : live'[t] = live[t] \/ (t = Task /\ live'[t] = Partial)

LEMMA WreckedKept ==
  ASSUME IInv, live' \in Wrecked
  PROVE  DOMAIN live' = Shippers /\ LiveKept
BY DEF IInv, TypeOK, Wrecked, LiveKept

LEMMA OldRows ==
  ASSUME TypeOK, RowsArePast, GoodRowGoodOutput, pc \in Working, i <= Len(Tasks), OthersKept
  PROVE  \A n \in DOMAIN rows :
           /\ rows[n].task # Task
           /\ rows[n].outcome = "failed" \/ rows[n].task \in Notifiers \cup DOMAIN keys'
           /\ rows[n].task \in Plain /\ rows[n].outcome \in {"hit", "built"} =>
                \/ out'[rows[n].task] = keys'[rows[n].task]
                \/ <<rows[n].task, keys'[rows[n].task]>> \in raced'
<1> TAKE n \in DOMAIN rows
<1>1. PICK j \in 1..(i - 1) : rows[n].task = Tasks[j]
  BY DEF RowsArePast
<1>2. rows[n].task # Task
  <2>1. i \in Nat /\ j \in 1..Len(Tasks) /\ i \in 1..Len(Tasks) /\ j # i
    BY <1>1, TasksFacts DEF TypeOK
  <2> QED
    BY <1>1, <2>1, TasksFacts DEF Task
<1>3. rows[n].outcome = "failed" \/ rows[n].task \in Notifiers \cup DOMAIN keys'
  BY DEF RowsArePast, OthersKept
<1>4. ASSUME rows[n].task \in Plain, rows[n].outcome \in {"hit", "built"}
      PROVE  \/ out'[rows[n].task] = keys'[rows[n].task]
             \/ <<rows[n].task, keys'[rows[n].task]>> \in raced'
  <2>1. out[rows[n].task] = keys[rows[n].task] \/ <<rows[n].task, keys[rows[n].task]>> \in raced
    BY <1>4 DEF GoodRowGoodOutput
  <2>2. rows[n].task \in DOMAIN keys
    BY <1>4, KindsApart DEF RowsArePast
  <2> QED
    BY <1>2, <1>4, <2>1, <2>2 DEF OthersKept
<1> QED
  BY <1>2, <1>3, <1>4

(* The invariant at rest: nothing of an invocation is left. *)
LEMMA InitHolds == Init => IInv
<1> SUFFICES ASSUME Init PROVE IInv
  OBVIOUS
<1>1. TypeOK
  <2>1. \A t \in Shippers : Nothing[t] = None
    BY DEF Nothing
  <2>2. rows \in Seq(Rows) /\ DOMAIN keys = {} /\ stats \in [Counters -> Nat]
    BY DEF Init, NoStats
  <2>3. i \in 1..(Len(Tasks) + 1)
    BY TasksFacts DEF Init
  <2> QED
    BY <2>1, <2>2, <2>3, MarkersAreDistinct
    DEF Init, TypeOK, Nothing, Outputs, Stored, Places
<1>2. DOMAIN rows = {} /\ pc = "off"
  BY DEF Init
<1>3. CacheIsFaithful
  BY DEF Init, CacheIsFaithful
<1> QED
  BY <1>1, <1>2, <1>3
  DEF IInv, Cursor, KeyInHand, RowsArePast, GoodRowGoodOutput, GoodSoFar,
      EachDeployAnnouncedOnce, Holding, Working

-----------------------------------------------------------------------------
(* A step that keeps the task in hand. *)
LEMMA HoldKeeps ==
  ASSUME IInv, TypeOK', pc \in Working, pc' \in Working, i <= Len(Tasks), OthersKept,
         UNCHANGED <<i, rows, opts>>, Cursor', KeyInHand', CacheIsFaithful'
  PROVE  IInv'
<1>1. RowsArePast' /\ GoodRowGoodOutput'
  BY OldRows DEF IInv, RowsArePast, GoodRowGoodOutput, Working
<1>2. GoodSoFar'
  BY DEF IInv, GoodSoFar, Allowed
<1>3. EachDeployAnnouncedOnce'
  BY DEF EachDeployAnnouncedOnce, Working, Holding
<1> QED
  BY <1>1, <1>2, <1>3 DEF IInv

(* A step that closes the row of the task in hand. *)
LEMMA CloseKeeps ==
  ASSUME IInv, pc \in Working, i <= Len(Tasks), Task \notin Notifiers, OthersKept,
         NEW outcome \in Outcomes, NEW attempts \in Nat, Close(outcome, attempts),
         UNCHANGED <<opts, src, sidecar, raced, attempt>>,
         out' \in [Plain -> Outputs], DOMAIN live' = Shippers,
         local' \in [Plain -> [Versions -> Stored]], remote' \in [Plain -> [Versions -> Stored]],
         DOMAIN keys' \subseteq Names, \A t \in Plain \cap DOMAIN keys' : keys'[t] \in Versions,
         CacheIsFaithful', outcome = "failed" \/ Task \in DOMAIN keys',
         Task \in Plain /\ outcome \in {"hit", "built"} =>
           out'[Task] = keys'[Task] \/ <<Task, keys'[Task]>> \in raced',
         Task \in Plain => outcome # "unchanged"
  PROVE  IInv'
<1> DEFINE new == [task |-> Task, outcome |-> outcome, attempts |-> attempts, trigger |-> None]
<1>1. TypeOK /\ i \in 1..Len(Tasks) /\ Task \in Names /\ Len(rows) \in Nat
      /\ DOMAIN rows = 1..Len(rows)
  BY TasksFacts DEF IInv, TypeOK, Task
<1>2. new \in Rows /\ rows \in Seq(Rows)
  BY <1>1 DEF Rows, TypeOK
<1>3. rows' = Append(rows, new)
  BY DEF Close
<1> HIDE DEF new
<1>4. /\ rows' \in Seq(Rows) /\ DOMAIN rows' = DOMAIN rows \cup {Len(rows) + 1}
      /\ \A n \in DOMAIN rows : rows'[n] = rows[n]
      /\ rows'[Len(rows) + 1] = new
  BY <1>2, <1>3, AppendRow
<1>5. new.task = Task /\ new.outcome = outcome
  BY DEF new
<1>6. pc' \in {"loop", "sidecars"} /\ i' \in 1..(Len(Tasks) + 1)
      /\ (pc' = "loop" => i' = i + 1 /\ ~ Stops(outcome))
  BY <1>1, TasksFacts DEF Close
<1>7. TypeOK'
  <2>1. stats' \in [Counters -> Nat]
    BY <1>1 DEF TypeOK, Close, Bump
  <2>2. DOMAIN record' = Shippers
    BY <1>1 DEF TypeOK, Close
  <2> QED
    BY <1>1, <1>4, <1>6, <2>1, <2>2 DEF TypeOK, Places
<1>8. Cursor' /\ KeyInHand'
  BY <1>6 DEF IInv, Cursor, KeyInHand, Holding, Working
<1>9. \A n \in DOMAIN rows :
        /\ rows[n].task # Task
        /\ rows[n].outcome = "failed" \/ rows[n].task \in Notifiers \cup DOMAIN keys'
        /\ rows[n].task \in Plain /\ rows[n].outcome \in {"hit", "built"} =>
             \/ out'[rows[n].task] = keys'[rows[n].task]
             \/ <<rows[n].task, keys'[rows[n].task]>> \in raced'
  BY OldRows DEF IInv
<1>10. RowsArePast'
  <2>1. pc' = "loop" => \A n \in DOMAIN rows' : \E j \in 1..(i' - 1) : rows'[n].task = Tasks[j]
    <3> SUFFICES ASSUME pc' = "loop", NEW n \in DOMAIN rows'
                 PROVE  \E j \in 1..(i' - 1) : rows'[n].task = Tasks[j]
      OBVIOUS
    <3>1. CASE n \in DOMAIN rows
      <4>1. PICK j \in 1..(i - 1) : rows[n].task = Tasks[j]
        BY <3>1 DEF IInv, RowsArePast
      <4>2. j \in 1..(i' - 1)
        BY <1>1, <1>6, <4>1
      <4> QED
        BY <1>4, <3>1, <4>1, <4>2
    <3>2. CASE n = Len(rows) + 1
      BY <1>1, <1>4, <1>5, <1>6, <3>2 DEF Task
    <3> QED
      BY <1>4, <3>1, <3>2
  <2>2. \A n \in DOMAIN rows' : rows'[n].task \notin Notifiers
    BY <1>4, <1>5 DEF IInv, RowsArePast
  <2>3. \A n \in DOMAIN rows' :
          rows'[n].outcome = "failed" \/ rows'[n].task \in Notifiers \cup DOMAIN keys'
    BY <1>4, <1>5, <1>9
  <2> QED
    BY <1>6, <2>1, <2>2, <2>3 DEF RowsArePast, Working, Holding
<1>11. GoodRowGoodOutput'
  BY <1>4, <1>5, <1>9 DEF GoodRowGoodOutput
<1>12. GoodSoFar'
  <2> SUFFICES ASSUME pc' = "loop", opts.fail_fast, NEW j \in 1..(i' - 1),
                      Tasks[j] \in Plain, Allowed(Tasks[j])
               PROVE  \E n \in DOMAIN rows' :
                        rows'[n].task = Tasks[j] /\ rows'[n].outcome \in {"hit", "built"}
    BY <1>6 DEF GoodSoFar, Allowed, Working, Holding
  <2>1. CASE j = i
    <3>1. outcome \in {"hit", "built"}
      BY <1>6, <2>1 DEF Stops, Outcomes, Task
    <3> QED
      BY <1>4, <1>5, <2>1, <3>1 DEF Task
  <2>2. CASE j # i
    <3>1. j \in 1..(i - 1)
      BY <1>1, <1>6, <2>2
    <3>2. PICK n \in DOMAIN rows : rows[n].task = Tasks[j] /\ rows[n].outcome \in {"hit", "built"}
      BY <3>1 DEF IInv, GoodSoFar
    <3> QED
      BY <1>4, <3>2
  <2> QED
    BY <2>1, <2>2
<1>13. EachDeployAnnouncedOnce'
  BY <1>6 DEF EachDeployAnnouncedOnce
<1> QED
  BY <1>7, <1>8, <1>10, <1>11, <1>12, <1>13 DEF IInv
-----------------------------------------------------------------------------
(* What holds of the task in hand, and of its bundles. *)
LEMMA InHand ==
  ASSUME IInv, pc \in Holding
  PROVE  /\ pc \in Working /\ i \in 1..Len(Tasks) /\ Task \in Names /\ Task \notin Notifiers
         /\ Task \in DOMAIN keys /\ DOMAIN keys \subseteq Names
         /\ Task \in Plain => keys[Task] \in Versions
         /\ pc # "run" => Task \in Plain
         /\ attempt \in Nat
<1>1. i \in 1..Len(Tasks)
  BY TasksFacts DEF IInv, TypeOK, Cursor
<1> QED
  BY <1>1, TasksFacts DEF IInv, TypeOK, Cursor, Task, Working, Holding

LEMMA Bundles ==
  ASSUME IInv, pc \in Holding \ {"run"}
  PROVE  /\ Bundle(local) \in Stored /\ Bundle(remote) \in Stored
         /\ \/ Bundle(local) \in {None, Broken, keys[Task]}
            \/ <<Task, keys[Task]>> \in raced
         /\ \/ Bundle(remote) \in {None, Broken, keys[Task]}
            \/ <<Task, keys[Task]>> \in raced
BY InHand DEF IInv, TypeOK, Bundle, CacheIsFaithful

(* A version of a cache with one bundle replaced. *)
LEMMA BundlePut ==
  ASSUME NEW cache \in [Plain -> [Versions -> Stored]], NEW t \in Plain, NEW v \in Versions,
         NEW b \in Stored
  PROVE  /\ [cache EXCEPT ![t][v] = b] \in [Plain -> [Versions -> Stored]]
         /\ \A u \in Plain, w \in Versions :
              [cache EXCEPT ![t][v] = b][u][w] = IF u = t /\ w = v THEN b ELSE cache[u][w]
OBVIOUS

LEMMA OutPut ==
  ASSUME TypeOK, NEW t \in Plain, NEW v \in Outputs, out' = [out EXCEPT ![t] = v]
  PROVE  /\ out' \in [Plain -> Outputs] /\ out'[t] = v
         /\ \A u \in Plain \ {t} : out'[u] = out[u]
BY DEF TypeOK

(* A bundle that has not failed to extract can be an output. *)
LEMMA WholeIsOutput == \A b \in Stored : b \notin {None, Broken} => b \in Outputs
BY DEF Stored

LEMMA SkipTaskKeeps == ASSUME IInv, SkipTask PROVE IInv'
<1>1. i \in 1..Len(Tasks) /\ Task \in Names /\ Len(Tasks) \in Nat
  BY TasksFacts DEF IInv, TypeOK, SkipTask, Task
<1>2. TypeOK'
  BY <1>1 DEF IInv, TypeOK, SkipTask, world, frame
<1>3. Cursor' /\ KeyInHand'
  BY DEF IInv, SkipTask, frame, Cursor, KeyInHand, Holding
<1>4. RowsArePast'
  <2>1. i' = i + 1 /\ UNCHANGED <<rows, keys, pc>> /\ pc = "loop"
    BY DEF SkipTask
  <2>2. \A n \in DOMAIN rows : \E j \in 1..(i' - 1) : rows[n].task = Tasks[j]
    <3> TAKE n \in DOMAIN rows
    <3>1. PICK j \in 1..(i - 1) : rows[n].task = Tasks[j]
      BY <2>1 DEF IInv, RowsArePast, Working
    <3> QED
      BY <1>1, <2>1, <3>1
  <2> QED
    BY <2>1, <2>2 DEF IInv, RowsArePast, Working
<1>5. CacheIsFaithful' /\ GoodRowGoodOutput'
  BY DEF IInv, SkipTask, world, frame, CacheIsFaithful, GoodRowGoodOutput
<1>6. GoodSoFar'
  <2> SUFFICES ASSUME opts.fail_fast, NEW j \in 1..(i' - 1), Tasks[j] \in Plain, Allowed(Tasks[j])
               PROVE  \E n \in DOMAIN rows :
                        rows[n].task = Tasks[j] /\ rows[n].outcome \in {"hit", "built"}
    BY DEF GoodSoFar, SkipTask, frame, Allowed
  <2>1. j # i /\ i' = i + 1 /\ pc = "loop"
    BY DEF SkipTask, Task
  <2>2. j \in 1..(i - 1)
    BY <1>1, <2>1
  <2> QED
    BY <2>1, <2>2 DEF IInv, GoodSoFar, Working
<1>7. EachDeployAnnouncedOnce'
  BY DEF SkipTask, EachDeployAnnouncedOnce
<1> QED
  BY <1>2, <1>3, <1>4, <1>5, <1>6, <1>7 DEF IInv

(* The loop is left, with all rows as they are. *)
LEMMA LeaveKeeps == ASSUME IInv, LoopEnds \/ KeyFails PROVE IInv'
<1>1. pc' \in {"sidecars", "errored"} /\ pc = "loop" /\ UNCHANGED <<i, keys, rows, opts, raced>>
      /\ UNCHANGED <<world, attempt, stats, frame>>
  BY DEF LoopEnds, KeyFails, frame
<1>2. TypeOK'
  BY <1>1 DEF IInv, TypeOK, world, frame, Places
<1>3. RowsArePast'
  BY <1>1 DEF IInv, RowsArePast, Working, Holding
<1>4. CacheIsFaithful' /\ GoodRowGoodOutput'
  BY <1>1 DEF IInv, world, CacheIsFaithful, GoodRowGoodOutput
<1> QED
  BY <1>1, <1>2, <1>3, <1>4
  DEF IInv, Cursor, KeyInHand, GoodSoFar, EachDeployAnnouncedOnce, Holding, Working

LEMMA AllowedTask ==
  ASSUME IInv, pc = "loop", i <= Len(Tasks), Allowed(Task)
  PROVE  pc \in Working /\ i \in 1..Len(Tasks) /\ Task \in Names /\ Task \notin Notifiers
BY TasksFacts DEF IInv, TypeOK, Allowed, Notifiers, Task, Working

LEMMA PreflightFailsKeeps == ASSUME IInv, PreflightFails PROVE IInv'
<1>1. pc \in Working /\ i <= Len(Tasks) /\ Task \notin Notifiers /\ Close("failed", 0)
  BY AllowedTask DEF PreflightFails
<1>2. UNCHANGED <<src, out, live, local, remote, sidecar, keys, attempt, opts, raced>>
  BY DEF PreflightFails, frame
<1>3. OthersKept /\ CacheIsFaithful'
  BY <1>2 DEF OthersKept, IInv, CacheIsFaithful
<1> QED
  BY <1>1, <1>2, <1>3, CloseKeeps DEF IInv, TypeOK, Outcomes

(* The key of the task is computed. *)
LEMMA KeyComputed ==
  ASSUME IInv, pc = "loop", i <= Len(Tasks), Allowed(Task), keys' = WithKey
  PROVE  /\ DOMAIN keys' = DOMAIN keys \cup {Task} /\ DOMAIN keys' \subseteq Names
         /\ \A t \in Plain \cap DOMAIN keys' : keys'[t] \in Versions
         /\ \A t \in DOMAIN keys : t # Task => keys'[t] = keys[t]
         /\ keys'[Task] = KeyOf(Task)
<1>1. DOMAIN keys' = DOMAIN keys \cup {Task}
  BY DEF WithKey
<1>2. \A t \in DOMAIN keys' : keys'[t] = IF t = Task THEN KeyOf(t) ELSE keys[t]
  BY DEF WithKey
<1>3. Task \in Plain => KeyOf(Task) \in Versions
  BY DEF KeyOf, IInv, TypeOK
<1> QED
  BY <1>1, <1>2, <1>3, AllowedTask DEF IInv, TypeOK

LEMMA DeployUnchangedKeeps == ASSUME IInv, DeployUnchanged PROVE IInv'
<1>1. /\ pc = "loop" /\ i <= Len(Tasks) /\ Allowed(Task) /\ Task \in Shippers
      /\ Close("unchanged", 0) /\ keys' = WithKey
  BY DEF DeployUnchanged, Unchanged
<1>2. UNCHANGED <<src, out, live, local, remote, sidecar, attempt, opts, raced>>
  BY DEF DeployUnchanged, frame
<1>3. pc \in Working /\ Task \notin Notifiers /\ Task \notin Plain
  BY <1>1, AllowedTask, KindsApart
<1>4. OthersKept /\ CacheIsFaithful' /\ Task \in DOMAIN keys'
  BY <1>1, <1>2, KeyComputed DEF OthersKept, IInv, CacheIsFaithful
<1> QED
  BY <1>1, <1>2, <1>3, <1>4, KeyComputed, CloseKeeps DEF IInv, TypeOK, Outcomes

LEMMA ComputeKeyKeeps == ASSUME IInv, ComputeKey PROVE IInv'
<1>1. /\ pc = "loop" /\ i <= Len(Tasks) /\ Allowed(Task) /\ keys' = WithKey /\ attempt' = 1
      /\ pc' \in {"local", "run"} /\ (pc' = "local" => Task \in Plain)
      /\ UNCHANGED <<src, out, live, local, remote, record, sidecar, i, rows, stats, opts, raced>>
  BY DEF ComputeKey, world, frame
<1>2. pc \in Working /\ pc' \in Working /\ Task \notin Notifiers
  BY <1>1, AllowedTask DEF Working, Holding
<1>3. /\ DOMAIN keys' = DOMAIN keys \cup {Task} /\ DOMAIN keys' \subseteq Names
      /\ \A t \in Plain \cap DOMAIN keys' : keys'[t] \in Versions
      /\ \A t \in DOMAIN keys : t # Task => keys'[t] = keys[t]
      /\ keys'[Task] = KeyOf(Task)
  BY <1>1, KeyComputed
<1>4. TypeOK'
  BY <1>1, <1>3 DEF IInv, TypeOK, Places
<1>5. OthersKept /\ CacheIsFaithful'
  BY <1>1, <1>3 DEF OthersKept, IInv, CacheIsFaithful
<1>6. Cursor' /\ KeyInHand'
  BY <1>1, <1>2, <1>3 DEF IInv, Cursor, KeyInHand, MadeFrom, KeyOf, Holding, Task
<1> QED
  BY <1>1, <1>2, <1>4, <1>5, <1>6, HoldKeeps

LEMMA LocalHitKeeps == ASSUME IInv, LocalHit PROVE IInv'
<1> DEFINE b == Bundle(local)
<1>1. /\ pc = "local" /\ b \notin {None, Broken} /\ out' = [out EXCEPT ![Task] = b]
      /\ Close("hit", 0)
      /\ UNCHANGED <<src, live, local, sidecar, keys, attempt, opts, raced>>
  BY DEF LocalHit, frame
<1>2. /\ pc \in Working /\ i <= Len(Tasks) /\ Task \in Plain /\ Task \notin Notifiers
      /\ Task \in DOMAIN keys /\ keys[Task] \in Versions
  BY <1>1, InHand DEF Holding
<1>3. b \in Stored /\ b \in Outputs /\ (b = keys[Task] \/ <<Task, keys[Task]>> \in raced)
  BY <1>1, Bundles, WholeIsOutput DEF Holding
<1>4. \/ remote' = remote
      \/ remote' = [remote EXCEPT ![Task][keys[Task]] = b]
  BY DEF LocalHit
<1> HIDE DEF b
<1>5. remote' \in [Plain -> [Versions -> Stored]] /\ CacheIsFaithful'
  <2>1. CASE remote' = remote
    BY <1>1, <2>1 DEF IInv, TypeOK, CacheIsFaithful
  <2>2. CASE remote' = [remote EXCEPT ![Task][keys[Task]] = b]
    <3>1. /\ remote' \in [Plain -> [Versions -> Stored]]
          /\ \A u \in Plain, w \in Versions :
               remote'[u][w] = IF u = Task /\ w = keys[Task] THEN b ELSE remote[u][w]
      BY <1>2, <1>3, <2>2, BundlePut DEF IInv, TypeOK
    <3> QED
      BY <1>1, <1>3, <3>1 DEF IInv, CacheIsFaithful
  <2> QED
    BY <1>4, <2>1, <2>2
<1>6. out' \in [Plain -> Outputs] /\ out'[Task] = b /\ OthersKept
  BY <1>1, <1>2, <1>3, OutPut DEF IInv, OthersKept
<1> QED
  BY <1>1, <1>2, <1>3, <1>5, <1>6, CloseKeeps DEF IInv, TypeOK, Outcomes

(* The output of the task in hand is kept, or spoilt. *)
LEMMA SpoiltOut ==
  ASSUME IInv, UNCHANGED <<keys, raced>>,
         out' = out \/ (Task \in Plain /\ out' = [out EXCEPT ![Task] = Partial])
  PROVE  out' \in [Plain -> Outputs] /\ OthersKept
<1>1. Partial \in Outputs
  BY DEF Outputs
<1> QED
  BY <1>1, OutPut DEF IInv, TypeOK, OthersKept

LEMMA LocalBrokenKeeps == ASSUME IInv, LocalBroken PROVE IInv'
<1>1. /\ pc = "local" /\ Close("failed", 1)
      /\ UNCHANGED <<src, live, local, remote, sidecar, keys, attempt, opts, raced>>
  BY DEF LocalBroken, frame
<1>2. pc \in Working /\ i <= Len(Tasks) /\ Task \in Plain /\ Task \notin Notifiers
  BY <1>1, InHand DEF Holding
<1>3. out' \in [Plain -> Outputs] /\ OthersKept
  BY <1>1, <1>2, SpoiltOut DEF LocalBroken
<1>4. CacheIsFaithful'
  BY <1>1 DEF IInv, CacheIsFaithful
<1> QED
  BY <1>1, <1>2, <1>3, <1>4, CloseKeeps DEF IInv, TypeOK, Outcomes

LEMMA LocalMissKeeps == ASSUME IInv, LocalMiss PROVE IInv'
<1>1. /\ pc = "local" /\ pc' \in {"remote", "run"}
      /\ UNCHANGED <<world, i, keys, attempt, rows, stats, frame>>
  BY DEF LocalMiss
<1>2. pc \in Working /\ i <= Len(Tasks) /\ pc' \in Working /\ Task \in Plain
  BY <1>1, InHand DEF Working, Holding
<1>3. TypeOK' /\ OthersKept /\ CacheIsFaithful'
  BY <1>1 DEF IInv, TypeOK, world, frame, Places, OthersKept, CacheIsFaithful
<1>4. Cursor' /\ KeyInHand'
  BY <1>1, <1>2 DEF IInv, Cursor, KeyInHand, MadeFrom, Holding, Task, world, frame
<1> QED
  BY <1>1, <1>2, <1>3, <1>4, HoldKeeps DEF frame

LEMMA RemoteHitKeeps == ASSUME IInv, RemoteHit PROVE IInv'
<1> DEFINE b == Bundle(remote)
<1>1. /\ pc = "remote" /\ b \notin {None, Broken} /\ out' = [out EXCEPT ![Task] = b]
      /\ local' = [local EXCEPT ![Task][keys[Task]] = b] /\ Close("hit", 0)
      /\ UNCHANGED <<src, live, remote, sidecar, keys, attempt, opts, raced>>
  BY DEF RemoteHit, frame
<1>2. /\ pc \in Working /\ i <= Len(Tasks) /\ Task \in Plain /\ Task \notin Notifiers
      /\ Task \in DOMAIN keys /\ keys[Task] \in Versions
  BY <1>1, InHand DEF Holding
<1>3. b \in Stored /\ b \in Outputs /\ (b = keys[Task] \/ <<Task, keys[Task]>> \in raced)
  BY <1>1, Bundles, WholeIsOutput DEF Holding
<1> HIDE DEF b
<1>4. /\ local' \in [Plain -> [Versions -> Stored]]
      /\ \A u \in Plain, w \in Versions :
           local'[u][w] = IF u = Task /\ w = keys[Task] THEN b ELSE local[u][w]
  BY <1>1, <1>2, <1>3, BundlePut DEF IInv, TypeOK
<1>5. CacheIsFaithful'
  BY <1>1, <1>3, <1>4 DEF IInv, CacheIsFaithful
<1>6. out' \in [Plain -> Outputs] /\ out'[Task] = b /\ OthersKept
  BY <1>1, <1>2, <1>3, OutPut DEF IInv, OthersKept
<1> QED
  BY <1>1, <1>2, <1>3, <1>4, <1>5, <1>6, CloseKeeps DEF IInv, TypeOK, Outcomes

LEMMA RemoteMissKeeps == ASSUME IInv, RemoteMiss PROVE IInv'
<1>1. /\ pc = "remote" /\ pc' = "run"
      /\ UNCHANGED <<src, live, remote, record, sidecar, i, keys, attempt, rows, stats, frame>>
  BY DEF RemoteMiss
<1>2. /\ pc \in Working /\ i <= Len(Tasks) /\ Task \in Plain /\ Task \notin Notifiers
      /\ Task \in DOMAIN keys /\ keys[Task] \in Versions
  BY <1>1, InHand DEF Holding
<1>3. \/ UNCHANGED <<local, out>>
      \/ /\ local' = [local EXCEPT ![Task][keys[Task]] = Broken]
         /\ out' = out \/ out' = [out EXCEPT ![Task] = Partial]
  BY DEF RemoteMiss
<1>4. out' \in [Plain -> Outputs] /\ OthersKept
  BY <1>1, <1>2, <1>3, SpoiltOut DEF frame
<1>5. local' \in [Plain -> [Versions -> Stored]] /\ CacheIsFaithful'
  <2>1. CASE local' = local
    BY <1>1, <2>1 DEF IInv, TypeOK, CacheIsFaithful, frame
  <2>2. CASE local' = [local EXCEPT ![Task][keys[Task]] = Broken]
    <3>1. /\ local' \in [Plain -> [Versions -> Stored]]
          /\ \A u \in Plain, w \in Versions :
               local'[u][w] = IF u = Task /\ w = keys[Task] THEN Broken ELSE local[u][w]
      BY <1>2, <2>2, BundlePut DEF IInv, TypeOK, Stored
    <3> QED
      BY <1>1, <3>1 DEF IInv, CacheIsFaithful, frame
  <2> QED
    BY <1>3, <2>1, <2>2
<1>6. TypeOK'
  BY <1>1, <1>4, <1>5 DEF IInv, TypeOK, frame, Places
<1>7. Cursor' /\ KeyInHand'
  BY <1>1, <1>2 DEF IInv, Cursor, KeyInHand, MadeFrom, Holding, Task, frame
<1> QED
  BY <1>1, <1>2, <1>4, <1>5, <1>6, <1>7, HoldKeeps DEF frame, Working, Holding

LEMMA BuildExitsZeroKeeps == ASSUME IInv, BuildExitsZero PROVE IInv'
<1>1. /\ pc = "run" /\ Task \in Plain /\ out' = [out EXCEPT ![Task] = src] /\ pc' = "store"
      /\ UNCHANGED <<src, live, local, remote, record, sidecar, i, keys, attempt, rows, stats, frame>>
  BY DEF BuildExitsZero
<1>2. pc \in Working /\ pc' \in Working /\ i <= Len(Tasks) /\ Task \notin Notifiers
      /\ Task \in DOMAIN keys
  BY <1>1, InHand DEF Holding, Working
<1>3. src \in Outputs
  BY DEF IInv, TypeOK, Outputs
<1>4. out' \in [Plain -> Outputs] /\ out'[Task] = src /\ OthersKept
  BY <1>1, <1>3, OutPut DEF IInv, OthersKept, frame
<1>5. TypeOK' /\ CacheIsFaithful'
  BY <1>1, <1>4 DEF IInv, TypeOK, CacheIsFaithful, frame, Places
<1>6. Cursor' /\ KeyInHand'
  BY <1>1, <1>2, <1>4 DEF IInv, Cursor, KeyInHand, MadeFrom, Holding, Task, frame
<1> QED
  BY <1>1, <1>2, <1>4, <1>5, <1>6, HoldKeeps DEF frame

LEMMA ShipExitsZeroKeeps == ASSUME IInv, ShipExitsZero PROVE IInv'
<1>1. /\ pc = "run" /\ Task \notin Plain /\ Close("built", attempt)
      /\ UNCHANGED <<src, out, local, remote, sidecar, keys, attempt, opts, raced>>
  BY DEF ShipExitsZero, frame
<1>2. pc \in Working /\ i <= Len(Tasks) /\ Task \notin Notifiers /\ Task \in DOMAIN keys
      /\ attempt \in Nat
  BY <1>1, InHand DEF Holding
<1>3. DOMAIN live' = Shippers
  BY DEF ShipExitsZero, IInv, TypeOK
<1>4. OthersKept /\ CacheIsFaithful'
  BY <1>1 DEF OthersKept, IInv, CacheIsFaithful
<1> QED
  BY <1>1, <1>2, <1>3, <1>4, CloseKeeps DEF IInv, TypeOK, Outcomes

LEMMA CommandRetriedKeeps == ASSUME IInv, CommandRetried PROVE IInv'
<1>1. /\ pc = "run" /\ attempt' = attempt + 1 /\ live' \in Wrecked
      /\ UNCHANGED <<src, local, remote, record, sidecar, pc, i, keys, rows, stats, frame>>
  BY DEF CommandRetried
<1>2. pc \in Working /\ i <= Len(Tasks) /\ attempt \in Nat
  BY <1>1, InHand DEF Holding
<1>3. out' = out \/ (Task \in Plain /\ out' = [out EXCEPT ![Task] = Partial])
  BY DEF CommandRetried, Spoilt
<1>4. out' \in [Plain -> Outputs] /\ OthersKept
  BY <1>1, <1>3, SpoiltOut DEF frame
<1>5. TypeOK' /\ CacheIsFaithful'
  BY <1>1, <1>2, <1>4, WreckedKept DEF IInv, TypeOK, CacheIsFaithful, frame
<1>6. Cursor' /\ KeyInHand'
  BY <1>1 DEF IInv, Cursor, KeyInHand, MadeFrom, Holding, Task, frame
<1> QED
  BY <1>1, <1>2, <1>4, <1>5, <1>6, HoldKeeps DEF frame

LEMMA CommandFailsKeeps == ASSUME IInv, CommandFails PROVE IInv'
<1>1. /\ pc = "run" /\ Close("failed", attempt) /\ live' \in Wrecked
      /\ UNCHANGED <<src, local, remote, sidecar, keys, attempt, opts, raced>>
  BY DEF CommandFails, frame
<1>2. pc \in Working /\ i <= Len(Tasks) /\ Task \notin Notifiers /\ attempt \in Nat
  BY <1>1, InHand DEF Holding
<1>3. out' = out \/ (Task \in Plain /\ out' = [out EXCEPT ![Task] = Partial])
  BY DEF CommandFails, Spoilt
<1>4. out' \in [Plain -> Outputs] /\ OthersKept
  BY <1>1, <1>3, SpoiltOut
<1>5. CacheIsFaithful' /\ DOMAIN live' = Shippers
  BY <1>1, WreckedKept DEF IInv, CacheIsFaithful
<1> QED
  BY <1>1, <1>2, <1>4, <1>5, CloseKeeps DEF IInv, TypeOK, Outcomes

(* What is stored and pushed was made from the sources of its key. *)
LEMMA StoreBundleKeeps == ASSUME IInv, StoreBundle PROVE IInv'
<1>1. /\ pc = "store" /\ pc' = "push" /\ local' = [local EXCEPT ![Task][keys[Task]] = out[Task]]
      /\ UNCHANGED <<src, out, live, remote, record, sidecar, i, keys, attempt, rows, stats, frame>>
  BY DEF StoreBundle
<1>2. /\ pc \in Working /\ pc' \in Working /\ i <= Len(Tasks) /\ Task \in Plain
      /\ Task \notin Notifiers /\ Task \in DOMAIN keys /\ keys[Task] \in Versions
  BY <1>1, InHand DEF Holding, Working
<1>3. out[Task] \in Stored /\ (out[Task] = keys[Task] \/ <<Task, keys[Task]>> \in raced)
  BY <1>1, <1>2 DEF IInv, TypeOK, Stored, KeyInHand, MadeFrom
<1>4. /\ local' \in [Plain -> [Versions -> Stored]]
      /\ \A u \in Plain, w \in Versions :
           local'[u][w] = IF u = Task /\ w = keys[Task] THEN out[Task] ELSE local[u][w]
  BY <1>1, <1>2, <1>3, BundlePut DEF IInv, TypeOK
<1>5. CacheIsFaithful'
  BY <1>1, <1>3, <1>4 DEF IInv, CacheIsFaithful, frame
<1>6. TypeOK' /\ OthersKept
  BY <1>1, <1>4 DEF IInv, TypeOK, frame, Places, OthersKept
<1>7. Cursor' /\ KeyInHand'
  BY <1>1, <1>2, <1>3 DEF IInv, Cursor, KeyInHand, MadeFrom, Holding, Task, frame
<1> QED
  BY <1>1, <1>2, <1>5, <1>6, <1>7, HoldKeeps DEF frame

LEMMA StoreFailsKeeps == ASSUME IInv, StoreFails PROVE IInv'
<1>1. /\ pc = "store" /\ Close("built", attempt)
      /\ UNCHANGED <<src, out, live, local, remote, sidecar, keys, attempt, opts, raced>>
  BY DEF StoreFails, frame
<1>2. /\ pc \in Working /\ i <= Len(Tasks) /\ Task \in Plain /\ Task \notin Notifiers
      /\ Task \in DOMAIN keys /\ attempt \in Nat
  BY <1>1, InHand DEF Holding
<1>3. OthersKept /\ CacheIsFaithful'
  BY <1>1 DEF OthersKept, IInv, CacheIsFaithful
<1>4. out[Task] = keys[Task] \/ <<Task, keys[Task]>> \in raced
  BY <1>1 DEF IInv, KeyInHand, MadeFrom
<1> QED
  BY <1>1, <1>2, <1>3, <1>4, CloseKeeps DEF IInv, TypeOK, Outcomes

LEMMA PushBundleKeeps == ASSUME IInv, PushBundle PROVE IInv'
<1> DEFINE b == Bundle(local)
<1>1. /\ pc = "push" /\ Close("built", attempt)
      /\ UNCHANGED <<src, out, live, local, sidecar, keys, attempt, opts, raced>>
  BY DEF PushBundle, frame
<1>2. /\ pc \in Working /\ i <= Len(Tasks) /\ Task \in Plain /\ Task \notin Notifiers
      /\ Task \in DOMAIN keys /\ keys[Task] \in Versions /\ attempt \in Nat
  BY <1>1, InHand DEF Holding
<1>3. b \in Stored /\ (b \in {None, Broken, keys[Task]} \/ <<Task, keys[Task]>> \in raced)
  BY <1>1, Bundles DEF Holding
<1>4. \/ remote' = remote
      \/ remote' = [remote EXCEPT ![Task][keys[Task]] = b]
  BY DEF PushBundle
<1> HIDE DEF b
<1>5. remote' \in [Plain -> [Versions -> Stored]] /\ CacheIsFaithful'
  <2>1. CASE remote' = remote
    BY <1>1, <2>1 DEF IInv, TypeOK, CacheIsFaithful
  <2>2. CASE remote' = [remote EXCEPT ![Task][keys[Task]] = b]
    <3>1. /\ remote' \in [Plain -> [Versions -> Stored]]
          /\ \A u \in Plain, w \in Versions :
               remote'[u][w] = IF u = Task /\ w = keys[Task] THEN b ELSE remote[u][w]
      BY <1>2, <1>3, <2>2, BundlePut DEF IInv, TypeOK
    <3> QED
      BY <1>1, <1>3, <3>1 DEF IInv, CacheIsFaithful
  <2> QED
    BY <1>4, <2>1, <2>2
<1>6. OthersKept
  BY <1>1 DEF OthersKept
<1>7. out[Task] = keys[Task] \/ <<Task, keys[Task]>> \in raced
  BY <1>1 DEF IInv, KeyInHand, MadeFrom
<1> QED
  BY <1>1, <1>2, <1>5, <1>6, <1>7, CloseKeeps DEF IInv, TypeOK, Outcomes
-----------------------------------------------------------------------------
(* Notifications: rows for every Notify task and trigger, in some order. *)
LEMMA ImageIsFinite ==
  ASSUME NEW S, IsFiniteSet(S), NEW f, DOMAIN f = S, f = [x \in S |-> f[x]]
  PROVE  IsFiniteSet({f[x] : x \in S})
<1>1. f \in Surjection(S, {f[x] : x \in S})
  BY DEF Surjection
<1> QED
  BY <1>1, FS_Surjection

LEMMA SetAsSeq ==
  ASSUME NEW S, IsFiniteSet(S)
  PROVE  /\ Cardinality(S) \in Nat
         /\ SetToSeq(S) \in [1..Cardinality(S) -> S]
         /\ \A m, n \in 1..Cardinality(S) : SetToSeq(S)[m] = SetToSeq(S)[n] => m = n
         /\ \A x \in S : \E n \in 1..Cardinality(S) : SetToSeq(S)[n] = x
<1> DEFINE c == Cardinality(S)
<1>1. c \in Nat /\ ExistsBijection(1..c, S)
  BY FS_CardinalityType
<1>2. \E f \in [1..c -> S] : IsInjective(f)
  BY <1>1 DEF ExistsBijection, Bijection, Injection
<1>3. SetToSeq(S) \in [1..c -> S] /\ IsInjective(SetToSeq(S))
  BY <1>2 DEF SetToSeq
<1>4. SetToSeq(S) \in Injection(1..c, S)
  BY <1>3 DEF Injection
<1>5. Cardinality(1..c) = c
  BY <1>1, FS_Interval
<1>6. SetToSeq(S) \in Surjection(1..c, S)
  BY <1>4, <1>5, FS_Injection
<1> QED
  BY <1>1, <1>3, <1>6 DEF IsInjective, Surjection

LEMMA Concat ==
  ASSUME NEW s \in Seq(Rows), NEW k \in Nat, NEW t \in [1..k -> Rows]
  PROVE  /\ s \o t \in Seq(Rows) /\ Len(s) \in Nat /\ DOMAIN s = 1..Len(s)
         /\ DOMAIN (s \o t) = 1..(Len(s) + k)
         /\ \A n \in DOMAIN s : (s \o t)[n] = s[n]
         /\ \A n \in 1..k : (s \o t)[Len(s) + n] = t[n]
<1>1. t \in Seq(Rows) /\ Len(t) = k
  OBVIOUS
<1>2. s \o t \in Seq(Rows) /\ Len(s \o t) = Len(s) + k
  BY <1>1
<1>3. DOMAIN (s \o t) = 1..(Len(s) + k) /\ Len(s) \in Nat /\ DOMAIN s = 1..Len(s)
  BY <1>2
<1>4. \A n \in 1..k : (s \o t)[Len(s) + n] = t[n]
  BY <1>1
<1>5. \A n \in DOMAIN s : (s \o t)[n] = s[n]
  BY <1>1
<1> QED
  BY <1>2, <1>3, <1>4, <1>5

Added == DOMAIN rows' \ DOMAIN rows

LEMMA AnnounceSends ==
  ASSUME TypeOK, NEW triggers \in SUBSET [task : Shippers, outcome : Outcomes],
         IsFiniteSet(triggers), Announce(triggers)
  PROVE  /\ rows' \in Seq(Rows) /\ stats' \in [Counters -> Nat]
         /\ DOMAIN rows \subseteq DOMAIN rows' /\ \A n \in DOMAIN rows : rows'[n] = rows[n]
         /\ \A n \in Added : rows'[n].task \in Notifiers /\ rows'[n].outcome \in {"built", "failed"}
         /\ \A t \in Notifiers, tr \in triggers : \E m \in Added :
              \A n \in Added : rows'[n].task = t /\ rows'[n].trigger = tr <=> n = m
<1> DEFINE sent == Notifiers \X triggers
           Row(x, result) ==
             [task |-> x[1], outcome |-> result[x], attempts |-> 1, trigger |-> x[2]]
<1>1. PICK result \in [sent -> {"built", "failed"}] :
        /\ rows' = rows \o SetToSeq({Row(x, result) : x \in sent})
        /\ stats' = [stats EXCEPT
             !["tasks"] = @ + Cardinality(sent),
             !["built"] = @ + Cardinality({x \in sent : result[x] = "built"}),
             !["notify_failures"] = @ + Cardinality({x \in sent : result[x] = "failed"})]
  BY DEF Announce
<1>2. IsFiniteSet(sent)
  <2>1. IsFiniteSet(Notifiers)
    BY NamesAreFinite, KindsApart, FS_Subset
  <2> QED
    BY <2>1, FS_Product
<1>3. stats' \in [Counters -> Nat]
  <2>1. Cardinality(sent) \in Nat
    BY <1>2, FS_CardinalityType
  <2>2. \A o \in {"built", "failed"} : Cardinality({x \in sent : result[x] = o}) \in Nat
    <3> TAKE o \in {"built", "failed"}
    <3>1. IsFiniteSet({x \in sent : result[x] = o})
      BY <1>2, FS_Subset
    <3> QED
      BY <3>1, FS_CardinalityType
  <2> DEFINE good == Cardinality({x \in sent : result[x] = "built"})
             bad  == Cardinality({x \in sent : result[x] = "failed"})
             all  == Cardinality(sent)
  <2>3. all \in Nat /\ good \in Nat /\ bad \in Nat
    BY <2>1, <2>2
  <2>4. stats' = [stats EXCEPT !["tasks"] = @ + all, !["built"] = @ + good,
                               !["notify_failures"] = @ + bad]
    BY <1>1
  <2> HIDE DEF all, good, bad
  <2>5. stats \in [Counters -> Nat] /\ {"tasks", "built", "notify_failures"} \subseteq Counters
    BY DEF TypeOK, Counters
  <2> QED
    BY <2>3, <2>4, <2>5
<1> DEFINE row == [x \in sent |-> Row(x, result)]
           new == {row[x] : x \in sent}
           k   == Cardinality(new)
           t   == SetToSeq(new)
<1>4. rows' = rows \o t
  <2>1. {Row(x, result) : x \in sent} = new
    OBVIOUS
  <2> QED
    BY <1>1, <2>1
<1>5. IsFiniteSet(new)
  <2>1. DOMAIN row = sent /\ row = [x \in sent |-> row[x]]
    OBVIOUS
  <2> HIDE DEF sent, row
  <2> QED
    BY <1>2, <2>1, ImageIsFinite
<1>6. \A x \in sent :
        /\ row[x] \in Rows /\ row[x].task = x[1] /\ row[x].trigger = x[2]
        /\ row[x].task \in Notifiers /\ row[x].outcome \in {"built", "failed"}
  BY KindsApart DEF Rows, Outcomes
<1>7. \A x \in sent : x = <<row[x].task, row[x].trigger>>
  BY <1>6
<1>8. \A tt \in Notifiers, tr \in triggers : <<tt, tr>> \in sent
  OBVIOUS
<1> HIDE DEF sent, row
<1>9. new \subseteq Rows
  BY <1>6
<1>10. \A r \in new : r.task \in Notifiers /\ r.outcome \in {"built", "failed"}
  BY <1>6
<1>11. \A tt \in Notifiers, tr \in triggers :
         \E r \in new : \A s \in new : s.task = tt /\ s.trigger = tr <=> s = r
  <2> TAKE tt \in Notifiers, tr \in triggers
  <2> DEFINE x0 == <<tt, tr>>
  <2>1. x0 \in sent /\ row[x0].task = tt /\ row[x0].trigger = tr
    BY <1>6, <1>8
  <2>2. \A s \in new : s.task = tt /\ s.trigger = tr => s = row[x0]
    BY <1>7
  <2> QED
    BY <2>1, <2>2
<1> HIDE DEF new
<1>12. /\ k \in Nat /\ t \in [1..k -> new]
       /\ \A m, n \in 1..k : t[m] = t[n] => m = n
       /\ \A r \in new : \E n \in 1..k : t[n] = r
  BY <1>5, SetAsSeq
<1> HIDE DEF k, t
<1>13. t \in [1..k -> Rows] /\ rows \in Seq(Rows)
  BY <1>9, <1>12 DEF TypeOK
<1>14. /\ rows' \in Seq(Rows) /\ Len(rows) \in Nat /\ DOMAIN rows = 1..Len(rows)
       /\ DOMAIN rows' = 1..(Len(rows) + k)
       /\ \A n \in DOMAIN rows : rows'[n] = rows[n]
       /\ \A n \in 1..k : rows'[Len(rows) + n] = t[n]
  <2>1. /\ rows \o t \in Seq(Rows) /\ Len(rows) \in Nat /\ DOMAIN rows = 1..Len(rows)
        /\ DOMAIN (rows \o t) = 1..(Len(rows) + k)
        /\ \A n \in DOMAIN rows : (rows \o t)[n] = rows[n]
        /\ \A n \in 1..k : (rows \o t)[Len(rows) + n] = t[n]
    <3>1. k \in Nat
      BY <1>12
    <3> QED
      BY ONLY <3>1, <1>13, Concat
  <2> QED
    BY <1>4, <2>1, Zenon
<1>15. Added = {Len(rows) + n : n \in 1..k}
  <2>1. Added = (Len(rows) + 1)..(Len(rows) + k)
    BY <1>12, <1>14 DEF Added
  <2>2. \A a \in (Len(rows) + 1)..(Len(rows) + k) :
          a - Len(rows) \in 1..k /\ a = Len(rows) + (a - Len(rows))
    BY <1>12, <1>14
  <2>3. \A n \in 1..k : Len(rows) + n \in (Len(rows) + 1)..(Len(rows) + k)
    BY <1>12, <1>14
  <2> QED
    BY <2>1, <2>2, <2>3, Zenon
<1>16. \A n \in Added : rows'[n].task \in Notifiers /\ rows'[n].outcome \in {"built", "failed"}
  <2> SUFFICES ASSUME NEW n \in 1..k
               PROVE  /\ rows'[Len(rows) + n].task \in Notifiers
                      /\ rows'[Len(rows) + n].outcome \in {"built", "failed"}
    BY <1>15
  <2>1. t[n] \in new /\ rows'[Len(rows) + n] = t[n]
    BY <1>12, <1>14
  <2> QED
    BY <1>10, <2>1
<1>17. \A tt \in Notifiers, tr \in triggers : \E m \in Added :
         \A n \in Added : rows'[n].task = tt /\ rows'[n].trigger = tr <=> n = m
  <2> TAKE tt \in Notifiers, tr \in triggers
  <2>1. PICK r \in new : \A s \in new : s.task = tt /\ s.trigger = tr <=> s = r
    BY <1>11
  <2>2. PICK m \in 1..k : t[m] = r
    BY <1>12
  <2>3. \A n \in 1..k : t[n].task = tt /\ t[n].trigger = tr <=> n = m
    BY <1>12, <2>1, <2>2
  <2>4. \A n \in 1..k : rows'[Len(rows) + n].task = tt /\ rows'[Len(rows) + n].trigger = tr
                          <=> Len(rows) + n = Len(rows) + m
    BY <1>14, <2>3
  <2>5. Len(rows) + m \in Added
    BY <1>15
  <2> QED
    BY <1>15, <2>4, <2>5
<1>18. DOMAIN rows \subseteq DOMAIN rows'
  BY <1>12, <1>14
<1> QED
  BY <1>3, <1>14, <1>16, <1>17, <1>18
-----------------------------------------------------------------------------
LEMMA WriteSidecarsKeeps == ASSUME IInv, WriteSidecars PROVE IInv'
<1>1. /\ pc = "sidecars" /\ pc' = IF opts.run_notify THEN "notify" ELSE "end"
      /\ UNCHANGED <<src, out, live, local, remote, record, i, keys, attempt, rows, stats, frame>>
  BY DEF WriteSidecars
<1>2. sidecar' \in [Shippers -> Outcomes \cup {None}]
  <2>1. \A n \in DOMAIN rows : rows[n].outcome \in Outcomes
    BY RowFacts DEF IInv, TypeOK
  <2>2. \A t \in Shippers : (\E n \in DeployRows : rows[n].task = t)
          => (CHOOSE n \in DeployRows : rows[n].task = t) \in DOMAIN rows
    BY DEF DeployRows
  <2>3. sidecar \in [Shippers -> Outcomes \cup {None}]
    BY DEF IInv, TypeOK
  <2> QED
    BY <2>1, <2>2, <2>3 DEF WriteSidecars
<1>3. TypeOK'
  BY <1>1, <1>2 DEF IInv, TypeOK, frame, Places
<1>4. RowsArePast'
  BY <1>1 DEF IInv, RowsArePast, Working, Holding
<1>5. CacheIsFaithful' /\ GoodRowGoodOutput'
  BY <1>1 DEF IInv, frame, CacheIsFaithful, GoodRowGoodOutput
<1>6. EachDeployAnnouncedOnce'
  BY <1>1 DEF EachDeployAnnouncedOnce, frame
<1> QED
  BY <1>1, <1>3, <1>4, <1>5, <1>6 DEF IInv, Cursor, KeyInHand, GoodSoFar, Holding, Working, frame

(* Both ways to announce leave the rows of the loop as they were. *)
LEMMA AnnounceKeeps ==
  ASSUME IInv, NEW triggers \in SUBSET [task : Shippers, outcome : Outcomes],
         IsFiniteSet(triggers), Announce(triggers),
         pc \in {"notify", "replay"}, pc' = "end",
         UNCHANGED <<world, i, keys, attempt, frame>>, EachDeployAnnouncedOnce'
  PROVE  IInv'
<1>1. /\ rows' \in Seq(Rows) /\ stats' \in [Counters -> Nat]
      /\ DOMAIN rows \subseteq DOMAIN rows' /\ \A n \in DOMAIN rows : rows'[n] = rows[n]
      /\ \A n \in Added : rows'[n].task \in Notifiers
  BY AnnounceSends DEF IInv
<1>2. TypeOK'
  BY <1>1 DEF IInv, TypeOK, world, frame, Places
<1>3. RowsArePast'
  <2>1. \A n \in DOMAIN rows' :
          rows'[n].outcome = "failed" \/ rows'[n].task \in Notifiers \cup DOMAIN keys'
    BY <1>1 DEF IInv, RowsArePast, Added
  <2> QED
    BY <2>1 DEF RowsArePast, Working, Holding
<1>4. GoodRowGoodOutput'
  BY <1>1, KindsApart DEF IInv, GoodRowGoodOutput, Added, world, frame
<1>5. CacheIsFaithful'
  BY DEF IInv, CacheIsFaithful, world, frame
<1> QED
  BY <1>2, <1>3, <1>4, <1>5 DEF IInv, Cursor, KeyInHand, GoodSoFar, Holding, Working, frame

(* One trigger per Deploy row, or per sidecar. *)
LEMMA FanOutSends ==
  ASSUME IInv, FanOut
  PROVE  \E triggers \in SUBSET [task : Shippers, outcome : Outcomes] :
           /\ IsFiniteSet(triggers) /\ Announce(triggers)
           /\ \A n \in DeployRows : Trigger(rows[n].task, rows[n].outcome) \in triggers
<1> DEFINE trigger == [n \in DeployRows |-> Trigger(rows[n].task, rows[n].outcome)]
           triggers == {trigger[n] : n \in DeployRows}
<1>1. Announce({Trigger(rows[n].task, rows[n].outcome) : n \in DeployRows})
  BY DEF FanOut
<1>2. Announce(triggers)
  <2>1. triggers = {Trigger(rows[n].task, rows[n].outcome) : n \in DeployRows}
    OBVIOUS
  <2> QED
    BY <1>1, <2>1
<1>3. \A n \in DOMAIN rows : rows[n].task \in Names /\ rows[n].outcome \in Outcomes
  BY RowFacts DEF IInv, TypeOK
<1>4. triggers \in SUBSET [task : Shippers, outcome : Outcomes]
  <2>1. \A n \in DeployRows : rows[n].task \in Shippers /\ rows[n].outcome \in Outcomes
    BY <1>3 DEF DeployRows, Shippers
  <2>2. \A n \in DeployRows : trigger[n] \in [task : Shippers, outcome : Outcomes]
    BY <2>1 DEF Trigger
  <2> HIDE DEF trigger
  <2> QED
    BY <2>2
<1>5. IsFiniteSet(triggers)
  <2>1. Len(rows) \in Nat /\ DOMAIN rows = 1..Len(rows)
    BY DEF IInv, TypeOK
  <2>2. IsFiniteSet(1..Len(rows)) /\ DeployRows \subseteq 1..Len(rows)
    BY <2>1, FS_Interval DEF DeployRows
  <2>3. IsFiniteSet(DeployRows)
    BY <2>2, FS_Subset
  <2>4. DOMAIN trigger = DeployRows /\ trigger = [n \in DeployRows |-> trigger[n]]
    OBVIOUS
  <2> HIDE DEF trigger
  <2> QED
    BY <2>3, <2>4, ImageIsFinite
<1>6. \A n \in DeployRows : Trigger(rows[n].task, rows[n].outcome) \in triggers
  OBVIOUS
<1> HIDE DEF triggers
<1> QED
  BY <1>2, <1>4, <1>5, <1>6

LEMMA FanOutKeeps == ASSUME IInv, FanOut PROVE IInv'
<1>1. pc = "notify" /\ pc' = "end" /\ UNCHANGED <<world, i, keys, attempt, frame>>
  BY DEF FanOut
<1>2. PICK triggers \in SUBSET [task : Shippers, outcome : Outcomes] :
        /\ IsFiniteSet(triggers) /\ Announce(triggers)
        /\ \A n \in DeployRows : Trigger(rows[n].task, rows[n].outcome) \in triggers
  BY FanOutSends
<1>3. /\ DOMAIN rows \subseteq DOMAIN rows' /\ \A n \in DOMAIN rows : rows'[n] = rows[n]
      /\ \A n \in Added : rows'[n].task \in Notifiers
      /\ \A t \in Notifiers, tr \in triggers : \E m \in Added :
           \A n \in Added : rows'[n].task = t /\ rows'[n].trigger = tr <=> n = m
  BY <1>2, AnnounceSends DEF IInv
<1>4. \A n \in DOMAIN rows : rows[n].task \notin Notifiers
  BY <1>1 DEF IInv, RowsArePast
<1>5. EachDeployAnnouncedOnce'
  <2> SUFFICES ASSUME NEW n \in DOMAIN rows', NEW t \in Notifiers, Kind[rows'[n].task] = "deploy"
               PROVE  Cardinality({m \in DOMAIN rows' : rows'[m].task = t
                        /\ rows'[m].trigger = Trigger(rows'[n].task, rows'[n].outcome)}) = 1
    BY DEF EachDeployAnnouncedOnce, Told, RowsWith
  <2> DEFINE tr == Trigger(rows'[n].task, rows'[n].outcome)
  <2>1. n \in DeployRows /\ rows'[n] = rows[n]
    BY <1>3 DEF DeployRows, Added, Notifiers
  <2>2. tr \in triggers
    BY <1>2, <2>1
  <2> HIDE DEF tr
  <2>3. PICK m \in Added : \A k \in Added : rows'[k].task = t /\ rows'[k].trigger = tr <=> k = m
    BY <1>3, <2>2
  <2>4. {k \in DOMAIN rows' : rows'[k].task = t /\ rows'[k].trigger = tr} = {m}
    BY <1>3, <1>4, <2>3 DEF Added
  <2>5. Cardinality({k \in DOMAIN rows' : rows'[k].task = t /\ rows'[k].trigger = tr}) = 1
    BY <2>4, FS_Singleton
  <2> QED
    BY <2>5 DEF tr
<1> QED
  BY <1>1, <1>2, <1>5, AnnounceKeeps

LEMMA ReplaySends ==
  ASSUME IInv, Replay
  PROVE  \E triggers \in SUBSET [task : Shippers, outcome : Outcomes] :
           IsFiniteSet(triggers) /\ Announce(triggers)
<1> DEFINE told == {s \in Shippers : sidecar[s] # None}
           trigger == [t \in told |-> Trigger(t, sidecar[t])]
           triggers == {trigger[t] : t \in told}
<1>1. Announce({Trigger(t, sidecar[t]) : t \in told})
  BY DEF Replay
<1>2. Announce(triggers)
  <2>1. triggers = {Trigger(t, sidecar[t]) : t \in told}
    OBVIOUS
  <2> QED
    BY <1>1, <2>1
<1>3. triggers \in SUBSET [task : Shippers, outcome : Outcomes]
  <2>1. \A t \in told : sidecar[t] \in Outcomes
    BY DEF IInv, TypeOK
  <2>2. \A t \in told : trigger[t] \in [task : Shippers, outcome : Outcomes]
    BY <2>1 DEF Trigger
  <2> HIDE DEF trigger
  <2> QED
    BY <2>2
<1>4. IsFiniteSet(triggers)
  <2>1. IsFiniteSet(told)
    BY NamesAreFinite, KindsApart, FS_Subset
  <2>2. DOMAIN trigger = told /\ trigger = [t \in told |-> trigger[t]]
    OBVIOUS
  <2> HIDE DEF trigger, told
  <2> QED
    BY <2>1, <2>2, ImageIsFinite
<1> HIDE DEF triggers
<1> QED
  BY <1>2, <1>3, <1>4

LEMMA ReplayKeeps == ASSUME IInv, Replay PROVE IInv'
<1>1. pc = "replay" /\ pc' = "end" /\ UNCHANGED <<world, i, keys, attempt, frame>>
  BY DEF Replay
<1>2. EachDeployAnnouncedOnce'
  BY <1>1 DEF IInv, Cursor, EachDeployAnnouncedOnce, frame
<1> QED
  BY <1>1, <1>2, ReplaySends, AnnounceKeeps

(* Nothing of an invocation is left, or nothing has begun. *)
LEMMA FreshKeeps ==
  ASSUME IInv, pc' \in {"off", "loop", "replay"}, i' = 1, keys' = <<>>, attempt' = 0,
         rows' = <<>>, stats' = NoStats, UNCHANGED <<world, raced>>,
         (pc' = "off" /\ opts' = None) \/ opts' \in Options,
         pc' = "replay" => opts'.notify_only
  PROVE  IInv'
<1>1. rows' \in Seq(Rows) /\ DOMAIN rows' = {} /\ DOMAIN keys' = {} /\ stats' \in [Counters -> Nat]
  BY DEF NoStats
<1>2. i' \in 1..(Len(Tasks) + 1)
  BY TasksFacts
<1>3. TypeOK'
  BY <1>1, <1>2 DEF IInv, TypeOK, world, Places
<1>4. CacheIsFaithful'
  BY DEF IInv, CacheIsFaithful, world
<1>5. RowsArePast' /\ GoodRowGoodOutput' /\ GoodSoFar' /\ EachDeployAnnouncedOnce'
  BY <1>1 DEF RowsArePast, GoodRowGoodOutput, GoodSoFar, EachDeployAnnouncedOnce
<1> QED
  BY <1>3, <1>4, <1>5 DEF IInv, Cursor, KeyInHand, Holding

LEMMA StartKeeps == ASSUME IInv, NEW o \in Options, Start(o) PROVE IInv'
<1>1. /\ pc' \in {"off", "loop", "replay"} /\ i' = 1 /\ keys' = <<>> /\ attempt' = 0
      /\ rows' = <<>> /\ stats' = NoStats /\ UNCHANGED <<world, raced>>
      /\ opts' = o /\ (pc' = "replay" => o.notify_only)
  BY DEF Start
<1> QED
  BY <1>1, FreshKeeps

LEMMA ExitKeeps == ASSUME IInv, Exit PROVE IInv'
BY FreshKeeps DEF Exit

LEMMA EditKeeps == ASSUME IInv, NEW v \in Versions, Edit(v) PROVE IInv'
<1>1. /\ UNCHANGED <<out, live, local, remote, record, sidecar, pc, i, keys, attempt, rows, stats,
                     opts>>
      /\ src' \in Versions /\ raced \subseteq raced'
      /\ pc \in {"off", "loop", "local", "remote", "run"}
  BY DEF Edit
<1>2. \/ raced' = raced
      \/ /\ pc \in {"local", "remote", "run"} /\ Task \in Plain
         /\ raced' = raced \cup {<<Task, keys[Task]>>}
  BY DEF Edit
<1>3. TypeOK'
  <2>1. raced' \subseteq Plain \X Versions
    BY <1>2, InHand DEF IInv, TypeOK, Holding
  <2> QED
    BY <1>1, <2>1 DEF IInv, TypeOK
<1>4. Cursor' /\ RowsArePast' /\ GoodSoFar' /\ EachDeployAnnouncedOnce'
  BY <1>1
  DEF IInv, Cursor, RowsArePast, GoodSoFar, EachDeployAnnouncedOnce, Told, RowsWith, Task, Allowed
<1>5. KeyInHand'
  BY <1>1 DEF Edit, KeyInHand, MadeFrom, Task
<1>6. CacheIsFaithful' /\ GoodRowGoodOutput'
  BY <1>1 DEF IInv, CacheIsFaithful, GoodRowGoodOutput
<1> QED
  BY <1>3, <1>4, <1>5, <1>6 DEF IInv

LEMMA OutsideKeeps == ASSUME IInv, NEW t \in Plain, NEW v \in Versions, Outside(t, v) PROVE IInv'
<1>1. /\ pc = "off"
      /\ UNCHANGED <<src, out, live, record, sidecar, pc, i, keys, attempt, rows, stats, opts, raced>>
  BY DEF Outside
<1>2. \/ UNCHANGED remote /\ local' = [local EXCEPT ![t][v] = Broken]
      \/ UNCHANGED local /\ \E b \in {v, Broken} : remote' = [remote EXCEPT ![t][v] = b]
  BY DEF Outside, BundleBreaks, OtherPushes
<1>3. /\ local' \in [Plain -> [Versions -> Stored]] /\ remote' \in [Plain -> [Versions -> Stored]]
      /\ CacheIsFaithful'
  <2>1. CASE UNCHANGED remote /\ local' = [local EXCEPT ![t][v] = Broken]
    <3>1. /\ local' \in [Plain -> [Versions -> Stored]]
          /\ \A u \in Plain, w \in Versions :
               local'[u][w] = IF u = t /\ w = v THEN Broken ELSE local[u][w]
      BY <2>1, BundlePut DEF IInv, TypeOK, Stored
    <3> QED
      BY <1>1, <2>1, <3>1 DEF IInv, TypeOK, CacheIsFaithful
  <2>2. CASE UNCHANGED local /\ \E b \in {v, Broken} : remote' = [remote EXCEPT ![t][v] = b]
    <3>1. PICK b \in {v, Broken} : remote' = [remote EXCEPT ![t][v] = b]
      BY <2>2
    <3>2. /\ remote' \in [Plain -> [Versions -> Stored]]
          /\ \A u \in Plain, w \in Versions :
               remote'[u][w] = IF u = t /\ w = v THEN b ELSE remote[u][w]
      BY <3>1, BundlePut DEF IInv, TypeOK, Stored, Outputs
    <3> QED
      BY <1>1, <2>2, <3>2 DEF IInv, TypeOK, CacheIsFaithful
  <2> QED
    BY <1>2, <2>1, <2>2
<1>4. TypeOK'
  BY <1>1, <1>3 DEF IInv, TypeOK
<1>5. RowsArePast' /\ GoodRowGoodOutput'
  BY <1>1 DEF IInv, RowsArePast, GoodRowGoodOutput
<1> QED
  BY <1>1, <1>3, <1>4, <1>5
  DEF IInv, Cursor, KeyInHand, GoodSoFar, EachDeployAnnouncedOnce, Holding, Working

LEMMA StutterKeeps == ASSUME IInv, UNCHANGED vars PROVE IInv'
<1> USE DEF vars, world, frame
<1>1. TypeOK' /\ Cursor' /\ KeyInHand' /\ RowsArePast' /\ CacheIsFaithful' /\ GoodRowGoodOutput'
  BY DEF IInv, TypeOK, Cursor, KeyInHand, RowsArePast, CacheIsFaithful, GoodRowGoodOutput,
         MadeFrom, Task
<1>2. GoodSoFar' /\ EachDeployAnnouncedOnce'
  BY DEF IInv, GoodSoFar, EachDeployAnnouncedOnce, Told, RowsWith, Allowed
<1> QED
  BY <1>1, <1>2 DEF IInv

LEMMA StepKeeps == ASSUME IInv, [Next]_vars PROVE IInv'
<1>1. ASSUME NEW o \in Options, Start(o) PROVE IInv'
  BY <1>1, StartKeeps
<1>2. CASE Step
  BY <1>2, SkipTaskKeeps, LeaveKeeps, PreflightFailsKeeps, DeployUnchangedKeeps, ComputeKeyKeeps,
     LocalHitKeeps, LocalBrokenKeeps, LocalMissKeeps, RemoteHitKeeps, RemoteMissKeeps,
     BuildExitsZeroKeeps, ShipExitsZeroKeeps, CommandRetriedKeeps, CommandFailsKeeps,
     StoreBundleKeeps, StoreFailsKeeps, PushBundleKeeps,
     WriteSidecarsKeeps, FanOutKeeps, ReplayKeeps, ExitKeeps
  DEF Step
<1>3. ASSUME NEW v \in Versions, Edit(v) PROVE IInv'
  BY <1>3, EditKeeps
<1>4. ASSUME NEW v \in Versions, NEW t \in Plain, Outside(t, v) PROVE IInv'
  BY <1>4, OutsideKeeps
<1>5. CASE UNCHANGED vars
  BY <1>5, StutterKeeps
<1> QED
  BY <1>1, <1>2, <1>3, <1>4, <1>5 DEF Next

LEMMA IInvHolds == Spec => []IInv
BY InitHolds, StepKeeps, PTL DEF Spec

(* Every variable keeps its type. *)
THEOREM UnitRunTypeOK == Spec => []TypeOK
<1>1. IInv => TypeOK
  BY DEF IInv
<1> QED
  BY <1>1, IInvHolds, PTL

(* Neither cache ever holds, under a key, a bundle made from other sources *)
(* than the key names, except under a key computed before an edit.         *)
THEOREM CachesAreFaithful == Spec => []CacheIsFaithful
<1>1. IInv => CacheIsFaithful
  BY DEF IInv
<1> QED
  BY <1>1, IInvHolds, PTL

(* A hit or a build leaves in the tree the output of the key it reports. *)
THEOREM GoodRowsAreTrue == Spec => []GoodRowGoodOutput
<1>1. IInv => GoodRowGoodOutput
  BY DEF IInv
<1> QED
  BY <1>1, IInvHolds, PTL

(* Under fail_fast a deploy runs only over dependencies that this          *)
(* invocation restored or built.                                           *)
THEOREM ShipsGoodBuilds == Spec => []ShipsOnlyGoodBuilds
<1>1. ASSUME IInv PROVE ShipsOnlyGoodBuilds
  <2> SUFFICES ASSUME pc = "run", Task \in Shippers, opts.fail_fast, NEW d \in Deps[Task],
                      Allowed(d)
               PROVE  \E n \in DOMAIN rows :
                        rows[n].task = d /\ rows[n].outcome \in {"hit", "built"}
    BY DEF ShipsOnlyGoodBuilds
  <2>1. pc \in Working /\ i \in 1..Len(Tasks)
    BY <1>1, InHand DEF Holding
  <2>2. Deps[Tasks[i]] \subseteq Plain \cap {Tasks[j] : j \in 1..(i - 1)}
    BY <2>1, TasksFacts, TasksAreNamed
  <2>3. PICK j \in 1..(i - 1) : d = Tasks[j] /\ d \in Plain
    BY <2>2 DEF Task
  <2> QED
    BY <1>1, <2>1, <2>3 DEF IInv, GoodSoFar
<1> QED
  BY <1>1, IInvHolds, PTL

(* A deploy that ran or could not is announced to every Notify task        *)
(* exactly once, with the outcome it has, and no deploy more than once.    *)
THEOREM DeploysAreAnnounced == Spec => []EachDeployAnnouncedOnce
<1>1. IInv => EachDeployAnnouncedOnce
  BY DEF IInv
<1> QED
  BY <1>1, IInvHolds, PTL
-----------------------------------------------------------------------------
(* What a deploy depends on comes before it, and none of it is in hand.    *)
LEMMA DepsAreEarlier ==
  ASSUME NEW j \in 1..Len(Tasks), NEW d \in Deps[Tasks[j]]
  PROVE  d \in Plain /\ \E k \in 1..(j - 1) : d = Tasks[k]
<1>1. j \in DOMAIN Tasks
  BY TasksFacts
<1>2. Deps[Tasks[j]] \subseteq Plain \cap {Tasks[k] : k \in 1..(j - 1)}
  BY <1>1, TasksAreNamed, Zenon
<1> QED
  BY <1>2, Zenon

(* Under fail_fast, when the loop comes to a deploy, all it depends on has *)
(* its key and its output.                                                 *)
LEMMA DepsInPlace ==
  ASSUME IInv, DeploysAreWhole, pc = "loop", i <= Len(Tasks), Allowed(Task), Task \in Shippers
  PROVE  \A d \in Deps[Task] :
           d \in Plain /\ d # Task /\ d \in DOMAIN keys /\ MadeFrom(d, out[d], keys[d])
<1> TAKE d \in Deps[Task]
<1>1. i \in 1..Len(Tasks) /\ Task = Tasks[i]
  BY TasksFacts DEF IInv, TypeOK, Task
<1>2. PICK k \in 1..(i - 1) : d = Tasks[k]
  BY <1>1, DepsAreEarlier
<1>3. d \in Plain /\ d # Task
  BY <1>1, DepsAreEarlier, KindsApart
<1>4. opts \in Options
  BY DEF IInv, Cursor
<1>5. opts.kind = Kind[Task]
  BY DEF Allowed, Shippers
<1>6. opts.fail_fast /\ (opts.task_filter = {} \/ d \in opts.task_filter)
  BY <1>4, <1>5 DEF DeploysAreWhole
<1>7. Allowed(d)
  BY <1>3, <1>6 DEF Allowed, Plain
<1>8. PICK n \in DOMAIN rows : rows[n].task = d /\ rows[n].outcome \in {"hit", "built"}
  BY <1>2, <1>3, <1>6, <1>7 DEF IInv, GoodSoFar, Working
<1>9. d \in DOMAIN keys
  BY <1>3, <1>8, KindsApart DEF IInv, RowsArePast
<1>10. MadeFrom(d, out[d], keys[d])
  BY <1>3, <1>8 DEF IInv, GoodRowGoodOutput, MadeFrom
<1> QED
  BY <1>3, <1>9, <1>10

LEMMA WholeKey ==
  ASSUME IInv, DeploysAreWhole, pc = "loop", i <= Len(Tasks), Allowed(Task), Task \in Shippers
  PROVE  /\ KeyOf(Task) = [d \in Deps[Task] |-> keys[d]] /\ KeyOf(Task) # None
         /\ Deps[Task] \subseteq DOMAIN keys
<1>1. Deps[Task] \subseteq DOMAIN keys /\ Deps[Task] \subseteq Plain
  BY DepsInPlace
<1>2. KeyOf(Task) = [d \in Deps[Task] |-> keys[d]]
  BY <1>1, KindsApart DEF KeyOf
<1>3. \A d \in Deps[Task] : keys[d] \in Versions
  BY <1>1 DEF IInv, TypeOK
<1>4. KeyOf(Task) \in [Deps[Task] -> Versions] /\ Deps[Task] \in SUBSET Names
  BY <1>1, <1>2, <1>3, KindsApart
<1>5. KeyOf(Task) # None
  BY <1>4, NoneIsNoDeployKey
<1> QED
  BY <1>1, <1>2, <1>5

LEMMA RecordKept ==
  ASSUME RecordIsServed, record' = record, live' = live, raced \subseteq raced'
  PROVE  RecordIsServed'
BY DEF RecordIsServed, MadeFrom

LEMMA RecordWrecked ==
  ASSUME RecordIsServed, record' = record, LiveKept, raced \subseteq raced'
  PROVE  RecordIsServed'
BY DEF RecordIsServed, MadeFrom, LiveKept

(* The skipped deploys of the rows so far are still served. *)
LEMMA OldServed ==
  ASSUME IInv, ServedInv, pc \in Working, i <= Len(Tasks), OthersKept,
         \A t \in Shippers \ {Task} : live'[t] = live[t]
  PROVE  \A n \in DOMAIN rows : rows[n].outcome = "unchanged" =>
           /\ rows[n].task \in Shippers /\ Deps[rows[n].task] \subseteq DOMAIN keys'
           /\ \/ live'[rows[n].task] = [d \in Deps[rows[n].task] |-> out'[d]]
              \/ live'[rows[n].task] = Partial
              \/ \E d \in Deps[rows[n].task] : <<d, keys'[d]>> \in raced'
<1> SUFFICES ASSUME NEW n \in DOMAIN rows, rows[n].outcome = "unchanged"
             PROVE  /\ rows[n].task \in Shippers /\ Deps[rows[n].task] \subseteq DOMAIN keys'
                    /\ \/ live'[rows[n].task] = [d \in Deps[rows[n].task] |-> out'[d]]
                       \/ live'[rows[n].task] = Partial
                       \/ \E d \in Deps[rows[n].task] : <<d, keys'[d]>> \in raced'
  OBVIOUS
<1> DEFINE t == rows[n].task
<1>1. t \in Shippers /\ Deps[t] \subseteq DOMAIN keys
  BY DEF ServedInv, UnchangedIsWhole
<1>2. PICK j \in 1..(i - 1) : t = Tasks[j]
  BY DEF IInv, RowsArePast
<1>3. i \in 1..Len(Tasks) /\ j \in 1..Len(Tasks) /\ Task = Tasks[i] /\ Len(Tasks) \in Nat
  BY <1>2, TasksFacts DEF IInv, TypeOK, Task
<1>4. \A d \in Deps[t] : d \in Plain /\ d # Task
  <2> SUFFICES ASSUME NEW d \in Deps[Tasks[j]] PROVE d \in Plain /\ d # Task
    BY <1>2
  <2>1. d \in Plain /\ \E k \in 1..(j - 1) : d = Tasks[k]
    BY <1>3, DepsAreEarlier
  <2>2. PICK k \in 1..(j - 1) : d = Tasks[k]
    BY <2>1
  <2>3. k \in 1..Len(Tasks) /\ k # i
    BY <1>3
  <2> QED
    BY <1>3, <2>1, <2>2, <2>3, TasksFacts
<1>5. t # Task
  BY OldRows DEF IInv
<1>6. \A d \in Deps[t] : out'[d] = out[d] /\ keys'[d] = keys[d] /\ d \in DOMAIN keys'
  BY <1>1, <1>4 DEF OthersKept
<1>7. [d \in Deps[t] |-> out'[d]] = Artefact(t)
  BY <1>6 DEF Artefact
<1>8. live[t] = Artefact(t) \/ live[t] = Partial \/ \E d \in Deps[t] : <<d, keys[d]>> \in raced
  BY DEF ServedInv, UnchangedIsServed
<1>9. \/ live'[t] = [d \in Deps[t] |-> out'[d]] \/ live'[t] = Partial
      \/ \E d \in Deps[t] : <<d, keys'[d]>> \in raced'
  BY <1>1, <1>5, <1>6, <1>7, <1>8 DEF OthersKept
<1> QED
  BY <1>1, <1>6, <1>9

(* A step that keeps the task in hand. *)
LEMMA HoldServes ==
  ASSUME IInv, ServedInv, pc \in Working, i <= Len(Tasks), OthersKept, LiveKept,
         UNCHANGED <<rows, record>>, ShipKeyIsWhole'
  PROVE  ServedInv'
<1>1. UnchangedIsWhole' /\ UnchangedIsServed'
  BY OldServed DEF LiveKept, UnchangedIsWhole, UnchangedIsServed, Artefact
<1>2. RecordIsServed'
  BY RecordWrecked DEF ServedInv, OthersKept
<1> QED
  BY <1>1, <1>2 DEF ServedInv

(* A step that closes the row of the task in hand. *)
LEMMA CloseServes ==
  ASSUME IInv, ServedInv, pc \in Working, i <= Len(Tasks), OthersKept,
         \A t \in Shippers \ {Task} : live'[t] = live[t],
         NEW outcome \in Outcomes, NEW attempts \in Nat, Close(outcome, attempts),
         RecordIsServed',
         outcome = "unchanged" =>
           /\ Task \in Shippers /\ Deps[Task] \subseteq DOMAIN keys'
           /\ \/ live'[Task] = [d \in Deps[Task] |-> out'[d]]
              \/ live'[Task] = Partial
              \/ \E d \in Deps[Task] : <<d, keys'[d]>> \in raced'
  PROVE  ServedInv'
<1> DEFINE new == [task |-> Task, outcome |-> outcome, attempts |-> attempts, trigger |-> None]
<1>1. new \in Rows /\ rows \in Seq(Rows)
  <2>1. Task \in Names
    BY TasksFacts DEF IInv, TypeOK, Task
  <2> QED
    BY <2>1 DEF Rows, IInv, TypeOK
<1>2. rows' = Append(rows, new) /\ pc' # "run"
  BY DEF Close
<1>3. new.task = Task /\ new.outcome = outcome
  OBVIOUS
<1> HIDE DEF new
<1>4. /\ DOMAIN rows' = DOMAIN rows \cup {Len(rows) + 1}
      /\ \A n \in DOMAIN rows : rows'[n] = rows[n]
      /\ rows'[Len(rows) + 1] = new
  BY <1>1, <1>2, AppendRow
<1>5. \A n \in DOMAIN rows' : rows'[n].outcome = "unchanged" =>
        /\ rows'[n].task \in Shippers /\ Deps[rows'[n].task] \subseteq DOMAIN keys'
        /\ \/ live'[rows'[n].task] = [d \in Deps[rows'[n].task] |-> out'[d]]
           \/ live'[rows'[n].task] = Partial
           \/ \E d \in Deps[rows'[n].task] : <<d, keys'[d]>> \in raced'
  <2> SUFFICES ASSUME NEW n \in DOMAIN rows', rows'[n].outcome = "unchanged"
               PROVE  /\ rows'[n].task \in Shippers /\ Deps[rows'[n].task] \subseteq DOMAIN keys'
                      /\ \/ live'[rows'[n].task] = [d \in Deps[rows'[n].task] |-> out'[d]]
                         \/ live'[rows'[n].task] = Partial
                         \/ \E d \in Deps[rows'[n].task] : <<d, keys'[d]>> \in raced'
    OBVIOUS
  <2>1. CASE n \in DOMAIN rows
    BY <1>4, <2>1, OldServed
  <2>2. CASE n = Len(rows) + 1
    BY <1>3, <1>4, <2>2
  <2> QED
    BY <1>4, <2>1, <2>2
<1>6. UnchangedIsWhole' /\ UnchangedIsServed'
  BY <1>5 DEF UnchangedIsWhole, UnchangedIsServed, Artefact
<1> QED
  BY <1>2, <1>6 DEF ServedInv, ShipKeyIsWhole

LEMMA InitServes == Init => ServedInv
<1> SUFFICES ASSUME Init PROVE ServedInv
  OBVIOUS
<1>1. DOMAIN rows = {} /\ pc = "off" /\ \A t \in Shippers : record[t] = None
  BY DEF Init, Nothing
<1> QED
  BY <1>1 DEF ServedInv, RecordIsServed, ShipKeyIsWhole, UnchangedIsWhole, UnchangedIsServed

(* Neither the tree nor the platforms nor any row changes. *)
LEMMA QuietServes ==
  ASSUME ServedInv, UNCHANGED <<out, live, record, rows, keys, raced>>,
         pc' # "run" \/ UNCHANGED <<pc, i>>
  PROVE  ServedInv'
<1>1. RecordIsServed' /\ UnchangedIsWhole' /\ UnchangedIsServed'
  BY DEF ServedInv, RecordIsServed, UnchangedIsWhole, UnchangedIsServed, MadeFrom, Artefact
<1>2. ShipKeyIsWhole'
  BY DEF ServedInv, ShipKeyIsWhole, MadeFrom, Task
<1> QED
  BY <1>1, <1>2 DEF ServedInv

(* Rows of notifications are added, or all rows are dropped. *)
LEMMA RowsServe ==
  ASSUME ServedInv, UNCHANGED <<out, live, record, raced>>, pc' # "run",
         \A n \in DOMAIN rows' :
           \/ n \in DOMAIN rows /\ rows'[n] = rows[n] /\ UNCHANGED keys
           \/ rows'[n].outcome # "unchanged"
  PROVE  ServedInv'
<1>1. RecordIsServed'
  BY RecordKept DEF ServedInv
<1>2. \A n \in DOMAIN rows' : rows'[n].outcome = "unchanged" =>
        n \in DOMAIN rows /\ rows'[n] = rows[n] /\ UNCHANGED keys
  OBVIOUS
<1>3. UnchangedIsWhole'
  BY <1>2 DEF ServedInv, UnchangedIsWhole
<1>4. UnchangedIsServed'
  BY <1>2 DEF ServedInv, UnchangedIsServed, Artefact
<1> QED
  BY <1>1, <1>3, <1>4 DEF ServedInv, ShipKeyIsWhole

LEMMA NotificationsServe == ASSUME IInv, ServedInv, FanOut \/ Replay PROVE ServedInv'
<1>1. pc' = "end" /\ UNCHANGED <<out, live, record, raced, keys>>
  BY DEF FanOut, Replay, world, frame
<1>2. \E triggers \in SUBSET [task : Shippers, outcome : Outcomes] :
        IsFiniteSet(triggers) /\ Announce(triggers)
  BY FanOutSends, ReplaySends
<1>3. \A n \in DOMAIN rows' :
        \/ n \in DOMAIN rows /\ rows'[n] = rows[n] /\ UNCHANGED keys
        \/ rows'[n].outcome # "unchanged"
  BY <1>1, <1>2, AnnounceSends DEF IInv, Added
<1> QED
  BY <1>1, <1>3, RowsServe

LEMMA OutKept ==
  ASSUME IInv, UNCHANGED <<keys, raced>>,
         out' = out \/ (Task \in Plain /\ \E v : out' = [out EXCEPT ![Task] = v])
  PROVE  OthersKept
BY DEF IInv, TypeOK, OthersKept

(* A row that is neither a deploy nor a skip. *)
LEMMA PlainCloseServes ==
  ASSUME IInv, ServedInv, pc \in Working, i <= Len(Tasks), OthersKept, LiveKept,
         NEW outcome \in Outcomes \ {"unchanged"}, NEW attempts \in Nat, Close(outcome, attempts),
         outcome # "built" \/ Task \notin Shippers
  PROVE  ServedInv'
<1>1. record' = record
  BY DEF Close
<1>2. RecordIsServed'
  BY <1>1, RecordWrecked DEF ServedInv, OthersKept
<1> QED
  BY <1>2, CloseServes DEF LiveKept

LEMMA ClosesServe ==
  ASSUME IInv, ServedInv,
         \/ PreflightFails \/ LocalHit \/ LocalBroken \/ RemoteHit \/ CommandFails
         \/ StoreFails \/ PushBundle
  PROVE  ServedInv'
<1>1. CASE PreflightFails
  <2>1. /\ pc \in Working /\ i <= Len(Tasks) /\ live' = live /\ Close("failed", 0)
        /\ UNCHANGED <<keys, raced, out>>
    BY <1>1, AllowedTask DEF PreflightFails, frame
  <2> QED
    BY <2>1, OutKept, PlainCloseServes DEF Outcomes, LiveKept
<1>2. CASE LocalHit \/ RemoteHit
  <2>1. /\ pc \in {"local", "remote"} /\ live' = live /\ Close("hit", 0)
        /\ UNCHANGED <<keys, raced>> /\ \E v : out' = [out EXCEPT ![Task] = v]
    BY <1>2 DEF LocalHit, RemoteHit, frame
  <2>2. pc \in Working /\ i <= Len(Tasks) /\ Task \in Plain
    BY <2>1, InHand DEF Holding
  <2> QED
    BY <2>1, <2>2, OutKept, PlainCloseServes DEF Outcomes, LiveKept
<1>3. CASE LocalBroken
  <2>1. /\ pc = "local" /\ live' = live /\ Close("failed", 1) /\ UNCHANGED <<keys, raced>>
        /\ out' = out \/ out' = [out EXCEPT ![Task] = Partial]
    BY <1>3 DEF LocalBroken, frame
  <2>2. pc \in Working /\ i <= Len(Tasks) /\ Task \in Plain
    BY <2>1, InHand DEF Holding
  <2> QED
    BY <2>1, <2>2, OutKept, PlainCloseServes DEF Outcomes, LiveKept
<1>4. CASE CommandFails
  <2>1. /\ pc = "run" /\ live' \in Wrecked /\ Close("failed", attempt) /\ UNCHANGED <<keys, raced>>
        /\ out' = out \/ (Task \in Plain /\ out' = [out EXCEPT ![Task] = Partial])
    BY <1>4 DEF CommandFails, Spoilt, frame
  <2>2. pc \in Working /\ i <= Len(Tasks) /\ attempt \in Nat
    BY <2>1, InHand DEF Holding
  <2> QED
    BY <2>1, <2>2, OutKept, WreckedKept, PlainCloseServes DEF Outcomes, LiveKept
<1>5. CASE StoreFails \/ PushBundle
  <2>1. /\ pc \in {"store", "push"} /\ live' = live /\ Close("built", attempt)
        /\ UNCHANGED <<keys, raced, out>>
    BY <1>5 DEF StoreFails, PushBundle, frame
  <2>2. pc \in Working /\ i <= Len(Tasks) /\ attempt \in Nat /\ Task \notin Shippers
    BY <2>1, InHand, KindsApart DEF Holding
  <2> QED
    BY <2>1, <2>2, OutKept, PlainCloseServes DEF Outcomes, LiveKept
<1> QED
  BY <1>1, <1>2, <1>3, <1>4, <1>5

(* The key equals the record: what the record says was shipped is what the *)
(* tree holds, and it is still served.                                     *)
LEMMA DeployUnchangedServes ==
  ASSUME DeploysAreWhole, IInv, ServedInv, DeployUnchanged
  PROVE  ServedInv'
<1>1. /\ pc = "loop" /\ i <= Len(Tasks) /\ Allowed(Task) /\ Task \in Shippers
      /\ record[Task] = KeyOf(Task) /\ Close("unchanged", 0) /\ keys' = WithKey
      /\ UNCHANGED <<out, live, raced>>
  BY DEF DeployUnchanged, Unchanged, frame
<1>2. pc \in Working /\ OthersKept
  BY <1>1, KeyComputed DEF OthersKept, Working
<1>3. record' = record
  BY <1>1 DEF Close
<1>4. RecordIsServed'
  BY <1>1, <1>3, RecordKept DEF ServedInv
<1>5. record[Task] = [d \in Deps[Task] |-> keys[d]] /\ record[Task] # None
      /\ Deps[Task] \subseteq DOMAIN keys
  BY <1>1, WholeKey
<1>6. \A d \in Deps[Task] : d # Task /\ keys'[d] = keys[d] /\ d \in DOMAIN keys'
        /\ MadeFrom(d, out[d], keys[d])
  BY <1>1, <1>2, DepsInPlace DEF OthersKept
<1>7. \/ live[Task] = Partial
      \/ /\ live[Task] = [d \in Deps[Task] |-> live[Task][d]]
         /\ \A d \in Deps[Task] : MadeFrom(d, live[Task][d], keys[d])
  BY <1>1, <1>5 DEF ServedInv, RecordIsServed
<1>8. \/ live'[Task] = [d \in Deps[Task] |-> out'[d]]
      \/ live'[Task] = Partial
      \/ \E d \in Deps[Task] : <<d, keys'[d]>> \in raced'
  <2> SUFFICES ASSUME live[Task] # Partial, \A d \in Deps[Task] : <<d, keys[d]>> \notin raced
               PROVE  live[Task] = [d \in Deps[Task] |-> out[d]]
    BY <1>1, <1>6
  <2>1. \A d \in Deps[Task] : live[Task][d] = out[d]
    BY <1>6, <1>7 DEF MadeFrom
  <2> QED
    BY <1>7, <2>1
<1> QED
  BY <1>1, <1>2, <1>4, <1>6, <1>8, CloseServes DEF Outcomes

(* A deploy ships what its key names. *)
LEMMA ShipExitsZeroServes == ASSUME IInv, ServedInv, ShipExitsZero PROVE ServedInv'
<1>1. /\ pc = "run" /\ Task \notin Plain /\ Close("built", attempt)
      /\ UNCHANGED <<out, keys, raced>>
      /\ live' = IF Task \in Shippers THEN [live EXCEPT ![Task] = Artefact(Task)] ELSE live
  BY DEF ShipExitsZero, frame
<1>2. pc \in Working /\ i <= Len(Tasks) /\ attempt \in Nat
  BY <1>1, InHand DEF Holding
<1>3. OthersKept
  BY <1>1, OutKept
<1>4. CASE Task \notin Shippers
  BY <1>1, <1>2, <1>3, <1>4, PlainCloseServes DEF Outcomes, LiveKept
<1>5. CASE Task \in Shippers
  <2>1. /\ live' = [live EXCEPT ![Task] = Artefact(Task)]
        /\ record' = [record EXCEPT ![Task] = keys[Task]]
        /\ DOMAIN live = Shippers /\ DOMAIN record = Shippers
    BY <1>1, <1>5 DEF Close, IInv, TypeOK
  <2>2. /\ keys[Task] = [d \in Deps[Task] |-> keys[d]]
        /\ \A d \in Deps[Task] : MadeFrom(d, out[d], keys[d])
    BY <1>1, <1>5 DEF ServedInv, ShipKeyIsWhole
  <2>3. \A t \in Shippers \ {Task} : live'[t] = live[t] /\ record'[t] = record[t]
    BY <2>1
  <2>4. /\ live'[Task] = [d \in Deps[Task] |-> out[d]]
        /\ record'[Task] = [d \in Deps[Task] |-> keys[d]]
    BY <1>5, <2>1, <2>2 DEF Artefact
  <2>5. RecordIsServed'
    <3> SUFFICES ASSUME NEW t \in Shippers, record'[t] # None
                 PROVE  /\ DOMAIN record'[t] = Deps[t]
                        /\ \/ live'[t] = Partial
                           \/ /\ live'[t] = [d \in Deps[t] |-> live'[t][d]]
                              /\ \A d \in Deps[t] : live'[t][d] = record'[t][d]
                                                      \/ <<d, record'[t][d]>> \in raced'
      BY DEF RecordIsServed, MadeFrom
    <3>1. CASE t = Task
      BY <1>1, <2>2, <2>4, <3>1 DEF MadeFrom
    <3>2. CASE t # Task
      BY <1>1, <2>3, <3>2 DEF ServedInv, RecordIsServed, MadeFrom
    <3> QED
      BY <3>1, <3>2
  <2> QED
    BY <1>1, <1>2, <1>3, <2>3, <2>5, CloseServes DEF Outcomes
<1> QED
  BY <1>4, <1>5

LEMMA ComputeKeyServes ==
  ASSUME DeploysAreWhole, IInv, ServedInv, ComputeKey
  PROVE  ServedInv'
<1>1. /\ pc = "loop" /\ i <= Len(Tasks) /\ Allowed(Task) /\ keys' = WithKey
      /\ UNCHANGED <<out, live, record, rows, i, raced>>
  BY DEF ComputeKey, world, frame
<1>2. pc \in Working /\ OthersKept
  BY <1>1, KeyComputed DEF OthersKept, Working
<1>3. ShipKeyIsWhole'
  <2> SUFFICES ASSUME Task \in Shippers
               PROVE  /\ Deps[Task] \subseteq DOMAIN keys'
                      /\ keys'[Task] = [d \in Deps[Task] |-> keys'[d]]
                      /\ \A d \in Deps[Task] : out'[d] = keys'[d] \/ <<d, keys'[d]>> \in raced'
    BY <1>1 DEF ShipKeyIsWhole, MadeFrom, Task
  <2>1. \A d \in Deps[Task] : d \in DOMAIN keys' /\ keys'[d] = keys[d] /\ MadeFrom(d, out[d], keys[d])
    BY <1>1, <1>2, DepsInPlace DEF OthersKept
  <2>2. keys'[Task] = [d \in Deps[Task] |-> keys[d]]
    BY <1>1, KeyComputed, WholeKey
  <2> QED
    BY <1>1, <2>1, <2>2 DEF MadeFrom
<1> QED
  BY <1>1, <1>2, <1>3, HoldServes DEF LiveKept

(* Between the lookup and the row of a plain task no deploy is in hand. *)
LEMMA HoldsServe ==
  ASSUME IInv, ServedInv, LocalMiss \/ RemoteMiss \/ BuildExitsZero \/ StoreBundle
  PROVE  ServedInv'
<1>1. /\ pc \in Holding /\ Task \in Plain
      /\ UNCHANGED <<live, record, rows, i, keys, raced>>
      /\ out' = out \/ \E v : out' = [out EXCEPT ![Task] = v]
  BY InHand DEF LocalMiss, RemoteMiss, BuildExitsZero, StoreBundle, world, frame, Holding
<1>2. pc \in Working /\ i <= Len(Tasks) /\ Task \notin Shippers
  BY <1>1, InHand, KindsApart
<1>3. OthersKept
  BY <1>1, OutKept
<1>4. ShipKeyIsWhole'
  BY <1>1, <1>2 DEF ShipKeyIsWhole, Task
<1> QED
  BY <1>1, <1>2, <1>3, <1>4, HoldServes DEF LiveKept

LEMMA CommandRetriedServes == ASSUME IInv, ServedInv, CommandRetried PROVE ServedInv'
<1>1. /\ pc = "run" /\ live' \in Wrecked /\ UNCHANGED <<record, rows, pc, i, keys, raced>>
      /\ out' = out \/ (Task \in Plain /\ out' = [out EXCEPT ![Task] = Partial])
  BY DEF CommandRetried, Spoilt, frame
<1>2. pc \in Working /\ i <= Len(Tasks)
  BY <1>1, InHand DEF Holding
<1>3. OthersKept
  BY <1>1, OutKept
<1>4. ShipKeyIsWhole'
  <2>1. Task \in Shippers => out' = out
    BY <1>1, KindsApart
  <2> QED
    BY <1>1, <2>1 DEF ServedInv, ShipKeyIsWhole, MadeFrom, Task
<1> QED
  BY <1>1, <1>2, <1>3, <1>4, WreckedKept, HoldServes

LEMMA EditServes == ASSUME ServedInv, NEW v \in Versions, Edit(v) PROVE ServedInv'
<1>1. UNCHANGED <<out, live, record, rows, keys, pc, i>> /\ raced \subseteq raced'
  BY DEF Edit
<1>2. RecordIsServed' /\ UnchangedIsWhole'
  BY <1>1, RecordKept DEF ServedInv, UnchangedIsWhole
<1>3. UnchangedIsServed'
  BY <1>1 DEF ServedInv, UnchangedIsServed, Artefact
<1>4. ShipKeyIsWhole'
  BY <1>1 DEF ServedInv, ShipKeyIsWhole, MadeFrom, Task
<1> QED
  BY <1>2, <1>3, <1>4 DEF ServedInv

LEMMA StepServes ==
  ASSUME DeploysAreWhole, IInv, ServedInv, [Next]_vars
  PROVE  ServedInv'
<1>1. ASSUME NEW o \in Options, Start(o) PROVE ServedInv'
  <2>1. UNCHANGED <<out, live, record, raced>> /\ pc' # "run" /\ DOMAIN rows' = {}
    BY <1>1 DEF Start, world
  <2> QED
    BY <2>1, RowsServe
<1>2. CASE Exit
  <2>1. UNCHANGED <<out, live, record, raced>> /\ pc' # "run" /\ DOMAIN rows' = {}
    BY <1>2 DEF Exit, world
  <2> QED
    BY <2>1, RowsServe
<1>3. CASE SkipTask \/ LoopEnds \/ KeyFails \/ WriteSidecars
  <2>1. UNCHANGED <<out, live, record, rows, keys, raced>> /\ pc' # "run"
    BY <1>3 DEF SkipTask, LoopEnds, KeyFails, WriteSidecars, world, frame
  <2> QED
    BY <2>1, QuietServes
<1>4. ASSUME NEW v \in Versions, NEW t \in Plain, Outside(t, v) PROVE ServedInv'
  <2>1. UNCHANGED <<out, live, record, rows, keys, raced, pc, i>>
    BY <1>4 DEF Outside
  <2> QED
    BY <2>1, QuietServes
<1>5. ASSUME NEW v \in Versions, Edit(v) PROVE ServedInv'
  BY <1>5, EditServes
<1>6. CASE UNCHANGED vars
  <2>1. UNCHANGED <<out, live, record, rows, keys, raced, pc, i>>
    BY <1>6 DEF vars, world, frame
  <2> QED
    BY <2>1, QuietServes
<1>7. CASE Step
  BY <1>2, <1>3, <1>7, ClosesServe, DeployUnchangedServes, ComputeKeyServes, HoldsServe,
     ShipExitsZeroServes, CommandRetriedServes, NotificationsServe
  DEF Step
<1> QED
  BY <1>1, <1>4, <1>5, <1>6, <1>7 DEF Next

(* Under fail_fast, with a task filter that lets the dependencies of the   *)
(* deploys pass, a deploy that counts as done is what would be shipped, or *)
(* one that failed has replaced the release since.                         *)
THEOREM SkippedIsServed == ASSUME DeploysAreWhole PROVE Spec => []UnchangedIsServed
<1>1. ServedInv => UnchangedIsServed
  BY DEF ServedInv
<1>2. IInv /\ ServedInv /\ [Next]_vars => ServedInv'
  BY StepServes
<1> QED
  BY <1>1, <1>2, InitServes, IInvHolds, PTL DEF Spec
=============================================================================
