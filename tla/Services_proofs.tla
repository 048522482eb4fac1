--------------------------- MODULE Services_proofs ---------------------------
(***************************************************************************)
(* Proofs about the parts of monad that share no state with the build: the *)
(* client of a plugin, the toolchain store, monad mcp install, the         *)
(* announcements of a deploy, the environment, services and secrets of     *)
(* one, the hosted cache and the login, monad release; and about their     *)
(* composition, in which one of them moves.  For any number of threads,    *)
(* processes, clients, tasks, units, uploaders and crates.                 *)
(***************************************************************************)
EXTENDS MCServices, Setup_proofs, FiniteSetTheorems, SequenceTheorems, TLAPS

(***************************************************************************)
(* The client of a plugin.  A timeout kills the child, and a child is      *)
(* spawned once, before there is anybody to wait for an answer.            *)
(***************************************************************************)
ClientTypeOK ==
  /\ client \in {"none", "handshake", "loaded", "dropping", "gone"}
  /\ result \in [Threads -> {"none", "ok", "stale", "err", "timeout"}]
  /\ reader \in BOOLEAN

NothingBeforeSpawn == client = "none" => waiting = "no" /\ \A t \in Threads : result[t] = "none"

PluginInv == ClientTypeOK /\ NothingBeforeSpawn /\ AnswersAreOwn

LEMMA PluginBegins == PluginInit => PluginInv
  BY DEF PluginInit, PluginInv, ClientTypeOK, NothingBeforeSpawn, AnswersAreOwn

(* A call returns an error, or with the child killed or the answer its own. *)
LEMMA ReturnKeepsPluginInv ==
  ASSUME PluginInv, client # "none", NEW outcome \in {"ok", "err", "timeout"}, Return(outcome),
         outcome = "timeout" => child' = "dead",
         child = "dead" => child' = "dead", reader' = reader
  PROVE  PluginInv'
<1>1. result' \in [Threads -> {"none", "ok", "stale", "err", "timeout"}]
  BY DEF Return, PluginInv, ClientTypeOK
<1>2. client' \in {client, "loaded", "dropping"}
  BY DEF Return
<1>3. \A t \in Threads : result'[t] \in {result[t], outcome}
  BY DEF Return, PluginInv, ClientTypeOK
<1> QED
  BY <1>1, <1>2, <1>3 DEF PluginInv, ClientTypeOK, NothingBeforeSpawn, AnswersAreOwn

LEMMA ReceiveKeepsPluginInv ==
  ASSUME PluginInv, ReceiveMessage
  PROVE  PluginInv'
<1> DEFINE msg == Head(inbox)
<1>1. client # "none" /\ reader' = reader
  BY DEF ReceiveMessage, PluginInv, NothingBeforeSpawn
<1>2. CASE UNCHANGED <<client, holder, waiting, result, child>>
  BY <1>1, <1>2 DEF PluginInv, ClientTypeOK, NothingBeforeSpawn, AnswersAreOwn
<1>3. CASE Matches(msg.id) /\ Answered
  <2>1. CASE Return("ok") /\ UNCHANGED child
    BY <1>1, <2>1, ReturnKeepsPluginInv
  <2>2. CASE Return("err") /\ child' \in {child, "dead"}
    BY <1>1, <2>2, ReturnKeepsPluginInv
  <2> QED
    BY <1>3, <2>1, <2>2 DEF Matches, Answered
<1>4. CASE Return("err") /\ child' \in {child, "dead"}
  BY <1>1, <1>4, ReturnKeepsPluginInv
<1> QED
  BY <1>2, <1>3, <1>4 DEF ReceiveMessage

LEMMA PluginStep ==
  ASSUME PluginInv, [PluginNext]_pluginVars
  PROVE  PluginInv'
<1> USE DEF PluginInv, ClientTypeOK, NothingBeforeSpawn, AnswersAreOwn
<1>1. CASE SpawnPlugin
  BY <1>1 DEF SpawnPlugin
<1>2. ASSUME NEW t \in Callers, CallPlugin(t) PROVE PluginInv'
  <2>1. result' = [result EXCEPT ![t] = "none"] /\ UNCHANGED <<client, child, reader>> /\ client = "loaded"
    BY <1>2 DEF CallPlugin
  <2> QED
    BY <2>1
<1>3. CASE WriteRequest
  <2>1. client # "none" /\ UNCHANGED <<child, reader>>
    BY <1>3 DEF WriteRequest
  <2>2. CASE Return("err")
    BY <2>1, <2>2, ReturnKeepsPluginInv
  <2>3. CASE UNCHANGED <<client, holder, result>>
    BY <2>1, <2>3
  <2> QED
    BY <1>3, <2>2, <2>3 DEF WriteRequest
<1>4. CASE ReceiveMessage
  BY <1>4, ReceiveKeepsPluginInv
<1>5. CASE Disconnected
  <2>1. client # "none" /\ UNCHANGED <<child, reader>> /\ Return("err")
    BY <1>5 DEF Disconnected
  <2> QED
    BY <2>1, ReturnKeepsPluginInv
<1>6. CASE TimeoutCall
  <2>1. client # "none" /\ child' = "dead" /\ UNCHANGED reader /\ Return("timeout")
    BY <1>6 DEF TimeoutCall
  <2> QED
    BY <2>1, ReturnKeepsPluginInv
<1>7. CASE KillDropped \/ JoinReader \/ DropRegistry
  BY <1>7 DEF KillDropped, JoinReader, DropRegistry
<1>8. CASE PluginReads \/ PluginWrites \/ ReaderEnds \/ PluginMisbehaves \/ GrandchildExits
  <2>1. /\ UNCHANGED <<client, waiting, result>>
        /\ child = "dead" => child' = "dead"
        /\ reader' \in BOOLEAN /\ (~ reader => ~ reader')
    <3>1. CASE PluginReads \/ PluginWrites \/ GrandchildExits
      BY <3>1 DEF PluginReads, PluginWrites, GrandchildExits
    <3>2. CASE ReaderEnds
      BY <3>2 DEF ReaderEnds
    <3>3. CASE PluginMisbehaves
      BY <3>3 DEF PluginMisbehaves
    <3> QED
      BY <1>8, <3>1, <3>2, <3>3
  <2> QED
    BY <2>1
<1>9. CASE UNCHANGED pluginVars
  BY <1>9 DEF pluginVars
<1> QED
  BY <1>1, <1>2, <1>3, <1>4, <1>5, <1>6, <1>7, <1>8, <1>9 DEF PluginNext, ClientStep

(* Client::call and its drop: for any number of unit threads, calls and    *)
(* messages on their way, no call takes an answer to an earlier one, none  *)
(* is served after one timed out, and nothing of a plugin outlives it.     *)
THEOREM CallersGetTheirAnswers == PluginSpec => []AnswersAreOwn
<1>1. PluginInv => AnswersAreOwn
  BY DEF PluginInv
<1> QED
  BY PluginBegins, PluginStep, <1>1, PTL DEF PluginSpec
-----------------------------------------------------------------------------
(***************************************************************************)
(* The toolchain store.  A stage that is renamed holds a whole tree of a   *)
(* verified archive.  A unit thread ensures python after uv; every write   *)
(* of PATH, whatever it had read, adds uv; and a kill stops all threads    *)
(* of the process whose PATH is lost.                                      *)
(***************************************************************************)
UvThenPython == <<"uv", "python">>
UnitJobLists == {<<>>, UvThenPython} \cup {<<t>> : t \in Builtin}
AtWork       == {"resolve", "check", "download", "extract", "compare", "rename",
                 "read_path", "write_path", "unwind"}

ShapeOK ==
  /\ tree \in [Builtin \ Delegated -> {"absent", "half", "whole"}]
  /\ DOMAIN stage = Installers /\ DOMAIN mode = Installers /\ DOMAIN jobs = Installers
  /\ DOMAIN place = Installers /\ DOMAIN readPath = Installers
  /\ DOMAIN path = Processes

TreesAreWhole == \A t \in Builtin \ Delegated : tree[t] # "half"

(* What is promoted was extracted from an archive with the right digest. *)
StageIsWhole == \A i \in Installers : place[i] \in {"compare", "rename"} => stage[i] = "tree"

(* A thread of a unit works on the list of its unit, front first. *)
JobsOfAUnit ==
  \A i \in Installers : mode[i] = "unit" =>
    /\ jobs[i] \in UnitJobLists
    /\ place[i] \in AtWork => jobs[i] # <<>>

(* PATH is extended for uv only, once it is in the store. *)
PathIsForUv ==
  \A i \in Installers : place[i] \in {"read_path", "write_path"} => Tool(i) = "uv" /\ tree["uv"] # "absent"

(* A unit that has python left has had its uv. *)
UvCameFirst ==
  \A i \in Installers : mode[i] = "unit" /\ jobs[i] = <<"python">> => tree["uv"] # "absent" /\ UvIsAvailable(i)

StoreInv == ShapeOK /\ TreesAreWhole /\ StageIsWhole /\ JobsOfAUnit /\ PathIsForUv /\ UvCameFirst

LEMMA StoreBegins == StoreInit => StoreInv
  BY DEF StoreInit, StoreInv, ShapeOK, TreesAreWhole, StageIsWhole, JobsOfAUnit, PathIsForUv, UvCameFirst,
         Builtin, Delegated

(* The lists of a unit, one job at a time. *)
LEMMA UnitJobsAreShort ==
  ASSUME NEW s \in UnitJobLists, s # <<>>
  PROVE  /\ Tail(s) \in UnitJobLists
         /\ Len(s) = 1 <=> Tail(s) = <<>>
         /\ Tail(s) = <<"python">> => Head(s) = "uv"
         /\ Head(s) \in Builtin
         /\ s = <<"python">> <=> Len(s) = 1 /\ Head(s) = "python"
<1>1. CASE s = UvThenPython
  <2>1. Tail(s) = <<"python">> /\ Head(s) = "uv" /\ Len(s) = 2
    BY <1>1 DEF UvThenPython
  <2> QED
    BY <2>1 DEF UnitJobLists, Builtin
<1>2. CASE \E t \in Builtin : s = <<t>>
  <2>1. Tail(s) = <<>> /\ Len(s) = 1
    BY <1>2
  <2>2. Head(s) \in Builtin /\ s = <<Head(s)>>
    BY <1>2
  <2> QED
    BY <2>1, <2>2 DEF UnitJobLists
<1> QED
  BY <1>1, <1>2 DEF UnitJobLists

LEMMA TwoInARow ==
  ASSUME NEW S, NEW a \in Seq(S), NEW b \in Seq(S), Len(a) = 1, Len(b) = 1
  PROVE  a \o b \in Seq(S) /\ Len(a \o b) = 2 /\ (a \o b)[1] = a[1] /\ (a \o b)[2] = b[1]
<1>1. /\ a \o b \in Seq(S) /\ Len(a \o b) = 2
      /\ \A n \in 1..2 : (a \o b)[n] = IF n <= 1 THEN a[n] ELSE b[n - 1]
  BY ConcatProperties
<1> QED
  BY <1>1

(* A unit with python has uv first. *)
LEMMA PythonJobs ==
  ASSUME NEW req, Pinned(req), PrimaryTool(req.adapter) = "python"
  PROVE  UnitJobs(req) = UvThenPython
<1>1. UnitJobs(req) = <<"uv">> \o <<"python">>
  <2>1. UnitJobs(req) = CoRequired(PrimaryTool(req.adapter)) \o <<PrimaryTool(req.adapter)>>
    BY DEF UnitJobs
  <2>2. CoRequired("python") = <<"uv">>
    BY DEF CoRequired
  <2> QED
    BY <2>1, <2>2
<1> DEFINE s == <<"uv">> \o <<"python">>
<1>2. s \in Seq({"uv", "python"}) /\ Len(s) = 2 /\ s[1] = "uv" /\ s[2] = "python"
  <2>1. <<"uv">> \in Seq({"uv", "python"}) /\ <<"python">> \in Seq({"uv", "python"})
    OBVIOUS
  <2>2. Len(<<"uv">>) = 1 /\ Len(<<"python">>) = 1
    OBVIOUS
  <2> QED
    BY <2>1, <2>2, TwoInARow
<1> HIDE DEF s
<1>3. s = [n \in 1..2 |-> s[n]]
  BY <1>2
<1>4. UvThenPython = [n \in 1..2 |-> UvThenPython[n]] /\ UvThenPython[1] = "uv" /\ UvThenPython[2] = "python"
  BY DEF UvThenPython
<1> QED
  BY <1>1, <1>2, <1>3, <1>4 DEF s

LEMMA UnitListsAreJobLists == \A req : UnitJobs(req) \in UnitJobLists
<1> TAKE req
<1> DEFINE t == PrimaryTool(req.adapter)
<1>1. CASE ~ Pinned(req)
  BY <1>1 DEF UnitJobs, UnitJobLists
<1>2. CASE Pinned(req) /\ t = "python"
  BY <1>2, PythonJobs DEF UnitJobLists
<1>3. CASE Pinned(req) /\ t # "python"
  <2>1. UnitJobs(req) = <<>> \o <<t>> /\ t \in Builtin
    BY <1>3 DEF UnitJobs, Pinned, CoRequired
  <2> QED
    BY <2>1 DEF UnitJobLists
<1> QED
  BY <1>1, <1>2, <1>3

(* No unit starts with python. *)
LEMMA UnitJobsEndWithPython == \A req : UnitJobs(req) # <<"python">>
<1> TAKE req
<1>1. UnitJobs(req) \in UnitJobLists
  BY UnitListsAreJobLists
<1>2. CASE ~ Pinned(req)
  BY <1>2 DEF UnitJobs
<1>3. CASE Pinned(req) /\ PrimaryTool(req.adapter) # "python"
  <2> DEFINE t == PrimaryTool(req.adapter)
  <2>1. UnitJobs(req) = <<>> \o <<t>> /\ t # "python" /\ t \in Builtin
    BY <1>3 DEF UnitJobs, CoRequired, Pinned
  <2> QED
    BY <2>1
<1>4. CASE Pinned(req) /\ PrimaryTool(req.adapter) = "python"
  <2>1. UnitJobs(req) = UvThenPython
    BY <1>4, PythonJobs
  <2> QED
    BY <2>1 DEF UvThenPython
<1> QED
  BY <1>2, <1>3, <1>4

LEMMA OnlyUvIsCoRequired == \A tool : (\E t \in Builtin : tool \in ToSet(CoRequired(t))) <=> tool = "uv"
<1> TAKE tool
<1>1. \A t : t # "python" => ToSet(CoRequired(t)) = {}
  BY DEF CoRequired, ToSet
<1>2. CoRequired("python") = <<"uv">>
  BY DEF CoRequired
<1>3. ToSet(<<"uv">>) = {"uv"}
  BY DEF ToSet
<1> QED
  BY <1>1, <1>2, <1>3 DEF Builtin

(* A step of one thread leaves the modes, PATH and the other stages alone, *)
(* and takes nothing out of the store.                                     *)
StepOf(i) ==
  /\ UNCHANGED <<mode, path>>
  /\ DOMAIN readPath' = Installers
  /\ DOMAIN stage' = Installers /\ \A j \in Installers \ {i} : stage'[j] = stage[j]
  /\ tree' \in [Builtin \ Delegated -> {"absent", "whole"}]
  /\ \A t \in Builtin \ Delegated : tree[t] # "absent" => tree'[t] # "absent"

(* A step to another place of the same ensure. *)
LEMMA MoveKeepsStoreInv ==
  ASSUME StoreInv, NEW i \in Installers, StepOf(i), NEW there \in Places, Move(i, there), UNCHANGED jobs,
         place[i] \in AtWork,
         there \in {"compare", "rename"} => stage'[i] = "tree",
         there \in {"read_path", "write_path"} => Tool(i) = "uv" /\ tree'["uv"] # "absent"
  PROVE  StoreInv'
<1>1. /\ DOMAIN place' = Installers /\ place'[i] = there
      /\ \A j \in Installers \ {i} : place'[j] = place[j]
  BY DEF Move, StoreInv, ShapeOK
<1>2. "uv" \in Builtin \ Delegated
  BY DEF Builtin, Delegated
<1>3. ShapeOK' /\ TreesAreWhole'
  BY <1>1 DEF StoreInv, ShapeOK, TreesAreWhole, StepOf
<1>4. StageIsWhole'
  BY <1>1 DEF StoreInv, StageIsWhole, StepOf
<1>5. JobsOfAUnit'
  BY <1>1 DEF StoreInv, JobsOfAUnit, StepOf
<1>6. PathIsForUv'
  BY <1>1, <1>2 DEF StoreInv, PathIsForUv, StepOf, Tool
<1>7. UvCameFirst'
  BY <1>2 DEF StoreInv, UvCameFirst, StepOf, UvIsAvailable
<1> QED
  BY <1>3, <1>4, <1>5, <1>6, <1>7 DEF StoreInv

(* The next ensure of the list: for a unit, python comes after uv only,    *)
(* which does not end here.                                                *)
LEMMA NextJobKeepsStoreInv ==
  ASSUME StoreInv, NEW i \in Installers, StepOf(i), NextJob(i), place[i] \in AtWork,
         mode[i] = "unit" => Tool(i) # "uv"
  PROVE  StoreInv'
<1>1. /\ DOMAIN place' = Installers /\ place'[i] \in {"err", "ok", "resolve"}
      /\ place'[i] = "resolve" => Len(jobs[i]) # 1
      /\ \A j \in Installers \ {i} : place'[j] = place[j]
  BY DEF NextJob, Move, StoreInv, ShapeOK
<1>2. /\ DOMAIN jobs' = Installers /\ jobs'[i] = Tail(jobs[i])
      /\ \A j \in Installers \ {i} : jobs'[j] = jobs[j]
  BY DEF NextJob, StoreInv, ShapeOK
<1>3. "uv" \in Builtin \ Delegated
  BY DEF Builtin, Delegated
<1>4. mode[i] = "unit" => /\ jobs'[i] \in UnitJobLists
                          /\ place'[i] = "resolve" => jobs'[i] # <<>>
                          /\ jobs'[i] # <<"python">>
  <2> SUFFICES ASSUME mode[i] = "unit"
               PROVE  /\ jobs'[i] \in UnitJobLists
                      /\ place'[i] = "resolve" => jobs'[i] # <<>>
                      /\ jobs'[i] # <<"python">>
    OBVIOUS
  <2>1. jobs[i] \in UnitJobLists /\ jobs[i] # <<>>
    BY DEF StoreInv, JobsOfAUnit
  <2> QED
    BY <1>1, <1>2, <2>1, UnitJobsAreShort DEF Tool
<1>5. ShapeOK' /\ TreesAreWhole'
  BY <1>1, <1>2 DEF StoreInv, ShapeOK, TreesAreWhole, StepOf
<1>6. StageIsWhole'
  BY <1>1 DEF StoreInv, StageIsWhole, StepOf
<1>7. JobsOfAUnit'
  BY <1>1, <1>2, <1>4 DEF StoreInv, JobsOfAUnit, StepOf, AtWork
<1>8. PathIsForUv'
  BY <1>1, <1>2, <1>3 DEF StoreInv, PathIsForUv, StepOf, Tool
<1>9. UvCameFirst'
  BY <1>2, <1>3, <1>4 DEF StoreInv, UvCameFirst, StepOf, UvIsAvailable
<1> QED
  BY <1>5, <1>6, <1>7, <1>8, <1>9 DEF StoreInv

LEMMA GiveUpKeepsStoreInv ==
  ASSUME StoreInv, NEW i \in Installers, StepOf(i), GiveUp(i), place[i] \in AtWork
  PROVE  StoreInv'
<1>1. CASE mode[i] = "unit"
  <2>1. Move(i, "err") /\ UNCHANGED jobs
    BY <1>1 DEF GiveUp
  <2> QED
    BY <2>1, MoveKeepsStoreInv DEF Places
<1>2. CASE mode[i] # "unit"
  BY <1>2, NextJobKeepsStoreInv DEF GiveUp
<1> QED
  BY <1>1, <1>2

(* What was ensured is in the store; uv goes on PATH next.                 *)
LEMMA EnsuredKeepsStoreInv ==
  ASSUME StoreInv, NEW i \in Installers, StepOf(i), Ensured(i), place[i] \in AtWork,
         Tool(i) = "uv" => tree'["uv"] # "absent"
  PROVE  StoreInv'
<1>1. CASE Tool(i) = "uv"
  <2>1. Move(i, "read_path") /\ UNCHANGED jobs
    BY <1>1, OnlyUvIsCoRequired DEF Ensured
  <2>2. tree'["uv"] # "absent"
    BY <1>1
  <2> QED
    BY <1>1, <2>1, <2>2, MoveKeepsStoreInv DEF Places
<1>2. CASE Tool(i) # "uv"
  <2>1. NextJob(i)
    BY <1>2, OnlyUvIsCoRequired DEF Ensured
  <2> QED
    BY <1>2, <2>1, NextJobKeepsStoreInv
<1> QED
  BY <1>1, <1>2

(* A unit thread takes the jobs of its unit; the command any list.         *)
LEMMA AskKeepsStoreInv ==
  ASSUME StoreInv, NEW i \in Installers, NEW m \in {"unit", "install"}, NEW reqs \in SUBSET Requests,
         NEW host \in Hosts, AskFor(i, m, reqs, host)
  PROVE  StoreInv'
<1> DEFINE todo == IF ~ TargetKnown(host) THEN <<>>
                    ELSE IF m = "unit" THEN UnitJobs(CHOOSE r \in reqs : TRUE) ELSE CommandJobs(reqs)
<1>1. /\ jobs' = [jobs EXCEPT ![i] = todo]
      /\ mode' = [mode EXCEPT ![i] = m]
      /\ UNCHANGED <<tree, stage, failed, path, readPath>>
  BY DEF AskFor
<1>2. Move(i, IF todo # <<>> THEN "resolve" ELSE IF m = "install" /\ ~ TargetKnown(host) THEN "err" ELSE "ok")
  BY DEF AskFor
<1>3. m = "unit" => todo \in UnitJobLists
  <2>1. CASE ~ TargetKnown(host)
    BY <2>1 DEF UnitJobLists
  <2>2. CASE TargetKnown(host) /\ m = "unit"
    BY <2>2, UnitListsAreJobLists
  <2> QED
    BY <2>1, <2>2
<1>4. m = "unit" => todo # <<"python">>
  <2>1. ~ TargetKnown(host) => todo = <<>>
    OBVIOUS
  <2>2. \A req : UnitJobs(req) # <<"python">>
    BY UnitJobsEndWithPython
  <2>3. TargetKnown(host) /\ m = "unit" => todo = UnitJobs(CHOOSE r \in reqs : TRUE)
    OBVIOUS
  <2>4. <<>> # <<"python">>
    OBVIOUS
  <2> HIDE DEF todo
  <2> QED
    BY <2>1, <2>2, <2>3, <2>4
<1> DEFINE there == IF todo # <<>> THEN "resolve" ELSE IF m = "install" /\ ~ TargetKnown(host) THEN "err" ELSE "ok"
<1>5. there \in {"resolve", "err", "ok"} /\ (there = "resolve" => todo # <<>>)
      /\ (todo = <<>> => there # "resolve")
  <2> HIDE DEF todo
  <2> QED
    OBVIOUS
<1>6. /\ DOMAIN place' = Installers /\ place'[i] = there
      /\ \A j \in Installers \ {i} : place'[j] = place[j]
  <2> HIDE DEF there, todo
  <2> QED
    BY <1>2 DEF Move, StoreInv, ShapeOK, there
<1>7. /\ DOMAIN jobs' = Installers /\ jobs'[i] = todo
      /\ \A j \in Installers \ {i} : jobs'[j] = jobs[j]
      /\ DOMAIN mode' = Installers /\ mode'[i] = m
      /\ \A j \in Installers \ {i} : mode'[j] = mode[j]
  <2> HIDE DEF todo
  <2> QED
    BY <1>1 DEF StoreInv, ShapeOK
<1> HIDE DEF there, todo
<1>8. ShapeOK' /\ TreesAreWhole'
  BY <1>1, <1>6, <1>7 DEF StoreInv, ShapeOK, TreesAreWhole
<1>9. StageIsWhole'
  BY <1>1, <1>5, <1>6 DEF StoreInv, StageIsWhole
<1>10. JobsOfAUnit'
  BY <1>3, <1>5, <1>6, <1>7 DEF StoreInv, JobsOfAUnit, AtWork
<1>11. PathIsForUv'
  BY <1>1, <1>5, <1>6, <1>7 DEF StoreInv, PathIsForUv, Tool
<1>12. UvCameFirst'
  BY <1>1, <1>4, <1>7 DEF StoreInv, UvCameFirst, UvIsAvailable
<1> QED
  BY <1>8, <1>9, <1>10, <1>11, <1>12 DEF StoreInv

(* prepend_path_env adds uv to whatever it has read, so that PATH has it   *)
(* also after a write of another thread is lost; and python is next.       *)
LEMMA WritePathKeepsStoreInv ==
  ASSUME StoreInv, NEW i \in Installers, WritePath(i)
  PROVE  StoreInv'
<1>1. /\ place[i] = "write_path" /\ Tool(i) = "uv" /\ tree["uv"] # "absent"
      /\ UNCHANGED <<tree, stage, mode>> /\ ProcessOf[i] \in Processes
  BY DEF WritePath, At, StoreInv, PathIsForUv, Processes
<1>2. /\ DOMAIN place' = Installers /\ place'[i] \in {"err", "ok", "resolve"}
      /\ place'[i] = "resolve" => Len(jobs[i]) # 1
      /\ \A j \in Installers \ {i} : place'[j] = place[j]
  BY DEF WritePath, NextJob, Move, StoreInv, ShapeOK
<1>3. /\ DOMAIN jobs' = Installers /\ jobs'[i] = Tail(jobs[i])
      /\ \A j \in Installers \ {i} : jobs'[j] = jobs[j]
  BY DEF WritePath, NextJob, StoreInv, ShapeOK
<1>4. /\ DOMAIN path' = Processes /\ "uv" \in path'[ProcessOf[i]]
      /\ \A p \in Processes : p # ProcessOf[i] => path'[p] = path[p]
      /\ DOMAIN readPath' = Installers
  BY <1>1 DEF WritePath, StoreInv, ShapeOK
<1>5. mode[i] = "unit" => /\ jobs'[i] \in UnitJobLists
                          /\ place'[i] = "resolve" => jobs'[i] # <<>>
  <2> SUFFICES ASSUME mode[i] = "unit"
               PROVE  jobs'[i] \in UnitJobLists /\ (place'[i] = "resolve" => jobs'[i] # <<>>)
    OBVIOUS
  <2>1. jobs[i] \in UnitJobLists /\ jobs[i] # <<>>
    BY <1>1 DEF StoreInv, JobsOfAUnit, AtWork
  <2> QED
    BY <1>2, <1>3, <2>1, UnitJobsAreShort
<1>6. ShapeOK' /\ TreesAreWhole'
  BY <1>1, <1>2, <1>3, <1>4 DEF StoreInv, ShapeOK, TreesAreWhole
<1>7. StageIsWhole'
  BY <1>1, <1>2 DEF StoreInv, StageIsWhole
<1>8. JobsOfAUnit'
  BY <1>1, <1>2, <1>3, <1>5 DEF StoreInv, JobsOfAUnit, AtWork
<1>9. PathIsForUv'
  BY <1>1, <1>2, <1>3 DEF StoreInv, PathIsForUv, Tool
<1>10. UvCameFirst'
  <2> SUFFICES ASSUME NEW j \in Installers, mode[j] = "unit", jobs'[j] = <<"python">>
               PROVE  tree'["uv"] # "absent" /\ path'[ProcessOf[j]] \cap {"uv", "system"} # {}
    BY <1>1 DEF UvCameFirst, UvIsAvailable
  <2>1. CASE ProcessOf[j] = ProcessOf[i]
    BY <1>1, <1>4, <2>1
  <2>2. CASE ProcessOf[j] # ProcessOf[i]
    BY <1>1, <1>3, <1>4, <2>2 DEF StoreInv, UvCameFirst, UvIsAvailable, Processes
  <2> QED
    BY <2>1, <2>2
<1> QED
  BY <1>6, <1>7, <1>8, <1>9, <1>10 DEF StoreInv

(* A kill takes PATH from a process, and the jobs from all its threads.    *)
LEMMA KillKeepsStoreInv ==
  ASSUME StoreInv, NEW p \in Processes, KillInstallers(p)
  PROVE  StoreInv'
<1>1. /\ UNCHANGED <<tree, stage, mode>>
      /\ DOMAIN place' = Installers /\ DOMAIN jobs' = Installers /\ DOMAIN readPath' = Installers
      /\ DOMAIN path' = Processes
      /\ \A q \in Processes : q # p => path'[q] = path[q]
  BY DEF KillInstallers, StoreInv, ShapeOK
<1>2. \A i \in Installers : /\ ProcessOf[i] = p => place'[i] = "killed" /\ jobs'[i] = <<>>
                            /\ ProcessOf[i] # p => place'[i] = place[i] /\ jobs'[i] = jobs[i]
  BY DEF KillInstallers
<1>3. ShapeOK' /\ TreesAreWhole'
  BY <1>1 DEF StoreInv, ShapeOK, TreesAreWhole
<1>4. StageIsWhole'
  BY <1>1, <1>2 DEF StoreInv, StageIsWhole
<1>5. JobsOfAUnit'
  BY <1>1, <1>2 DEF StoreInv, JobsOfAUnit, AtWork, UnitJobLists
<1>6. PathIsForUv'
  BY <1>1, <1>2 DEF StoreInv, PathIsForUv, Tool
<1>7. UvCameFirst'
  <2> SUFFICES ASSUME NEW i \in Installers, mode[i] = "unit", jobs'[i] = <<"python">>
               PROVE  tree'["uv"] # "absent" /\ path'[ProcessOf[i]] \cap {"uv", "system"} # {}
    BY <1>1 DEF UvCameFirst, UvIsAvailable
  <2>1. ProcessOf[i] # p
    BY <1>2
  <2> QED
    BY <1>1, <1>2, <2>1 DEF StoreInv, UvCameFirst, UvIsAvailable, Processes
<1> QED
  BY <1>3, <1>4, <1>5, <1>6, <1>7 DEF StoreInv

LEMMA InstallerStepKeepsStoreInv ==
  ASSUME StoreInv, NEW i \in Installers, InstallerStep(i)
  PROVE  StoreInv'
<1> USE DEF At
<1>0. ShapeOK /\ tree \in [Builtin \ Delegated -> {"absent", "whole"}]
  BY DEF StoreInv, ShapeOK, TreesAreWhole
<1>1. CASE ResolveVersion(i)
  <2>1. StepOf(i) /\ place[i] \in AtWork
    BY <1>0, <1>1 DEF ResolveVersion, StepOf, ShapeOK, AtWork
  <2>2. CASE Move(i, "check") /\ UNCHANGED jobs
    BY <2>1, <2>2, MoveKeepsStoreInv DEF Places
  <2>3. CASE GiveUp(i)
    BY <2>1, <2>3, GiveUpKeepsStoreInv
  <2> QED
    BY <1>1, <2>2, <2>3 DEF ResolveVersion
<1>2. CASE DelegatedEnsure(i)
  <2>1. StepOf(i) /\ place[i] \in AtWork /\ Tool(i) \in Delegated
    BY <1>0, <1>2 DEF DelegatedEnsure, StepOf, ShapeOK, AtWork
  <2>2. CASE Ensured(i)
    BY <2>1, <2>2, EnsuredKeepsStoreInv DEF Delegated
  <2>3. CASE GiveUp(i)
    BY <2>1, <2>3, GiveUpKeepsStoreInv
  <2> QED
    BY <1>2, <2>2, <2>3 DEF DelegatedEnsure
<1>3. CASE CheckInstalled(i)
  <2>1. StepOf(i) /\ place[i] \in AtWork /\ tree' = tree
    BY <1>0, <1>3 DEF CheckInstalled, StepOf, ShapeOK, AtWork
  <2>2. CASE Move(i, "download") /\ UNCHANGED jobs
    BY <2>1, <2>2, MoveKeepsStoreInv DEF Places
  <2>3. CASE tree[Tool(i)] # "absent" /\ Ensured(i)
    BY <2>1, <2>3, EnsuredKeepsStoreInv
  <2> QED
    BY <1>3, <2>2, <2>3 DEF CheckInstalled
<1>4. CASE Download(i)
  <2>1. PICK a \in {"archive", "bad_archive", "empty"} :
          stage' = [stage EXCEPT ![i] = a] /\ Move(i, IF a = "empty" THEN "unwind" ELSE "extract")
    BY <1>4 DEF Download
  <2>2. StepOf(i) /\ place[i] \in AtWork /\ UNCHANGED jobs
    BY <1>0, <1>4, <2>1 DEF Download, StepOf, ShapeOK, AtWork
  <2>3. CASE a = "empty"
    BY <2>1, <2>2, <2>3, MoveKeepsStoreInv DEF Places
  <2>4. CASE a # "empty"
    BY <2>1, <2>2, <2>4, MoveKeepsStoreInv DEF Places
  <2> QED
    BY <2>3, <2>4
<1>5. CASE Extract(i)
  <2>1. StepOf(i) /\ place[i] \in AtWork /\ UNCHANGED jobs
    BY <1>0, <1>5 DEF Extract, StepOf, ShapeOK, AtWork
  <2>2. CASE Verified(i) /\ stage' = [stage EXCEPT ![i] = IF @ = "archive" THEN "tree" ELSE "half_tree"]
             /\ Move(i, "compare")
    <3>1. stage'[i] = "tree"
      BY <1>0, <2>2 DEF Verified, ShapeOK
    <3> QED
      BY <2>1, <2>2, <3>1, MoveKeepsStoreInv DEF Places
  <2>3. CASE Move(i, "unwind")
    BY <2>1, <2>3, MoveKeepsStoreInv DEF Places
  <2> QED
    BY <1>5, <2>2, <2>3 DEF Extract
<1>6. CASE CompareDest(i)
  <2>1. StepOf(i) /\ place[i] \in AtWork /\ stage[i] = "tree" /\ tree' = tree
    BY <1>0, <1>6 DEF CompareDest, StepOf, ShapeOK, AtWork, StoreInv, StageIsWhole
  <2>2. CASE Move(i, "rename") /\ UNCHANGED <<stage, jobs>>
    BY <2>1, <2>2, MoveKeepsStoreInv DEF Places
  <2>3. CASE tree[Tool(i)] # "absent" /\ Ensured(i)
    BY <2>1, <2>3, EnsuredKeepsStoreInv
  <2> QED
    BY <1>6, <2>2, <2>3 DEF CompareDest
<1>7. CASE RenameStage(i)
  <2>1. stage[i] = "tree" /\ place[i] \in AtWork
    BY <1>7 DEF RenameStage, AtWork, StoreInv, StageIsWhole
  <2>2. CASE tree[Tool(i)] = "absent"
    <3>1. Ensured(i) /\ tree' = [tree EXCEPT ![Tool(i)] = "whole"] /\ stage' = [stage EXCEPT ![i] = "empty"]
      BY <1>7, <2>1, <2>2 DEF RenameStage
    <3>2. StepOf(i)
      BY <1>0, <1>7, <3>1 DEF RenameStage, StepOf, ShapeOK
    <3>3. Tool(i) = "uv" => tree'["uv"] # "absent"
      BY <1>0, <3>1 DEF Builtin, Delegated
    <3> QED
      BY <2>1, <3>1, <3>2, <3>3, EnsuredKeepsStoreInv
  <2>3. CASE tree[Tool(i)] # "absent"
    <3>1. StepOf(i) /\ Move(i, "unwind") /\ UNCHANGED jobs
      BY <1>0, <1>7, <2>3 DEF RenameStage, StepOf, ShapeOK
    <3> QED
      BY <2>1, <3>1, MoveKeepsStoreInv DEF Places
  <2> QED
    BY <2>2, <2>3
<1>8. CASE Unwind(i)
  <2>1. StepOf(i) /\ place[i] \in AtWork /\ GiveUp(i)
    BY <1>0, <1>8 DEF Unwind, StepOf, ShapeOK, AtWork
  <2> QED
    BY <2>1, GiveUpKeepsStoreInv
<1>9. CASE ReadPath(i)
  <2>1. /\ StepOf(i) /\ place[i] \in AtWork /\ Move(i, "write_path") /\ UNCHANGED jobs
        /\ Tool(i) = "uv" /\ tree' = tree /\ tree["uv"] # "absent"
    BY <1>0, <1>9 DEF ReadPath, StepOf, ShapeOK, AtWork, StoreInv, PathIsForUv
  <2> QED
    BY <2>1, MoveKeepsStoreInv DEF Places
<1>10. CASE WritePath(i)
  BY <1>10, WritePathKeepsStoreInv
<1> QED
  BY <1>1, <1>2, <1>3, <1>4, <1>5, <1>6, <1>7, <1>8, <1>9, <1>10 DEF InstallerStep

LEMMA StoreStep ==
  ASSUME StoreInv, [StoreNext]_toolchainVars
  PROVE  StoreInv'
<1>1. ASSUME NEW i \in Installers, NEW m \in {"unit", "install"}, NEW reqs \in SUBSET Requests,
             NEW host \in Hosts, AskFor(i, m, reqs, host)
      PROVE  StoreInv'
  BY <1>1, AskKeepsStoreInv
<1>2. ASSUME NEW i \in Installers, InstallerStep(i) PROVE StoreInv'
  BY <1>2, InstallerStepKeepsStoreInv
<1>3. ASSUME NEW p \in Processes, KillInstallers(p) PROVE StoreInv'
  BY <1>3, KillKeepsStoreInv
<1>4. CASE UNCHANGED toolchainVars
  BY <1>4 DEF toolchainVars, StoreInv, ShapeOK, TreesAreWhole, StageIsWhole, JobsOfAUnit, PathIsForUv,
              UvCameFirst, Tool, UvIsAvailable
<1> QED
  BY <1>1, <1>2, <1>3, <1>4 DEF StoreNext

LEMMA StoreInvSuffices == StoreInv => EnsuredToolsAreThere
<1> SUFFICES ASSUME StoreInv PROVE EnsuredToolsAreThere
  OBVIOUS
<1>1. \A t \in Listed : tree[t] = "whole"
  BY DEF StoreInv, ShapeOK, TreesAreWhole, Listed
<1>2. ASSUME NEW i \in Installers, mode[i] = "unit", Len(jobs[i]) = 1, Tool(i) = "python"
      PROVE  (At(i, "resolve") => "uv" \in Listed) /\ (At(i, "check") => UvIsAvailable(i))
  <2>1. jobs[i] \in UnitJobLists /\ (place[i] \in {"resolve", "check"} => jobs[i] # <<>>)
    BY <1>2 DEF StoreInv, JobsOfAUnit, AtWork
  <2>2. place[i] \in {"resolve", "check"} => jobs[i] = <<"python">>
    BY <1>2, <2>1, UnitJobsAreShort DEF Tool
  <2> QED
    BY <1>2, <2>2 DEF StoreInv, UvCameFirst, Listed, Builtin, Delegated, At
<1> QED
  BY <1>1, <1>2 DEF EnsuredToolsAreThere

(* Store::commit_stage, verify_checksum, ensure_toolchain with             *)
(* prepend_path_env: for any number of threads, processes and requests,    *)
(* whatever fails or is killed, what the store lists is whole, and a unit  *)
(* that comes to its python finds the uv before it.                        *)
THEOREM StoresAreWhole == StoreSpec => []EnsuredToolsAreThere
  BY StoreBegins, StoreStep, StoreInvSuffices, PTL DEF StoreSpec
-----------------------------------------------------------------------------
(***************************************************************************)
(* monad mcp install.  Of a client whose temporary file is not mixed, one  *)
(* install at most is between the start of the write and the rename, and   *)
(* the temporary file is then its document; a document says of the others' *)
(* servers what the file says, until somebody else writes it.              *)
(***************************************************************************)
Invocations == [at : {"off", "next", "read", "write", "fill", "rename", "ok", "err"},
                client : Clients \cup {NoClient}, todo : SUBSET Clients, entry : Entries \cup {NoEntry}]

AtClient(i)  == invocation[i].at \in {"read", "write", "fill", "rename"}
Writes(i, c) == invocation[i].at \in {"fill", "rename"} /\ invocation[i].client = c

InstallShape ==
  /\ config \in [Clients -> Files] /\ tmpFile \in [Clients -> Files]
  /\ invocation \in [Installs -> Invocations]
  /\ document \in [Installs -> Files]
  /\ present \subseteq Clients /\ raced \subseteq Installs \X Clients /\ mixed \subseteq Clients

KnowsItsClient == \A i \in Installs : AtClient(i) => invocation[i].client \in Clients

DocumentsAreWhole ==
  \A i \in Installs : invocation[i].at \in {"write", "fill", "rename"} => document[i].whole /\ document[i].exists

OneWriter ==
  \A i, j \in Installs, c \in Clients \ mixed : Writes(i, c) /\ Writes(j, c) => i = j

TmpIsMine ==
  \A i \in Installs, c \in Clients \ mixed : Writes(i, c) =>
    IF invocation[i].at = "fill" THEN tmpFile[c].exists ELSE tmpFile[c] = document[i]

DocumentIsFresh ==
  \A i \in Installs, c \in Clients \ mixed :
    invocation[i].at \in {"write", "fill", "rename"} /\ invocation[i].client = c /\ <<i, c>> \notin raced
      => document[i].foreign = config[c].foreign

FilesAreWhole == \A c \in Clients : config[c].whole \/ c \in mixed

InstallInv ==
  /\ InstallShape /\ KnowsItsClient /\ DocumentsAreWhole /\ OneWriter /\ TmpIsMine /\ DocumentIsFresh
  /\ FilesAreWhole

LEMMA FormsOfFiles ==
  /\ Absent \in Files /\ Torn \in Files
  /\ Absent.whole /\ ~ Absent.exists /\ Torn.exists
  BY DEF Absent, Torn, Files

(* What the edits of a file leave as it is. *)
LEMMA EditsOfFiles ==
  ASSUME NEW x \in Files, NEW m \in Entries \cup {NoEntry}
  PROVE  /\ [x EXCEPT !.exists = TRUE, !.monad = m] \in Files
         /\ [x EXCEPT !.exists = TRUE, !.monad = m].whole = x.whole
         /\ [x EXCEPT !.exists = TRUE, !.monad = m].exists
         /\ [x EXCEPT !.exists = TRUE, !.monad = m].foreign = x.foreign
  BY DEF Files

LEMMA InstallBegins == InstallInit => InstallInv
<1> SUFFICES ASSUME InstallInit PROVE InstallInv
  OBVIOUS
<1>1. config \in [Clients -> Files] /\ FilesAreWhole
  <2>1. \A x \in {Absent} \cup FirstFiles : x \in Files /\ x.whole
    BY FormsOfFiles DEF FirstFiles, Files
  <2>2. config \in [Clients -> {Absent} \cup FirstFiles]
    BY DEF InstallInit
  <2> QED
    BY <2>1, <2>2 DEF FilesAreWhole
<1>2. InstallShape
  <2>1. Idle \in Invocations
    BY DEF Idle, Invocations
  <2>2. /\ tmpFile = [c \in Clients |-> Absent] /\ invocation = [i \in Installs |-> Idle]
        /\ document = [i \in Installs |-> Absent] /\ raced = {} /\ mixed = {} /\ present \in SUBSET Clients
    BY DEF InstallInit
  <2>3. /\ tmpFile \in [Clients -> Files] /\ document \in [Installs -> Files]
        /\ invocation \in [Installs -> Invocations]
    <3> HIDE DEF Files
    <3> QED
      BY <2>1, <2>2, FormsOfFiles
  <2> QED
    BY <1>1, <2>2, <2>3 DEF InstallShape
<1>3. \A i \in Installs : invocation[i].at = "off"
  BY DEF InstallInit, Idle
<1> QED
  BY <1>1, <1>2, <1>3 DEF InstallInv, KnowsItsClient, AtClient, DocumentsAreWhole, OneWriter, TmpIsMine,
                          DocumentIsFresh, Writes

(* An install that ends or looks for its next client writes nothing. *)
LEMMA RestKeepsInstallInv ==
  ASSUME InstallInv, NEW i \in Installs, UNCHANGED <<config, tmpFile, present, mixed>>,
         invocation' \in [Installs -> Invocations],
         document' \in [Installs -> Files],
         \A j \in Installs \ {i} : invocation'[j] = invocation[j] /\ document'[j] = document[j],
         invocation'[i].at \in {"off", "next", "read", "ok", "err"},
         invocation'[i].at = "read" => invocation'[i].client \in Clients,
         raced' \subseteq raced, \A j \in Installs \ {i}, c \in Clients : <<j, c>> \in raced => <<j, c>> \in raced'
  PROVE  InstallInv'
<1>1. InstallShape' /\ FilesAreWhole'
  BY DEF InstallInv, InstallShape, FilesAreWhole
<1>2. KnowsItsClient'
  BY DEF InstallInv, KnowsItsClient, AtClient
<1>3. DocumentsAreWhole'
  BY DEF InstallInv, DocumentsAreWhole
<1>4. \A j \in Installs, c \in Clients : Writes(j, c)' => j # i /\ Writes(j, c)
  BY DEF Writes
<1>5. OneWriter'
  BY <1>4 DEF InstallInv, OneWriter
<1>6. TmpIsMine'
  BY <1>4 DEF InstallInv, TmpIsMine
<1>7. DocumentIsFresh'
  BY DEF InstallInv, DocumentIsFresh
<1> QED
  BY <1>1, <1>2, <1>3, <1>5, <1>6, <1>7 DEF InstallInv

Ats == {"off", "next", "read", "write", "fill", "rename", "ok", "err"}

LEMMA StepFacts ==
  ASSUME InstallShape, NEW i \in Installs, NEW there \in Ats, Step(i, there)
  PROVE  /\ invocation' \in [Installs -> Invocations]
         /\ invocation'[i].at = there /\ invocation'[i].client = invocation[i].client
         /\ \A j \in Installs \ {i} : invocation'[j] = invocation[j]
  BY DEF InstallShape, Invocations, Step, Ats

LEMMA LeaveFacts ==
  ASSUME InstallShape, NEW i \in Installs, NEW there \in {"ok", "err"}, Leave(i, there)
  PROVE  /\ invocation' \in [Installs -> Invocations] /\ document' \in [Installs -> Files]
         /\ invocation'[i].at = there
         /\ \A j \in Installs \ {i} : invocation'[j] = invocation[j] /\ document'[j] = document[j]
<1>1. [Idle EXCEPT !.at = there] \in Invocations /\ [Idle EXCEPT !.at = there].at = there
  BY DEF Idle, Invocations
<1>2. /\ invocation' = [invocation EXCEPT ![i] = [Idle EXCEPT !.at = there]]
      /\ document' = [document EXCEPT ![i] = Absent]
  BY DEF Leave
<1> DEFINE x == [Idle EXCEPT !.at = there]
<1>3. invocation' = [invocation EXCEPT ![i] = x] /\ x \in Invocations /\ x.at = there
  BY <1>1, <1>2
<1> HIDE DEF x
<1> QED
  BY <1>2, <1>3, FormsOfFiles DEF InstallShape

LEMMA LeaveKeepsInstallInv ==
  ASSUME InstallInv, NEW i \in Installs, NEW there \in {"ok", "err"}, Leave(i, there),
         UNCHANGED <<config, tmpFile, present, mixed>>, raced' \subseteq raced,
         \A j \in Installs \ {i}, c \in Clients : <<j, c>> \in raced => <<j, c>> \in raced'
  PROVE  InstallInv'
<1>1. InstallShape
  BY DEF InstallInv
<1>2. /\ invocation' \in [Installs -> Invocations] /\ document' \in [Installs -> Files]
      /\ invocation'[i].at \in {"ok", "err"}
      /\ \A j \in Installs \ {i} : invocation'[j] = invocation[j] /\ document'[j] = document[j]
  BY <1>1, LeaveFacts
<1> QED
  BY <1>2, RestKeepsInstallInv

LEMMA StartKeepsInstallInv ==
  ASSUME InstallInv, NEW i \in Installs, StartInstall(i)
  PROVE  InstallInv'
<1>1. PICK entry \in Entries, todo \in SUBSET Clients :
        invocation' = [invocation EXCEPT ![i] = [at |-> "next", client |-> NoClient, todo |-> todo, entry |-> entry]]
  <2>1. \A local : Detected(local) \in SUBSET Clients
    BY DEF Detected
  <2> QED
    BY <2>1 DEF StartInstall
<1>2. [at |-> "next", client |-> NoClient, todo |-> todo, entry |-> entry] \in Invocations
  BY DEF Invocations
<1>3. UNCHANGED <<config, tmpFile, present, document, raced, mixed>>
  BY DEF StartInstall
<1>4. /\ invocation' \in [Installs -> Invocations] /\ invocation'[i].at = "next"
      /\ \A j \in Installs \ {i} : invocation'[j] = invocation[j]
  BY <1>1, <1>2 DEF InstallInv, InstallShape
<1> QED
  BY <1>3, <1>4, RestKeepsInstallInv DEF InstallInv, InstallShape

LEMMA NextClientKeepsInstallInv ==
  ASSUME InstallInv, NEW i \in Installs, NextClient(i)
  PROVE  InstallInv'
<1>1. /\ UNCHANGED <<config, tmpFile, present, mixed>> /\ raced' \subseteq raced
      /\ \A j \in Installs \ {i}, c \in Clients : <<j, c>> \in raced => <<j, c>> \in raced'
  BY DEF NextClient
<1>2. CASE invocation[i].todo = {}
  BY <1>1, <1>2, LeaveKeepsInstallInv DEF NextClient
<1>3. CASE invocation[i].todo # {}
  <2> DEFINE c == CHOOSE d \in invocation[i].todo : TRUE
  <2>1. /\ invocation' = [invocation EXCEPT ![i].at = "read", ![i].client = c, ![i].todo = @ \ {c}]
        /\ document' = [document EXCEPT ![i] = Absent]
    BY <1>3 DEF NextClient
  <2>2. invocation[i] \in Invocations /\ invocation \in [Installs -> Invocations]
    BY DEF InstallInv, InstallShape
  <2>3. c \in Clients
    BY <1>3, <2>2 DEF Invocations
  <2> HIDE DEF c
  <2>4. /\ invocation' \in [Installs -> Invocations]
        /\ invocation'[i].at = "read" /\ invocation'[i].client = c
        /\ \A j \in Installs \ {i} : invocation'[j] = invocation[j]
    BY <2>1, <2>2, <2>3 DEF Invocations
  <2>5. /\ document' \in [Installs -> Files]
        /\ \A j \in Installs \ {i} : document'[j] = document[j]
    BY <2>1, FormsOfFiles DEF InstallInv, InstallShape
  <2> QED
    BY <1>1, <2>3, <2>4, <2>5, RestKeepsInstallInv
<1> QED
  BY <1>2, <1>3

(* A configuration that parses becomes the document, whole like it and     *)
(* with the servers of the others.                                         *)
LEMMA ReadKeepsInstallInv ==
  ASSUME InstallInv, NEW i \in Installs, ReadConfig(i)
  PROVE  InstallInv'
<1> DEFINE c == invocation[i].client
<1>1. /\ InstallShape /\ invocation[i].at = "read" /\ c \in Clients /\ UNCHANGED <<config, tmpFile, present, raced, mixed>>
      /\ invocation[i] \in Invocations /\ config[c] \in Files
  BY DEF InstallInv, InstallShape, KnowsItsClient, AtClient, ReadConfig
<1>2. CASE Leave(i, "err")
  BY <1>1, <1>2, LeaveKeepsInstallInv
<1>3. CASE ~ Leave(i, "err")
  <2> DEFINE read == [config[c] EXCEPT !.exists = TRUE, !.monad = invocation[i].entry]
             there == IF config[c].monad = invocation[i].entry THEN "next" ELSE "write"
  <2>1. config[c].whole /\ Step(i, there) /\ document' = [document EXCEPT ![i] = read]
    BY <1>3 DEF ReadConfig
  <2>2. read \in Files /\ read.whole /\ read.exists /\ read.foreign = config[c].foreign
    BY <1>1, <2>1, EditsOfFiles DEF Invocations
  <2>3. there \in {"next", "write"}
    OBVIOUS
  <2> HIDE DEF read, there
  <2>4. /\ invocation' \in [Installs -> Invocations]
        /\ invocation'[i].at = there /\ invocation'[i].client = c
        /\ \A j \in Installs \ {i} : invocation'[j] = invocation[j]
    BY <1>1, <2>1, <2>3, StepFacts DEF Ats
  <2>5. /\ document' \in [Installs -> Files] /\ document'[i] = read
        /\ \A j \in Installs \ {i} : document'[j] = document[j]
    BY <1>1, <2>1, <2>2 DEF InstallShape
  <2> HIDE DEF c
  <2>6. InstallShape' /\ FilesAreWhole'
    BY <1>1, <2>4, <2>5 DEF InstallInv, InstallShape, FilesAreWhole
  <2>7. KnowsItsClient'
    BY <1>1, <2>3, <2>4 DEF InstallInv, KnowsItsClient, AtClient
  <2>8. DocumentsAreWhole'
    BY <2>2, <2>4, <2>5 DEF InstallInv, DocumentsAreWhole
  <2>9. \A j \in Installs, d \in Clients : Writes(j, d)' => j # i /\ Writes(j, d)
    BY <2>3, <2>4 DEF Writes
  <2>10. OneWriter' /\ TmpIsMine'
    BY <1>1, <2>4, <2>5, <2>9 DEF InstallInv, OneWriter, TmpIsMine
  <2>11. DocumentIsFresh'
    BY <1>1, <2>2, <2>4, <2>5 DEF InstallInv, DocumentIsFresh
  <2> QED
    BY <2>6, <2>7, <2>8, <2>10, <2>11 DEF InstallInv
<1> QED
  BY <1>2, <1>3

(* The temporary file is truncated: alone, or it is mixed from now on. *)
LEMMA BeginKeepsInstallInv ==
  ASSUME InstallInv, NEW i \in Installs, BeginWrite(i)
  PROVE  InstallInv'
<1> DEFINE c == invocation[i].client
<1>1. /\ InstallShape /\ invocation[i].at = "write" /\ c \in Clients
      /\ UNCHANGED <<config, present, document, raced>>
      /\ tmpFile' = [tmpFile EXCEPT ![c] = Torn] /\ Step(i, "fill")
      /\ mixed' = IF \E j \in Others(i) : invocation[j].client = c /\ invocation[j].at \in {"fill", "rename"}
                  THEN mixed \cup {c} ELSE mixed
  BY DEF InstallInv, KnowsItsClient, AtClient, BeginWrite
<1>2. /\ invocation' \in [Installs -> Invocations]
      /\ invocation'[i].at = "fill" /\ invocation'[i].client = c
      /\ \A j \in Installs \ {i} : invocation'[j] = invocation[j]
  BY <1>1, StepFacts DEF Ats
<1> HIDE DEF c
<1>3. /\ tmpFile' \in [Clients -> Files] /\ tmpFile'[c].exists
      /\ \A d \in Clients \ {c} : tmpFile'[d] = tmpFile[d]
  BY <1>1, FormsOfFiles DEF InstallShape
<1>4. /\ mixed \subseteq mixed' /\ mixed' \subseteq Clients
      /\ c \notin mixed' => \A j \in Installs \ {i} : ~ Writes(j, c)
  BY <1>1 DEF InstallShape, Writes, Others
<1>5. InstallShape' /\ FilesAreWhole'
  BY <1>1, <1>2, <1>3, <1>4 DEF InstallInv, InstallShape, FilesAreWhole
<1>6. KnowsItsClient'
  BY <1>1, <1>2 DEF InstallInv, KnowsItsClient, AtClient
<1>7. DocumentsAreWhole'
  BY <1>1, <1>2 DEF InstallInv, DocumentsAreWhole
<1>8. \A j \in Installs, d \in Clients : Writes(j, d)' <=> (j = i /\ d = c) \/ (j # i /\ Writes(j, d))
  BY <1>2 DEF Writes
<1>9. OneWriter'
  BY <1>4, <1>8 DEF InstallInv, OneWriter
<1>10. TmpIsMine'
  <2> SUFFICES ASSUME NEW j \in Installs, NEW d \in Clients \ mixed', Writes(j, d)'
               PROVE  IF invocation'[j].at = "fill" THEN tmpFile'[d].exists ELSE tmpFile'[d] = document[j]
    BY <1>1 DEF TmpIsMine
  <2>1. CASE j = i
    BY <1>2, <1>3, <1>8, <2>1
  <2>2. CASE j # i
    <3>1. d # c /\ Writes(j, d) /\ d \notin mixed
      BY <1>4, <1>8, <2>2
    <3> QED
      BY <1>2, <1>3, <2>2, <3>1 DEF InstallInv, TmpIsMine
  <2> QED
    BY <2>1, <2>2
<1>11. DocumentIsFresh'
  BY <1>1, <1>2, <1>4 DEF InstallInv, DocumentIsFresh, c
<1> QED
  BY <1>5, <1>6, <1>7, <1>9, <1>10, <1>11 DEF InstallInv

(* It is filled; gone, it would be the file itself, but then it is mixed. *)
LEMMA FillKeepsInstallInv ==
  ASSUME InstallInv, NEW i \in Installs, FillTmp(i)
  PROVE  InstallInv'
<1> DEFINE c == invocation[i].client
<1>1. /\ InstallShape /\ invocation[i].at = "fill" /\ c \in Clients
      /\ UNCHANGED <<present, document, raced, mixed>> /\ Step(i, "rename")
      /\ \/ tmpFile' = [tmpFile EXCEPT ![c] = document[i]] /\ UNCHANGED config
         \/ c \in mixed /\ config' = [config EXCEPT ![c] = document[i]] /\ UNCHANGED tmpFile
  BY DEF InstallInv, KnowsItsClient, AtClient, FillTmp, TmpIsMine, Writes
<1>2. /\ invocation' \in [Installs -> Invocations]
      /\ invocation'[i].at = "rename" /\ invocation'[i].client = c
      /\ \A j \in Installs \ {i} : invocation'[j] = invocation[j]
  BY <1>1, StepFacts DEF Ats
<1> HIDE DEF c
<1>3. document[i] \in Files
  BY <1>1 DEF InstallShape
<1>4. /\ tmpFile' \in [Clients -> Files] /\ config' \in [Clients -> Files]
      /\ \A d \in Clients \ {c} : tmpFile'[d] = tmpFile[d] /\ config'[d] = config[d]
      /\ c \notin mixed => tmpFile'[c] = document[i] /\ config'[c] = config[c]
  BY <1>1, <1>3 DEF InstallShape
<1>5. InstallShape'
  BY <1>1, <1>2, <1>4 DEF InstallShape
<1>6. FilesAreWhole'
  BY <1>1, <1>4 DEF InstallInv, FilesAreWhole
<1>7. KnowsItsClient'
  BY <1>1, <1>2 DEF InstallInv, KnowsItsClient, AtClient
<1>8. DocumentsAreWhole'
  BY <1>1, <1>2 DEF InstallInv, DocumentsAreWhole
<1>9. \A j \in Installs, d \in Clients : Writes(j, d)' <=> Writes(j, d)
  BY <1>1, <1>2 DEF Writes, c
<1>10. OneWriter'
  BY <1>1, <1>9 DEF InstallInv, OneWriter
<1>11. TmpIsMine'
  <2> SUFFICES ASSUME NEW j \in Installs, NEW d \in Clients \ mixed, Writes(j, d)
               PROVE  IF invocation'[j].at = "fill" THEN tmpFile'[d].exists ELSE tmpFile'[d] = document[j]
    BY <1>1, <1>9 DEF TmpIsMine
  <2>1. CASE d = c
    <3>1. j = i
      BY <1>1, <2>1 DEF InstallInv, OneWriter, Writes, c
    <3> QED
      BY <1>2, <1>4, <2>1, <3>1
  <2>2. CASE d # c
    <3>1. j # i
      BY <2>2 DEF Writes, c
    <3> QED
      BY <1>2, <1>4, <2>2, <3>1 DEF InstallInv, TmpIsMine
  <2> QED
    BY <2>1, <2>2
<1>12. DocumentIsFresh'
  BY <1>1, <1>2, <1>4 DEF InstallInv, DocumentIsFresh, c
<1> QED
  BY <1>5, <1>6, <1>7, <1>8, <1>10, <1>11, <1>12 DEF InstallInv

(* The rename puts the document there, or something mixed.  Whoever else   *)
(* is at this client has been raced.                                       *)
LEMMA RenameKeepsInstallInv ==
  ASSUME InstallInv, NEW i \in Installs, RenameTmp(i)
  PROVE  InstallInv'
<1> DEFINE c == invocation[i].client
<1>1. /\ InstallShape /\ invocation[i].at = "rename" /\ c \in Clients /\ UNCHANGED <<present, mixed>>
  BY DEF InstallInv, KnowsItsClient, AtClient, RenameTmp
<1>2. CASE ~ tmpFile[c].exists
  <2>1. Leave(i, "err") /\ UNCHANGED <<config, tmpFile, raced>>
    BY <1>2 DEF RenameTmp
  <2> QED
    BY <1>1, <2>1, LeaveKeepsInstallInv
<1>3. CASE tmpFile[c].exists
  <2>1. /\ config' = [config EXCEPT ![c] = tmpFile[c]]
        /\ tmpFile' = [tmpFile EXCEPT ![c] = Absent]
        /\ raced' = raced \cup {<<j, c>> : j \in {k \in Others(i) : invocation[k].client = c}}
        /\ Step(i, "next") /\ UNCHANGED document
    BY <1>3 DEF RenameTmp
  <2>2. /\ invocation' \in [Installs -> Invocations]
        /\ invocation'[i].at = "next" /\ invocation'[i].client = c
        /\ \A j \in Installs \ {i} : invocation'[j] = invocation[j]
    BY <1>1, <2>1, StepFacts DEF Ats
  <2>3. Writes(i, c) /\ (c \notin mixed => tmpFile[c] = document[i])
    BY <1>1 DEF InstallInv, TmpIsMine, Writes
  <2>4. document[i].whole
    BY <1>1 DEF InstallInv, DocumentsAreWhole
  <2> HIDE DEF c
  <2>5. /\ config' \in [Clients -> Files] /\ tmpFile' \in [Clients -> Files]
        /\ config'[c] = tmpFile[c]
        /\ \A d \in Clients \ {c} : tmpFile'[d] = tmpFile[d] /\ config'[d] = config[d]
    BY <1>1, <2>1, FormsOfFiles DEF InstallShape
  <2>6. /\ raced \subseteq raced' /\ raced' \subseteq Installs \X Clients
        /\ \A j \in Installs \ {i} : invocation[j].client = c => <<j, c>> \in raced'
    BY <1>1, <2>1 DEF InstallShape, Others
  <2>7. InstallShape'
    BY <1>1, <2>1, <2>2, <2>5, <2>6 DEF InstallShape
  <2>8. FilesAreWhole'
    BY <1>1, <2>3, <2>4, <2>5 DEF InstallInv, FilesAreWhole
  <2>9. KnowsItsClient'
    BY <2>2 DEF InstallInv, KnowsItsClient, AtClient
  <2>10. DocumentsAreWhole'
    BY <2>1, <2>2 DEF InstallInv, DocumentsAreWhole
  <2>11. \A j \in Installs, d \in Clients : Writes(j, d)' => j # i /\ Writes(j, d)
    BY <2>2 DEF Writes
  <2>12. OneWriter'
    BY <1>1, <2>11 DEF InstallInv, OneWriter
  <2>13. TmpIsMine'
    <3> SUFFICES ASSUME NEW j \in Installs, NEW d \in Clients \ mixed, Writes(j, d)'
                 PROVE  IF invocation'[j].at = "fill" THEN tmpFile'[d].exists ELSE tmpFile'[d] = document[j]
      BY <1>1, <2>1 DEF TmpIsMine
    <3>1. j # i /\ Writes(j, d)
      BY <2>11
    <3>2. d # c
      BY <2>3, <3>1 DEF InstallInv, OneWriter
    <3> QED
      BY <2>2, <2>5, <3>1, <3>2 DEF InstallInv, TmpIsMine
  <2>14. DocumentIsFresh'
    BY <1>1, <2>1, <2>2, <2>5, <2>6 DEF InstallInv, DocumentIsFresh
  <2> QED
    BY <2>7, <2>8, <2>9, <2>10, <2>12, <2>13, <2>14 DEF InstallInv
<1> QED
  BY <1>2, <1>3

(* A client edits its own file whole, and races who is at it. *)
LEMMA ClientWritesKeepsInstallInv ==
  ASSUME InstallInv, NEW c \in Clients, ClientWrites(c)
  PROVE  InstallInv'
<1>1. PICK f \in SUBSET Foreign : config' = [config EXCEPT ![c] = [config[c] EXCEPT !.exists = TRUE, !.foreign = f]]
  BY DEF ClientWrites
<1>2. /\ config[c].whole /\ UNCHANGED <<tmpFile, present, invocation, document, mixed>>
      /\ raced' = raced \cup {<<i, c>> : i \in {j \in Installs : invocation[j].client = c}}
  BY DEF ClientWrites
<1>3. /\ config' \in [Clients -> Files] /\ config'[c].whole
      /\ \A d \in Clients \ {c} : config'[d] = config[d]
  <2> DEFINE x == [config[c] EXCEPT !.exists = TRUE, !.foreign = f]
  <2>1. config[c] \in Files /\ config \in [Clients -> Files]
    BY DEF InstallInv, InstallShape
  <2>2. x \in Files /\ x.whole = config[c].whole
    BY <2>1 DEF Files
  <2> HIDE DEF x
  <2>3. config' = [config EXCEPT ![c] = x]
    BY <1>1 DEF x
  <2> QED
    BY <1>2, <2>1, <2>2, <2>3
<1>4. /\ raced \subseteq raced' /\ raced' \subseteq Installs \X Clients
      /\ \A j \in Installs : invocation[j].client = c => <<j, c>> \in raced'
  BY <1>2 DEF InstallInv, InstallShape
<1>5. InstallShape' /\ KnowsItsClient' /\ DocumentsAreWhole' /\ OneWriter' /\ TmpIsMine'
  BY <1>2, <1>3, <1>4 DEF InstallInv, InstallShape, KnowsItsClient, AtClient, DocumentsAreWhole, OneWriter,
                          TmpIsMine, Writes
<1>6. DocumentIsFresh'
  BY <1>2, <1>3, <1>4 DEF InstallInv, DocumentIsFresh
<1>7. FilesAreWhole'
  BY <1>2, <1>3 DEF InstallInv, FilesAreWhole
<1> QED
  BY <1>5, <1>6, <1>7 DEF InstallInv

LEMMA InstallStep ==
  ASSUME InstallInv, [InstallNext]_installVars
  PROVE  InstallInv'
<1>1. ASSUME NEW i \in Installs, StartInstall(i) \/ NextClient(i) \/ ReadConfig(i) PROVE InstallInv'
  BY <1>1, StartKeepsInstallInv, NextClientKeepsInstallInv, ReadKeepsInstallInv
<1>2. ASSUME NEW i \in Installs, BeginWrite(i) \/ FillTmp(i) \/ RenameTmp(i) PROVE InstallInv'
  BY <1>2, BeginKeepsInstallInv, FillKeepsInstallInv, RenameKeepsInstallInv
<1>3. ASSUME NEW i \in Installs, KillInstall(i) PROVE InstallInv'
  <2>1. Leave(i, "err") /\ UNCHANGED <<config, tmpFile, present, raced, mixed>>
    BY <1>3 DEF KillInstall
  <2> QED
    BY <2>1, LeaveKeepsInstallInv
<1>4. ASSUME NEW c \in Clients, ClientWrites(c) PROVE InstallInv'
  BY <1>4, ClientWritesKeepsInstallInv
<1>5. CASE UNCHANGED installVars
  BY <1>5 DEF installVars, InstallInv, InstallShape, KnowsItsClient, AtClient, DocumentsAreWhole, OneWriter,
              TmpIsMine, DocumentIsFresh, FilesAreWhole, Writes
<1> QED
  BY <1>1, <1>2, <1>3, <1>4, <1>5 DEF InstallNext

(* write_text_atomic, install_one: for any number of invocations, clients  *)
(* and servers, a configuration is whole at every moment and keeps what is *)
(* not monad's, as far as nobody races the install for it.                 *)
THEOREM InstallsAreClean == InstallSpec => []InstallIsClean
<1>1. InstallInv => InstallIsClean
  BY DEF InstallInv, FilesAreWhole, TmpIsMine, DocumentIsFresh, InstallIsClean, Writes
<1> QED
  BY InstallBegins, InstallStep, <1>1, PTL DEF InstallSpec
-----------------------------------------------------------------------------
(***************************************************************************)
(* What is announced of a deploy.  Whatever is on disk, in the hands of    *)
(* the teller or posted is a payload that a deploy has made, and one that  *)
(* did not run names no issue but by its name and its unit's.              *)
(***************************************************************************)
AnnounceShape == unsent \in Seq(Payloads) /\ earned \subseteq Payloads

RunsNameIssues(p) == p.outcome = "deploy_unchanged" => p.issues \subseteq NamedIssues[p.task]

OnlyRunsNameIssues == \A p \in earned : RunsNameIssues(p)

UnsentAreEarned   == \A n \in DOMAIN unsent : unsent[n] \in earned
SidecarsAreEarned == \A t \in DeployTasks : sidecars[t].kind = "payload" => sidecars[t].payload \in earned

AnnounceInv ==
  AnnounceShape /\ OnlyRunsNameIssues /\ UnsentAreEarned /\ SidecarsAreEarned /\ OnlyDeploysAreTold

LEMMA AnnounceBegins == AnnounceInit => AnnounceInv
<1> SUFFICES ASSUME AnnounceInit PROVE AnnounceInv
  OBVIOUS
<1>1. \A t \in DeployTasks : sidecars[t].kind = "none"
  BY DEF AnnounceInit, NoFile
<1>2. unsent = <<>> /\ earned = {} /\ posted = {} /\ moved = {}
  BY DEF AnnounceInit
<1> QED
  BY <1>1, <1>2 DEF AnnounceInv, AnnounceShape, OnlyRunsNameIssues, UnsentAreEarned, SidecarsAreEarned,
                    OnlyDeploysAreTold

(* SetToSeq lists a finite set. *)
LEMMA SetAsList ==
  ASSUME NEW S, IsFiniteSet(S)
  PROVE  Cardinality(S) \in Nat /\ SetToSeq(S) \in [1..Cardinality(S) -> S]
<1>1. Cardinality(S) \in Nat /\ ExistsBijection(1..Cardinality(S), S)
  BY FS_CardinalityType
<1>2. \E f \in [1..Cardinality(S) -> S] : IsInjective(f)
  BY <1>1 DEF ExistsBijection, Bijection, Injection
<1> QED
  BY <1>1, <1>2 DEF SetToSeq

(* A payload is of its task and outcome; it names an issue only of a run. *)
LEMMA PayloadForm ==
  ASSUME NEW task \in DeployTasks, NEW outcome \in Outcomes, NEW output \in SUBSET Issues
  PROVE  LET p == Payload(task, outcome, output) IN p \in Payloads /\ RunsNameIssues(p)
<1> DEFINE p == Payload(task, outcome, output)
<1>1. NamedIssues[task] \subseteq Issues
  BY AnnounceAssumption
<1>2. /\ p.task = task /\ p.outcome = outcome
      /\ p.issues = NamedIssues[task] \cup (IF outcome = "deploy_unchanged" THEN {} ELSE output)
  BY DEF Payload
<1>3. p.issues \in SUBSET Issues
  BY <1>1, <1>2
<1>4. p \in Payloads
  BY <1>2, <1>3 DEF Payload, Payloads
<1> QED
  BY <1>2, <1>4 DEF RunsNameIssues

(* What was earned stays earned, and what it allows to be told. *)
LEMMA EarningKeepsTold ==
  ASSUME OnlyDeploysAreTold, earned \subseteq earned', UNCHANGED <<posted, moved>>
  PROVE  OnlyDeploysAreTold'
<1>1. posted' \subseteq earned'
  BY DEF OnlyDeploysAreTold
<1>2. \A x \in moved' : \E p \in earned' :
        /\ x \in p.issues /\ p.outcome # "failed"
        /\ p.outcome = "built" \/ x \in NamedIssues[p.task]
  BY DEF OnlyDeploysAreTold
<1> QED
  BY <1>1, <1>2 DEF OnlyDeploysAreTold

LEMMA DeployKeepsAnnounceInv ==
  ASSUME AnnounceInv, DeployEnds
  PROVE  AnnounceInv'
<1>1. PICK T \in (SUBSET DeployTasks) \ {{}} :
        \E out \in [DOMAIN SetToSeq(T) -> Outcomes], output \in [DOMAIN SetToSeq(T) -> SUBSET Issues] :
          unsent' = [n \in DOMAIN SetToSeq(T) |-> Payload(SetToSeq(T)[n], out[n], output[n])]
  BY DEF DeployEnds
<1> DEFINE rows == SetToSeq(T)
           k == Cardinality(T)
<1>2. IsFiniteSet(T)
  BY AnnounceAssumption, FS_Subset
<1>3. k \in Nat /\ rows \in [1..k -> T]
  BY <1>2, SetAsList
<1>4. PICK out \in [DOMAIN rows -> Outcomes], output \in [DOMAIN rows -> SUBSET Issues] :
        unsent' = [n \in DOMAIN rows |-> Payload(rows[n], out[n], output[n])]
  BY <1>1
<1> HIDE DEF rows, k
<1>5. \A n \in 1..k : unsent'[n] \in Payloads /\ RunsNameIssues(unsent'[n])
  <2> TAKE n \in 1..k
  <2>1. /\ rows[n] \in DeployTasks /\ out[n] \in Outcomes
        /\ output[n] \in SUBSET Issues /\ unsent'[n] = Payload(rows[n], out[n], output[n])
    BY <1>3, <1>4
  <2> QED
    BY <2>1, PayloadForm
<1>6. unsent' \in [1..k -> Payloads]
  <2>1. unsent' = [n \in 1..k |-> Payload(rows[n], out[n], output[n])]
    BY <1>3, <1>4
  <2>2. \A n \in 1..k : Payload(rows[n], out[n], output[n]) \in Payloads
    BY <1>5, <2>1
  <2> QED
    BY <2>1, <2>2
<1>7. unsent' \in Seq(Payloads) /\ DOMAIN unsent' = 1..k
  BY <1>3, <1>6
<1>8. earned' = earned \cup {unsent'[n] : n \in 1..k} /\ UNCHANGED <<sidecars, moved, posted>>
  BY <1>7 DEF DeployEnds, ToSet
<1>9. AnnounceShape'
  BY <1>5, <1>7, <1>8 DEF AnnounceInv, AnnounceShape
<1>10. OnlyRunsNameIssues'
  BY <1>5, <1>8 DEF AnnounceInv, OnlyRunsNameIssues
<1>11. UnsentAreEarned' /\ SidecarsAreEarned'
  BY <1>7, <1>8 DEF AnnounceInv, UnsentAreEarned, SidecarsAreEarned
<1>12. OnlyDeploysAreTold'
  BY <1>8, EarningKeepsTold DEF AnnounceInv
<1> QED
  BY <1>9, <1>10, <1>11, <1>12 DEF AnnounceInv

LEMMA WriteKeepsAnnounceInv ==
  ASSUME AnnounceInv, NEW t \in DeployTasks, TruncateSidecar(t) \/ WriteSidecar(t)
  PROVE  AnnounceInv'
<1>1. UNCHANGED <<unsent, earned, posted, moved>>
  BY DEF TruncateSidecar, WriteSidecar
<1>2. \A u \in DeployTasks : sidecars'[u].kind = "payload" => sidecars'[u].payload \in earned
  <2> TAKE u \in DeployTasks
  <2>1. CASE TruncateSidecar(t)
    <3>1. sidecars' = [sidecars EXCEPT ![t] = TornFile] /\ TornFile.kind = "torn"
      BY <2>1 DEF TruncateSidecar, TornFile
    <3> QED
      BY <3>1 DEF AnnounceInv, SidecarsAreEarned
  <2>2. CASE WriteSidecar(t)
    <3>1. sidecars' = [sidecars EXCEPT ![t] = File(Mine(t))] /\ File(Mine(t)).payload = Mine(t)
      BY <2>2 DEF WriteSidecar, File
    <3>2. \E n \in DOMAIN unsent : unsent[n].task = t
      BY <2>2 DEF WriteSidecar, ToWrite
    <3>3. Mine(t) \in earned
      BY <3>2 DEF Mine, AnnounceInv, UnsentAreEarned
    <3> QED
      BY <3>1, <3>3 DEF AnnounceInv, SidecarsAreEarned
  <2> QED
    BY <2>1, <2>2
<1> QED
  BY <1>1, <1>2 DEF AnnounceInv, AnnounceShape, OnlyRunsNameIssues, UnsentAreEarned, SidecarsAreEarned,
                    OnlyDeploysAreTold

(* The replay reads what some deploy has written. *)
LEMMA ReplayKeepsAnnounceInv ==
  ASSUME AnnounceInv, ReplaySidecars
  PROVE  AnnounceInv'
<1> DEFINE list == SetToSeq(Readable)
           k == Cardinality(Readable)
<1>1. IsFiniteSet(Readable)
  BY AnnounceAssumption, FS_Subset DEF Readable
<1>2. k \in Nat /\ list \in [1..k -> Readable]
  BY <1>1, SetAsList
<1>3. unsent' = [n \in DOMAIN list |-> sidecars[list[n]].payload] /\ UNCHANGED <<sidecars, moved, posted, earned>>
  BY DEF ReplaySidecars
<1> HIDE DEF list, k
<1>4. \A n \in 1..k : sidecars[list[n]].payload \in earned
  BY <1>2 DEF Readable, AnnounceInv, SidecarsAreEarned
<1>5. unsent' \in [1..k -> earned]
  BY <1>2, <1>3, <1>4
<1>6. unsent' \in Seq(Payloads) /\ DOMAIN unsent' = 1..k /\ \A n \in 1..k : unsent'[n] \in earned
  BY <1>2, <1>5 DEF AnnounceInv, AnnounceShape
<1> QED
  BY <1>3, <1>6 DEF AnnounceInv, AnnounceShape, OnlyRunsNameIssues, UnsentAreEarned, SidecarsAreEarned,
                    OnlyDeploysAreTold

(* The commands are given the first payload, which a deploy has made; only *)
(* a run that did not fail moves its issues.                               *)
LEMMA TellKeepsAnnounceInv ==
  ASSUME AnnounceInv, SlackPost \/ LinearComment \/ LinearMove
  PROVE  AnnounceInv'
<1> DEFINE p == Head(unsent)
<1>1. UNCHANGED <<sidecars, unsent, earned>> /\ unsent # <<>>
  BY DEF SlackPost, LinearComment, LinearMove
<1>2. p \in earned
  <2>1. p = unsent[1] /\ 1 \in DOMAIN unsent
    BY <1>1 DEF AnnounceInv, AnnounceShape
  <2> QED
    BY <2>1 DEF AnnounceInv, UnsentAreEarned
<1>3. posted' \subseteq posted \cup {p} /\ moved' \subseteq moved \cup Targets(p)
  <2>1. CASE SlackPost
    BY <2>1 DEF SlackPost
  <2>2. CASE LinearComment
    BY <2>2 DEF LinearComment
  <2>3. CASE LinearMove
    BY <2>3 DEF LinearMove
  <2> QED
    BY <2>1, <2>2, <2>3
<1>4. \A x \in Targets(p) :
        /\ x \in p.issues /\ p.outcome # "failed"
        /\ p.outcome = "built" \/ x \in NamedIssues[p.task]
  <2>1. p.outcome = "failed" => Targets(p) = {}
    BY DEF Targets
  <2>2. p.outcome # "failed" => Targets(p) = p.issues
    BY DEF Targets
  <2>3. p.outcome \in Outcomes /\ RunsNameIssues(p)
    BY <1>2 DEF AnnounceInv, AnnounceShape, Payloads, OnlyRunsNameIssues
  <2> HIDE DEF p
  <2> QED
    BY <2>1, <2>2, <2>3 DEF Outcomes, RunsNameIssues
<1> HIDE DEF p
<1>5. \A x \in moved' : \E q \in earned :
        /\ x \in q.issues /\ q.outcome # "failed"
        /\ q.outcome = "built" \/ x \in NamedIssues[q.task]
  BY <1>2, <1>3, <1>4 DEF AnnounceInv, OnlyDeploysAreTold
<1>6. OnlyDeploysAreTold'
  BY <1>1, <1>2, <1>3, <1>5 DEF AnnounceInv, OnlyDeploysAreTold
<1> QED
  BY <1>1, <1>6 DEF AnnounceInv, AnnounceShape, OnlyRunsNameIssues, UnsentAreEarned, SidecarsAreEarned

LEMMA AnnounceStep ==
  ASSUME AnnounceInv, [AnnounceNext]_announceVars
  PROVE  AnnounceInv'
<1>1. CASE DeployEnds
  BY <1>1, DeployKeepsAnnounceInv
<1>2. ASSUME NEW t \in DeployTasks, TruncateSidecar(t) \/ WriteSidecar(t) PROVE AnnounceInv'
  BY <1>2, WriteKeepsAnnounceInv
<1>3. CASE ReplaySidecars
  BY <1>3, ReplayKeepsAnnounceInv
<1>4. CASE SlackPost \/ LinearComment \/ LinearMove
  BY <1>4, TellKeepsAnnounceInv
<1>5. CASE FanOutOrStop \/ KillTeller \/ NextPayload \/ Reopen \/ UNCHANGED announceVars
  <2>1. UNCHANGED <<sidecars, posted, earned>> /\ moved' \subseteq moved
    BY <1>5 DEF FanOutOrStop, KillTeller, NextPayload, Reopen, announceVars
  <2>2. unsent' = unsent \/ unsent' = <<>> \/ (unsent # <<>> /\ unsent' = Tail(unsent))
    BY <1>5 DEF FanOutOrStop, KillTeller, NextPayload, Reopen, announceVars
  <2>3. unsent' \in Seq(Payloads) /\ \A n \in DOMAIN unsent' : unsent'[n] \in earned
    <3>1. CASE unsent' = unsent
      BY <3>1 DEF AnnounceInv, AnnounceShape, UnsentAreEarned
    <3>2. CASE unsent' = <<>>
      BY <3>2
    <3>3. CASE unsent # <<>> /\ unsent' = Tail(unsent)
      <4> DEFINE rest == Tail(unsent)
      <4>1. unsent \in Seq(Payloads)
        BY DEF AnnounceInv, AnnounceShape
      <4>2. /\ rest \in Seq(Payloads) /\ Len(rest) = Len(unsent) - 1
            /\ \A n \in 1..Len(rest) : rest[n] = unsent[n + 1]
        BY <3>3, <4>1, HeadTailProperties
      <4>3. unsent' = rest
        BY <3>3
      <4> HIDE DEF rest
      <4>4. DOMAIN rest = 1..Len(rest) /\ Len(unsent) \in Nat /\ DOMAIN unsent = 1..Len(unsent)
        BY <4>1, <4>2
      <4>5. \A n \in DOMAIN rest : n + 1 \in DOMAIN unsent
        BY <4>2, <4>4
      <4> QED
        BY <4>2, <4>3, <4>4, <4>5 DEF AnnounceInv, UnsentAreEarned
    <3> QED
      BY <2>2, <3>1, <3>2, <3>3
  <2> QED
    BY <2>1, <2>3 DEF AnnounceInv, AnnounceShape, OnlyRunsNameIssues, UnsentAreEarned, SidecarsAreEarned,
                      OnlyDeploysAreTold
<1> QED
  BY <1>1, <1>2, <1>3, <1>4, <1>5 DEF AnnounceNext

(* write_notification_sidecar, read_notification_sidecars, slack_post::run *)
(* and linear_notify::run: for any tasks, issues and deploys, through torn *)
(* files, kills and replays, nothing is told that no deploy has earned.    *)
THEOREM DeploysAreTold == AnnounceSpec => []OnlyDeploysAreTold
<1>1. AnnounceInv => OnlyDeploysAreTold
  BY DEF AnnounceInv
<1> QED
  BY AnnounceBegins, AnnounceStep, <1>1, PTL DEF AnnounceSpec
-----------------------------------------------------------------------------
(***************************************************************************)
(* monad deploy and monad secret on a unit.  The environment of a command  *)
(* is the one the preflight looked at; a Railway service with a slug of    *)
(* its own keeps its task until the task has shipped it; and an            *)
(* integration with one target puts its secrets where its deploys go.      *)
(***************************************************************************)
(* Between two invocations nothing is to be run, and none has shipped. *)
OffIsDone == deployStage = "off" => awaited = {} /\ shipped = {}

(* What was shipped is where a task of the unit leads in this invocation. *)
ShippedByTasks == \A spot \in shipped : \E t \in Resolved : spot = Place(t.target, SeenBy(t))

(* A command that ran was let through by the preflight, and saw what the   *)
(* invocation that is still under way makes of its environment.            *)
LastPassedPreflight ==
  last # << >> =>
    deployStage # "off" /\ MissingEnv(last.task) = {} /\ last.sees = SeenBy(last.task)

(* A service whose slug is its own is shipped, or its task is to come, or  *)
(* something failed.                                                       *)
HasItsSlug(n) == \A k \in DOMAIN Services \ {n} : SlugOf[Services[k]] # SlugOf[Services[n]]

ShippedOrAwaited ==
  deployStage # "off" /\ call.kind = "deploy" /\ failures = {} /\ "railway" \in Active =>
    \A n \in DOMAIN Services : HasItsSlug(n) =>
      \/ \E spot \in shipped : spot[1] = RailwayTarget(Services[n])
      \/ deployStage = "tasks" /\ RailwayName(Services[n]) \in awaited

(* What was promised is on the place that secret put addresses, if it is   *)
(* but one.                                                                *)
PromisesAreKept ==
  \A i \in Integrations, n \in SecretNames, shell \in Shells : <<i, n, shell>> \in promised =>
    /\ i \in Candidates
    /\ \A x : SecretTargets(i) = {x} => <<Place(x, shell), n>> \in stored

(* No other task of the unit has the name of a Railway service's, and two  *)
(* services with one name have one slug.                                   *)
RailwayNamesApart ==
  /\ \A n \in DOMAIN Services :
       \A s \in Inline \cup UNION {Emitted(i) : i \in Active \ {"railway"}} :
         s.name # RailwayName(Services[n])
  /\ \A m, n \in DOMAIN Services :
       RailwayName(Services[m]) = RailwayName(Services[n]) => m = n \/ SlugOf[Services[m]] = SlugOf[Services[n]]

DeployInv ==
  /\ unit \in UnitConfigs /\ promised \subseteq Integrations \X SecretNames \X Shells
  /\ OffIsDone /\ LastPassedPreflight /\ ShippedByTasks /\ ShippedOrAwaited /\ PromisesAreKept
  /\ RailwayNamesApart

-----------------------------------------------------------------------------
(* What the unit says stays as it is. *)
LEMMA UnitStays ==
  ASSUME UNCHANGED unit
  PROVE  /\ Active' = Active /\ Services' = Services /\ Resolved' = Resolved /\ Candidates' = Candidates
         /\ \A i : SecretTargets(i)' = SecretTargets(i)
         /\ \A k : Named(k)' = Named(k)
         /\ \A s : RailwayName(s)' = RailwayName(s)
         /\ RailwayNamesApart' = RailwayNamesApart
         /\ \A n : HasItsSlug(n)' = HasItsSlug(n)
<1>1. \A i : BlockOf(i)' = BlockOf(i)
  BY DEF BlockOf, Get
<1>2. Active' = Active
  BY DEF Active, Detects
<1>3. Services' = Services
  BY <1>1 DEF Services, Get
<1>4. \A s : RailwayName(s)' = RailwayName(s)
  BY <1>3 DEF RailwayName
<1>5. HasProject' = HasProject /\ PagesTarget' = PagesTarget /\ WorkerTarget' = WorkerTarget
  BY <1>1 DEF HasProject, PagesTarget, WorkerTarget, Get
<1>6. RailwayTasks' = RailwayTasks
  BY <1>1, <1>3, <1>4 DEF RailwayTasks
<1>7. \A i : DetectedTasks(i)' = DetectedTasks(i)
  BY <1>1, <1>5, <1>6 DEF DetectedTasks, PagesTasks, VercelTasks, SlackEnv, LinearEnv, Get
<1>8. (\A i : Emitted(i)' = Emitted(i)) /\ Inline' = Inline
  BY <1>7 DEF Emitted, Inline
<1>9. Resolved' = Resolved
  BY <1>2, <1>8 DEF Resolved
<1>10. \A i : SecretTargets(i)' = SecretTargets(i)
  BY <1>1, <1>3, <1>5 DEF SecretTargets
<1>11. \A k : Named(k)' = Named(k)
  BY <1>9 DEF Named
<1>12. RailwayNamesApart' = RailwayNamesApart
  BY <1>2, <1>3, <1>4, <1>8 DEF RailwayNamesApart
<1>13. \A n : HasItsSlug(n)' = HasItsSlug(n)
  BY <1>3 DEF HasItsSlug
<1>14. Candidates' = Candidates
  BY <1>2 DEF Candidates
<1> QED
  BY <1>2, <1>3, <1>4, <1>9, <1>10, <1>11, <1>12, <1>13, <1>14

LEMMA CallStays ==
  ASSUME UNCHANGED <<unit, call>>
  PROVE  \A t : MissingEnv(t)' = MissingEnv(t) /\ SeenBy(t)' = SeenBy(t)
<1>1. Aliases' = Aliases
  BY DEF Aliases, Over, Get
<1>2. \A v : Source(v)' = Source(v)
  BY <1>1 DEF Source, Get
<1> QED
  BY <1>2 DEF MissingEnv, SeenBy, Get, InContainer, Over

-----------------------------------------------------------------------------
(* run_once, run_notify_task, build_container_command: what the preflight  *)
(* found is what the command gets.                                         *)
LEMMA PreflightEquips ==
  ASSUME NEW t, MissingEnv(t) = {}
  PROVE  /\ \A v \in t.requires \cap t.env :
              v \in DOMAIN SeenBy(t) /\ SeenBy(t)[v] # "" /\ SeenBy(t)[v] = call.host[Source(v)]
         /\ InContainer => \A v \in DOMAIN SeenBy(t) : v \in t.env /\ SeenBy(t)[v] = call.host[Source(v)]
<1> DEFINE forwarded == [v \in {w \in t.env : Source(w) \in DOMAIN call.host} |-> call.host[Source(v)]]
<1>1. SeenBy(t) = IF InContainer THEN forwarded ELSE Over(forwarded, call.host)
  BY DEF SeenBy
<1>2. \A v \in t.requires \cap t.env : v \in DOMAIN forwarded /\ forwarded[v] # ""
  BY DEF MissingEnv, Get
<1>3. \A v \in DOMAIN forwarded : v \in t.env /\ forwarded[v] = call.host[Source(v)]
  OBVIOUS
<1> HIDE DEF forwarded
<1>4. \A v \in DOMAIN forwarded : v \in DOMAIN SeenBy(t) /\ SeenBy(t)[v] = forwarded[v]
  BY <1>1 DEF Over
<1> QED
  BY <1>1, <1>2, <1>3, <1>4

-----------------------------------------------------------------------------
(* What a task of the unit was, before [tasks.<name>] took its environment. *)
LEMMA FieldsOfTasks ==
  ASSUME NEW t, NEW requires, NEW cli, NEW at, NEW s, s = Demanding(t, requires, cli, at)
  PROVE  /\ s.name = t.name /\ s.kind = t.kind /\ s.target = t.target /\ s.at = at
         /\ \A e : /\ [s EXCEPT !.env = e].name = s.name /\ [s EXCEPT !.env = e].kind = s.kind
                   /\ [s EXCEPT !.env = e].target = s.target
<1>1. s = [name |-> t.name, kind |-> t.kind, env |-> t.env, target |-> t.target,
           requires |-> requires, cli |-> cli, at |-> at]
  BY DEF Demanding
<1>2. s.name = t.name /\ s.kind = t.kind /\ s.target = t.target /\ s.at = at
  BY <1>1
<1>3. ASSUME NEW e
      PROVE  /\ [s EXCEPT !.env = e].name = s.name /\ [s EXCEPT !.env = e].kind = s.kind
             /\ [s EXCEPT !.env = e].target = s.target
  BY <1>1, Zenon
<1> QED
  BY <1>2, <1>3

LEMMA EmittedAre ==
  ASSUME NEW i, NEW s \in Emitted(i)
  PROVE  /\ \E n \in DOMAIN DetectedTasks(i) :
              /\ s.name = DetectedTasks(i)[n].name /\ s.kind = DetectedTasks(i)[n].kind
              /\ s.target = DetectedTasks(i)[n].target /\ s.at = n
         /\ \A e : /\ [s EXCEPT !.env = e].name = s.name /\ [s EXCEPT !.env = e].kind = s.kind
                   /\ [s EXCEPT !.env = e].target = s.target
<1>1. PICK n \in DOMAIN DetectedTasks(i) :
         s = Demanding(DetectedTasks(i)[n], RequiredEnv(i), RequiredCli(i), n)
  BY Zenon DEF Emitted
<1> QED
  BY <1>1, FieldsOfTasks

LEMMA InlineAre ==
  ASSUME NEW s \in Inline
  PROVE  /\ s.kind = "notify" /\ s.target[1] = "inline"
         /\ \A e : /\ [s EXCEPT !.env = e].name = s.name /\ [s EXCEPT !.env = e].kind = s.kind
                   /\ [s EXCEPT !.env = e].target = s.target
<1>1. PICK n \in unit.notifications :
         s = Demanding(Task(n.name, "notify", n.env, <<"inline", n.name>>), n.requires, n.cli, 0)
  BY Zenon DEF Inline
<1>2. /\ Task(n.name, "notify", n.env, <<"inline", n.name>>).kind = "notify"
      /\ Task(n.name, "notify", n.env, <<"inline", n.name>>).target = <<"inline", n.name>>
  BY DEF Task
<1> HIDE DEF Task
<1> QED
  BY <1>1, <1>2, FieldsOfTasks

LEMMA ResolvedAre ==
  ASSUME NEW r \in Resolved
  PROVE  \E s \in Inline \cup UNION {Emitted(i) : i \in Active} :
           r.name = s.name /\ r.kind = s.kind /\ r.target = s.target
<1> DEFINE all  == UNION {Emitted(i) : i \in Active}
           kept == Inline \cup {t \in all : /\ \A s \in Inline : s.name # t.name
                                            /\ \A s \in all : s.name = t.name => s.at <= t.at}
<1>1. PICK s \in kept : r = IF s.name \in DOMAIN unit.overrides
                            THEN [s EXCEPT !.env = unit.overrides[s.name]] ELSE s
  BY Zenon DEF Resolved
<1>2. s \in Inline \cup UNION {Emitted(i) : i \in Active}
  BY <1>1
<1> HIDE DEF kept, all
<1>3. \A e : /\ [s EXCEPT !.env = e].name = s.name /\ [s EXCEPT !.env = e].kind = s.kind
             /\ [s EXCEPT !.env = e].target = s.target
  <2>1. CASE s \in Inline
    BY <2>1, InlineAre
  <2>2. CASE \E i \in Active : s \in Emitted(i)
    BY <2>2, EmittedAre
  <2> QED
    BY <1>2, <2>1, <2>2
<1>4. r.name = s.name /\ r.kind = s.kind /\ r.target = s.target
  BY <1>1, <1>3, Zenon
<1> QED
  BY <1>2, <1>4, Zenon
-----------------------------------------------------------------------------
(* detected_tasks, resolve_tasks: a service with a slug of its own has its *)
(* task, and no other task has that name.                                  *)
LEMMA ServiceHasItsTask ==
  ASSUME unit \in UnitConfigs, RailwayNamesApart, "railway" \in Active,
         NEW n \in DOMAIN Services, HasItsSlug(n)
  PROVE  /\ RailwayName(Services[n]) \in Named("deploy")
         /\ \A r \in Resolved : r.name = RailwayName(Services[n]) => r.target = RailwayTarget(Services[n])
<1>1. n \in Nat /\ Services # <<>>
  <2>1. CASE "services" \in DOMAIN BlockOf("railway")
    <3>1. Services = unit.blocks["railway"]["services"] /\ "railway" \in DOMAIN unit.blocks
      BY <2>1 DEF Services, BlockOf, Get
    <3>2. Services \in Seq(DOMAIN SlugOf)
      BY <2>1, <3>1, ServicesAreListed DEF BlockOf, Get
    <3> QED
      BY <3>2
  <2>2. CASE "services" \notin DOMAIN BlockOf("railway")
    BY <2>2 DEF Services, Get
  <2> QED
    BY <2>1, <2>2
<1>2. /\ DetectedTasks("railway") = RailwayTasks /\ DOMAIN RailwayTasks = DOMAIN Services
      /\ \A m \in DOMAIN Services :
           /\ RailwayTasks[m].name = RailwayName(Services[m]) /\ RailwayTasks[m].kind = "deploy"
           /\ RailwayTasks[m].target = RailwayTarget(Services[m])
  BY <1>1 DEF DetectedTasks, RailwayTasks, Task
<1>3. \A s \in Emitted("railway") : s.name = RailwayName(Services[n]) =>
        s.target = RailwayTarget(Services[n]) /\ s.at = n
  <2> SUFFICES ASSUME NEW s \in Emitted("railway"), s.name = RailwayName(Services[n])
               PROVE  s.target = RailwayTarget(Services[n]) /\ s.at = n
    OBVIOUS
  <2>1. PICK m \in DOMAIN Services :
           s.name = RailwayName(Services[m]) /\ s.target = RailwayTarget(Services[m]) /\ s.at = m
    BY <1>2, EmittedAre
  <2>2. m = n
    BY <2>1 DEF RailwayNamesApart, HasItsSlug
  <2> QED
    BY <2>1, <2>2
<1>4. \A s \in Inline \cup UNION {Emitted(i) : i \in Active} : s.name = RailwayName(Services[n]) =>
        s \in Emitted("railway")
  BY DEF RailwayNamesApart
<1>5. \A r \in Resolved : r.name = RailwayName(Services[n]) => r.target = RailwayTarget(Services[n])
  BY <1>3, <1>4, ResolvedAre
<1>6. \E r \in Resolved : r.name = RailwayName(Services[n]) /\ r.kind = "deploy"
  <2> DEFINE all  == UNION {Emitted(i) : i \in Active}
             kept == Inline \cup {t \in all : /\ \A s \in Inline : s.name # t.name
                                              /\ \A s \in all : s.name = t.name => s.at <= t.at}
  <2>1. PICK s \in Emitted("railway") :
           s = Demanding(RailwayTasks[n], RequiredEnv("railway"), RequiredCli("railway"), n)
    BY <1>2 DEF Emitted
  <2>2. s.name = RailwayName(Services[n]) /\ s.kind = "deploy" /\ s.at = n
    BY <1>2, <2>1, FieldsOfTasks
  <2>3. s \in all /\ \A x \in Inline : x.name # s.name
    BY <2>2 DEF RailwayNamesApart
  <2>4. \A x \in all : x.name = s.name => x.at <= s.at
    BY <1>1, <1>3, <1>4, <2>2
  <2>5. s \in kept
    BY <2>3, <2>4
  <2>6. (IF s.name \in DOMAIN unit.overrides
         THEN [s EXCEPT !.env = unit.overrides[s.name]] ELSE s) \in Resolved
    BY <2>5, Zenon DEF Resolved
  <2> HIDE DEF kept, all
  <2>7. \A e : [s EXCEPT !.env = e].name = s.name /\ [s EXCEPT !.env = e].kind = s.kind
    BY EmittedAre
  <2> QED
    BY <2>2, <2>6, <2>7, Zenon
<1> QED
  BY <1>5, <1>6 DEF Named
-----------------------------------------------------------------------------
(* put_secret and detected_tasks: a target is of one integration. *)
LEMMA TargetsAreOwn ==
  ASSUME NEW i \in Candidates, NEW x \in SecretTargets(i)
  PROVE  x[1] = i
BY DEF Candidates, SecretTargets, WorkerTarget, PagesTarget, RailwayTarget, RailwayLink

LEMMA DeploysOfTheirOwn ==
  ASSUME NEW i \in Integrations, NEW n \in DOMAIN DetectedTasks(i)
  PROVE  DetectedTasks(i)[n].target[1] = i
<1>1. CASE i = "vercel"
  BY <1>1 DEF DetectedTasks, VercelTasks, Task
<1>2. CASE i = "railway"
  <2>1. DetectedTasks(i) = RailwayTasks
    BY <1>2 DEF DetectedTasks
  <2> QED
    BY <1>2, <2>1 DEF RailwayTasks, Task, RailwayTarget, RailwayLink
<1>3. CASE i = "cloudflare_worker"
  BY <1>3 DEF DetectedTasks, Task, WorkerTarget
<1>4. CASE i = "cloudflare_pages"
  BY <1>4 DEF DetectedTasks, PagesTasks, Task, PagesTarget
<1>5. CASE i \in {"slack", "linear"}
  BY <1>5 DEF DetectedTasks, Task
<1> QED
  BY <1>1, <1>2, <1>3, <1>4, <1>5 DEF Integrations

LEMMA DeploysOfCandidates ==
  ASSUME NEW i \in Candidates, NEW n \in DOMAIN DetectedTasks(i),
         ~ (i = "railway" /\ Services = <<>> /\ "root" \in DOMAIN BlockOf("railway"))
  PROVE  DetectedTasks(i)[n].target \in SecretTargets(i)
<1>1. CASE i = "railway" /\ Services = <<>>
  BY <1>1 DEF DetectedTasks, RailwayTasks, Task, SecretTargets
<1>2. CASE i = "railway" /\ Services # <<>>
  <2>1. DetectedTasks(i) = RailwayTasks /\ DOMAIN RailwayTasks = DOMAIN Services
    BY <1>2 DEF DetectedTasks, RailwayTasks
  <2>2. RailwayTasks[n].target = RailwayTarget(Services[n])
    BY <1>2, <2>1 DEF RailwayTasks, Task
  <2>3. Services[n] \in ToSet(Services)
    BY <2>1 DEF ToSet
  <2> QED
    BY <1>2, <2>1, <2>2, <2>3 DEF SecretTargets
<1>3. CASE i = "cloudflare_worker"
  BY <1>3 DEF DetectedTasks, Task, SecretTargets
<1>4. CASE i = "cloudflare_pages"
  BY <1>4 DEF DetectedTasks, PagesTasks, Task, SecretTargets
<1> QED
  BY <1>1, <1>2, <1>3, <1>4 DEF Candidates

LEMMA SecretsGoWhereDeploysGo ==
  ASSUME NEW i \in Candidates, NEW r \in Resolved, r.target[1] = i,
         ~ (i = "railway" /\ Services = <<>> /\ "root" \in DOMAIN BlockOf("railway"))
  PROVE  r.target \in SecretTargets(i)
<1>1. PICK s \in Inline \cup UNION {Emitted(j) : j \in Active} : r.kind = s.kind /\ r.target = s.target
  BY ResolvedAre
<1>2. PICK j \in Active : s \in Emitted(j)
  BY <1>1, InlineAre DEF Candidates
<1>3. PICK n \in DOMAIN DetectedTasks(j) : s.target = DetectedTasks(j)[n].target
  BY <1>2, EmittedAre
<1>4. j = i
  BY <1>1, <1>3, DeploysOfTheirOwn DEF Active
<1> QED
  BY <1>1, <1>3, <1>4, DeploysOfCandidates
-----------------------------------------------------------------------------
(* Where a command line ends up is of its own integration, and is the      *)
(* service it names.                                                       *)
LEMMA PlaceIsOf ==
  ASSUME NEW x, NEW env
  PROVE  /\ Place(x, env)[1][1] = x[1]
         /\ \A s : x = RailwayTarget(s) => Place(x, env)[1] = x
<1> DEFINE links == {RailwayLink("unit"), RailwayLink("root")}
<1>1. Place(x, env)[1] = IF x \in links THEN ServiceIn(x[3], env) ELSE x
  BY DEF Place
<1>2. x \in links => x[1] = "railway" /\ x[2] = "link"
  BY DEF RailwayLink
<1>3. ServiceIn(x[3], env)[1] = "railway"
  BY DEF ServiceIn, RailwayTarget
<1>4. \A s : x = RailwayTarget(s) => x[2] = "service"
  BY DEF RailwayTarget
<1> QED
  BY <1>1, <1>2, <1>3, <1>4

(* Two environments that agree on what the integration reads lead to the   *)
(* same place.                                                             *)
LEMMA SamePlace ==
  ASSUME NEW x, NEW e, NEW f, \A v \in EnvOf(x[1]) : Get(e, v, "") = Get(f, v, "")
  PROVE  Place(x, e) = Place(x, f)
<1>1. [v \in AccountEnv(x[1]) |-> Get(e, v, "")] = [v \in AccountEnv(x[1]) |-> Get(f, v, "")]
  BY DEF EnvOf
<1>2. ASSUME x \in {RailwayLink("unit"), RailwayLink("root")} PROVE ServiceIn(x[3], e) = ServiceIn(x[3], f)
  <2>1. x[1] = "railway"
    <3>1. \A dir : RailwayLink(dir)[1] = "railway"
      BY DEF RailwayLink
    <3> QED
      BY <1>2, <3>1
  <2>2. "RAILWAY_SERVICE" \in EnvOf(x[1])
    BY <1>2, <2>1 DEF EnvOf
  <2> QED
    BY <2>2 DEF ServiceIn
<1> QED
  BY <1>1, <1>2 DEF Place

(* run_once, build_container_command: what a command sees where no alias   *)
(* is in its way.                                                          *)
LEMMA SeenAsInShell ==
  ASSUME NEW i, NEW shell, AsIn(shell, i), NEW t \in Resolved, t.target[1] = i, NEW v \in EnvOf(i)
  PROVE  Get(SeenBy(t), v, "") = Get(shell, v, "")
<1> DEFINE forwarded == [w \in {u \in t.env : Source(u) \in DOMAIN call.host} |-> call.host[Source(w)]]
<1>1. SeenBy(t) = IF InContainer THEN forwarded ELSE Over(forwarded, call.host)
  BY DEF SeenBy
<1>2. Source(v) = v /\ call.host = shell
  BY DEF AsIn, Source, Get
<1>3. /\ v \in DOMAIN forwarded => v \in DOMAIN shell /\ forwarded[v] = shell[v]
      /\ v \in t.env /\ v \in DOMAIN shell => v \in DOMAIN forwarded
  BY <1>2
<1> HIDE DEF forwarded
<1>4. CASE InContainer
  <2>1. v \in t.env
    BY <1>4 DEF AsIn
  <2> QED
    BY <1>1, <1>3, <1>4, <2>1 DEF Get
<1>5. CASE ~ InContainer
  BY <1>1, <1>2, <1>3, <1>5 DEF Get, Over
<1> QED
  BY <1>4, <1>5

(* But for Railway with several services, there is one target. *)
LEMMA OneTarget ==
  ASSUME unit \in UnitConfigs, NEW i \in Candidates, NEW x \in SecretTargets(i),
         ~ (i = "railway" /\ Len(Services) > 1)
  PROVE  SecretTargets(i) = {x}
<1>1. CASE i = "railway"
  <2>1. CASE Services = <<>>
    BY <1>1, <2>1 DEF SecretTargets
  <2>2. CASE Services # <<>>
    <3>1. Services \in Seq(ToSet(Services))
      <4>1. CASE "services" \in DOMAIN BlockOf("railway")
        <5>1. Services = unit.blocks["railway"]["services"] /\ "railway" \in DOMAIN unit.blocks
          BY <4>1 DEF Services, BlockOf, Get
        <5>2. Services \in Seq(DOMAIN SlugOf)
          BY <4>1, <5>1, ServicesAreListed DEF BlockOf, Get
        <5> QED
          BY <5>2 DEF ToSet
      <4>2. CASE "services" \notin DOMAIN BlockOf("railway")
        <5>1. PICK s : Services = <<s>>
          BY <2>2, <4>2 DEF Services, Get
        <5>2. s \in ToSet(Services)
          BY <5>1 DEF ToSet
        <5> QED
          BY <5>1, <5>2
      <4> QED
        BY <4>1, <4>2
    <3>2. DOMAIN Services = {1}
      <4>1. Len(Services) \in Nat /\ DOMAIN Services = 1..Len(Services) /\ Len(Services) # 0
        BY <2>2, <3>1
      <4>2. Len(Services) <= 1
        BY <1>1, <4>1
      <4> QED
        BY <4>1, <4>2
    <3>3. ToSet(Services) = {Services[1]}
      BY <3>2 DEF ToSet
    <3> QED
      BY <1>1, <2>2, <3>3 DEF SecretTargets
  <2> QED
    BY <2>1, <2>2
<1>2. CASE i # "railway"
  BY <1>2 DEF Candidates, SecretTargets
<1> QED
  BY <1>1, <1>2
-----------------------------------------------------------------------------
LEMMA DeploysBegin == DeploysInit /\ RailwayNamesApart => DeployInv
  BY DEF DeploysInit, DeployInv, OffIsDone, LastPassedPreflight, ShippedByTasks, ShippedOrAwaited, PromisesAreKept

LEMMA StartKeepsDeployInv ==
  ASSUME DeployInv, StartDeploy \/ ReplayNotify
  PROVE  DeployInv'
<1>1. /\ UNCHANGED <<unit, failures, shipped, last, stored, promised>>
      /\ deployStage = "off" /\ shipped = {} /\ deployStage' # "off"
  BY DEF StartDeploy, ReplayNotify, DeployInv, OffIsDone
<1>2. LastPassedPreflight'
  BY <1>1 DEF DeployInv, LastPassedPreflight
<1>3. ShippedOrAwaited'
  <2>1. CASE ReplayNotify
    BY <2>1 DEF ReplayNotify, Asked, ShippedOrAwaited
  <2>2. CASE StartDeploy
    <3> SUFFICES ASSUME call'.kind = "deploy", "railway" \in Active', NEW n \in DOMAIN Services',
                        HasItsSlug(n)'
                 PROVE  RailwayName(Services[n])' \in awaited'
      BY <2>2 DEF StartDeploy, ShippedOrAwaited
    <3>1. RailwayName(Services[n]) \in Named("deploy")
      BY <1>1, UnitStays, ServiceHasItsTask DEF DeployInv
    <3>2. awaited' = Named("deploy")
      BY <1>1, <2>2, UnitStays DEF StartDeploy
    <3> QED
      BY <1>1, <3>1, <3>2, UnitStays
  <2> QED
    BY <2>1, <2>2
<1> QED
  BY <1>1, <1>2, <1>3, UnitStays DEF DeployInv, ShippedByTasks, PromisesAreKept, OffIsDone

LEMMA PreflightKeepsDeployInv ==
  ASSUME DeployInv, NEW t \in Resolved, PreflightFails(t)
  PROVE  DeployInv'
<1>1. UNCHANGED <<unit, call, deployStage, shipped, last, stored, promised>> /\ failures' # {}
  BY DEF PreflightFails, Fail
<1>2. OffIsDone'
  BY <1>1 DEF DeployInv, OffIsDone, PreflightFails
<1>3. LastPassedPreflight' /\ ShippedByTasks'
  BY <1>1, UnitStays, CallStays DEF DeployInv, LastPassedPreflight, ShippedByTasks
<1> QED
  BY <1>1, <1>2, <1>3, UnitStays DEF DeployInv, ShippedOrAwaited, PromisesAreKept

LEMMA TaskKeepsDeployInv ==
  ASSUME DeployInv, NEW t \in Resolved, RunTask(t)
  PROVE  DeployInv'
<1>1. UNCHANGED <<unit, call, deployStage, stored, promised>> /\ deployStage # "off"
  BY DEF RunTask, DeployInv, OffIsDone
<1>2. LastPassedPreflight'
  <2>1. last'.task = t /\ last'.sees = SeenBy(t) /\ MissingEnv(t) = {}
    BY DEF RunTask
  <2> QED
    BY <1>1, <2>1, CallStays DEF LastPassedPreflight
<1>3. ShippedOrAwaited'
  <2>1. CASE failures' # {}
    BY <2>1 DEF ShippedOrAwaited
  <2>2. CASE failures' = {}
    <3>1. /\ failures = {} /\ awaited' = awaited \ {t.name}
          /\ shipped' = shipped \cup {Place(t.target, SeenBy(t))}
      BY <2>2 DEF RunTask, Fail
    <3> SUFFICES ASSUME deployStage # "off", call.kind = "deploy", "railway" \in Active,
                        NEW n \in DOMAIN Services, HasItsSlug(n)
                 PROVE  \/ \E spot \in shipped' : spot[1] = RailwayTarget(Services[n])
                        \/ deployStage = "tasks" /\ RailwayName(Services[n]) \in awaited'
      BY <1>1, UnitStays DEF ShippedOrAwaited
    <3>2. t.name = RailwayName(Services[n]) => Place(t.target, SeenBy(t))[1] = RailwayTarget(Services[n])
      BY ServiceHasItsTask, PlaceIsOf DEF DeployInv
    <3> QED
      BY <3>1, <3>2 DEF DeployInv, ShippedOrAwaited
  <2> QED
    BY <2>1, <2>2
<1>4. ShippedByTasks'
  <2>1. shipped' \subseteq shipped \cup {Place(t.target, SeenBy(t))}
    BY DEF RunTask, Fail
  <2> QED
    BY <1>1, <2>1, UnitStays, CallStays DEF DeployInv, ShippedByTasks
<1> QED
  BY <1>1, <1>2, <1>3, <1>4, UnitStays DEF DeployInv, PromisesAreKept, OffIsDone

LEMMA NotifyKeepsDeployInv ==
  ASSUME DeployInv, StartNotify \/ EndDeploy
  PROVE  DeployInv'
<1>1. UNCHANGED <<unit, call, stored, promised>> /\ awaited = {}
  BY DEF StartNotify, EndDeploy
<1>2. LastPassedPreflight'
  BY <1>1, CallStays DEF StartNotify, EndDeploy, DeployInv, LastPassedPreflight
<1>4. ShippedByTasks' /\ OffIsDone'
  <2>1. shipped' \subseteq shipped /\ (deployStage' = "off" => awaited' = {} /\ shipped' = {})
    BY <1>1 DEF StartNotify, EndDeploy
  <2> QED
    BY <1>1, <2>1, UnitStays, CallStays DEF DeployInv, ShippedByTasks, OffIsDone
<1>3. ShippedOrAwaited'
  <2>1. CASE EndDeploy
    BY <2>1 DEF EndDeploy, ShippedOrAwaited
  <2>2. CASE StartNotify
    BY <1>1, <2>2, UnitStays DEF StartNotify, Announces, DeployInv, ShippedOrAwaited
  <2> QED
    BY <2>1, <2>2
<1> QED
  BY <1>1, <1>2, <1>3, <1>4, UnitStays DEF DeployInv, PromisesAreKept

LEMMA SecretsKeepDeployInv ==
  ASSUME DeployInv, NEW i \in Integrations, NEW n \in SecretNames, NEW shell \in Shells,
         PutSecret(i, n, shell) \/ DeleteSecret(i, n, shell)
  PROVE  DeployInv'
<1>1. UNCHANGED <<unit, call, deployStage, awaited, failures, shipped, last>> /\ i \in Candidates
  BY DEF PutSecret, DeleteSecret
<1>2. LastPassedPreflight' /\ ShippedOrAwaited' /\ ShippedByTasks'
  BY <1>1, CallStays, UnitStays DEF DeployInv, LastPassedPreflight, ShippedOrAwaited, ShippedByTasks
<1>3. promised' \subseteq Integrations \X SecretNames \X Shells
  BY DEF DeployInv, PutSecret, DeleteSecret
<1>4. ASSUME NEW j \in Integrations, NEW m \in SecretNames, NEW from \in Shells, <<j, m, from>> \in promised'
      PROVE  /\ j \in Candidates
             /\ \A x : SecretTargets(j) = {x} => <<Place(x, from), m>> \in stored'
  <2>1. CASE PutSecret(i, n, shell)
    <3>1. PICK done \in SUBSET SecretPlaces(i, shell) :
             /\ stored' = stored \cup (done \X {n})
             /\ \/ done # {} /\ promised' = promised \cup {<<i, n, shell>>}
                \/ UNCHANGED promised
      BY <2>1 DEF PutSecret
    <3>2. CASE <<j, m, from>> \in promised
      BY <3>1, <3>2 DEF DeployInv, PromisesAreKept
    <3>3. CASE <<j, m, from>> \notin promised
      <4>1. j = i /\ m = n /\ from = shell /\ done # {}
        BY <1>4, <3>1, <3>3
      <4>2. ASSUME NEW x, SecretTargets(j) = {x} PROVE <<Place(x, from), m>> \in stored'
        <5>1. SecretPlaces(i, shell) = {Place(x, shell)}
          BY <4>1, <4>2 DEF SecretPlaces
        <5>2. Place(x, shell) \in done
          BY <4>1, <5>1
        <5> QED
          BY <3>1, <4>1, <5>2
      <4> QED
        BY <1>1, <4>1, <4>2
    <3> QED
      BY <3>2, <3>3
  <2>2. CASE DeleteSecret(i, n, shell)
    <3>1. <<j, m, from>> \in promised /\ (j # i \/ m # n)
      BY <1>4, <2>2 DEF DeleteSecret
    <3>2. j \in Candidates /\ \A x : SecretTargets(j) = {x} => <<Place(x, from), m>> \in stored
      BY <3>1 DEF DeployInv, PromisesAreKept
    <3>3. PICK done \in SUBSET SecretPlaces(i, shell) : stored' = stored \ (done \X {n})
      BY <2>2 DEF DeleteSecret
    <3>4. ASSUME NEW x, SecretTargets(j) = {x} PROVE <<Place(x, from), m>> \notin done \X {n}
      <4>1. Place(x, from)[1][1] = j
        BY <3>2, <3>4, TargetsAreOwn, PlaceIsOf
      <4>2. \A spot \in done : spot[1][1] = i
        BY <1>1, TargetsAreOwn, PlaceIsOf DEF SecretPlaces
      <4> QED
        BY <3>1, <4>1, <4>2
    <3> QED
      BY <3>2, <3>3, <3>4
  <2> QED
    BY <2>1, <2>2
<1> QED
  BY <1>1, <1>2, <1>3, <1>4, UnitStays DEF DeployInv, PromisesAreKept, OffIsDone

LEMMA DeploysStep ==
  ASSUME DeployInv, [DeploysNext]_deployVars
  PROVE  DeployInv'
<1>1. CASE UNCHANGED deployVars
  BY <1>1, UnitStays, CallStays
  DEF deployVars, DeployInv, OffIsDone, LastPassedPreflight, ShippedByTasks, ShippedOrAwaited, PromisesAreKept
<1>2. CASE StartDeploy \/ ReplayNotify \/ StartNotify \/ EndDeploy
  BY <1>2, StartKeepsDeployInv, NotifyKeepsDeployInv
<1>3. CASE \E t \in Resolved : PreflightFails(t) \/ RunTask(t)
  BY <1>3, PreflightKeepsDeployInv, TaskKeepsDeployInv
<1>4. CASE \E i \in Integrations, n \in SecretNames, shell \in Shells :
              PutSecret(i, n, shell) \/ DeleteSecret(i, n, shell)
  BY <1>4, SecretsKeepDeployInv
<1> QED
  BY <1>1, <1>2, <1>3, <1>4 DEF DeploysNext

LEMMA DeployInvSuffices == ASSUME DeployInv PROVE DeploysAreEquipped
<1>1. CommandIsEquipped
  <2> SUFFICES ASSUME last # << >>
               PROVE  /\ \A v \in last.task.requires \cap last.task.env :
                           v \in DOMAIN last.sees /\ last.sees[v] # "" /\ last.sees[v] = call.host[Source(v)]
                      /\ InContainer => \A v \in DOMAIN last.sees :
                           v \in last.task.env /\ last.sees[v] = call.host[Source(v)]
    BY Zenon DEF CommandIsEquipped
  <2>1. PICK t : t = last.task
    OBVIOUS
  <2>2. MissingEnv(t) = {} /\ last.sees = SeenBy(t)
    BY <2>1 DEF DeployInv, LastPassedPreflight
  <2>3. /\ \A v \in t.requires \cap t.env :
              v \in DOMAIN SeenBy(t) /\ SeenBy(t)[v] # "" /\ SeenBy(t)[v] = call.host[Source(v)]
        /\ InContainer => \A v \in DOMAIN SeenBy(t) : v \in t.env /\ SeenBy(t)[v] = call.host[Source(v)]
    BY ONLY <2>2, PreflightEquips
  <2> QED
    BY <2>1, <2>2, <2>3, Zenon
<1>2. GreenDeployIsWhole
  <2> SUFFICES ASSUME deployStage # "off", awaited = {}, failures = {}, call.kind = "deploy",
                      "railway" \in Active, NEW n \in DOMAIN Services,
                      \A k \in DOMAIN Services \ {n} : SlugOf[Services[k]] # SlugOf[Services[n]]
               PROVE  \E spot \in shipped : spot[1] = RailwayTarget(Services[n])
    BY DEF GreenDeployIsWhole
  <2> QED
    BY DEF DeployInv, ShippedOrAwaited, HasItsSlug
<1>3. SecretIsWhereDeploysGo
  <2> SUFFICES ASSUME NEW i \in Integrations, NEW n \in SecretNames, NEW shell \in Shells,
                      <<i, n, shell>> \in promised, AsIn(shell, i),
                      ~ (i = "railway" /\ Len(Services) > 1),
                      ~ (i = "railway" /\ Services = <<>> /\ "root" \in DOMAIN BlockOf("railway")),
                      NEW spot \in shipped, spot[1][1] = i
               PROVE  <<spot, n>> \in stored
    BY DEF SecretIsWhereDeploysGo, DeployInv
  <2>1. i \in Candidates /\ \A x : SecretTargets(i) = {x} => <<Place(x, shell), n>> \in stored
    BY DEF DeployInv, PromisesAreKept
  <2>2. PICK t \in Resolved : spot = Place(t.target, SeenBy(t))
    BY DEF DeployInv, ShippedByTasks
  <2>3. t.target[1] = i
    BY <2>2, PlaceIsOf
  <2>4. spot = Place(t.target, shell)
    <3>1. \A v \in EnvOf(i) : Get(SeenBy(t), v, "") = Get(shell, v, "")
      BY <2>3, SeenAsInShell
    <3> QED
      BY <2>2, <2>3, <3>1, SamePlace
  <2>5. t.target \in SecretTargets(i)
    BY <2>1, <2>3, SecretsGoWhereDeploysGo
  <2>6. SecretTargets(i) = {t.target}
    BY <2>1, <2>5, OneTarget DEF DeployInv
  <2> QED
    BY <2>1, <2>4, <2>6
<1> QED
  BY <1>1, <1>2, <1>3 DEF DeploysAreEquipped

(* run_deploy, the integrations and monad secret, for any configuration of *)
(* the unit, any environments and any invocations: a command that runs has *)
(* what it requires, from the environment that was asked for; a deploy     *)
(* that ends green has reached every service whose slug is its own; and a  *)
(* secret that monad said it set is wherever a deploy from the same shell  *)
(* goes that no alias sends elsewhere, but for Railway with several        *)
(* services, or with a `root` and none.                                    *)
THEOREM DeploysHaveAll == DeploySpec /\ RailwayNamesApart => []DeploysAreEquipped
  BY DeploysBegin, DeploysStep, DeployInvSuffices, PTL DEF DeploySpec

-----------------------------------------------------------------------------

Exchanges == {"none", "put", "upload_url", "r2_put", "complete"}

PutTypeOK ==
  /\ request \in [Uploaders -> Exchanges]
  /\ answer \in [Uploaders -> {"none", "ok", "err"}]
  /\ landed \subseteq Uploaders

(* The last request of an upload in three is sent only after the second    *)
(* one was answered with success, so the bundle is there by then.          *)
CompletesLanded == \A u \in Uploaders : request[u] = "complete" => u \in landed

PutInv == PutTypeOK /\ CompletesLanded /\ PushedIsStored

LEMMA PutInit == HostedInit => PutInv
  BY DEF HostedInit, PutInv, PutTypeOK, Exchanges, CompletesLanded, PushedIsStored

(* NextRequest, one request at a time. *)
LEMMA NextRequests ==
  /\ NextRequest["put"] = "none" /\ NextRequest["upload_url"] = "r2_put"
  /\ NextRequest["r2_put"] = "complete" /\ NextRequest["complete"] = "none"
  BY DEF NextRequest

(* An exchange keeps the invariant: a success was served, and an answer of *)
(* put is a success only after the last exchange of its path.              *)
LEMMA SendKeepsPutInv ==
  ASSUME PutInv, NEW u \in Uploaders, SendRequest(u)
  PROVE  PutInv'
<1>1. PICK reply \in Replies, served \in BOOLEAN :
        /\ Possible(u, reply, served)
        /\ IF served /\ request[u] \in {"put", "r2_put"}
           THEN object' = u /\ landed' = landed \cup {u}
           ELSE UNCHANGED <<object, landed>>
        /\ IF Retried(u, reply)
           THEN attempt' = [attempt EXCEPT ![u] = 2] /\ UNCHANGED <<request, answer>>
           ELSE LET next == IF reply = "ok" THEN NextRequest[request[u]] ELSE "none" IN
                /\ attempt' = [attempt EXCEPT ![u] = 1]
                /\ request' = [request EXCEPT ![u] = next]
                /\ answer' = [answer EXCEPT ![u] = IF next # "none" THEN "none" ELSE PutResult(reply)]
  BY DEF SendRequest
<1>2. landed \subseteq landed' /\ landed' \subseteq Uploaders
  BY <1>1 DEF PutInv, PutTypeOK
<1>3. CASE Retried(u, reply)
  BY <1>1, <1>2, <1>3 DEF PutInv, PutTypeOK, CompletesLanded, PushedIsStored
<1>4. CASE ~ Retried(u, reply) /\ reply # "ok"
  BY <1>1, <1>2, <1>4 DEF PutInv, PutTypeOK, CompletesLanded, PushedIsStored, Exchanges, PutResult
<1>5. CASE ~ Retried(u, reply) /\ reply = "ok"
  <2>1. served /\ request[u] \in {"put", "upload_url", "r2_put", "complete"}
    BY <1>1, <1>5 DEF Possible, SendRequest, PutInv, PutTypeOK, Exchanges
  <2> DEFINE next == NextRequest[request[u]]
  <2>a. request' = [request EXCEPT ![u] = next]
    BY <1>1, <1>5
  <2>b. answer' = [answer EXCEPT ![u] = IF next # "none" THEN "none" ELSE "ok"]
    BY <1>1, <1>5 DEF PutResult
  <2> HIDE DEF next
  <2>2. CASE request[u] \in {"put", "complete"}
    <3>1. next = "none" /\ u \in landed'
      BY <1>1, <1>2, <2>1, <2>2, NextRequests DEF PutInv, CompletesLanded, next
    <3>2. request' = [request EXCEPT ![u] = "none"] /\ answer' = [answer EXCEPT ![u] = "ok"]
      BY <2>a, <2>b, <3>1
    <3> QED
      BY <1>2, <3>1, <3>2 DEF PutInv, PutTypeOK, CompletesLanded, PushedIsStored, Exchanges
  <2>3. CASE request[u] = "upload_url"
    <3>1. next = "r2_put"
      BY <2>3, NextRequests DEF next
    <3>2. request' = [request EXCEPT ![u] = "r2_put"] /\ answer' = [answer EXCEPT ![u] = "none"]
      BY <2>a, <2>b, <3>1
    <3> QED
      BY <1>2, <3>2 DEF PutInv, PutTypeOK, CompletesLanded, PushedIsStored, Exchanges
  <2>4. CASE request[u] = "r2_put"
    <3>1. u \in landed'
      BY <1>1, <2>1, <2>4
    <3>2. next = "complete"
      BY <2>4, NextRequests DEF next
    <3>3. request' = [request EXCEPT ![u] = "complete"] /\ answer' = [answer EXCEPT ![u] = "none"]
      BY <2>a, <2>b, <3>2
    <3> QED
      BY <1>2, <3>1, <3>3 DEF PutInv, PutTypeOK, CompletesLanded, PushedIsStored, Exchanges
  <2> QED
    BY <2>1, <2>2, <2>3, <2>4
<1> QED
  BY <1>3, <1>4, <1>5

(* Every other step: a login and an expiry touch nothing of it, and a put  *)
(* begins with a request that is not the last of three.                    *)
LEMMA PutStep ==
  ASSUME PutInv, [HostedNext]_hostedVars
  PROVE  PutInv'
<1>1. CASE RequestDeviceCode \/ PollTimesOut \/ Poll \/ ObjectExpires \/ UNCHANGED hostedVars
  BY <1>1 DEF RequestDeviceCode, PollTimesOut, Poll, ObjectExpires, hostedVars, putVars,
              PutInv, PutTypeOK, CompletesLanded, PushedIsStored
<1>2. ASSUME NEW u \in Uploaders, StartPut(u) PROVE PutInv'
  BY <1>2 DEF StartPut, PutInv, PutTypeOK, CompletesLanded, PushedIsStored, Exchanges
<1>3. ASSUME NEW u \in Uploaders, SendRequest(u) PROVE PutInv'
  BY <1>3, SendKeepsPutInv
<1> QED
  BY <1>1, <1>2, <1>3 DEF HostedNext

(* BearerRemote::put with send_with_retry: whatever requests and answers   *)
(* are lost, repeated or served twice, and whoever else puts the key, an   *)
(* upload that is reported as done has arrived.                            *)
THEOREM PushesArrive == HostedSpec => []PushedIsStored
<1>1. PutInv => PushedIsStored
  BY DEF PutInv
<1> QED
  BY PutInit, PutStep, <1>1, PTL DEF HostedSpec
-----------------------------------------------------------------------------
LoginTypeOK ==
  /\ token \in [env : Tokens, keychain : Tokens, file : Tokens]
  /\ keyring \in [reads : BOOLEAN, writes : BOOLEAN]
  /\ login \in {"off", "polls", "ok", "err"}
  /\ device \in [expires : Nat, interval : Nat]
  /\ interval \in Nat /\ clock \in Nat

(* A login that has not begun has spent no time. *)
OffIsUnspent == login = "off" => clock = 0

(* However often the server asks for patience, the next poll is no further *)
(* away than the limit of the backoff, or the interval it began with.      *)
IntervalIsCapped == login = "polls" => interval <= Larger(PollCap, device.interval)

(* A login that succeeded left its token where store_cache_token puts it. *)
StoredWhereItGoes ==
  login = "ok" => IF keyring.writes THEN token.keychain = "fresh" ELSE token.file = "fresh"

WaitIsBounded == clock <= Deadline + Larger(PollCap, device.interval) + HttpTimeout

LoginInv == LoginTypeOK /\ OffIsUnspent /\ IntervalIsCapped /\ StoredWhereItGoes /\ WaitIsBounded

LEMMA LoginBegins == HostedInit => LoginInv
<1> SUFFICES ASSUME HostedInit PROVE LoginInv
  OBVIOUS
<1>1. LoginTypeOK /\ clock = 0 /\ login = "off"
  BY DEF HostedInit, LoginTypeOK, Tokens
<1>2. Deadline \in Nat /\ Larger(PollCap, device.interval) \in Nat
  BY <1>1, HostedBounds DEF LoginTypeOK, Deadline, Smaller, Larger
<1> QED
  BY <1>1, <1>2, HostedBounds DEF LoginInv, OffIsUnspent, IntervalIsCapped, StoredWhereItGoes, WaitIsBounded

(* The first interval is at least a second, and at most the limit or what  *)
(* the server said; a code that lives longer only moves the deadline out.  *)
LEMMA RequestKeepsLoginInv ==
  ASSUME LoginInv, RequestDeviceCode
  PROVE  LoginInv'
<1> USE HostedBounds
<1>1. clock' = 0 /\ UNCHANGED <<token, keyring>> /\ login = "off"
  BY DEF RequestDeviceCode, LoginInv, OffIsUnspent
<1>2. CASE login' = "err" /\ UNCHANGED <<device, interval>>
  BY <1>1, <1>2 DEF LoginInv, LoginTypeOK, OffIsUnspent, IntervalIsCapped, StoredWhereItGoes, WaitIsBounded,
                    Deadline, Smaller, Larger
<1>3. CASE login' = "polls"
  <2>1. PICK e \in Expiries, i \in Intervals :
          device' = [expires |-> e, interval |-> i] /\ interval' = Larger(i, 1)
    BY <1>3 DEF RequestDeviceCode
  <2>2. e \in Nat /\ i \in Nat /\ device'.expires = e /\ device'.interval = i
    BY <2>1
  <2>3. LoginTypeOK'
    BY <1>1, <1>3, <2>1, <2>2 DEF LoginInv, LoginTypeOK, Larger
  <2>4. IntervalIsCapped'
    BY <2>1, <2>2 DEF IntervalIsCapped, Larger
  <2>5. WaitIsBounded'
    BY <1>1, <2>2 DEF WaitIsBounded, Deadline, Smaller, Larger
  <2> QED
    BY <1>3, <2>3, <2>4, <2>5 DEF LoginInv, OffIsUnspent, StoredWhereItGoes
<1> QED
  BY <1>2, <1>3 DEF RequestDeviceCode

(* A poll starts before the deadline and takes one interval and one        *)
(* exchange; an approval stores the token.                                 *)
LEMMA PollKeepsLoginInv ==
  ASSUME LoginInv, Poll
  PROVE  LoginInv'
<1> USE HostedBounds
<1>1. PICK spent \in {0, HttpTimeout} : clock' = clock + interval + spent
  BY DEF Poll
<1>2. /\ login = "polls" /\ clock <= Deadline /\ UNCHANGED <<keyring, device>>
      /\ interval <= Larger(PollCap, device.interval)
  BY DEF Poll, LoginInv, IntervalIsCapped
<1>3. /\ Deadline \in Nat /\ Larger(PollCap, device.interval) \in Nat
      /\ Deadline' = Deadline /\ interval \in Nat /\ clock \in Nat /\ spent \in Nat /\ spent <= HttpTimeout
  BY <1>2 DEF LoginInv, LoginTypeOK, Deadline, Smaller, Larger
<1>4. WaitIsBounded' /\ clock' \in Nat
  <2> DEFINE cap == Larger(PollCap, device.interval)
  <2>1. cap' = cap
    BY <1>2 DEF Larger
  <2> HIDE DEF cap
  <2>2. clock' <= Deadline' + cap' + HttpTimeout
    BY <1>1, <1>2, <1>3, <2>1 DEF cap
  <2> QED
    BY <1>1, <1>3, <2>2 DEF WaitIsBounded, cap
<1>5. /\ interval' \in Nat
      /\ interval' <= Larger(PollCap, device'.interval)
  <2>1. Backoff \in Nat /\ Backoff <= Larger(PollCap, device.interval)
    BY <1>3 DEF Backoff, Smaller, Larger, LoginInv, LoginTypeOK
  <2>2. interval' = interval \/ interval' = Backoff
    BY DEF Poll
  <2> QED
    BY <1>2, <1>3, <2>1, <2>2
<1>6. token' = token \/ (login' = "ok" /\ token' = StoreToken)
  BY DEF Poll
<1>7. token' \in [env : Tokens, keychain : Tokens, file : Tokens]
  BY <1>6 DEF StoreToken, LoginInv, LoginTypeOK, Tokens
<1>8. login' \in {"polls", "ok", "err"} /\ (login' = "ok" => token' = StoreToken)
  BY <1>2 DEF Poll
<1>9. StoredWhereItGoes'
  BY <1>2, <1>8 DEF StoredWhereItGoes, StoreToken, LoginInv, LoginTypeOK
<1> QED
  BY <1>2, <1>4, <1>5, <1>7, <1>8, <1>9 DEF LoginInv, LoginTypeOK, OffIsUnspent, IntervalIsCapped

LEMMA LoginStep ==
  ASSUME LoginInv, [HostedNext]_hostedVars
  PROVE  LoginInv'
<1>1. CASE RequestDeviceCode
  BY <1>1, RequestKeepsLoginInv
<1>2. CASE Poll
  BY <1>2, PollKeepsLoginInv
<1>3. CASE PollTimesOut
  BY <1>3 DEF PollTimesOut, LoginInv, LoginTypeOK, OffIsUnspent, IntervalIsCapped, StoredWhereItGoes,
              WaitIsBounded, Deadline
<1>4. CASE UNCHANGED loginVars
  BY <1>4 DEF loginVars, LoginInv, LoginTypeOK, OffIsUnspent, IntervalIsCapped, StoredWhereItGoes,
              WaitIsBounded, Deadline
<1>5. UNCHANGED hostedVars \/ ObjectExpires \/ (\E u \in Uploaders : StartPut(u) \/ SendRequest(u))
        => UNCHANGED loginVars
  BY DEF hostedVars, loginVars, ObjectExpires, StartPut, SendRequest
<1> QED
  BY <1>1, <1>2, <1>3, <1>4, <1>5 DEF HostedNext

(* resolve_cache_token looks where store_cache_token has put the token,    *)
(* unless the environment or an old keychain entry is found before it, or  *)
(* the keychain that was written cannot be read.                           *)
LEMMA StoredIsResolved == LoginInv => LoginTakesEffect
<1> SUFFICES ASSUME LoginInv, login = "ok"
             PROVE  \/ ResolvedToken = "fresh"
                    \/ token.env # NoToken
                    \/ keyring.reads /\ ~ keyring.writes /\ token.keychain # NoToken
                    \/ keyring.writes /\ ~ keyring.reads
  BY DEF LoginInv, WaitIsBounded, LoginTakesEffect
<1>1. CASE token.env # NoToken
  BY <1>1
<1>2. CASE token.env = NoToken /\ keyring.writes
  <2>1. token.keychain = "fresh"
    BY <1>2 DEF LoginInv, StoredWhereItGoes
  <2>2. CASE keyring.reads /\ token.keychain # NoToken
    BY <1>2, <2>1, <2>2 DEF ResolvedToken
  <2>3. CASE ~ keyring.reads
    BY <1>2, <2>3
  <2> QED
    BY <2>1, <2>2, <2>3, TokenIsSomething
<1>3. CASE token.env = NoToken /\ ~ keyring.writes
  <2>1. token.file = "fresh"
    BY <1>3 DEF LoginInv, StoredWhereItGoes
  <2> QED
    BY <1>3, <2>1 DEF ResolvedToken
<1> QED
  BY <1>1, <1>2, <1>3

(* login::run with store_cache_token and resolve_cache_token: for every    *)
(* server, every cap and timeout and every machine, a login ends within    *)
(* one interval and one exchange of its deadline, and one that succeeded   *)
(* is found by the commands after it but for the places that shadow it.    *)
THEOREM LoginsTakeEffect == HostedSpec => []LoginTakesEffect
  BY LoginBegins, LoginStep, StoredIsResolved, PTL DEF HostedSpec

-----------------------------------------------------------------------------

(* What each stage of a release has established: nothing is written before *)
(* the root; while members are written the index is the last commit, and   *)
(* so is every file but those touched; from cargo check on, the tree, then *)
(* the index, then the last commit is the release.                         *)
Stage ==
  /\ releasing = "root" => index = work /\ touched = {}
  /\ releasing = "members" => work[RootToml] = goal
  /\ releasing \in {"members", "add"} => \A f \in ReleaseFiles \ touched : work[f] = index[f]
  /\ releasing = "add" => IsRelease(work, goal)
  /\ releasing = "commit" => IsRelease(index, goal)
  /\ releasing = "tag" => IsRelease(Last(log), goal)

ReleaseTypes ==
  /\ work \in Commits /\ index \in Commits /\ log \in Seq(Commits)
  /\ releasing \in {"off", "root", "members", "add", "commit", "tag"}
  /\ goal \in Versions

ReleaseInv == ReleaseTypes /\ Stage /\ TagsAreWhole

(* The versions that a bump makes are versions. *)
LEMMA BumpIsVersion ==
  ASSUME NEW spec \in {"patch", "minor", "major"}, NEW v \in Versions
  PROVE  Bump(spec, v) \in Versions
  BY DEF Bump, Versions

(* The last of the commits, one appended, and all but the last of them.    *)
LEMMA LastOfLog ==
  ASSUME NEW s \in Seq(Commits)
  PROVE  /\ s # <<>> => Last(s) \in Commits
         /\ Front(s) \in Seq(Commits)
  BY DEF Last, Front

LEMMA LastAppended ==
  ASSUME NEW s \in Seq(Commits), NEW c \in Commits
  PROVE  Append(s, c) \in Seq(Commits) /\ Last(Append(s, c)) = c
  BY DEF Last

LEMMA ReleaseInitInv == ReleaseInit => ReleaseInv
<1> SUFFICES ASSUME ReleaseInit PROVE ReleaseInv
  OBVIOUS
<1>1. work \in Commits
  BY ReleaseAssumption DEF ReleaseInit, Commits
<1>2. TagsAreWhole
  BY DEF ReleaseInit, TagsAreWhole
<1> QED
  BY <1>1, <1>2, ReleaseAssumption DEF ReleaseInit, ReleaseInv, ReleaseTypes, Stage

(* The stages that write files: the root, the members, Cargo.lock. *)
LEMMA BeginReleaseKeeps == ReleaseInv /\ BeginRelease => ReleaseInv'
<1> SUFFICES ASSUME ReleaseInv, BeginRelease PROVE ReleaseInv'
  OBVIOUS
<1>1. work[RootToml] \in Versions
  BY DEF ReleaseInv, ReleaseTypes, BeginRelease, HasWorkspace, Commits, ReleaseFiles
<1>2. goal' \in Versions
  BY <1>1, BumpIsVersion, ReleaseAssumption DEF BeginRelease
<1> QED
  BY <1>2 DEF BeginRelease, Clean, ReleaseInv, ReleaseTypes, Stage, TagsAreWhole

LEMMA WriteRootKeeps == ReleaseInv /\ WriteRoot => ReleaseInv'
  BY DEF ReleaseInv, ReleaseTypes, Stage, TagsAreWhole, WriteRoot, Commits, ReleaseFiles

LEMMA WriteMemberKeeps == ReleaseInv /\ WriteMember => ReleaseInv'
<1> SUFFICES ASSUME ReleaseInv, WriteMember PROVE ReleaseInv'
  OBVIOUS
<1> DEFINE crate == NextCrate
<1>1. work' = [work EXCEPT ![crate] = goal] /\ touched' = touched \cup {crate}
  BY DEF WriteMember
<1> HIDE DEF crate
<1> QED
  BY <1>1 DEF ReleaseInv, ReleaseTypes, Stage, TagsAreWhole, WriteMember, Commits, ReleaseFiles

(* Cargo check passes: a listed crate that needed no rewrite is right, or  *)
(* is cut off, which cargo does not accept.                                *)
LEMMA CargoCheckKeeps == ReleaseInv /\ CargoCheck => ReleaseInv'
<1> SUFFICES ASSUME ReleaseInv, CargoCheck PROVE ReleaseInv'
  OBVIOUS
<1>1. work' \in Commits /\ work'[LockFile] = goal
  BY DEF ReleaseInv, ReleaseTypes, CargoCheck, Commits, ReleaseFiles
<1>2. \A f \in ReleaseFiles \ {LockFile} : work'[f] = work[f]
  BY DEF ReleaseInv, ReleaseTypes, CargoCheck, Commits
<1>3. ASSUME NEW m \in ToSet(ListedCrates) PROVE work[m] = goal
  <2>1. PICK n \in DOMAIN ListedCrates : m = ListedCrates[n]
    BY DEF ToSet
  <2>2. work[m] # TornText
    BY <1>3 DEF CargoCheck, Pins, Accepts
  <2> QED
    BY <2>1, <2>2 DEF CargoCheck, ToBump
<1>4. IsRelease(work', goal)
  BY <1>1, <1>2, <1>3, ReleaseAssumption
  DEF IsRelease, CargoCheck, ReleaseInv, Stage, Pins, ReleaseFiles
<1>5. \A f \in ReleaseFiles \ touched' : work'[f] = index[f]
  BY <1>2 DEF CargoCheck, ReleaseInv, Stage
<1> QED
  BY <1>1, <1>4, <1>5 DEF CargoCheck, ReleaseInv, ReleaseTypes, Stage, TagsAreWhole

(* The commands of git. *)
LEMMA GitAddKeeps == ReleaseInv /\ GitAdd => ReleaseInv'
<1> SUFFICES ASSUME ReleaseInv, GitAdd PROVE ReleaseInv'
  OBVIOUS
<1>1. index' = work
  BY DEF GitAdd, ReleaseInv, ReleaseTypes, Stage, Commits
<1> QED
  BY <1>1 DEF GitAdd, ReleaseInv, ReleaseTypes, Stage, TagsAreWhole

LEMMA GitCommitKeeps == ReleaseInv /\ GitCommit => ReleaseInv'
  BY LastAppended DEF GitCommit, ReleaseInv, ReleaseTypes, Stage, TagsAreWhole

LEMMA GitTagKeeps == ReleaseInv /\ GitTag => ReleaseInv'
<1> SUFFICES ASSUME ReleaseInv, GitTag PROVE ReleaseInv'
  OBVIOUS
<1>1. TagsAreWhole'
  BY DEF GitTag, ReleaseInv, Stage, TagsAreWhole
<1> QED
  BY <1>1 DEF GitTag, ReleaseInv, ReleaseTypes, Stage

(* A release that stops, and what the user does between two of them. *)
LEMMA OutsideKeeps ==
  ReleaseInv /\ (StopRelease \/ RepairPin \/ CommitAll \/ Discard \/ Undo) => ReleaseInv'
<1> SUFFICES ASSUME ReleaseInv, StopRelease \/ RepairPin \/ CommitAll \/ Discard \/ Undo PROVE ReleaseInv'
  OBVIOUS
<1>1. releasing' = "off" /\ goal' = goal
  BY DEF StopRelease, RepairPin, CommitAll, Discard, Undo, ResetTo
<1>2. ReleaseTypes'
  <2>1. CASE StopRelease
    BY <2>1 DEF StopRelease, ReleaseInv, ReleaseTypes, Commits
  <2>2. CASE RepairPin
    BY <2>2 DEF RepairPin, ReleaseInv, ReleaseTypes, Commits, ReleaseFiles
  <2>3. CASE CommitAll
    BY <2>3, LastAppended DEF CommitAll, ReleaseInv, ReleaseTypes
  <2>4. ASSUME NEW commits \in Seq(Commits), ResetTo(commits) PROVE ReleaseTypes'
    BY <2>4, LastOfLog DEF ResetTo, ReleaseInv, ReleaseTypes
  <2>5. CASE Discard \/ Undo
    BY <2>4, <2>5, LastOfLog DEF Discard, Undo, ReleaseInv, ReleaseTypes
  <2> QED
    BY <2>1, <2>2, <2>3, <2>5
<1>3. TagsAreWhole'
  <2>1. DeleteTag \/ tags' = tags
    BY DEF StopRelease, RepairPin, CommitAll, Discard, Undo
  <2>2. CASE DeleteTag
    BY <2>2 DEF DeleteTag, ReleaseInv, TagsAreWhole
  <2>3. CASE tags' = tags
    BY <2>3 DEF ReleaseInv, TagsAreWhole
  <2> QED
    BY <2>1, <2>2, <2>3
<1> QED
  BY <1>1, <1>2, <1>3 DEF ReleaseInv, Stage

LEMMA ReleaseStep ==
  ASSUME ReleaseInv, [ReleaseNext]_releaseVars
  PROVE  ReleaseInv'
<1>1. ReleaseInv /\ UNCHANGED releaseVars => ReleaseInv'
  BY DEF releaseVars, ReleaseInv, ReleaseTypes, Stage, TagsAreWhole
<1> QED
  BY <1>1, BeginReleaseKeeps, WriteRootKeeps, WriteMemberKeeps, CargoCheckKeeps, GitAddKeeps, GitCommitKeeps,
     GitTagKeeps, OutsideKeeps DEF ReleaseNext

(* release::run and git_commit_and_tag: a tag is of one version throughout *)
(* however many releases were stopped, repaired, committed by hand, reset  *)
(* or undone before it.                                                    *)
THEOREM TagsAreOfOneVersion == ReleaseSpec => []TagsAreWhole
<1>1. ReleaseInv => TagsAreWhole
  BY DEF ReleaseInv
<1> QED
  BY ReleaseInitInv, ReleaseStep, <1>1, PTL DEF ReleaseSpec
-----------------------------------------------------------------------------
(***************************************************************************)
(* Types of the parts.  What is shared by several steps is stated once; a  *)
(* type that needs more than itself to hold says what.                     *)
(***************************************************************************)
LEMMA TailTyped ==
  ASSUME NEW S, NEW s \in Seq(S), s # <<>>
  PROVE  Head(s) \in S /\ Tail(s) \in Seq(S)
  BY HeadTailProperties

Messages == [kind : {"response", "log", "closed"}, id : 0..MaxCalls]

(* The handshake is the first call, and no request is written before it.   *)
PluginTypes ==
  /\ PluginTypeOK
  /\ client = "none" => nextId = 0
  /\ nextId = 0 => waiting = "no"

LEMMA ReturnTyped ==
  ASSUME PluginTypes, NEW outcome \in {"ok", "stale", "err", "timeout"}, Return(outcome)
  PROVE  /\ result' \in [Threads -> {"none", "ok", "stale", "err", "timeout"}]
         /\ holder' \in Threads \cup {Nobody} /\ waiting' = "no"
         /\ client' \in {client, "loaded", "dropping"}
  BY DEF Return, PluginTypes, PluginTypeOK

LEMMA PluginStepTyped ==
  ASSUME PluginTypes, [PluginNext]_pluginVars
  PROVE  PluginTypes'
<1> USE PluginBounds DEF PluginTypes, PluginTypeOK
<1>1. CASE SpawnPlugin
  BY <1>1 DEF SpawnPlugin, Threads
<1>2. ASSUME NEW t \in Callers, CallPlugin(t) PROVE PluginTypes'
  BY <1>2 DEF CallPlugin, Threads
<1>3. CASE WriteRequest
  <2>1. CASE Return("err") /\ UNCHANGED stdin
    BY <1>3, <2>1, ReturnTyped DEF WriteRequest
  <2>2. CASE stdin' = Append(stdin, nextId) /\ waiting' = "answer" /\ UNCHANGED <<client, holder, result>>
    <3>1. nextId \in 1..MaxCalls
      BY <1>3 DEF WriteRequest
    <3> QED
      BY <1>3, <2>2, <3>1 DEF WriteRequest
  <2> QED
    BY <1>3, <2>1, <2>2 DEF WriteRequest
<1>4. CASE ReceiveMessage
  <2>1. waiting = "answer" /\ UNCHANGED <<nextId, stdin, taken, reader, grandchild>>
    BY <1>4 DEF ReceiveMessage
  <2>2. inbox' \in Seq([kind : {"response", "log", "closed"}, id : 0..MaxCalls])
    BY <1>4, TailTyped DEF ReceiveMessage
  <2>3. \/ UNCHANGED <<client, holder, waiting, result>>
        \/ \E outcome \in {"ok", "stale", "err"} : Return(outcome)
    BY <1>4 DEF ReceiveMessage, Answered
  <2>4. child' \in {child, "dead"}
    BY <1>4 DEF ReceiveMessage, Answered
  <2>5. /\ result' \in [Threads -> {"none", "ok", "stale", "err", "timeout"}]
        /\ holder' \in Threads \cup {Nobody} /\ waiting' \in {"no", "answer"}
        /\ client' \in {client, "loaded", "dropping"}
    BY <2>1, <2>3, ReturnTyped
  <2> QED
    BY <2>1, <2>2, <2>4, <2>5
<1>5. CASE Disconnected \/ TimeoutCall
  BY <1>5, ReturnTyped DEF Disconnected, TimeoutCall
<1>6. CASE KillDropped \/ JoinReader \/ DropRegistry \/ PluginMisbehaves \/ GrandchildExits
  BY <1>6 DEF KillDropped, JoinReader, DropRegistry, PluginMisbehaves, GrandchildExits
<1>7. CASE PluginReads
  <2>1. Head(stdin) \in 1..MaxCalls /\ Tail(stdin) \in Seq(1..MaxCalls)
    BY <1>7, TailTyped DEF PluginReads
  <2> QED
    BY <1>7, <2>1 DEF PluginReads
<1>8. CASE PluginWrites
  <2>1. Log \in Messages /\ \A id \in taken : Response(id) \in Messages
    BY DEF Log, Response, Messages
  <2>2. PICK msg \in Messages : inbox' = Append(inbox, msg)
    BY <1>8, <2>1 DEF PluginWrites, Send
  <2>3. inbox' \in Seq(Messages)
    BY <2>2 DEF Messages
  <2> QED
    BY <1>8, <2>3 DEF PluginWrites, Messages
<1>9. CASE ReaderEnds
  <2>1. Closed \in Messages
    BY DEF Closed, Messages
  <2>2. inbox' = Append(inbox, Closed) /\ inbox \in Seq(Messages)
    BY <1>9 DEF ReaderEnds, Messages
  <2>3. inbox' \in Seq(Messages)
    BY <2>1, <2>2
  <2>4. reader' \in BOOLEAN
    BY <1>9 DEF ReaderEnds
  <2> QED
    BY <1>9, <2>3, <2>4 DEF ReaderEnds, Messages
<1>10. CASE UNCHANGED pluginVars
  BY <1>10 DEF pluginVars
<1> QED
  BY <1>1, <1>2, <1>3, <1>4, <1>5, <1>6, <1>7, <1>8, <1>9, <1>10 DEF PluginNext, ClientStep

LEMMA PluginInitTyped == PluginInit => PluginTypes
<1> SUFFICES ASSUME PluginInit PROVE PluginTypes
  OBVIOUS
<1>1. stdin \in Seq(1..MaxCalls) /\ inbox \in Seq([kind : {"response", "log", "closed"}, id : 0..MaxCalls])
  BY DEF PluginInit
<1>2. reader \in BOOLEAN /\ grandchild \in BOOLEAN
  BY DEF PluginInit
<1>3. nextId \in 0..MaxCalls
  BY PluginBounds DEF PluginInit
<1> QED
  BY <1>1, <1>2, <1>3 DEF PluginInit, PluginTypes, PluginTypeOK

(* Client::call and reader_loop: the ids, the pipe and the channel of the  *)
(* client are what they are declared as, for any callers and any bounds.   *)
THEOREM PluginTyped == PluginSpec => []PluginTypeOK
<1>1. PluginTypes => PluginTypeOK
  BY DEF PluginTypes
<1> QED
  BY PluginInitTyped, PluginStepTyped, <1>1, PTL DEF PluginSpec
-----------------------------------------------------------------------------
(* An installer at work has the job that it works on. *)
WorkIsListed == \A i \in Installers : place[i] \in AtWork => jobs[i] # <<>>

WorkTyped ==
  /\ jobs \in [Installers -> Seq(Builtin)] /\ place \in [Installers -> Places]
  /\ failed \in [Installers -> Nat] /\ WorkIsListed

RestTyped ==
  /\ tree \in [Builtin \ Delegated -> {"absent", "half", "whole"}] /\ stage \in [Installers -> Stages]
  /\ mode \in [Installers -> {"off", "unit", "install"}]
  /\ path \in [Processes -> SUBSET Dirs] /\ readPath \in [Installers -> SUBSET Dirs]

StoreTypes == StoreInv /\ WorkTyped /\ RestTyped

LEMMA MoveTyped ==
  ASSUME WorkTyped, NEW i \in Installers, place[i] \in AtWork, NEW there \in Places, Move(i, there),
         UNCHANGED <<jobs, failed>>
  PROVE  WorkTyped'
  BY DEF WorkTyped, WorkIsListed, Move

LEMMA NextJobTyped ==
  ASSUME WorkTyped, NEW i \in Installers, place[i] \in AtWork, NextJob(i), failed' \in [Installers -> Nat]
  PROVE  WorkTyped'
<1>1. jobs[i] \in Seq(Builtin) /\ jobs[i] # <<>>
  BY DEF WorkTyped, WorkIsListed
<1>2. /\ Tail(jobs[i]) \in Seq(Builtin) /\ Len(jobs[i]) \in Nat
      /\ Len(jobs[i]) # 1 => Tail(jobs[i]) # <<>>
  <2>1. Tail(jobs[i]) \in Seq(Builtin) /\ Len(jobs[i]) \in Nat /\ Len(Tail(jobs[i])) = Len(jobs[i]) - 1
    BY <1>1, HeadTailProperties
  <2>2. Tail(jobs[i]) = <<>> => Len(jobs[i]) = 1
    <3>1. PICK rest : rest = Tail(jobs[i])
      OBVIOUS
    <3>2. PICK n \in Nat : n = Len(jobs[i]) /\ Len(rest) = n - 1
      BY <2>1, <3>1
    <3>3. rest = <<>> => Len(rest) = 0
      OBVIOUS
    <3> QED
      BY <3>1, <3>2, <3>3
  <2> QED
    BY <2>1, <2>2
<1>3. jobs' = [jobs EXCEPT ![i] = Tail(jobs[i])]
  BY DEF NextJob
<1>4. PICK there \in {"err", "ok", "resolve"} :
        place' = [place EXCEPT ![i] = there] /\ (there = "resolve" => Len(jobs[i]) # 1)
  BY DEF NextJob, Move
<1>5. \A j \in Installers : place'[j] \in AtWork => jobs'[j] # <<>>
  <2> TAKE j \in Installers
  <2>1. CASE j = i
    BY <1>2, <1>3, <1>4, <2>1 DEF WorkTyped, AtWork
  <2>2. CASE j # i
    BY <1>3, <1>4, <2>2 DEF WorkTyped, WorkIsListed
  <2> QED
    BY <2>1, <2>2
<1> QED
  BY <1>2, <1>3, <1>4, <1>5 DEF WorkTyped, WorkIsListed, Places

LEMMA GiveUpTyped ==
  ASSUME WorkTyped, NEW i \in Installers, place[i] \in AtWork, GiveUp(i)
  PROVE  WorkTyped'
<1>1. CASE mode[i] = "unit"
  BY <1>1, MoveTyped DEF GiveUp, Places
<1>2. CASE mode[i] # "unit"
  <2>1. failed' = [failed EXCEPT ![i] = failed[i] + 1]
    BY <1>2 DEF GiveUp
  <2>2. failed' \in [Installers -> Nat]
    BY <2>1 DEF WorkTyped
  <2> QED
    BY <1>2, <2>2, NextJobTyped DEF GiveUp
<1> QED
  BY <1>1, <1>2

LEMMA EnsuredTyped ==
  ASSUME WorkTyped, NEW i \in Installers, place[i] \in AtWork, Ensured(i)
  PROVE  WorkTyped'
<1>1. CASE Move(i, "read_path") /\ UNCHANGED <<jobs, failed>>
  BY <1>1, MoveTyped DEF Places
<1>2. CASE UNCHANGED failed /\ NextJob(i)
  BY <1>2, NextJobTyped DEF WorkTyped
<1> QED
  BY <1>1, <1>2 DEF Ensured

(* The lists of ensure_toolchain and install_all name builtin tools. *)
LEMMA JobsAreBuiltin ==
  ASSUME NEW req, NEW reqs
  PROVE  UnitJobs(req) \in Seq(Builtin) /\ CommandJobs(reqs) \in Seq(Builtin)
<1>1. UnitJobs(req) \in Seq(Builtin)
  <2>1. UnitJobs(req) \in UnitJobLists
    BY UnitListsAreJobLists
  <2>2. UnitJobLists \subseteq Seq(Builtin)
    <3>1. UvThenPython \in Seq(Builtin)
      BY DEF UvThenPython, Builtin
    <3>2. <<>> \in Seq(Builtin) /\ \A t \in Builtin : <<t>> \in Seq(Builtin)
      OBVIOUS
    <3> QED
      BY <3>1, <3>2 DEF UnitJobLists
  <2> QED
    BY <2>1, <2>2
<1> DEFINE planned == {PrimaryTool(r.adapter) : r \in {q \in reqs : Pinned(q)}}
           co      == UNION {ToSet(CoRequired(t)) : t \in planned}
<1>2. planned \subseteq Builtin
  BY DEF Pinned
<1>3. co \subseteq Builtin
  BY OnlyUvIsCoRequired, <1>2 DEF Builtin
<1>4. IsFiniteSet(Builtin)
  <2>1. IsFiniteSet({"go", "node", "python"} \cup {"uv"})
    <3>1. IsFiniteSet({}) /\ IsFiniteSet({} \cup {"go"})
      BY FS_EmptySet, FS_AddElement
    <3>2. IsFiniteSet(({} \cup {"go"}) \cup {"node"})
      BY <3>1, FS_AddElement
    <3>3. IsFiniteSet((({} \cup {"go"}) \cup {"node"}) \cup {"python"})
      BY <3>2, FS_AddElement
    <3>4. (({} \cup {"go"}) \cup {"node"}) \cup {"python"} = {"go", "node", "python"}
      OBVIOUS
    <3> QED
      BY <3>3, <3>4, FS_AddElement
  <2>2. {"go", "node", "python"} \cup {"uv"} = Builtin
    BY DEF Builtin
  <2> QED
    BY <2>1, <2>2
<1>5. ASSUME NEW S, S \subseteq Builtin PROVE SetToSeq(S) \in Seq(Builtin)
  <2>1. IsFiniteSet(S)
    BY <1>4, <1>5, FS_Subset
  <2>2. Cardinality(S) \in Nat /\ SetToSeq(S) \in [1..Cardinality(S) -> S]
    BY <2>1, SetAsList
  <2> QED
    BY <1>5, <2>2
<1>6. CommandJobs(reqs) = SetToSeq(co) \o SetToSeq(planned)
  BY DEF CommandJobs
<1> HIDE DEF planned, co
<1>7. PICK s \in Seq(Builtin), t \in Seq(Builtin) : CommandJobs(reqs) = s \o t
  BY <1>2, <1>3, <1>5, <1>6
<1>8. s \o t \in Seq(Builtin)
  OBVIOUS
<1> QED
  BY <1>1, <1>7, <1>8

LEMMA AskTyped ==
  ASSUME WorkTyped, NEW i \in Installers, NEW m \in {"unit", "install"}, NEW reqs, NEW host,
         AskFor(i, m, reqs, host)
  PROVE  WorkTyped'
<1>1. PICK todo : /\ jobs' = [jobs EXCEPT ![i] = todo]
                  /\ Move(i, IF todo # <<>> THEN "resolve"
                             ELSE IF m = "install" /\ ~ TargetKnown(host) THEN "err" ELSE "ok")
                  /\ todo = IF ~ TargetKnown(host) THEN <<>>
                            ELSE IF m = "unit" THEN UnitJobs(CHOOSE r \in reqs : TRUE) ELSE CommandJobs(reqs)
  BY DEF AskFor
<1>2. todo \in Seq(Builtin)
  <2>1. UnitJobs(CHOOSE r \in reqs : TRUE) \in Seq(Builtin) /\ CommandJobs(reqs) \in Seq(Builtin)
    BY JobsAreBuiltin
  <2>2. <<>> \in Seq(Builtin)
    OBVIOUS
  <2> QED
    BY <1>1, <2>1, <2>2
<1>3. PICK there \in {"resolve", "err", "ok"} :
        place' = [place EXCEPT ![i] = there] /\ (there = "resolve" => todo # <<>>)
  BY <1>1 DEF Move
<1>4. \A j \in Installers : place'[j] \in AtWork => jobs'[j] # <<>>
  <2> TAKE j \in Installers
  <2>1. CASE j = i
    BY <1>1, <1>3, <2>1 DEF WorkTyped, AtWork
  <2>2. CASE j # i
    BY <1>1, <1>3, <2>2 DEF WorkTyped, WorkIsListed
  <2> QED
    BY <2>1, <2>2
<1>5. UNCHANGED failed
  BY DEF AskFor
<1> QED
  BY <1>1, <1>2, <1>3, <1>4, <1>5 DEF WorkTyped, WorkIsListed, Places

(* Every step of an installer.  What goes on PATH is a builtin tool. *)
LEMMA InstallerTyped ==
  ASSUME StoreTypes, NEW i \in Installers, InstallerStep(i)
  PROVE  WorkTyped' /\ RestTyped'
<1> USE DEF At
<1>0. WorkTyped /\ RestTyped /\ ProcessOf[i] \in Processes
  BY DEF StoreTypes, Processes
<1>1. CASE ResolveVersion(i)
  <2>1. place[i] \in AtWork /\ UNCHANGED <<tree, stage, mode, path, readPath>>
    BY <1>1 DEF ResolveVersion, AtWork
  <2>2. WorkTyped'
    BY <1>0, <1>1, <2>1, MoveTyped, GiveUpTyped DEF ResolveVersion, Places
  <2> QED
    BY <1>0, <2>1, <2>2 DEF RestTyped
<1>2. CASE DelegatedEnsure(i) \/ CheckInstalled(i)
  <2>1. place[i] \in AtWork /\ UNCHANGED <<tree, stage, mode, path, readPath>>
    BY <1>2 DEF DelegatedEnsure, CheckInstalled, AtWork
  <2>2. \/ Move(i, "download") /\ UNCHANGED <<jobs, failed>>
        \/ Ensured(i) \/ GiveUp(i)
    BY <1>2 DEF DelegatedEnsure, CheckInstalled
  <2>3. WorkTyped'
    BY <1>0, <2>1, <2>2, MoveTyped, GiveUpTyped, EnsuredTyped DEF Places
  <2> QED
    BY <1>0, <2>1, <2>3 DEF RestTyped
<1>3. CASE Download(i) \/ Extract(i)
  <2>1. place[i] \in AtWork /\ UNCHANGED <<tree, mode, jobs, failed, path, readPath>>
    BY <1>3 DEF Download, Extract, AtWork
  <2>2. stage' \in [Installers -> Stages]
    BY <1>0, <1>3 DEF Download, Extract, RestTyped, Stages
  <2>3. \E there \in Places : Move(i, there)
    BY <1>3 DEF Download, Extract, Places
  <2>4. WorkTyped'
    BY <1>0, <2>1, <2>3, MoveTyped
  <2> QED
    BY <1>0, <2>1, <2>2, <2>4 DEF RestTyped
<1>4. CASE CompareDest(i) \/ RenameStage(i)
  <2>1. place[i] \in AtWork /\ UNCHANGED <<mode, path, readPath>>
    BY <1>4 DEF CompareDest, RenameStage, AtWork
  <2>2. stage' \in [Installers -> Stages]
    BY <1>0, <1>4 DEF CompareDest, RenameStage, RestTyped, Stages
  <2>3. tree' \in [Builtin \ Delegated -> {"absent", "half", "whole"}]
    BY <1>0, <1>4 DEF CompareDest, RenameStage, RestTyped
  <2>4. \/ Move(i, "rename") /\ UNCHANGED <<jobs, failed>>
        \/ Move(i, "unwind") /\ UNCHANGED <<jobs, failed>>
        \/ Ensured(i)
    BY <1>4 DEF CompareDest, RenameStage
  <2>5. WorkTyped'
    BY <1>0, <2>1, <2>4, MoveTyped, EnsuredTyped DEF Places
  <2> QED
    BY <1>0, <2>1, <2>2, <2>3, <2>5 DEF RestTyped
<1>5. CASE Unwind(i)
  <2>1. place[i] \in AtWork /\ UNCHANGED <<tree, mode, path, readPath>>
    BY <1>5 DEF Unwind, AtWork
  <2>2. stage' \in [Installers -> Stages]
    BY <1>0, <1>5 DEF Unwind, RestTyped, Stages
  <2>3. WorkTyped'
    BY <1>0, <1>5, <2>1, GiveUpTyped DEF Unwind
  <2> QED
    BY <1>0, <2>1, <2>2, <2>3 DEF RestTyped
<1>6. CASE ReadPath(i)
  <2>1. place[i] \in AtWork /\ UNCHANGED <<tree, stage, mode, jobs, failed, path>>
    BY <1>6 DEF ReadPath, AtWork
  <2>2. readPath' \in [Installers -> SUBSET Dirs]
    BY <1>0, <1>6 DEF ReadPath, RestTyped
  <2>3. WorkTyped'
    BY <1>0, <1>6, <2>1, MoveTyped DEF ReadPath, Places
  <2> QED
    BY <1>0, <2>1, <2>2, <2>3 DEF RestTyped
<1>7. CASE WritePath(i)
  <2>1. place[i] \in AtWork /\ UNCHANGED <<tree, stage, mode>>
    BY <1>7 DEF WritePath, AtWork
  <2>2. Tool(i) \in Dirs
    BY <1>7 DEF WritePath, StoreTypes, StoreInv, PathIsForUv, Dirs, Builtin
  <2>3. readPath[i] \cup {Tool(i)} \in SUBSET Dirs
    BY <1>0, <2>2 DEF RestTyped
  <2>4. path' \in [Processes -> SUBSET Dirs] /\ readPath' \in [Installers -> SUBSET Dirs]
    BY <1>0, <1>7, <2>3 DEF WritePath, RestTyped
  <2>5. failed' \in [Installers -> Nat] /\ NextJob(i)
    BY <1>0, <1>7 DEF WritePath, WorkTyped
  <2>6. WorkTyped'
    BY <1>0, <2>1, <2>5, NextJobTyped
  <2> QED
    BY <1>0, <2>1, <2>4, <2>6 DEF RestTyped
<1> QED
  BY <1>1, <1>2, <1>3, <1>4, <1>5, <1>6, <1>7 DEF InstallerStep

LEMMA KillTyped ==
  ASSUME StoreTypes, NEW p \in Processes, KillInstallers(p)
  PROVE  WorkTyped' /\ RestTyped'
<1>1. WorkTyped /\ RestTyped /\ UNCHANGED <<tree, stage, mode>>
  BY DEF StoreTypes, KillInstallers
<1>2. \A i \in Installers : /\ jobs[i] \in Seq(Builtin) /\ <<>> \in Seq(Builtin) /\ place[i] \in Places
                            /\ failed[i] \in Nat
  BY <1>1 DEF WorkTyped
<1>3. jobs' \in [Installers -> Seq(Builtin)]
  BY <1>2 DEF KillInstallers
<1>4. place' \in [Installers -> Places] /\ failed' \in [Installers -> Nat]
  BY <1>2 DEF KillInstallers, Places
<1>5. WorkIsListed'
  BY <1>1 DEF WorkTyped, WorkIsListed, KillInstallers, AtWork
<1>6. path' \in [Processes -> SUBSET Dirs] /\ readPath' \in [Installers -> SUBSET Dirs]
  BY <1>1 DEF RestTyped, KillInstallers
<1> QED
  BY <1>1, <1>3, <1>4, <1>5, <1>6 DEF WorkTyped, RestTyped

LEMMA StoreStepTyped ==
  ASSUME StoreTypes, [StoreNext]_toolchainVars
  PROVE  StoreTypes'
<1>1. StoreInv'
  BY StoreStep DEF StoreTypes
<1>2. ASSUME NEW i \in Installers, NEW m \in {"unit", "install"}, NEW reqs \in SUBSET Requests,
             NEW host \in Hosts, AskFor(i, m, reqs, host)
      PROVE  WorkTyped' /\ RestTyped'
  <2>1. WorkTyped'
    BY <1>2, AskTyped DEF StoreTypes
  <2>2. mode' = [mode EXCEPT ![i] = m] /\ UNCHANGED <<tree, stage, path, readPath>>
    BY <1>2 DEF AskFor
  <2> QED
    BY <2>1, <2>2 DEF StoreTypes, RestTyped
<1>3. ASSUME UNCHANGED toolchainVars PROVE WorkTyped' /\ RestTyped'
  <2>1. UNCHANGED <<tree, stage, mode, jobs, place, failed, path, readPath>>
    BY <1>3 DEF toolchainVars
  <2>2. WorkTyped'
    BY <2>1 DEF StoreTypes, WorkTyped, WorkIsListed
  <2>3. RestTyped'
    BY <2>1 DEF StoreTypes, RestTyped
  <2> QED
    BY <2>2, <2>3
<1>4. WorkTyped' /\ RestTyped'
  <2>1. CASE \E i \in Installers, m \in {"unit", "install"}, reqs \in SUBSET Requests, host \in Hosts :
               AskFor(i, m, reqs, host)
    BY <1>2, <2>1
  <2>2. CASE \E i \in Installers : InstallerStep(i)
    BY <2>2, InstallerTyped
  <2>3. CASE \E p \in Processes : KillInstallers(p)
    BY <2>3, KillTyped
  <2> QED
    BY <1>3, <2>1, <2>2, <2>3 DEF StoreNext
<1> QED
  BY <1>1, <1>4 DEF StoreTypes

LEMMA StoreInitTyped == StoreInit => StoreTypes
<1> SUFFICES ASSUME StoreInit PROVE StoreTypes
  OBVIOUS
<1>1. <<>> \in Seq(Builtin)
  OBVIOUS
<1>2. WorkTyped
  BY <1>1 DEF StoreInit, WorkTyped, WorkIsListed, Places, AtWork
<1>3. RestTyped
  BY DEF StoreInit, RestTyped, Stages, Dirs
<1> QED
  BY <1>2, <1>3, StoreBegins DEF StoreTypes

(* ensure_toolchain, install_all and Installer::ensure: for any installers *)
(* and processes, an installer at work has a job of the builtin tools, and *)
(* what it puts on PATH is one of them.                                    *)
THEOREM StoreTyped == StoreSpec => []StoreTypeOK
<1>1. StoreTypes => StoreTypeOK
  BY DEF StoreTypes, WorkTyped, RestTyped, StoreTypeOK
<1> QED
  BY StoreInitTyped, StoreStepTyped, <1>1, PTL DEF StoreSpec
-----------------------------------------------------------------------------
LEMMA SuperviseStepTyped ==
  ASSUME SuperviseTypeOK, [SuperviseNext]_superviseVars
  PROVE  SuperviseTypeOK'
<1> DEFINE Events == {"input", "other", "access", "error"}
<1>1. /\ command \in Boots /\ catchAll \in BOOLEAN /\ watching \in BOOLEAN /\ exited \in BOOLEAN
      /\ loop \in {"watch", "spawn", "idle", "debounce", "ended"} /\ rx \in Seq(Events)
      /\ sources \in 0..MaxEdits /\ seenFrom \in 0..MaxEdits /\ server \in 0..MaxEdits \cup {NoServer}
  BY DEF SuperviseTypeOK
<1>2. CASE UNCHANGED superviseVars
  BY <1>1, <1>2 DEF superviseVars, SuperviseTypeOK
<1>3. ASSUME NEW event \in Events, Notice(event) PROVE rx' \in Seq(Events)
  BY <1>1, <1>3 DEF Notice
<1>4. CASE Edit
  <2>1. sources' \in 0..MaxEdits /\ rx' \in Seq(Events)
    BY <1>1, <1>3, <1>4, SuperviseBounds DEF Edit
  <2> QED
    BY <1>1, <1>4, <2>1 DEF Edit, SuperviseTypeOK
<1>5. CASE OtherEvent
  <2>1. rx' \in Seq(Events)
    BY <1>3, <1>5 DEF OtherEvent
  <2> QED
    BY <1>1, <1>5, <2>1 DEF OtherEvent, SuperviseTypeOK
<1>6. CASE ServerExits \/ CreateWatcher
  BY <1>1, <1>6 DEF ServerExits, CreateWatcher, SuperviseTypeOK
<1>7. CASE SpawnServer \/ DebounceEnds
  BY <1>1, <1>7 DEF SpawnServer, DebounceEnds, SuperviseTypeOK
<1>8. CASE NextEvent \/ CollectEvent
  <2>1. rx # <<>> /\ rx' = Tail(rx)
    BY <1>8 DEF NextEvent, CollectEvent
  <2>2. rx' \in Seq(Events)
    BY <1>1, <2>1, TailTyped
  <2> QED
    BY <1>1, <1>8, <2>2 DEF NextEvent, CollectEvent, SuperviseTypeOK
<1> QED
  BY <1>2, <1>4, <1>5, <1>6, <1>7, <1>8 DEF SuperviseNext, SuperviseStep

LEMMA SuperviseInitTyped == SuperviseInit => SuperviseTypeOK
<1> SUFFICES ASSUME SuperviseInit PROVE SuperviseTypeOK
  OBVIOUS
<1>1. rx \in Seq({"input", "other", "access", "error"})
  BY DEF SuperviseInit
<1>2. sources \in 0..MaxEdits /\ seenFrom \in 0..MaxEdits
  BY SuperviseBounds DEF SuperviseInit
<1>3. watching \in BOOLEAN /\ exited \in BOOLEAN /\ loop \in {"watch", "spawn"}
  BY DEF SuperviseInit
<1> QED
  BY <1>1, <1>2, <1>3 DEF SuperviseInit, SuperviseTypeOK

(* UnitWatcher and the loops of run_dev and supervise_unit. *)
THEOREM SuperviseTyped == SuperviseSpec => []SuperviseTypeOK
  BY SuperviseInitTyped, SuperviseStepTyped, PTL DEF SuperviseSpec
-----------------------------------------------------------------------------
(* The polls: the interval is one that the server named, or 1, or a        *)
(* doubled one that the limit has cut.                                     *)
PollTyped ==
  /\ device \in [expires : Expiries \cup {0}, interval : Intervals \cup {0}]
  /\ interval \in Intervals \cup 0..PollCap
  /\ object \in Uploaders \cup {NoBundle} /\ attempt \in [Uploaders -> 1..2]

HostedTypes == PutInv /\ LoginInv /\ PollTyped

LEMMA HostedStepTyped ==
  ASSUME HostedTypes, [HostedNext]_hostedVars
  PROVE  HostedTypes'
<1> USE HostedBounds
<1>1. PutInv' /\ LoginInv'
  BY PutStep, LoginStep DEF HostedTypes
<1>2. PollTyped /\ interval \in Nat
  BY DEF HostedTypes, LoginInv, LoginTypeOK
<1>3. CASE RequestDeviceCode
  <2>1. \A n \in Intervals : Larger(n, 1) \in Intervals \cup 0..PollCap
    BY DEF Larger
  <2> QED
    BY <1>1, <1>2, <1>3, <2>1 DEF RequestDeviceCode, HostedTypes, PollTyped, putVars
<1>4. CASE Poll
  <2>1. Backoff \in Intervals \cup 0..PollCap
    BY <1>2 DEF Backoff, Smaller
  <2>2. interval' \in {interval, Backoff} /\ UNCHANGED <<device, object, attempt>>
    BY <1>4 DEF Poll, putVars
  <2> QED
    BY <1>1, <1>2, <2>1, <2>2 DEF HostedTypes, PollTyped
<1>5. CASE PollTimesOut \/ ObjectExpires \/ UNCHANGED hostedVars
  BY <1>1, <1>2, <1>5 DEF PollTimesOut, ObjectExpires, hostedVars, putVars, loginVars, HostedTypes, PollTyped
<1>6. ASSUME NEW u \in Uploaders, StartPut(u) PROVE HostedTypes'
  BY <1>1, <1>2, <1>6 DEF StartPut, loginVars, HostedTypes, PollTyped
<1>7. ASSUME NEW u \in Uploaders, SendRequest(u) PROVE HostedTypes'
  <2>1. object' \in {object, u} /\ (attempt' = [attempt EXCEPT ![u] = 1] \/ attempt' = [attempt EXCEPT ![u] = 2])
    BY <1>7 DEF SendRequest
  <2>2. UNCHANGED <<device, interval>>
    BY <1>7 DEF SendRequest, loginVars
  <2> QED
    BY <1>1, <1>2, <2>1, <2>2 DEF HostedTypes, PollTyped
<1> QED
  BY <1>3, <1>4, <1>5, <1>6, <1>7 DEF HostedNext

LEMMA HostedInitTyped == HostedInit => HostedTypes
<1> SUFFICES ASSUME HostedInit PROVE HostedTypes
  OBVIOUS
<1>1. PollTyped
  BY HostedBounds DEF HostedInit, PollTyped
<1> QED
  BY <1>1, PutInit, LoginBegins DEF HostedTypes

(* BearerRemote and login::run. *)
THEOREM HostedTyped == HostedSpec => []HostedTypeOK
<1>1. HostedTypes => HostedTypeOK
  BY DEF HostedTypes, PutInv, PutTypeOK, Exchanges, LoginInv, LoginTypeOK, PollTyped, HostedTypeOK
<1> QED
  BY HostedInitTyped, HostedStepTyped, <1>1, PTL DEF HostedSpec
-----------------------------------------------------------------------------
(* run_install and write_config. *)
THEOREM InstallTyped == InstallSpec => []InstallTypeOK
<1>1. InstallInv => InstallTypeOK
  BY DEF InstallInv, InstallShape, Invocations, InstallTypeOK
<1> QED
  BY InstallBegins, InstallStep, <1>1, PTL DEF InstallSpec
-----------------------------------------------------------------------------
SidecarsTyped ==
  /\ sidecars \in [DeployTasks -> {NoFile, TornFile} \cup {File(p) : p \in Payloads}]
  /\ teller \in {"off", "write", "send"} /\ notified \in [slack : Results, linear : Results]
  /\ commented \in BOOLEAN /\ deploys \in 0..MaxDeploys

AnnounceTypes == AnnounceInv /\ SidecarsTyped

LEMMA AnnounceStepTyped ==
  ASSUME AnnounceTypes, [AnnounceNext]_announceVars
  PROVE  AnnounceTypes'
<1>1. AnnounceInv'
  BY AnnounceStep DEF AnnounceTypes
<1>2. SidecarsTyped
  BY DEF AnnounceTypes
<1>3. CASE DeployEnds
  <2>1. teller' = "write" /\ deploys' \in 0..MaxDeploys /\ UNCHANGED <<sidecars, notified, commented>>
    BY <1>2, <1>3, AnnounceAssumption DEF DeployEnds, SidecarsTyped
  <2> QED
    BY <1>1, <1>2, <2>1 DEF AnnounceTypes, SidecarsTyped
<1>4. ASSUME NEW t \in DeployTasks, TruncateSidecar(t) \/ WriteSidecar(t) PROVE AnnounceTypes'
  <2>1. UNCHANGED <<teller, notified, commented, deploys>>
    BY <1>4 DEF TruncateSidecar, WriteSidecar
  <2>2. ASSUME WriteSidecar(t) PROVE Mine(t) \in Payloads
    <3>1. \E n \in DOMAIN unsent : unsent[n].task = t
      BY <2>2 DEF WriteSidecar, ToWrite
    <3>2. unsent \in Seq(Payloads)
      BY DEF AnnounceTypes, AnnounceInv, AnnounceShape
    <3> QED
      BY <3>1, <3>2 DEF Mine
  <2>3. \/ sidecars' = [sidecars EXCEPT ![t] = TornFile]
        \/ Mine(t) \in Payloads /\ sidecars' = [sidecars EXCEPT ![t] = File(Mine(t))]
    BY <1>4, <2>2 DEF TruncateSidecar, WriteSidecar
  <2>4. sidecars' \in [DeployTasks -> {NoFile, TornFile} \cup {File(p) : p \in Payloads}]
    BY <1>2, <2>3 DEF SidecarsTyped
  <2> QED
    BY <1>1, <1>2, <2>1, <2>4 DEF AnnounceTypes, SidecarsTyped
<1>5. CASE ReplaySidecars \/ FanOutOrStop \/ Reopen
  <2>1. teller' \in {"off", "write", "send"} /\ UNCHANGED <<sidecars, notified, commented, deploys>>
    BY <1>2, <1>5 DEF ReplaySidecars, FanOutOrStop, Reopen, SidecarsTyped
  <2> QED
    BY <1>1, <1>2, <2>1 DEF AnnounceTypes, SidecarsTyped
<1>6. CASE NextPayload \/ KillTeller
  <2>1. /\ teller' \in {"off", "send"} /\ notified' = Fresh /\ UNCHANGED <<sidecars, commented, deploys>>
        /\ Fresh \in [slack : Results, linear : Results]
    BY <1>6 DEF NextPayload, KillTeller, Fresh, Results
  <2> QED
    BY <1>1, <1>2, <2>1 DEF AnnounceTypes, SidecarsTyped
<1>7. CASE SlackPost \/ LinearMove
  <2>1. UNCHANGED <<sidecars, teller, commented, deploys>>
    BY <1>7 DEF SlackPost, LinearMove
  <2>2. \E made \in Results : notified' \in {[notified EXCEPT !.slack = made], [notified EXCEPT !.linear = made]}
    BY <1>7 DEF SlackPost, LinearMove, LinearExit, Results
  <2>3. notified' \in [slack : Results, linear : Results]
    BY <1>2, <2>2 DEF SidecarsTyped
  <2> QED
    BY <1>1, <1>2, <2>1, <2>3 DEF AnnounceTypes, SidecarsTyped
<1>8. CASE LinearComment
  <2>1. UNCHANGED <<sidecars, teller, deploys>>
    BY <1>8 DEF LinearComment
  <2>2. \E made \in Results : notified' = [notified EXCEPT !.linear = made]
    BY <1>8 DEF LinearComment, Results
  <2>3. notified' \in [slack : Results, linear : Results]
    BY <1>2, <2>2 DEF SidecarsTyped
  <2>4. commented' \in BOOLEAN
    BY <1>8 DEF LinearComment
  <2> QED
    BY <1>1, <1>2, <2>1, <2>3, <2>4 DEF AnnounceTypes, SidecarsTyped
<1>9. CASE UNCHANGED announceVars
  BY <1>1, <1>2, <1>9 DEF announceVars, AnnounceTypes, SidecarsTyped
<1> QED
  BY <1>3, <1>4, <1>5, <1>6, <1>7, <1>8, <1>9 DEF AnnounceNext

LEMMA AnnounceInitTyped == AnnounceInit => AnnounceTypes
<1> SUFFICES ASSUME AnnounceInit PROVE AnnounceTypes
  OBVIOUS
<1>1. Fresh \in [slack : Results, linear : Results] /\ 0 \in 0..MaxDeploys
  BY AnnounceAssumption DEF Fresh, Results
<1>2. commented \in BOOLEAN
  BY DEF AnnounceInit
<1>3. SidecarsTyped
  BY <1>1, <1>2 DEF AnnounceInit, SidecarsTyped
<1> QED
  BY <1>3, AnnounceBegins DEF AnnounceTypes

LEMMA AnnounceTypesSuffice == AnnounceTypes => AnnounceTypeOK
<1> SUFFICES ASSUME AnnounceTypes PROVE AnnounceTypeOK
  OBVIOUS
<1>1. /\ unsent \in Seq(Payloads) /\ earned \subseteq Payloads /\ posted \subseteq earned
      /\ \A issue \in moved : \E p \in earned : issue \in p.issues
  BY DEF AnnounceTypes, AnnounceInv, AnnounceShape, OnlyDeploysAreTold
<1>2. \A p \in Payloads : p.issues \subseteq Issues
  BY DEF Payloads
<1>3. moved \subseteq Issues
  BY <1>1, <1>2
<1> QED
  BY <1>1, <1>3 DEF AnnounceTypes, SidecarsTyped, AnnounceTypeOK

(* write_notification_sidecar, slack_post::run and linear_notify::run. *)
THEOREM AnnounceTyped == AnnounceSpec => []AnnounceTypeOK
  BY AnnounceInitTyped, AnnounceStepTyped, AnnounceTypesSuffice, PTL DEF AnnounceSpec
-----------------------------------------------------------------------------
(* There is always a commit, the first one at least, for a tag to name. *)
TagsTyped ==
  /\ log # <<>> /\ touched \subseteq ReleaseFiles /\ releases \in 0..MaxReleases
  /\ \A v \in DOMAIN tags : tags[v] \in Commits

TagTypes == ReleaseInv /\ TagsTyped

LEMMA NextCrateIsCrate == ToBump # {} => NextCrate \in ReleaseFiles
<1> SUFFICES ASSUME ToBump # {} PROVE NextCrate \in ReleaseFiles
  OBVIOUS
<1>1. ToBump \in SUBSET Nat
  BY ReleaseAssumption DEF ToBump
<1>2. \E n \in ToBump : \A k \in ToBump : n <= k
  BY <1>1, LeastNumber
<1>3. PICK n \in ToBump : NextCrate = ListedCrates[n]
  BY <1>2 DEF NextCrate
<1>4. ListedCrates[n] \in ToSet(ListedCrates)
  BY <1>3 DEF ToBump, ToSet
<1> QED
  BY <1>3, <1>4 DEF ReleaseFiles, Pins

LEMMA ReleaseStepTyped ==
  ASSUME TagTypes, [ReleaseNext]_releaseVars
  PROVE  TagTypes'
<1>1. ReleaseInv'
  BY ReleaseStep DEF TagTypes
<1>2. ReleaseTypes /\ TagsTyped
  BY DEF TagTypes, ReleaseInv
<1>3. CASE BeginRelease
  BY <1>1, <1>2, <1>3, ReleaseAssumption DEF BeginRelease, TagTypes, TagsTyped
<1>4. CASE WriteRoot \/ CargoCheck
  BY <1>1, <1>2, <1>4 DEF WriteRoot, CargoCheck, TagTypes, TagsTyped, ReleaseFiles
<1>5. CASE WriteMember
  <2>1. touched' = touched \cup {NextCrate} /\ NextCrate \in ReleaseFiles
    BY <1>5, NextCrateIsCrate DEF WriteMember
  <2> HIDE DEF NextCrate
  <2> QED
    BY <1>1, <1>2, <1>5, <2>1 DEF WriteMember, TagTypes, TagsTyped
<1>6. CASE GitAdd \/ StopRelease \/ RepairPin \/ UNCHANGED releaseVars
  BY <1>1, <1>2, <1>6 DEF GitAdd, StopRelease, RepairPin, releaseVars, TagTypes, TagsTyped
<1>7. CASE GitCommit \/ CommitAll
  <2>1. PICK c \in Commits : log' = Append(log, c)
    BY <1>2, <1>7 DEF GitCommit, CommitAll, ReleaseTypes
  <2>2. log' # <<>>
    BY <1>2, <2>1 DEF ReleaseTypes
  <2> QED
    BY <1>1, <1>2, <1>7, <2>2 DEF GitCommit, CommitAll, TagTypes, TagsTyped
<1>8. CASE GitTag
  <2>1. Last(log) \in Commits
    BY <1>2, LastOfLog DEF ReleaseTypes, TagsTyped
  <2>2. \A v \in DOMAIN tags' : tags'[v] \in Commits
    BY <1>2, <1>8, <2>1 DEF GitTag, TagsTyped
  <2> QED
    BY <1>1, <1>2, <1>8, <2>2 DEF GitTag, TagTypes, TagsTyped
<1>9. CASE Discard \/ Undo
  <2>1. log' # <<>> /\ UNCHANGED <<touched, releases>> /\ (DeleteTag \/ UNCHANGED tags)
    BY <1>9 DEF Discard, Undo, ResetTo
  <2>2. \A v \in DOMAIN tags' : tags'[v] \in Commits
    BY <1>2, <2>1 DEF DeleteTag, TagsTyped
  <2> QED
    BY <1>1, <1>2, <2>1, <2>2 DEF TagTypes, TagsTyped
<1> QED
  BY <1>3, <1>4, <1>5, <1>6, <1>7, <1>8, <1>9 DEF ReleaseNext

LEMMA ReleaseInitTyped == ReleaseInit => TagTypes
  BY ReleaseInitInv, ReleaseAssumption DEF ReleaseInit, TagTypes, TagsTyped

(* release::run and git_commit_and_tag: there is always a commit for a tag *)
(* to name, and only files of the workspace are staged.                    *)
THEOREM ReleaseTyped == ReleaseSpec => []ReleaseTypeOK
<1>1. TagTypes => ReleaseTypeOK
  BY DEF TagTypes, TagsTyped, ReleaseInv, ReleaseTypes, ReleaseTypeOK
<1> QED
  BY ReleaseInitTyped, ReleaseStepTyped, <1>1, PTL DEF ReleaseSpec
-----------------------------------------------------------------------------
(* What a deploy has still to do, what failed and what it reached is of    *)
(* the tasks of the unit.                                                  *)
ResolvedNames   == {t.name : t \in Resolved}
Reached == {Place(t.target, SeenBy(t)) : t \in Resolved}

DeployTypes == DeploysTypeOK /\ OffIsDone

LEMMA OffStaysDone ==
  ASSUME OffIsDone, [DeploysNext]_deployVars
  PROVE  OffIsDone'
<1>1. CASE StartDeploy \/ ReplayNotify
  BY <1>1 DEF StartDeploy, ReplayNotify, OffIsDone
<1>2. CASE StartNotify \/ EndDeploy
  BY <1>2 DEF StartNotify, EndDeploy, OffIsDone
<1>3. CASE \E t \in Resolved : PreflightFails(t) \/ RunTask(t)
  BY <1>3 DEF PreflightFails, RunTask, OffIsDone
<1>4. CASE \E i \in Integrations, n \in SecretNames, shell \in Shells :
              PutSecret(i, n, shell) \/ DeleteSecret(i, n, shell)
  BY <1>4 DEF PutSecret, DeleteSecret, OffIsDone
<1>5. CASE UNCHANGED deployVars
  BY <1>5 DEF deployVars, OffIsDone
<1> QED
  BY <1>1, <1>2, <1>3, <1>4, <1>5 DEF DeploysNext

LEMMA DeployStepTyped ==
  ASSUME DeployTypes, [DeploysNext]_deployVars
  PROVE  DeployTypes'
<1> DEFINE D == /\ unit \in UnitConfigs /\ call \in Deploys /\ deployStage \in {"off", "tasks", "notify"}
                /\ awaited \subseteq ResolvedNames /\ failures \subseteq ResolvedNames
                /\ shipped \subseteq Reached
                /\ last # << >> => last.task \in Resolved
                /\ promised \subseteq Integrations \X SecretNames \X Shells
                /\ \A p \in stored : p[2] \in SecretNames
                /\ commands \in 0..MaxCommands
<1>1. D
  BY DEF DeployTypes, DeploysTypeOK, ResolvedNames, Reached
<1>2. UNCHANGED unit
  BY DEF DeploysNext, deployVars, StartDeploy, ReplayNotify, StartNotify, EndDeploy, PreflightFails, RunTask,
         PutSecret, DeleteSecret
<1>3. Resolved' = Resolved
  BY <1>2, UnitStays
<1>4. /\ ResolvedNames' = ResolvedNames /\ Shells' = Shells
      /\ UNCHANGED call => Reached' = Reached
  <2>1. UNCHANGED call => \A t : SeenBy(t)' = SeenBy(t)
    BY <1>2, CallStays
  <2> QED
    BY <1>3, <2>1 DEF ResolvedNames, Reached, Shells
<1>5. SUFFICES D'
  BY <1>3, <1>4, OffStaysDone DEF DeployTypes, DeploysTypeOK, ResolvedNames, Reached
<1>6. \A kind : Named(kind) \subseteq ResolvedNames
  BY DEF Named, ResolvedNames
<1>7. Count => commands' \in 0..MaxCommands
  BY <1>1, DeploysAssumption DEF Count
<1> HIDE DEF ResolvedNames, Reached, Resolved
<1>8. CASE StartDeploy \/ ReplayNotify
  <2>1. /\ call' \in Deploys /\ deployStage' \in {"tasks", "notify"} /\ commands' \in 0..MaxCommands
        /\ UNCHANGED <<failures, shipped, last, stored, promised>> /\ shipped = {}
    BY <1>7, <1>8 DEF StartDeploy, ReplayNotify, Asked, DeployTypes, OffIsDone
  <2>2. awaited' = Named(call'.kind) \/ awaited' = Named("notify")
    BY <1>8 DEF StartDeploy, ReplayNotify
  <2>3. awaited' \subseteq ResolvedNames
    BY <1>6, <2>2
  <2> QED
    BY <1>1, <1>2, <1>3, <1>4, <2>1, <2>3
<1>9. CASE StartNotify \/ EndDeploy
  <2>1. /\ deployStage' \in {"off", "notify"} /\ UNCHANGED <<call, stored, promised, commands>>
        /\ awaited' \in {awaited, Named("notify")} /\ failures' \in {failures, {}} /\ shipped' \in {shipped, {}}
        /\ last' \in {last, << >>}
    BY <1>9 DEF StartNotify, EndDeploy
  <2> QED
    BY <1>1, <1>2, <1>3, <1>4, <1>6, <2>1
<1>10. ASSUME NEW t \in Resolved, PreflightFails(t) \/ RunTask(t) PROVE D'
  <2>1. t.name \in ResolvedNames /\ Place(t.target, SeenBy(t)) \in Reached
    BY DEF ResolvedNames, Reached
  <2>2. /\ UNCHANGED <<call, deployStage, stored, promised, commands>>
        /\ awaited' \subseteq awaited /\ failures' \subseteq failures \cup {t.name}
        /\ shipped' \subseteq shipped \cup {Place(t.target, SeenBy(t))}
    BY <1>10 DEF PreflightFails, RunTask, Fail
  <2>3. last' = last \/ last'.task = t
    BY <1>10 DEF PreflightFails, RunTask
  <2> QED
    BY <1>1, <1>2, <1>3, <1>4, <2>1, <2>2, <2>3
<1>11. ASSUME NEW i \in Integrations, NEW n \in SecretNames, NEW shell \in Shells,
              PutSecret(i, n, shell) \/ DeleteSecret(i, n, shell)
       PROVE  D'
  <2>1. UNCHANGED <<call, deployStage, awaited, failures, shipped, last>> /\ commands' \in 0..MaxCommands
    BY <1>7, <1>11 DEF PutSecret, DeleteSecret
  <2>2. promised' \subseteq promised \cup {<<i, n, shell>>}
    BY <1>11 DEF PutSecret, DeleteSecret
  <2>3. \A p \in stored' : p \in stored \/ p[2] = n
    BY <1>11 DEF PutSecret, DeleteSecret
  <2> QED
    BY <1>1, <1>2, <1>3, <1>4, <2>1, <2>2, <2>3
<1>12. CASE UNCHANGED deployVars
  BY <1>1, <1>3, <1>4, <1>12 DEF deployVars
<1> QED
  BY <1>8, <1>9, <1>10, <1>11, <1>12 DEF DeploysNext

LEMMA DeployInitTyped == DeploysInit => DeployTypes
<1> SUFFICES ASSUME DeploysInit PROVE DeployTypes
  OBVIOUS
<1>1. call \in Deploys
  BY DeploysAssumption DEF DeploysInit
<1> QED
  BY <1>1, DeploysAssumption DEF DeploysInit, DeployTypes, DeploysTypeOK, OffIsDone

(* run_deploy and monad secret, for any unit and any invocations. *)
THEOREM DeploysTyped == DeploySpec => []DeploysTypeOK
<1>1. DeployTypes => DeploysTypeOK
  BY DEF DeployTypes
<1> QED
  BY DeployInitTyped, DeployStepTyped, <1>1, PTL DEF DeploySpec
-----------------------------------------------------------------------------
(***************************************************************************)
(* All parts together.  Each behaviour moves one of them; the others keep  *)
(* what their beginning has established.                                   *)
(***************************************************************************)
Parts == {"toolchain", "plugin", "supervise", "hosted", "install", "announce", "setup", "release", "deploys"}

ServicesInv ==
  /\ part \in Parts
  /\ StoreTypes /\ PluginInv /\ PluginTypes /\ SuperviseTypeOK /\ HostedTypes /\ InstallInv
  /\ AnnounceTypes /\ SetupInv /\ TagTypes /\ DeployTypes

LEMMA ServicesBegin == Init => ServicesInv
<1> SUFFICES ASSUME Init PROVE ServicesInv
  OBVIOUS
<1>1. part \in Parts
  BY DEF Init, Parts
<1>2. StoreTypes /\ PluginInv /\ PluginTypes /\ SuperviseTypeOK /\ HostedTypes
  BY StoreInitTyped, PluginBegins, PluginInitTyped, SuperviseInitTyped, HostedInitTyped DEF Init
<1>3. InstallInv /\ AnnounceTypes /\ SetupInv /\ TagTypes /\ DeployTypes
  BY InstallBegins, AnnounceInitTyped, InitInv, ReleaseInitTyped, DeployInitTyped DEF Init
<1> QED
  BY <1>1, <1>2, <1>3 DEF ServicesInv

(* A step of one part is a step of nothing else. *)
LEMMA OnePartMoves ==
  ASSUME [Next]_vars
  PROVE  /\ [StoreNext]_toolchainVars /\ [PluginNext]_pluginVars /\ [SuperviseNext]_superviseVars
         /\ [HostedNext]_hostedVars /\ [InstallNext]_installVars /\ [AnnounceNext]_announceVars
         /\ [SetupNext]_setupVars /\ [ReleaseNext]_releaseVars /\ [DeploysNext]_deployVars
         /\ UNCHANGED part
  BY DEF Next, vars

LEMMA ServicesStep ==
  ASSUME ServicesInv, [Next]_vars
  PROVE  ServicesInv'
<1>1. /\ [StoreNext]_toolchainVars /\ [PluginNext]_pluginVars /\ [SuperviseNext]_superviseVars
      /\ [HostedNext]_hostedVars /\ [InstallNext]_installVars /\ [AnnounceNext]_announceVars
      /\ [SetupNext]_setupVars /\ [ReleaseNext]_releaseVars /\ [DeploysNext]_deployVars
      /\ UNCHANGED part
  BY OnePartMoves
<1>2. part' \in Parts
  BY <1>1 DEF ServicesInv
<1>3. StoreTypes' /\ PluginInv' /\ PluginTypes' /\ SuperviseTypeOK' /\ HostedTypes'
  BY <1>1, StoreStepTyped, PluginStep, PluginStepTyped, SuperviseStepTyped, HostedStepTyped DEF ServicesInv
<1>4. InstallInv' /\ AnnounceTypes' /\ SetupInv' /\ TagTypes' /\ DeployTypes'
  BY <1>1, InstallStep, AnnounceStepTyped, SetupKeeps, ReleaseStepTyped, DeployStepTyped DEF ServicesInv
<1> QED
  BY <1>2, <1>3, <1>4 DEF ServicesInv

(* Whatever part moves, its variables are what they are declared as: for   *)
(* any threads, processes, clients, tasks, repositories, crates and units. *)
THEOREM ServicesTyped == Spec => []ServicesTypeOK
<1>1. ServicesInv => ServicesTypeOK
  <2> SUFFICES ASSUME ServicesInv PROVE ServicesTypeOK
    OBVIOUS
  <2>1. StoreTypeOK /\ PluginTypeOK /\ SuperviseTypeOK
    BY DEF ServicesInv, StoreTypes, WorkTyped, RestTyped, StoreTypeOK, PluginTypes
  <2>2. HostedTypeOK /\ InstallTypeOK
    BY DEF ServicesInv, HostedTypes, PutInv, PutTypeOK, Exchanges, LoginInv, LoginTypeOK, PollTyped, HostedTypeOK,
           InstallInv, InstallShape, Invocations, InstallTypeOK
  <2>3. AnnounceTypeOK /\ SetupTypeOK
    BY AnnounceTypesSuffice, InvTypes DEF ServicesInv
  <2>4. ReleaseTypeOK /\ DeploysTypeOK
    BY DEF ServicesInv, TagTypes, TagsTyped, ReleaseInv, ReleaseTypes, ReleaseTypeOK, DeployTypes
  <2>5. part \in Parts
    BY DEF ServicesInv
  <2> QED
    BY <2>1, <2>2, <2>3, <2>4, <2>5 DEF ServicesTypeOK, Parts
<1> QED
  BY ServicesBegin, ServicesStep, <1>1, PTL DEF Spec

(* What is promised of each part, where they are composed. *)
PartsAreSafe ==
  /\ EnsuredToolsAreThere /\ AnswersAreOwn /\ PushedIsStored /\ LoginTakesEffect /\ InstallIsClean
  /\ OnlyDeploysAreTold /\ SetupLeavesItRunnable /\ UsersWorkStays /\ TagsAreWhole

(* In every behaviour of the composition a listed tool is whole, a call    *)
(* gets its own answer, what was pushed is stored, a login is found, an    *)
(* install leaves nothing torn, only deploys are told, a setup leaves a    *)
(* workspace that loads and the user's work, a tag is of one version; and, *)
(* where no other task has the name of a Railway service's, a deploy has   *)
(* all that it needs.                                                      *)
THEOREM ServicesAreSafe ==
  /\ Spec => []PartsAreSafe
  /\ Spec /\ RailwayNamesApart => []DeploysAreEquipped
<1>1. ServicesInv => PartsAreSafe
  <2> SUFFICES ASSUME ServicesInv PROVE PartsAreSafe
    OBVIOUS
  <2>1. EnsuredToolsAreThere /\ AnswersAreOwn
    BY StoreInvSuffices DEF ServicesInv, StoreTypes, PluginInv
  <2>2. PushedIsStored /\ LoginTakesEffect
    BY StoredIsResolved DEF ServicesInv, HostedTypes, PutInv
  <2>3. InstallIsClean
    BY DEF ServicesInv, InstallInv, FilesAreWhole, TmpIsMine, DocumentIsFresh, InstallIsClean, Writes
  <2>4. OnlyDeploysAreTold /\ TagsAreWhole
    BY DEF ServicesInv, AnnounceTypes, AnnounceInv, TagTypes, ReleaseInv
  <2>5. SetupLeavesItRunnable /\ UsersWorkStays
    BY InvRuns, InvUsers DEF ServicesInv
  <2> QED
    BY <2>1, <2>2, <2>3, <2>4, <2>5 DEF PartsAreSafe
<1>2. Spec => []PartsAreSafe
  BY ServicesBegin, ServicesStep, <1>1, PTL DEF Spec
<1>3. Init /\ RailwayNamesApart => DeployInv
  BY DeploysBegin DEF Init
<1>4. DeployInv /\ [Next]_vars => DeployInv'
  BY OnePartMoves, DeploysStep
<1>5. Spec /\ RailwayNamesApart => []DeploysAreEquipped
  BY <1>3, <1>4, DeployInvSuffices, PTL DEF Spec
<1> QED
  BY <1>2, <1>5
=============================================================================
