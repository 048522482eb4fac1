----------------------------- MODULE MCDepGraph -----------------------------
(* Planner::compute and the executor build the graph first: DepGraph over  *)
(* every profile, and every depends_on, of up to four names, enough for a  *)
(* diamond, for two separate cycles and for a unit that only depends on a  *)
(* cycle.  Where the graph is the chain of `Configs`, Planner goes on: a   *)
(* library in each of `Languages`, a unit that uses it, and an application *)
(* that uses that one; the last two have no adapter.                       *)
EXTENDS DepGraph, Planner, TLC

CONSTANTS Languages, LibInputs, v1

MCNames == {"lib", "mid", "app", "other"}
MCOrder == <<"lib", "mid", "app">>

Plain(name, needs) ==
  [language |-> Unset, files |-> {"source"}, edited |-> {}, inputs |-> {"source"}, outputs |-> {"output"},
   dependsOn |-> needs, forceIndependent |-> FALSE, integrations |-> {},
   tasks |-> ("build" :> [run |-> name, inputs |-> <<>>, env |-> FALSE])]

Mid == [Plain("mid", {"lib"}) EXCEPT !.edited = {"source"}]

App ==
  [Plain("app", {"mid"}) EXCEPT
     !.integrations = {"deploy", "tell"},
     !.tasks = @ @@ ("deploy" :> [run |-> "ship", inputs |-> <<>>, env |-> TRUE])]

Library(id, inputs, tasks) ==
  [language |-> id,
   files |-> (AdapterOf[id].fingerprints \cup AdapterOf[id].inputs) \ {AdapterOf[id].lockfile},
   edited |-> {"source", Head(AdapterOf[id].versions)} \cup AdapterOf[id].derived,
   inputs |-> inputs, outputs |-> {}, dependsOn |-> {}, forceIndependent |-> FALSE, integrations |-> {},
   tasks |-> tasks]

TestTask == "test" :> [run |-> Unset, inputs |-> <<{"source"}>>, env |-> TRUE]
NoRun    == "publish" :> [run |-> Unset, inputs |-> <<{"source"}>>, env |-> TRUE]

Profile(lib, mid) == "lib" :> lib @@ "mid" :> mid @@ "app" :> App

(* Languages with the library as it is scaffolded, and with inputs that    *)
(* take in its outputs and a test that reads the environment; a unit that  *)
(* is forced independent; a task of its own that lacks what to run.        *)
MCConfigs ==
  {Profile(Library(id, LibInputs, <<>>), Mid) : id \in Languages}
  \cup {Profile(Library(id, AdapterOf[id].inputs \cup {"output"}, TestTask), Mid) : id \in Languages}
  \cup {Profile(Library("go", LibInputs, <<>>), [Mid EXCEPT !.forceIndependent = TRUE]),
        Profile(Library("go", LibInputs, NoRun), Mid)}

-----------------------------------------------------------------------------
(* The adapter and the tasks of a unit, said of its configuration alone,   *)
(* and a premise that HitIsFresh is proved from: TLC finds it true of the  *)
(* configurations above.                                                   *)
Lang(c, u) ==
  IF c[u].language = Unset THEN Detect(c[u].files)
  ELSE IF c[u].language \in ToSet(Builtin) THEN c[u].language ELSE NoAdapter

FactsOf(c, u) == AdapterOf[Lang(c, u)]

Tasks(c, u) == TasksOf(c[u], FactsOf(c, u))

Cacheable(c, u) == {t \in DOMAIN Tasks(c, u) : ~ Tasks(c, u)[t].noCache}

MadeBy(c, u) == FactsOf(c, u).derived \cup FactsOf(c, u).outputs \cup {"output", "vendor"}

TaskGlobs(c, u, t) == Tasks(c, u)[t].inputs \cup FactsOf(c, u).fingerprints

(* The files a unit began with that the key of a task leaves out. *)
HiddenFrom(c, u, t) == c[u].files \ (TaskGlobs(c, u, t) \cup MadeBy(c, u))

(* A unit has the files that its adapter knows of, nobody edits a file     *)
(* that the key of a task leaves out, and two units whose tasks run the    *)
(* same command leave out the same: the key does not name the unit.        *)
KeysNameSources(c) ==
  \A u \in Units :
    /\ c[u].files \subseteq FactsOf(c, u).inputs \cup FactsOf(c, u).fingerprints \cup MadeBy(c, u)
    /\ \A t \in Cacheable(c, u) :
         /\ HiddenFrom(c, u, t) \cap c[u].edited = {}
         /\ \A v \in Units :
              /\ t \in Cacheable(c, v) /\ Lang(c, v) = Lang(c, u)
              /\ Tasks(c, v)[t].run = Tasks(c, u)[t].run
              => HiddenFrom(c, v, t) = HiddenFrom(c, u, t)

ASSUME ConfigsNameSources == \A c \in MCConfigs : KeysNameSources(c)
-----------------------------------------------------------------------------
(* The graph that Configs describes, built. *)
Chain == [u \in Units |-> config[u].dependsOn]
Built == phase = "ok" /\ levels = [i \in DOMAIN Order |-> {Order[i]}]

Init ==
  /\ GInit /\ PlannerInit
  /\ (units = Units /\ dependsOn = Chain) \/ config = CHOOSE c \in Configs : TRUE

Next ==
  \/ GNext /\ UNCHANGED plannerVars
  \/ Built /\ dependsOn = Chain /\ PlannerNext /\ UNCHANGED gvars

Spec == Init /\ [][Next]_<<gvars, plannerVars>> /\ WF_gvars(GNext)
=============================================================================
