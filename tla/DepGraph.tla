------------------------------ MODULE DepGraph ------------------------------
(***************************************************************************)
(* graph::build: the dependency graph of one profile, layered by Kahn's    *)
(* algorithm.  The edges are scanned, in-degrees are counted, and the      *)
(* units whose count is zero are peeled off level by level.  The code      *)
(* visits a level in alphabetical order; here any order is allowed, so     *)
(* what holds below does not depend on the names.                          *)
(***************************************************************************)
EXTENDS Naturals, Sequences, FiniteSets, UnitNames

VARIABLES
  units,              \* the names of the profile's units
  dependsOn,          \* depends_on of each unit, as written in unit.toml
  phase,              \* where build() is, or how it returned
  remaining,          \* in-degree of every unit that is not yet visited
  ready,              \* the queue of units whose in-degree reached zero
  level,              \* the level being peeled
  todo,               \* the part of it still to be visited
  levels              \* the layers peeled so far

gvars == <<units, dependsOn, phase, remaining, ready, level, todo, levels>>

Returned == {"ok", "unknown_dep", "cycle"}
Phases   == {"edges", "peel", "visit"} \cup Returned

Visited == units \ DOMAIN remaining

GInit ==
  /\ units \in SUBSET Names
  /\ dependsOn \in [units -> SUBSET Names]
  /\ phase = "edges"
  /\ remaining = [u \in units |-> 0]
  /\ ready = {} /\ level = {} /\ todo = {}
  /\ levels = <<>>

(* A name outside the profile ends the build with GraphError::UnknownDep. *)
RejectUnknownDep ==
  /\ phase = "edges"
  /\ \E u \in units : ~ dependsOn[u] \subseteq units
  /\ phase' = "unknown_dep"
  /\ UNCHANGED <<units, dependsOn, remaining, ready, level, todo, levels>>

\* Mutant: the edges are counted at their other end.
InDegree_Reversed(u) == Cardinality({d \in units : u \in dependsOn[d]})

InDegree(u) == Cardinality(dependsOn[u])

(* In-degrees, and the queue seeded with the units that wait on nobody. *)
CountInDegrees ==
  /\ phase = "edges"
  /\ \A u \in units : dependsOn[u] \subseteq units
  /\ remaining' = [u \in units |-> InDegree(u)]
  /\ ready' = {u \in units : InDegree(u) = 0}
  /\ phase' = "peel"
  /\ UNCHANGED <<units, dependsOn, level, todo, levels>>

(* ready.drain(..): the queue becomes one level. *)
DrainReady ==
  /\ phase = "peel"
  /\ ready # {}
  /\ level' = ready
  /\ todo' = ready
  /\ ready' = {}
  /\ phase' = "visit"
  /\ UNCHANGED <<units, dependsOn, remaining, levels>>

\* Mutant: every unit that is left counts as a dependent.
Dependents_All(u) == DOMAIN remaining \ {u}

Dependents(u) == {d \in DOMAIN remaining \ {u} : u \in dependsOn[d]}

\* Mutant: a dependent is queued with one dependency still to come.
Freed_TooEarly(u) == {d \in Dependents(u) : remaining[d] \in {1, 2}}

\* Mutant: the count is looked at before it is decremented.
Freed_Never(u) == {d \in Dependents(u) : remaining[d] = 0}

Freed(u) == {d \in Dependents(u) : remaining[d] = 1}

(* One unit of the level leaves `remaining`; each dependent loses one      *)
(* in-degree and is queued when it loses the last.                         *)
VisitUnit(u) ==
  /\ phase = "visit"
  /\ u \in todo
  /\ todo' = todo \ {u}
  /\ remaining' = [d \in DOMAIN remaining \ {u} |->
                     IF d \in Dependents(u) THEN remaining[d] - 1 ELSE remaining[d]]
  /\ ready' = ready \cup Freed(u)
  /\ UNCHANGED <<units, dependsOn, phase, level, levels>>

CloseLevel ==
  /\ phase = "visit"
  /\ todo = {}
  /\ levels' = Append(levels, level)
  /\ phase' = "peel"
  /\ UNCHANGED <<units, dependsOn, remaining, ready, level, todo>>

\* Mutant: whatever was peeled is the graph.
ReturnGraph_Unchecked ==
  /\ phase = "peel" /\ ready = {}
  /\ phase' = "ok"
  /\ UNCHANGED <<units, dependsOn, remaining, ready, level, todo, levels>>

(* The queue ran dry: everything was peeled, or a cycle is left. *)
ReturnGraph ==
  /\ phase = "peel" /\ ready = {}
  /\ DOMAIN remaining = {}
  /\ phase' = "ok"
  /\ UNCHANGED <<units, dependsOn, remaining, ready, level, todo, levels>>

\* Mutant: a cycle is only looked for when some level was peeled.
ReturnCycle_AfterLevels ==
  /\ phase = "peel" /\ ready = {}
  /\ DOMAIN remaining # {} /\ levels # <<>>
  /\ phase' = "cycle"
  /\ UNCHANGED <<units, dependsOn, remaining, ready, level, todo, levels>>

ReturnCycle ==
  /\ phase = "peel" /\ ready = {}
  /\ DOMAIN remaining # {}
  /\ phase' = "cycle"
  /\ UNCHANGED <<units, dependsOn, remaining, ready, level, todo, levels>>

GNext ==
  \/ RejectUnknownDep \/ CountInDegrees
  \/ DrainReady \/ (\E u \in todo : VisitUnit(u)) \/ CloseLevel
  \/ ReturnGraph \/ ReturnCycle

GSpec     == GInit /\ [][GNext]_gvars
GFairSpec == GSpec /\ WF_gvars(GNext)
-----------------------------------------------------------------------------
(* Types: `remaining` is a map from a subset of the units to counts. *)
GTypeOK ==
  /\ units \subseteq Names
  /\ dependsOn \in [units -> SUBSET Names]
  /\ phase \in Phases
  /\ DOMAIN remaining \subseteq units
  /\ remaining \in [DOMAIN remaining -> Nat]
  /\ ready \subseteq units /\ level \subseteq units /\ todo \subseteq level
  /\ levels \in Seq(SUBSET units)

Peeling == phase \in {"peel", "visit", "ok", "cycle"}

(* The counter of an unvisited unit is exactly the number of its           *)
(* dependencies that are still unvisited, so `*n -= 1` on a usize never    *)
(* underflows and a unit is queued when, and only when, it is free.        *)
InDegreeExact ==
  Peeling =>
    /\ \A u \in DOMAIN remaining :
         /\ remaining[u] = Cardinality(dependsOn[u] \ Visited)
         /\ u \in ready \cup todo <=> dependsOn[u] \subseteq Visited
    /\ ready \subseteq DOMAIN remaining

(* Every dependency of a unit of a finished level sits in an earlier one:  *)
(* the doc of ProfileGraph::levels.                                        *)
DepsInEarlierLevels ==
  \A i \in DOMAIN levels : \A u \in levels[i] : \A d \in dependsOn[u] :
    \E j \in DOMAIN levels : j < i /\ d \in levels[j]

(* A unit is in one level only, and when build() returns Ok in exactly one. *)
EachUnitInOneLevel ==
  /\ \A i, j \in DOMAIN levels : i # j => levels[i] \cap levels[j] = {}
  /\ phase = "ok" => units = UNION {levels[i] : i \in DOMAIN levels}

(* Acyclic: every non-empty set of units holds one that depends on none of *)
(* the set.                                                                *)
Acyclic ==
  \A S \in (SUBSET units) \ {{}} : \E u \in S : dependsOn[u] \cap S = {}

(* The answer of build() is exact: Ok on an acyclic graph and a Cycle on   *)
(* others, no empty level, and no unit that waits longer than it must: it  *)
(* depends on one of the level right before, which is what lets the        *)
(* executor run every independent unit of a level in parallel.             *)
BuildIsExact ==
  /\ phase = "ok" => Acyclic
  /\ phase = "cycle" => ~ Acyclic
  /\ \A i \in DOMAIN levels :
       /\ levels[i] # {}
       /\ i > 1 => \A u \in levels[i] : dependsOn[u] \cap levels[i - 1] # {}

(* build() returns: the peeling loop ends whatever the graph is. *)
BuildReturns == <>(phase \in Returned)
=============================================================================
