--------------------------- MODULE DepGraph_proofs ---------------------------
(***************************************************************************)
(* Proofs about graph::build for any finite set of unit names and any      *)
(* depends_on: the in-degree counters are exact, the layers it returns are *)
(* a partition of the profile in which every dependency comes first and no *)
(* unit waits longer than it must, and it reports a cycle when there is    *)
(* one.                                                                    *)
(***************************************************************************)
EXTENDS DepGraph, FiniteSetTheorems, TLAPS

Peeled == UNION {levels[i] : i \in DOMAIN levels}

(* What the loop keeps true of its own variables between two steps. *)
LoopInv ==
  /\ phase \in {"edges", "unknown_dep"} => levels = <<>> /\ level = {} /\ ready = {}
  /\ phase # "visit" => todo = {} /\ level \subseteq Peeled
  /\ phase = "ok" => DOMAIN remaining = {}
  /\ phase \notin {"edges", "unknown_dep"} => \A u \in units : dependsOn[u] \subseteq units
  /\ Visited = Peeled \cup (level \ todo)
  /\ todo \subseteq DOMAIN remaining
  /\ phase = "visit" => /\ level \cap Peeled = {}
                        /\ ready \cap level = {}
                        /\ \A u \in level : dependsOn[u] \subseteq Peeled

LayersDisjoint ==
  \A i, j \in DOMAIN levels : i # j => levels[i] \cap levels[j] = {}

IInv ==
  /\ GTypeOK
  /\ InDegreeExact
  /\ LoopInv
  /\ DepsInEarlierLevels
  /\ LayersDisjoint
-----------------------------------------------------------------------------
(* Append keeps the layers that are there and adds one after them. *)
LEMMA AppendLayer ==
  ASSUME NEW S, NEW s \in Seq(S), NEW x \in S
  PROVE  /\ Append(s, x) \in Seq(S)
         /\ DOMAIN Append(s, x) = DOMAIN s \cup {Len(s) + 1}
         /\ \A i \in DOMAIN s : Append(s, x)[i] = s[i] /\ i \in Nat /\ i < Len(s) + 1
         /\ Append(s, x)[Len(s) + 1] = x
         /\ Len(s) + 1 \notin DOMAIN s
  OBVIOUS

(* Dropping one dependency from a finite set lowers its size by one. *)
LEMMA DropOne ==
  ASSUME NEW S, IsFiniteSet(S), NEW x \in S
  PROVE  /\ Cardinality(S) \in Nat \ {0}
         /\ Cardinality(S \ {x}) = Cardinality(S) - 1
         /\ Cardinality(S) = 1 <=> S \ {x} = {}
<1>1. /\ IsFiniteSet(S \ {x})
      /\ Cardinality(S \ {x}) = Cardinality(S) - 1
  BY FS_RemoveElement
<1>2. Cardinality(S) \in Nat /\ Cardinality(S \ {x}) \in Nat
  BY <1>1, FS_CardinalityType
<1>3. Cardinality(S \ {x}) = 0 <=> S \ {x} = {}
  BY <1>1, FS_EmptySet
<1>. QED BY <1>1, <1>2, <1>3

(* Every set of dependencies is finite. *)
LEMMA DepsFinite ==
  ASSUME GTypeOK, NEW u \in units, NEW T
  PROVE  /\ IsFiniteSet(dependsOn[u] \ T)
         /\ Cardinality(dependsOn[u] \ T) \in Nat
         /\ Cardinality(dependsOn[u] \ T) = 0 <=> dependsOn[u] \subseteq T
<1>1. dependsOn[u] \ T \in SUBSET Names
  BY DEF GTypeOK
<1>2. IsFiniteSet(dependsOn[u] \ T)
  BY <1>1, NamesFinite, FS_Subset
<1>3. Cardinality(dependsOn[u] \ T) = 0 <=> dependsOn[u] \ T = {}
  BY <1>2, FS_EmptySet
<1>. QED BY <1>2, <1>3, FS_CardinalityType
-----------------------------------------------------------------------------
LEMMA InitInv == GInit => IInv
<1> SUFFICES ASSUME GInit PROVE IInv
  OBVIOUS
<1>1. DOMAIN levels = {} /\ Peeled = {} /\ levels \in Seq(SUBSET units)
  BY DEF GInit, Peeled
<1>. QED
  BY <1>1 DEF GInit, IInv, GTypeOK, Phases, Returned, InDegreeExact, Peeling, LoopInv,
     DepsInEarlierLevels, LayersDisjoint, Visited

(* Counting: every in-degree is the size of depends_on, nobody is visited. *)
LEMMA CountInv == ASSUME IInv, CountInDegrees PROVE IInv'
<1> USE DEF IInv, CountInDegrees, InDegree
<1>1. \A u \in units : /\ Cardinality(dependsOn[u]) \in Nat
                       /\ Cardinality(dependsOn[u]) = 0 <=> dependsOn[u] \subseteq {}
                       /\ dependsOn[u] \ {} = dependsOn[u]
  <2> TAKE u \in units
  <2>1. dependsOn[u] \ {} = dependsOn[u]
    OBVIOUS
  <2>2. /\ Cardinality(dependsOn[u] \ {}) \in Nat
        /\ Cardinality(dependsOn[u] \ {}) = 0 <=> dependsOn[u] \subseteq {}
    BY DepsFinite
  <2>. QED BY <2>1, <2>2
<1>2. GTypeOK'
  BY <1>1 DEF GTypeOK, Phases, Returned
<1>3. Visited' = {} /\ levels' = <<>> /\ Peeled' = {} /\ level' = {} /\ todo' = {}
  BY DEF Visited, LoopInv, GTypeOK, Peeled
<1>4. InDegreeExact'
  BY <1>1, <1>3 DEF InDegreeExact, Visited
<1>5. LoopInv' /\ DepsInEarlierLevels' /\ LayersDisjoint'
  BY <1>3 DEF LoopInv, DepsInEarlierLevels, LayersDisjoint
<1>. QED BY <1>2, <1>4, <1>5

LEMMA DrainInv == ASSUME IInv, DrainReady PROVE IInv'
<1> USE DEF IInv, DrainReady
<1>1. GTypeOK'
  BY DEF GTypeOK, Phases, Returned
<1>2. Visited' = Visited /\ Peeled' = Peeled
  BY DEF Visited, Peeled
<1>3. Visited = Peeled
  BY DEF LoopInv
<1>4. /\ ready \subseteq DOMAIN remaining
      /\ \A u \in ready : dependsOn[u] \subseteq Peeled
      /\ todo = {}
  BY <1>3 DEF InDegreeExact, Peeling, LoopInv
<1>5. InDegreeExact'
  BY <1>2, <1>4 DEF InDegreeExact, Peeling
<1>6. level' \cap Peeled = {}
  BY <1>3, <1>4 DEF Visited
<1>7. LoopInv'
  BY <1>2, <1>3, <1>4, <1>6 DEF LoopInv
<1>. QED
  BY <1>1, <1>5, <1>7 DEF DepsInEarlierLevels, LayersDisjoint

(* One visit: exactly the dependents of u lose exactly one dependency. *)
LEMMA VisitInv == ASSUME IInv, NEW u \in todo, VisitUnit(u) PROVE IInv'
<1> USE DEF IInv
<1> DEFINE left == DOMAIN remaining \ {u}
           dependents == {d \in left : u \in dependsOn[d]}
<1>1. /\ phase = "visit" /\ phase' = "visit"
      /\ todo' = todo \ {u}
      /\ DOMAIN remaining' = left
      /\ \A d \in left : remaining'[d] = IF d \in dependents THEN remaining[d] - 1
                                                             ELSE remaining[d]
      /\ ready' = ready \cup {d \in dependents : remaining[d] = 1}
      /\ UNCHANGED <<units, dependsOn, level, levels>>
  BY DEF VisitUnit, Dependents, Freed
<1>2. /\ u \in DOMAIN remaining /\ u \in units /\ u \in level
      /\ Visited' = Visited \cup {u} /\ u \notin Visited
  BY <1>1 DEF LoopInv, Visited, GTypeOK
<1>3. \A d \in left : /\ d \in units
                      /\ remaining[d] = Cardinality(dependsOn[d] \ Visited)
                      /\ d \in ready \cup todo <=> dependsOn[d] \subseteq Visited
  BY <1>1 DEF InDegreeExact, Peeling, GTypeOK
<1>4. ASSUME NEW d \in left
      PROVE  /\ remaining'[d] \in Nat
             /\ remaining'[d] = Cardinality(dependsOn'[d] \ Visited')
             /\ d \in ready' \cup todo' <=> dependsOn'[d] \subseteq Visited'
  <2>0. dependsOn' = dependsOn /\ d \in units
    BY <1>1, <1>3
  <2>1. CASE d \in dependents
    <3>1. /\ u \in dependsOn[d] \ Visited
          /\ dependsOn[d] \ Visited' = (dependsOn[d] \ Visited) \ {u}
      BY <2>1, <1>2
    <3>2. /\ Cardinality(dependsOn[d] \ Visited) \in Nat \ {0}
          /\ Cardinality(dependsOn[d] \ Visited') = Cardinality(dependsOn[d] \ Visited) - 1
          /\ Cardinality(dependsOn[d] \ Visited) = 1 <=> dependsOn[d] \ Visited' = {}
      <4> DEFINE S == dependsOn[d] \ Visited
      <4>1. IsFiniteSet(S) /\ u \in S
        BY <2>0, <3>1, DepsFinite
      <4>2. dependsOn[d] \ Visited' = S \ {u}
        BY <3>1
      <4> HIDE DEF S
      <4>3. /\ Cardinality(S) \in Nat \ {0}
            /\ Cardinality(S \ {u}) = Cardinality(S) - 1
            /\ Cardinality(S) = 1 <=> S \ {u} = {}
        BY <4>1, DropOne
      <4>4. /\ Cardinality(S) \in Nat \ {0}
            /\ Cardinality(dependsOn[d] \ Visited') = Cardinality(S) - 1
            /\ Cardinality(S) = 1 <=> dependsOn[d] \ Visited' = {}
        BY <4>2, <4>3
      <4>. QED BY <4>4 DEF S
    <3>3. d \notin ready \cup todo
      BY <3>1, <1>3
    <3>4. /\ remaining'[d] = remaining[d] - 1
          /\ d \in ready' \cup todo' <=> remaining[d] = 1
      BY <2>1, <3>3, <1>1
    <3>5. dependsOn[d] \subseteq Visited' <=> dependsOn[d] \ Visited' = {}
      OBVIOUS
    <3>6. remaining[d] = Cardinality(dependsOn[d] \ Visited)
      BY <1>3
    <3>7. /\ remaining'[d] \in Nat
          /\ remaining'[d] = Cardinality(dependsOn[d] \ Visited')
      BY <3>2, <3>4, <3>6
    <3>8. d \in ready' \cup todo' <=> dependsOn[d] \subseteq Visited'
      BY <3>2, <3>4, <3>5, <3>6
    <3>. QED BY <3>7, <3>8, <2>0
  <2>2. CASE d \notin dependents
    <3>1. u \notin dependsOn[d] /\ dependsOn[d] \ Visited' = dependsOn[d] \ Visited
      BY <2>2, <1>2
    <3>2. remaining'[d] = remaining[d] /\ (d \in ready' \cup todo' <=> d \in ready \cup todo)
      BY <2>2, <1>1
    <3>3. Cardinality(dependsOn[d] \ Visited) \in Nat
      BY <2>0, DepsFinite
    <3>4. dependsOn[d] \subseteq Visited' <=> dependsOn[d] \subseteq Visited
      BY <3>1
    <3>. QED BY <3>1, <3>2, <3>3, <3>4, <2>0, <1>3
  <2>. QED BY <2>1, <2>2
<1>5. GTypeOK'
  <2>1. remaining' \in [DOMAIN remaining' -> Nat]
    <3>1. remaining' = [d \in left |-> remaining'[d]]
      BY <1>1 DEF VisitUnit, Dependents, Freed
    <3>. QED BY <3>1, <1>4, <1>1
  <2>. QED BY <2>1, <1>1, <1>3 DEF GTypeOK
<1>6. ready \subseteq DOMAIN remaining /\ u \notin ready
  BY <1>1, <1>2 DEF InDegreeExact, Peeling, LoopInv
<1>7. InDegreeExact'
  BY <1>4, <1>1, <1>6 DEF InDegreeExact
<1>8. Peeled' = Peeled
  BY <1>1 DEF Peeled
<1>9. level' \cap ready' = {}
  BY <1>1, <1>2 DEF LoopInv
<1>10. todo \subseteq level
  BY DEF GTypeOK
<1>11. Visited' = Peeled \cup (level \ todo')
  BY <1>1, <1>2, <1>10 DEF LoopInv
<1>12. LoopInv'
  BY <1>1, <1>2, <1>8, <1>9, <1>11 DEF LoopInv
<1>. QED
  BY <1>1, <1>5, <1>7, <1>12 DEF DepsInEarlierLevels, LayersDisjoint

(* A finished level is appended: its dependencies are all in earlier ones. *)
LEMMA CloseInv == ASSUME IInv, CloseLevel PROVE IInv'
<1> USE DEF IInv, CloseLevel
<1> DEFINE n == Len(levels) + 1
<1>1. levels \in Seq(SUBSET units) /\ level \in SUBSET units
  BY DEF GTypeOK
<1>2. /\ levels' \in Seq(SUBSET units)
      /\ DOMAIN levels' = DOMAIN levels \cup {n}
      /\ \A i \in DOMAIN levels : levels'[i] = levels[i] /\ i \in Nat /\ i < n
      /\ levels'[n] = level
      /\ n \notin DOMAIN levels
  BY <1>1, AppendLayer
<1> HIDE DEF n
<1>3. Peeled' = Peeled \cup level
  BY <1>2 DEF Peeled
<1>4. Visited' = Visited /\ Visited = Peeled'
  BY <1>3 DEF Visited, LoopInv
<1>5. GTypeOK'
  BY <1>2 DEF GTypeOK, Phases, Returned
<1>6. InDegreeExact'
  BY <1>4 DEF InDegreeExact, Peeling
<1>7. LoopInv'
  BY <1>3, <1>4 DEF LoopInv
<1>8. DepsInEarlierLevels'
  <2> SUFFICES ASSUME NEW i \in DOMAIN levels', NEW v \in levels'[i], NEW e \in dependsOn[v]
               PROVE  \E j \in DOMAIN levels' : j < i /\ e \in levels'[j]
    BY DEF DepsInEarlierLevels
  <2>1. CASE i \in DOMAIN levels
    BY <2>1, <1>2 DEF DepsInEarlierLevels
  <2>2. CASE i = n
    <3>1. e \in Peeled
      BY <2>2, <1>2 DEF LoopInv
    <3>2. PICK j \in DOMAIN levels : e \in levels[j]
      BY <3>1 DEF Peeled
    <3>. QED BY <3>2, <2>2, <1>2
  <2>. QED BY <2>1, <2>2, <1>2
<1>9. LayersDisjoint'
  <2>1. \A i \in DOMAIN levels : levels[i] \cap level = {}
    BY DEF LoopInv, Peeled
  <2>. QED BY <2>1, <1>2 DEF LayersDisjoint
<1>. QED BY <1>5, <1>6, <1>7, <1>8, <1>9

(* The three returns change nothing but the phase. *)
LEMMA ReturnInv ==
  ASSUME IInv, RejectUnknownDep \/ ReturnGraph \/ ReturnCycle
  PROVE  IInv'
<1>1. /\ UNCHANGED <<units, dependsOn, remaining, ready, level, todo, levels>>
      /\ Visited' = Visited /\ Peeled' = Peeled
  BY DEF RejectUnknownDep, ReturnGraph, ReturnCycle, Visited, Peeled
<1>2. CASE RejectUnknownDep
  BY <1>1, <1>2 DEF RejectUnknownDep, IInv, GTypeOK, Phases, Returned, InDegreeExact,
     Peeling, LoopInv, DepsInEarlierLevels, LayersDisjoint
<1>3. CASE ReturnGraph \/ ReturnCycle
  <2>1. /\ phase = "peel" /\ phase' \in {"ok", "cycle"}
        /\ phase' = "ok" => DOMAIN remaining = {}
    BY <1>3 DEF ReturnGraph, ReturnCycle
  <2>2. GTypeOK'
    BY <1>1, <2>1 DEF IInv, GTypeOK, Phases, Returned
  <2>3. InDegreeExact'
    BY <1>1, <2>1 DEF IInv, InDegreeExact, Peeling
  <2>4. LoopInv'
    BY <1>1, <2>1 DEF IInv, LoopInv
  <2>. QED BY <1>1, <2>2, <2>3, <2>4 DEF IInv, DepsInEarlierLevels, LayersDisjoint
<1>. QED BY <1>2, <1>3

LEMMA StepInv == IInv /\ [GNext]_gvars => IInv'
<1> SUFFICES ASSUME IInv, [GNext]_gvars PROVE IInv'
  OBVIOUS
<1>1. CASE CountInDegrees
  BY <1>1, CountInv
<1>2. CASE DrainReady
  BY <1>2, DrainInv
<1>3. CASE \E u \in todo : VisitUnit(u)
  BY <1>3, VisitInv
<1>4. CASE CloseLevel
  BY <1>4, CloseInv
<1>5. CASE RejectUnknownDep \/ ReturnGraph \/ ReturnCycle
  BY <1>5, ReturnInv
<1>6. CASE UNCHANGED gvars
  <2>1. /\ UNCHANGED <<units, dependsOn, phase, remaining, ready, level, todo, levels>>
        /\ Visited' = Visited /\ Peeled' = Peeled
    BY <1>6 DEF gvars, Visited, Peeled
  <2>2. GTypeOK' /\ LoopInv'
    BY <2>1 DEF IInv, GTypeOK, LoopInv
  <2>3. InDegreeExact'
    BY <2>1 DEF IInv, InDegreeExact, Peeling
  <2>. QED BY <2>1, <2>2, <2>3 DEF IInv, DepsInEarlierLevels, LayersDisjoint
<1>. QED BY <1>1, <1>2, <1>3, <1>4, <1>5, <1>6 DEF GNext

LEMMA Inductive == GSpec => []IInv
  BY InitInv, StepInv, PTL DEF GSpec
-----------------------------------------------------------------------------
(* The variables of build() keep their types on every profile. *)
THEOREM BuildTypeOK == GSpec => []GTypeOK
<1>1. IInv => GTypeOK
  BY DEF IInv
<1>. QED BY <1>1, Inductive, PTL

(* graph.rs: `*n -= 1` never underflows and a unit is queued exactly when  *)
(* its last dependency was visited, whatever the graph.                    *)
THEOREM InDegreesAreExact == GSpec => []InDegreeExact
<1>1. IInv => InDegreeExact
  BY DEF IInv
<1>. QED BY <1>1, Inductive, PTL

(* Every dependency of a unit is in an earlier layer than the unit. *)
THEOREM LayersRespectDeps == GSpec => []DepsInEarlierLevels
<1>1. IInv => DepsInEarlierLevels
  BY DEF IInv
<1>. QED BY <1>1, Inductive, PTL

(* The layers are disjoint, and together they are the profile when Ok. *)
THEOREM LayersPartitionProfile == GSpec => []EachUnitInOneLevel
<1>1. IInv => EachUnitInOneLevel
  <2> SUFFICES ASSUME IInv, phase = "ok"
               PROVE  units = UNION {levels[i] : i \in DOMAIN levels}
    BY DEF IInv, LayersDisjoint, EachUnitInOneLevel
  <2>1. DOMAIN remaining = {} /\ todo = {} /\ level \subseteq Peeled
    BY DEF IInv, LoopInv
  <2>2. Visited = units /\ Visited = Peeled
    BY <2>1 DEF IInv, LoopInv, Visited
  <2>. QED BY <2>2 DEF Peeled
<1>. QED BY <1>1, Inductive, PTL
-----------------------------------------------------------------------------
(* Every set of peeled units has one that depends on none of the set.      *)
PeeledAcyclic ==
  \A S \in (SUBSET Peeled) \ {{}} : \E u \in S : dependsOn[u] \cap S = {}

(* A unit waits for somebody of the level right before its own: the units  *)
(* that are queued, those of the level in hand and those of every layer.   *)
NoIdleWait ==
  /\ phase = "peel" /\ levels # <<>> =>
       \A u \in ready : dependsOn[u] \cap levels[Len(levels)] # {}
  /\ phase = "visit" =>
       /\ level # {}
       /\ \A u \in ready : dependsOn[u] \cap level # {}
       /\ levels # <<>> => \A u \in level : dependsOn[u] \cap levels[Len(levels)] # {}
  /\ \A i \in DOMAIN levels :
       /\ levels[i] # {}
       /\ i > 1 => \A u \in levels[i] : dependsOn[u] \cap levels[i - 1] # {}

ExactInv ==
  /\ PeeledAcyclic
  /\ NoIdleWait
  /\ phase = "cycle" => ready = {} /\ DOMAIN remaining # {}

(* The units of a finished level depend on earlier ones only, so a set     *)
(* that reaches into both has its lowest unit among the earlier ones.      *)
LEMMA CloseKeepsExact == ASSUME IInv, ExactInv, CloseLevel PROVE ExactInv'
<1> USE DEF CloseLevel
<1> DEFINE n == Len(levels) + 1
<1>1. levels \in Seq(SUBSET units) /\ level \in SUBSET units
  BY DEF IInv, GTypeOK
<1>2. /\ DOMAIN levels' = DOMAIN levels \cup {n} /\ n \in Nat /\ Len(levels') = n
      /\ \A i \in DOMAIN levels : levels'[i] = levels[i] /\ i \in Nat /\ i < n
      /\ levels'[n] = level
      /\ levels = <<>> <=> n = 1
      /\ n > 1 => n - 1 \in DOMAIN levels /\ n - 1 = Len(levels)
      /\ \A i \in DOMAIN levels : i > 1 => i - 1 \in DOMAIN levels
  BY <1>1
<1>3. /\ \A u \in level : dependsOn[u] \subseteq Peeled
      /\ level \cap Peeled = {}
      /\ \A u \in Peeled : dependsOn[u] \subseteq Peeled
  BY DEF IInv, LoopInv, Peeled, DepsInEarlierLevels
<1> HIDE DEF n
<1>4. Peeled' = Peeled \cup level
  BY <1>2 DEF Peeled
<1>5. PeeledAcyclic'
  <2> SUFFICES ASSUME NEW S \in SUBSET (Peeled \cup level), S # {}
               PROVE  \E u \in S : dependsOn[u] \cap S = {}
    BY <1>4 DEF PeeledAcyclic
  <2>1. CASE S \cap Peeled = {}
    <3>1. PICK u \in S : u \in level
      BY <2>1
    <3>2. dependsOn[u] \cap S = {}
      BY <1>3, <2>1, <3>1
    <3> QED
      BY <3>2
  <2>2. CASE S \cap Peeled # {}
    <3>1. PICK u \in S \cap Peeled : dependsOn[u] \cap (S \cap Peeled) = {}
      BY <2>2 DEF ExactInv, PeeledAcyclic
    <3>2. dependsOn[u] \subseteq Peeled
      BY <1>3
    <3>3. dependsOn[u] \cap S = {}
      BY <3>1, <3>2
    <3> QED
      BY <3>3
  <2> QED
    BY <2>1, <2>2
<1>6. NoIdleWait'
  <2>1. /\ level # {}
        /\ \A u \in ready : dependsOn[u] \cap level # {}
        /\ n > 1 => \A u \in level : dependsOn[u] \cap levels[n - 1] # {}
    BY <1>2 DEF ExactInv, NoIdleWait
  <2>2. ASSUME NEW i \in DOMAIN levels'
        PROVE  levels'[i] # {} /\ (i > 1 => \A u \in levels'[i] : dependsOn[u] \cap levels'[i - 1] # {})
    <3>1. CASE i = n
      BY <1>2, <2>1, <3>1
    <3>2. CASE i \in DOMAIN levels
      <4>1. i > 1 => i - 1 \in DOMAIN levels /\ levels'[i - 1] = levels[i - 1]
        BY <1>2, <3>2
      <4>2. levels[i] # {} /\ (i > 1 => \A u \in levels[i] : dependsOn[u] \cap levels[i - 1] # {})
        BY <3>2 DEF ExactInv, NoIdleWait
      <4> QED
        BY <1>2, <3>2, <4>1, <4>2
    <3> QED
      BY <1>2, <3>1, <3>2
  <2>3. levels'[Len(levels')] = level /\ phase' = "peel" /\ UNCHANGED <<dependsOn, ready>>
    BY <1>2
  <2> QED
    BY <2>1, <2>2, <2>3 DEF NoIdleWait
<1> QED
  BY <1>5, <1>6 DEF ExactInv

LEMMA ExactStep == ASSUME IInv, ExactInv, [GNext]_gvars PROVE ExactInv'
<1>1. CASE CountInDegrees
  BY <1>1 DEF CountInDegrees, IInv, LoopInv, ExactInv, PeeledAcyclic, NoIdleWait, Peeled
<1>2. CASE DrainReady
  BY <1>2 DEF DrainReady, ExactInv, PeeledAcyclic, NoIdleWait, Peeled
<1>3. ASSUME NEW u \in todo, VisitUnit(u) PROVE ExactInv'
  <2>1. /\ UNCHANGED <<dependsOn, phase, level, levels>> /\ phase = "visit"
        /\ \A d \in ready' \ ready : u \in dependsOn[d]
    BY <1>3 DEF VisitUnit, Freed, Dependents
  <2>2. u \in level
    BY DEF IInv, GTypeOK
  <2>3. PeeledAcyclic'
    BY <2>1 DEF ExactInv, PeeledAcyclic, Peeled
  <2>4. \A d \in ready' : dependsOn[d] \cap level # {}
    BY <2>1, <2>2 DEF ExactInv, NoIdleWait
  <2>5. NoIdleWait'
    BY <2>1, <2>4 DEF ExactInv, NoIdleWait
  <2> QED
    BY <2>1, <2>3, <2>5 DEF ExactInv
<1>4. CASE CloseLevel
  BY <1>4, CloseKeepsExact
<1>5. CASE RejectUnknownDep \/ ReturnGraph \/ ReturnCycle
  <2>1. UNCHANGED <<dependsOn, remaining, ready, levels>> /\ phase' \in Returned
        /\ (phase' = "cycle" => ready = {} /\ DOMAIN remaining # {})
    BY <1>5 DEF RejectUnknownDep, ReturnGraph, ReturnCycle, Returned
  <2>2. PeeledAcyclic'
    BY <2>1 DEF ExactInv, PeeledAcyclic, Peeled
  <2>3. NoIdleWait'
    BY <2>1 DEF ExactInv, NoIdleWait, Returned
  <2> QED
    BY <2>1, <2>2, <2>3 DEF ExactInv
<1>6. CASE UNCHANGED gvars
  BY <1>6 DEF gvars, ExactInv, PeeledAcyclic, NoIdleWait, Peeled
<1> QED
  BY <1>1, <1>2, <1>3, <1>4, <1>5, <1>6 DEF GNext

LEMMA ExactInit == GInit => ExactInv
<1> SUFFICES ASSUME GInit PROVE ExactInv
  OBVIOUS
<1>1. DOMAIN levels = {} /\ Peeled = {}
  BY DEF GInit, Peeled
<1> QED
  BY <1>1 DEF GInit, ExactInv, PeeledAcyclic, NoIdleWait

(* graph::build: Ok means that the profile has no cycle, GraphError::Cycle *)
(* means that it has one, and no unit is put off to a later level than its *)
(* dependencies require; for any finite set of units.                      *)
THEOREM BuildAnswersExactly == GSpec => []BuildIsExact
<1>1. ASSUME IInv, ExactInv PROVE BuildIsExact
  <2>1. Visited = Peeled \cup (level \ todo)
    BY <1>1 DEF IInv, LoopInv
  <2>2. ASSUME phase = "ok" PROVE Acyclic
    <3>1. DOMAIN remaining = {} /\ todo = {} /\ level \subseteq Peeled
      BY <1>1, <2>2 DEF IInv, LoopInv
    <3>2. units = Peeled
      BY <2>1, <3>1 DEF Visited
    <3> QED
      BY <1>1, <3>2 DEF Acyclic, ExactInv, PeeledAcyclic
  <2>3. ASSUME phase = "cycle" PROVE ~ Acyclic
    <3> DEFINE S == DOMAIN remaining
    <3>1. S \in (SUBSET units) \ {{}} /\ todo = {} /\ ready = {}
      BY <1>1, <2>3 DEF ExactInv, IInv, LoopInv, GTypeOK
    <3>2. ASSUME NEW u \in S PROVE dependsOn[u] \cap S # {}
      <4>1. ~ dependsOn[u] \subseteq Visited /\ dependsOn[u] \subseteq units
        BY <1>1, <2>3, <3>1 DEF IInv, InDegreeExact, Peeling, LoopInv
      <4> QED
        BY <4>1 DEF Visited
    <3> QED
      BY <3>1, <3>2 DEF Acyclic
  <2> QED
    BY <1>1, <2>2, <2>3 DEF BuildIsExact, ExactInv, NoIdleWait
<1> QED
  BY <1>1, Inductive, ExactInit, ExactStep, PTL DEF GSpec
=============================================================================
