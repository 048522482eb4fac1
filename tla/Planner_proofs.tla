---------------------------- MODULE Planner_proofs ----------------------------
(***************************************************************************)
(* Proofs about the plan: for any number of units, any configurations, any *)
(* files and machines, and any number of edits and runs of monad ci.       *)
(***************************************************************************)
EXTENDS MCDepGraph, FiniteSetTheorems, TLAPS

(***************************************************************************)
(* The adapters.                                                           *)
(***************************************************************************)
LEMMA AdaptersAre ==
  /\ AdapterOf["go"] = Go /\ AdapterOf["cargo"] = Cargo /\ AdapterOf["python-uv"] = PythonUv
  /\ AdapterOf["python"] = Python /\ AdapterOf["ruby"] = Ruby /\ AdapterOf["php"] = Php
  /\ AdapterOf["maven"] = Maven /\ AdapterOf["gradle"] = Gradle /\ AdapterOf["deno"] = Deno
  /\ AdapterOf["bun"] = Bun /\ AdapterOf["node-pnpm"] = NodePnpm /\ AdapterOf["node-yarn"] = NodeYarn
  /\ AdapterOf["node-npm"] = NodeNpm
  /\ AdapterOf[NoAdapter] = [LanguageAdapter EXCEPT !.tasks = {}]
<1>1. ToSet(Builtin) = {"go", "cargo", "python-uv", "python", "ruby", "php", "maven", "gradle", "deno", "bun",
                        "node-pnpm", "node-yarn", "node-npm"}
  BY DEF ToSet, Builtin
<1>2. AdapterOf["go"] = Go /\ AdapterOf["cargo"] = Cargo /\ AdapterOf["python-uv"] = PythonUv
  BY <1>1 DEF AdapterOf, NoAdapter
<1>3. AdapterOf["python"] = Python /\ AdapterOf["ruby"] = Ruby /\ AdapterOf["php"] = Php
  BY <1>1 DEF AdapterOf, NoAdapter
<1>4. AdapterOf["maven"] = Maven /\ AdapterOf["gradle"] = Gradle /\ AdapterOf["deno"] = Deno
  BY <1>1 DEF AdapterOf, NoAdapter
<1>5. AdapterOf["bun"] = Bun /\ AdapterOf["node-pnpm"] = NodePnpm
  BY <1>1 DEF AdapterOf, NoAdapter
<1>6. AdapterOf["node-yarn"] = NodeYarn /\ AdapterOf["node-npm"] = NodeNpm
  BY <1>1 DEF AdapterOf, NoAdapter
<1>7. AdapterOf[NoAdapter] = [LanguageAdapter EXCEPT !.tasks = {}]
  BY <1>1 DEF AdapterOf, NoAdapter
<1> QED
  BY <1>2, <1>3, <1>4, <1>5, <1>6, <1>7

(* What the planner relies on: the lockfile that an install writes enters  *)
(* the key and marks no other language, and what a build leaves is no mark. *)
Lockfiles == {"Gemfile.lock", "composer.lock", "bun.lock", "pnpm-lock.yaml", "yarn.lock", "package-lock.json"}

Orderly(a, own) ==
  /\ a.lockfile \in {"", own} /\ a.lockfile \in Lockfiles \cup {""}
  /\ a.lockfile = "" \/ a.lockfile \in a.fingerprints
  /\ a.marks \cap Lockfiles \subseteq {own}
  /\ a.marks \cap {"output", "vendor"} = {}
  /\ a.outputs \subseteq {"output", "vendor"}

OwnLock(id) ==
  CASE id = "ruby" -> "Gemfile.lock" [] id = "php" -> "composer.lock" [] id = "bun" -> "bun.lock"
    [] id = "node-pnpm" -> "pnpm-lock.yaml" [] id = "node-yarn" -> "yarn.lock"
    [] id = "node-npm" -> "package-lock.json" [] OTHER -> "none"

LEMMA NodeIs ==
  ASSUME NEW lock, NEW more
  PROVE  /\ Node(lock, more).marks = {lock} /\ Node(lock, more).lockfile = lock
         /\ lock \in Node(lock, more).fingerprints /\ Node(lock, more).outputs = {"output"}
  BY DEF Node, LanguageAdapter

LEMMA NodesAreOrderly ==
  /\ Orderly(NodePnpm, "pnpm-lock.yaml") /\ Orderly(NodeYarn, "yarn.lock")
  /\ Orderly(NodeNpm, "package-lock.json")
<1>1. ASSUME NEW lock \in {"pnpm-lock.yaml", "yarn.lock", "package-lock.json"}, NEW more
      PROVE  Orderly(Node(lock, more), lock)
  <2>1. PICK node : node = Node(lock, more)
    OBVIOUS
  <2>2. /\ node.marks = {lock} /\ node.lockfile = lock
        /\ lock \in node.fingerprints /\ node.outputs = {"output"}
    BY <2>1, NodeIs
  <2>3. Orderly(node, lock)
    BY <2>2 DEF Orderly, Lockfiles
  <2> QED
    BY <2>1, <2>3
<1> QED
  BY <1>1 DEF NodePnpm, NodeYarn, NodeNpm

LEMMA BunIsOrderly == Orderly(Bun, "bun.lock")
<1>1. /\ Bun.marks = {"bun.lock", "bun.lockb"} /\ Bun.lockfile = "bun.lock"
      /\ Bun.outputs = {"output"} /\ "bun.lock" \in Bun.fingerprints
  BY DEF Bun, Node, LanguageAdapter
<1> QED
  BY <1>1 DEF Orderly, Lockfiles

LEMMA OthersAreOrderly ==
  /\ \A own : Orderly(Go, own) /\ Orderly(Cargo, own) /\ Orderly(PythonUv, own) /\ Orderly(Python, own)
  /\ \A own : Orderly(Maven, own) /\ Orderly(Gradle, own) /\ Orderly(Deno, own)
  /\ Orderly(Ruby, "Gemfile.lock") /\ Orderly(Php, "composer.lock")
  /\ \A own : Orderly([LanguageAdapter EXCEPT !.tasks = {}], own)
<1>1. \A own : Orderly(Go, own) /\ Orderly(Cargo, own)
  BY DEF Orderly, Lockfiles, Go, Cargo, LanguageAdapter
<1>2. \A own : Orderly(PythonUv, own) /\ Orderly(Python, own)
  BY DEF Orderly, Lockfiles, PythonUv, Python, LanguageAdapter
<1>3. \A own : Orderly(Maven, own) /\ Orderly(Gradle, own) /\ Orderly(Deno, own)
  BY DEF Orderly, Lockfiles, Maven, Gradle, Deno, LanguageAdapter
<1>4. Orderly(Ruby, "Gemfile.lock") /\ Orderly(Php, "composer.lock")
  BY DEF Orderly, Lockfiles, Ruby, Php, LanguageAdapter
<1>5. \A own : Orderly([LanguageAdapter EXCEPT !.tasks = {}], own)
  BY DEF Orderly, Lockfiles, LanguageAdapter
<1> QED
  BY <1>1, <1>2, <1>3, <1>4, <1>5

LEMMA AdaptersAreOrderly ==
  ASSUME NEW id \in ToSet(Builtin) \cup {NoAdapter}
  PROVE  Orderly(AdapterOf[id], OwnLock(id))
<1>1. id \in {"go", "cargo", "python-uv", "python", "ruby", "php", "maven", "gradle", "deno", "bun",
              "node-pnpm", "node-yarn", "node-npm", NoAdapter}
  BY DEF ToSet, Builtin
<1>2. CASE id \in {"go", "cargo", "python-uv", "python"}
  BY <1>2, AdaptersAre, OthersAreOrderly
<1>3. CASE id \in {"maven", "gradle", "deno", NoAdapter}
  BY <1>3, AdaptersAre, OthersAreOrderly
<1>4. CASE id \in {"ruby", "php"}
  BY <1>4, AdaptersAre, OthersAreOrderly DEF OwnLock
<1>5. CASE id \in {"bun", "node-pnpm", "node-yarn", "node-npm"}
  BY <1>5, AdaptersAre, BunIsOrderly, NodesAreOrderly DEF OwnLock
<1> QED
  BY <1>1, <1>2, <1>3, <1>4, <1>5

LEMMA LocksDiffer ==
  ASSUME NEW id \in ToSet(Builtin) \cup {NoAdapter}, NEW other \in ToSet(Builtin) \cup {NoAdapter},
         OwnLock(id) = OwnLock(other), OwnLock(id) \in Lockfiles
  PROVE  id = other
  BY DEF OwnLock, Lockfiles

-----------------------------------------------------------------------------
(***************************************************************************)
(* What the module says of the state, said of a configuration `c`, of the  *)
(* files `D` of all units and of a machine `m`.                            *)
(***************************************************************************)
Locks(c, u) == {FactsOf(c, u).lockfile} \ {""}

Hash(c, u, files, globs) == Restrict(files, (globs \cap DOMAIN files) \ FactsOf(c, u).derived)

UnitGlobs(c, u) == c[u].inputs \cup FactsOf(c, u).fingerprints

Own(c, u, files) == Restrict(files, DOMAIN files \ MadeBy(c, u))

Needs(c, u) == IF c[u].forceIndependent THEN {} ELSE c[u].dependsOn

(* s are the signatures, x the sources, of all units with the files D. *)
IsSigs(c, s, D) ==
  \A u \in Units : s[u] = [content |-> [unit |-> u, files |-> Hash(c, u, D[u], UnitGlobs(c, u))],
                           deps    |-> [d \in Needs(c, u) |-> s[d]]]

IsSources(c, x, D) ==
  \A u \in Units : x[u] = [own |-> Own(c, u, D[u]), deps |-> [d \in Needs(c, u) |-> x[d]]]

KeyIs(c, m, u, t, files, s) ==
  LET task == Tasks(c, u)[t]
      id   == Lang(c, u)
  IN [task |-> t, run |-> task.run, adapter |-> id, image |-> m.image, host |-> m.host,
      toolchain |-> IF id = NoAdapter THEN NoPin ELSE RequiredToolchain(id, files, NoPin),
      resolved  |-> IF id = NoAdapter THEN NoPin ELSE m.tool,
      env       |-> IF task.env THEN m.env ELSE NoPin,
      deps      |-> [d \in Needs(c, u) |-> s[d]],
      taskDeps  |-> <<>>,
      files     |-> Hash(c, u, files, TaskGlobs(c, u, t))]

(* The files of a unit: those it began with, a lockfile and what a build   *)
(* leaves; what nobody edits or builds is as it was.                       *)
UnitShape(c, u, files) ==
  /\ files = [f \in DOMAIN files |-> files[f]]
  /\ c[u].files \subseteq DOMAIN files
  /\ DOMAIN files \subseteq c[u].files \cup Locks(c, u) \cup {"output", "vendor"}
  /\ \A f \in c[u].files \ (c[u].edited \cup MadeBy(c, u)) : files[f] = NoPin

Shape(c, D) ==
  /\ D = [u \in Units |-> D[u]]
  /\ \A u \in Units : UnitShape(c, u, D[u])

(* D1 has what D0 has, and may have more. *)
UnitGrows(c, u, from, to) ==
  /\ DOMAIN from \subseteq DOMAIN to
  /\ \A f \in DOMAIN from \ MadeBy(c, u) : to[f] = from[f]

Grows(c, D0, D1) == \A u \in Units : UnitGrows(c, u, D0[u], D1[u])

Widens(D1, D2) == \A u \in Units : DOMAIN D1[u] \subseteq DOMAIN D2[u]

-----------------------------------------------------------------------------
LEMMA NumberInduction ==
  ASSUME NEW T \in SUBSET Nat, 0 \in T, \A n \in T : n + 1 \in T
  PROVE  \A n \in Nat : n \in T
<1> SUFFICES ASSUME NEW n \in Nat, n \notin T PROVE FALSE
  OBVIOUS
<1> DEFINE S == T \cap 0..n
           f == [x \in S |-> x + 1]
<1>1. IsFiniteSet(S)
  <2>1. IsFiniteSet(0..n)
    BY FS_Interval
  <2>2. S \in SUBSET (0..n)
    OBVIOUS
  <2> QED
    BY <2>1, <2>2, FS_Subset
<1>2. IsFiniteSet(S \ {0}) /\ Cardinality(S \ {0}) = Cardinality(S) - 1
  <2>1. 0 \in S
    OBVIOUS
  <2> QED
    BY <1>1, <2>1, FS_RemoveElement
<1>3. f \in [S -> S \ {0}]
  OBVIOUS
<1>4. Cardinality(S) \in Nat
  BY <1>1, FS_CardinalityType
<1>5. PICK x, y \in S : x # y /\ f[x] = f[y]
  <2> HIDE DEF S, f
  <2>1. Cardinality(S \ {0}) < Cardinality(S)
    BY <1>2, <1>4
  <2> QED
    BY <1>1, <1>2, <1>3, <2>1, FS_PigeonHole
<1> QED
  BY <1>5

LEMMA LeastIs ==
  ASSUME NEW S \in SUBSET Nat, S # {}
  PROVE  Min(S) \in S
<1> DEFINE T == {n \in Nat : \A m \in 0..n : m \notin S}
<1>1. \E n \in S : \A m \in S : n <= m
  <2> SUFFICES ASSUME \A n \in S : \E m \in S : m < n PROVE FALSE
    OBVIOUS
  <2>1. 0 \in T
    OBVIOUS
  <2>2. \A n \in T : n + 1 \in T
    OBVIOUS
  <2>3. \A n \in Nat : n \in T
    <3> HIDE DEF T
    <3> QED
      BY <2>1, <2>2, NumberInduction DEF T
  <2>4. PICK n \in S : n \in Nat
    OBVIOUS
  <2>5. n \in T /\ n \in 0..n
    BY <2>3, <2>4
  <2> QED
    BY <2>4, <2>5
<1> QED
  BY <1>1 DEF Min

(***************************************************************************)
(* The adapter of a unit does not change while it is built.                *)
(***************************************************************************)
Found(present) == {i \in DOMAIN Builtin : AdapterOf[Builtin[i]].marks \cap present # {}}

LEMMA DetectIs ==
  ASSUME NEW present
  PROVE  /\ Detect(present) = IF Found(present) = {} THEN NoAdapter ELSE Builtin[Min(Found(present))]
         /\ Found(present) # {} => Min(Found(present)) \in Found(present)
         /\ Detect(present) \in ToSet(Builtin) \cup {NoAdapter}
<1>1. Detect(present) = IF Found(present) = {} THEN NoAdapter ELSE Builtin[Min(Found(present))]
  BY DEF Detect, Found
<1>2. Found(present) # {} => Min(Found(present)) \in Found(present)
  <2>1. DOMAIN Builtin \in SUBSET Nat
    BY DEF Builtin
  <2>2. Found(present) \in SUBSET Nat
    BY <2>1 DEF Found
  <2> QED
    BY <2>2, LeastIs
<1>3. \A i \in Found(present) : Builtin[i] \in ToSet(Builtin)
  BY DEF Found, ToSet
<1> QED
  BY <1>1, <1>2, <1>3

LEMMA LangIs ==
  ASSUME NEW c, NEW u
  PROVE  /\ Lang(c, u) \in ToSet(Builtin) \cup {NoAdapter}
         /\ Orderly(FactsOf(c, u), OwnLock(Lang(c, u)))
<1>1. Lang(c, u) \in ToSet(Builtin) \cup {NoAdapter}
  BY DetectIs DEF Lang
<1> QED
  BY <1>1, AdaptersAreOrderly DEF FactsOf

LEMMA DetectStays ==
  ASSUME NEW files, NEW present, files \subseteq present,
         present \subseteq files \cup ({AdapterOf[Detect(files)].lockfile} \ {""}) \cup {"output", "vendor"}
  PROVE  Detect(present) = Detect(files)
<1> DEFINE id == Detect(files)
<1>1. id \in ToSet(Builtin) \cup {NoAdapter} /\ Orderly(AdapterOf[id], OwnLock(id))
  BY DetectIs, AdaptersAreOrderly
<1>2. ASSUME NEW i \in DOMAIN Builtin, AdapterOf[Builtin[i]].marks \cap present # {}
      PROVE  i \in Found(files)
  <2>1. Builtin[i] \in ToSet(Builtin)
    BY DEF ToSet
  <2>2. PICK mark \in AdapterOf[Builtin[i]].marks \cap present : TRUE
    BY <1>2
  <2>3. Orderly(AdapterOf[Builtin[i]], OwnLock(Builtin[i]))
    BY <2>1, AdaptersAreOrderly
  <2>4. mark \notin {"output", "vendor"}
    BY <2>2, <2>3 DEF Orderly
  <2>5. CASE mark \in files
    BY <2>2, <2>5 DEF Found
  <2>6. CASE mark = AdapterOf[id].lockfile /\ mark # ""
    <3>1. mark = OwnLock(id) /\ OwnLock(id) \in Lockfiles
      BY <1>1, <2>6 DEF Orderly
    <3>2. mark = OwnLock(Builtin[i])
      BY <2>2, <2>3, <3>1 DEF Orderly
    <3>3. id = Builtin[i] /\ id # NoAdapter
      <4>1. OwnLock(NoAdapter) \notin Lockfiles
        BY DEF OwnLock, Lockfiles, NoAdapter
      <4> QED
        BY <1>1, <2>1, <3>1, <3>2, <4>1, LocksDiffer
    <3>4. Found(files) # {} /\ id = Builtin[Min(Found(files))] /\ Min(Found(files)) \in Found(files)
      BY <3>3, DetectIs
    <3> QED
      BY <3>3, <3>4 DEF Found
  <2> QED
    BY <2>2, <2>4, <2>5, <2>6
<1>3. Found(present) = Found(files)
  BY <1>2 DEF Found
<1> QED
  BY <1>3, DetectIs

-----------------------------------------------------------------------------
(***************************************************************************)
(* The recursive functions of the module exist: a unit comes after what it *)
(* depends on.                                                             *)
(***************************************************************************)
SigNode(f, i, content, alone, kin, place) ==
  [content |-> content[i], deps |-> IF alone[i] THEN <<>> ELSE [d \in kin[i] |-> f[place[d]]]]

SourceNode(f, i, own, alone, kin, place) ==
  [own |-> own[i], deps |-> IF alone[i] THEN <<>> ELSE [d \in kin[i] |-> f[place[d]]]]

SigNodes(f, len, content, alone, kin, place) ==
  f = [i \in 1..len |-> SigNode(f, i, content, alone, kin, place)]

LEMMA SigNodesExist ==
  ASSUME NEW len \in Nat, NEW content, NEW alone, NEW kin, NEW place,
         \A i \in 1..len : \A d \in kin[i] : place[d] \in 1..i-1
  PROVE  \E f : SigNodes(f, len, content, alone, kin, place)
<1> DEFINE Is(f, m) == f = [i \in 1..m |-> SigNode(f, i, content, alone, kin, place)]
           T == {m \in Nat : m <= len => \E f : Is(f, m)}
<1>1. 0 \in T
  <2>1. Is([i \in 1..0 |-> 0], 0)
    OBVIOUS
  <2> QED
    BY <2>1
<1>2. ASSUME NEW m \in T PROVE m + 1 \in T
  <2> SUFFICES ASSUME m + 1 <= len PROVE \E g : Is(g, m + 1)
    OBVIOUS
  <2>1. PICK f : Is(f, m)
    OBVIOUS
  <2>2. PICK n : n = m + 1
    OBVIOUS
  <2>3. PICK g : g = [i \in 1..n |-> SigNode(f, i, content, alone, kin, place)]
    OBVIOUS
  <2>4. \A i \in 1..m : g[i] = f[i]
    <3>1. \A i \in 1..m : i \in 1..n
      BY <2>2
    <3>2. \A i \in 1..m : f[i] = SigNode(f, i, content, alone, kin, place)
      BY <2>1
    <3> QED
      BY <2>3, <3>1, <3>2
  <2>5. ASSUME NEW i \in 1..n
        PROVE  SigNode(f, i, content, alone, kin, place) = SigNode(g, i, content, alone, kin, place)
    <3>1. \A d \in kin[i] : place[d] \in 1..i-1
      BY <2>2
    <3>2. \A j \in 1..i-1 : j \in 1..m
      BY <2>2
    <3>3. \A d \in kin[i] : g[place[d]] = f[place[d]]
      BY <2>4, <3>1, <3>2
    <3> QED
      BY <3>3 DEF SigNode
  <2>6. g = [i \in 1..n |-> SigNode(g, i, content, alone, kin, place)]
    BY <2>3, <2>5
  <2> QED
    BY <2>2, <2>6
<1>3. len \in T
  <2> HIDE DEF T
  <2> QED
    BY <1>1, <1>2, NumberInduction DEF T
<1> QED
  BY <1>3 DEF SigNodes

SourceNodes(f, len, own, alone, kin, place) ==
  f = [i \in 1..len |-> SourceNode(f, i, own, alone, kin, place)]

LEMMA SourceNodesExist ==
  ASSUME NEW len \in Nat, NEW own, NEW alone, NEW kin, NEW place,
         \A i \in 1..len : \A d \in kin[i] : place[d] \in 1..i-1
  PROVE  \E f : SourceNodes(f, len, own, alone, kin, place)
<1> DEFINE Is(f, m) == f = [i \in 1..m |-> SourceNode(f, i, own, alone, kin, place)]
           T == {m \in Nat : m <= len => \E f : Is(f, m)}
<1>1. 0 \in T
  <2>1. Is([i \in 1..0 |-> 0], 0)
    OBVIOUS
  <2> QED
    BY <2>1
<1>2. ASSUME NEW m \in T PROVE m + 1 \in T
  <2> SUFFICES ASSUME m + 1 <= len PROVE \E g : Is(g, m + 1)
    OBVIOUS
  <2>1. PICK f : Is(f, m)
    OBVIOUS
  <2>2. PICK n : n = m + 1
    OBVIOUS
  <2>3. PICK g : g = [i \in 1..n |-> SourceNode(f, i, own, alone, kin, place)]
    OBVIOUS
  <2>4. \A i \in 1..m : g[i] = f[i]
    <3>1. \A i \in 1..m : i \in 1..n
      BY <2>2
    <3>2. \A i \in 1..m : f[i] = SourceNode(f, i, own, alone, kin, place)
      BY <2>1
    <3> QED
      BY <2>3, <3>1, <3>2
  <2>5. ASSUME NEW i \in 1..n
        PROVE  SourceNode(f, i, own, alone, kin, place) = SourceNode(g, i, own, alone, kin, place)
    <3>1. \A d \in kin[i] : place[d] \in 1..i-1
      BY <2>2
    <3>2. \A j \in 1..i-1 : j \in 1..m
      BY <2>2
    <3>3. \A d \in kin[i] : g[place[d]] = f[place[d]]
      BY <2>4, <3>1, <3>2
    <3> QED
      BY <3>3 DEF SourceNode
  <2>6. g = [i \in 1..n |-> SourceNode(g, i, own, alone, kin, place)]
    BY <2>3, <2>5
  <2> QED
    BY <2>2, <2>6
<1>3. len \in T
  <2> HIDE DEF T
  <2> QED
    BY <1>1, <1>2, NumberInduction DEF T
<1> QED
  BY <1>3 DEF SourceNodes

(* The place of a unit in the order. *)
Place(u) == CHOOSE i \in DOMAIN Order : Order[i] = u

LEMMA PlacesAre ==
  /\ Len(Order) \in Nat /\ DOMAIN Order = 1..Len(Order)
  /\ \A u \in Units : Place(u) \in DOMAIN Order /\ Order[Place(u)] = u
  /\ \A i \in DOMAIN Order : Order[i] \in Units
  /\ \A c \in Configs, i \in DOMAIN Order :
       \A d \in c[Order[i]].dependsOn : d \in Units /\ Place(d) \in 1..i-1
<1>1. Order \in Seq(Units) /\ ToSet(Order) = Units
  BY PlannerAssumption
<1>2. Len(Order) \in Nat /\ DOMAIN Order = 1..Len(Order) /\ \A i \in DOMAIN Order : Order[i] \in Units
  BY <1>1
<1>3. ASSUME NEW u \in Units PROVE Place(u) \in DOMAIN Order /\ Order[Place(u)] = u
  <2>1. \E i \in DOMAIN Order : Order[i] = u
    BY <1>1 DEF ToSet
  <2> QED
    BY <2>1 DEF Place
<1>4. ASSUME NEW c \in Configs, NEW i \in DOMAIN Order, NEW d \in c[Order[i]].dependsOn
      PROVE  d \in Units /\ Place(d) \in 1..i-1
  <2>1. d \in Units
    BY <1>2, ConfigsFollowOrder
  <2>2. Place(d) \in DOMAIN Order /\ Order[Place(d)] = d
    BY <1>3, <2>1
  <2>3. Place(d) < i
    BY <1>2, <2>2, ConfigsFollowOrder
  <2> QED
    BY <1>2, <2>1, <2>2, <2>3
<1> QED
  BY <1>2, <1>3, <1>4

LEMMA SignaturesAre ==
  ASSUME config \in Configs, NEW D
  PROVE  \A u \in Units :
           Signatures(D)[u] = [content |-> ContentHash(u, D[u]), deps |-> DepsForKey(u, Signatures(D))]
<1> DEFINE At(f, i) ==
             [content |-> ContentHash(Order[i], D[Order[i]]),
              deps |-> IF config[Order[i]].forceIndependent THEN <<>>
                       ELSE [d \in config[Order[i]].dependsOn |-> f[Place(d)]]]
           Is(f) == f = [i \in DOMAIN Order |-> At(f, i)]
           sig == CHOOSE f : Is(f)
<1>1. PICK content : content = [i \in DOMAIN Order |-> ContentHash(Order[i], D[Order[i]])]
  OBVIOUS
<1>2. PICK alone : alone = [i \in DOMAIN Order |-> config[Order[i]].forceIndependent]
  OBVIOUS
<1>3. PICK kin : kin = [i \in DOMAIN Order |-> config[Order[i]].dependsOn]
  OBVIOUS
<1>4. PICK place : place = [d \in Units |-> Place(d)]
  OBVIOUS
<1>5. \A i \in 1..Len(Order) : \A d \in kin[i] : d \in Units /\ place[d] = Place(d) /\ place[d] \in 1..i-1
  BY <1>3, <1>4, PlacesAre
<1>6. PICK f : f = [i \in 1..Len(Order) |-> SigNode(f, i, content, alone, kin, place)]
  <2>1. PICK len \in Nat : len = Len(Order)
    BY PlacesAre
  <2>2. \A i \in 1..len : \A d \in kin[i] : place[d] \in 1..i-1
    BY <1>5, <2>1
  <2>3. \E f : SigNodes(f, len, content, alone, kin, place)
    BY <2>2, SigNodesExist
  <2> QED
    BY <2>1, <2>3 DEF SigNodes
<1>7. ASSUME NEW i \in DOMAIN Order PROVE SigNode(f, i, content, alone, kin, place) = At(f, i)
  <2>1. content[i] = ContentHash(Order[i], D[Order[i]]) /\ alone[i] = config[Order[i]].forceIndependent
    BY <1>1, <1>2
  <2>2. kin[i] = config[Order[i]].dependsOn /\ \A d \in kin[i] : place[d] = Place(d)
    BY <1>3, <1>5, PlacesAre
  <2> QED
    BY <2>1, <2>2 DEF SigNode
<1>8. Is(f)
  <2> HIDE DEF At
  <2> QED
    BY <1>6, <1>7, PlacesAre
<1>9. Is(sig)
  BY <1>8
<1>10. Signatures(D) = [u \in Units |-> sig[Place(u)]]
  BY DEF Signatures, Place
<1> HIDE DEF sig
<1>11. ASSUME NEW u \in Units
       PROVE  Signatures(D)[u] = [content |-> ContentHash(u, D[u]), deps |-> DepsForKey(u, Signatures(D))]
  <2>1. Place(u) \in DOMAIN Order /\ Order[Place(u)] = u
    BY PlacesAre
  <2>2. \A d \in config[u].dependsOn : d \in Units
    BY ConfigsFollowOrder
  <2>3. sig[Place(u)] = At(sig, Place(u))
    BY <1>9, <2>1
  <2>4. At(sig, Place(u)) = [content |-> ContentHash(u, D[u]),
                               deps |-> IF config[u].forceIndependent THEN <<>>
                                        ELSE [d \in config[u].dependsOn |-> sig[Place(d)]]]
    BY <2>1
  <2>5. [d \in config[u].dependsOn |-> sig[Place(d)]] = [d \in config[u].dependsOn |-> Signatures(D)[d]]
    BY <1>10, <2>2
  <2>6. Signatures(D)[u] = sig[Place(u)]
    BY <1>10
  <2> QED
    BY <2>3, <2>4, <2>5, <2>6 DEF DepsForKey
<1> QED
  BY <1>11

AreSources(x, D) ==
  \A u \in Units :
    x[u] = [own  |-> Restrict(D[u], DOMAIN D[u] \ Written(u)),
            deps |-> IF config[u].forceIndependent THEN <<>> ELSE [d \in config[u].dependsOn |-> x[d]]]

LEMMA SourcesAre ==
  ASSUME config \in Configs, NEW D, NEW x, x = [u \in Units |-> Sources(u, D)]
  PROVE  AreSources(x, D)
<1> DEFINE At(f, i) ==
             [own  |-> Restrict(D[Order[i]], DOMAIN D[Order[i]] \ Written(Order[i])),
              deps |-> IF config[Order[i]].forceIndependent THEN <<>>
                       ELSE [d \in config[Order[i]].dependsOn |-> f[Place(d)]]]
           Is(f) == f = [i \in DOMAIN Order |-> At(f, i)]
           all == CHOOSE f : Is(f)
<1>1. PICK own : own = [i \in DOMAIN Order |-> Restrict(D[Order[i]], DOMAIN D[Order[i]] \ Written(Order[i]))]
  OBVIOUS
<1>2. PICK alone : alone = [i \in DOMAIN Order |-> config[Order[i]].forceIndependent]
  OBVIOUS
<1>3. PICK kin : kin = [i \in DOMAIN Order |-> config[Order[i]].dependsOn]
  OBVIOUS
<1>4. PICK place : place = [d \in Units |-> Place(d)]
  OBVIOUS
<1>5. \A i \in 1..Len(Order) : \A d \in kin[i] : d \in Units /\ place[d] = Place(d) /\ place[d] \in 1..i-1
  BY <1>3, <1>4, PlacesAre
<1>6. PICK f : f = [i \in 1..Len(Order) |-> SourceNode(f, i, own, alone, kin, place)]
  <2>1. PICK len \in Nat : len = Len(Order)
    BY PlacesAre
  <2>2. \A i \in 1..len : \A d \in kin[i] : place[d] \in 1..i-1
    BY <1>5, <2>1
  <2>3. \E f : SourceNodes(f, len, own, alone, kin, place)
    BY <2>2, SourceNodesExist
  <2> QED
    BY <2>1, <2>3 DEF SourceNodes
<1>7. ASSUME NEW i \in DOMAIN Order PROVE SourceNode(f, i, own, alone, kin, place) = At(f, i)
  <2>1. own[i] = Restrict(D[Order[i]], DOMAIN D[Order[i]] \ Written(Order[i]))
    BY <1>1
  <2>2. alone[i] = config[Order[i]].forceIndependent
    BY <1>2
  <2>3. kin[i] = config[Order[i]].dependsOn /\ \A d \in kin[i] : place[d] = Place(d)
    BY <1>3, <1>5, PlacesAre
  <2> QED
    BY <2>1, <2>2, <2>3 DEF SourceNode
<1>8. Is(f)
  <2> HIDE DEF At
  <2> QED
    BY <1>6, <1>7, PlacesAre
<1>9. Is(all)
  BY <1>8
<1>10. ASSUME NEW u PROVE Sources(u, D) = all[Place(u)]
  BY DEF Sources, Place
<1> HIDE DEF all
<1>11. ASSUME NEW u \in Units
       PROVE  x[u] = [own  |-> Restrict(D[u], DOMAIN D[u] \ Written(u)),
                      deps |-> IF config[u].forceIndependent THEN <<>>
                               ELSE [d \in config[u].dependsOn |-> x[d]]]
  <2>1. Place(u) \in DOMAIN Order /\ Order[Place(u)] = u
    BY PlacesAre
  <2>2. \A d \in config[u].dependsOn : x[d] = all[Place(d)]
    BY <1>10, ConfigsFollowOrder
  <2>3. all[Place(u)] = At(all, Place(u))
    BY <1>9, <2>1
  <2>4. At(all, Place(u)) = [own  |-> Restrict(D[u], DOMAIN D[u] \ Written(u)),
                               deps |-> IF config[u].forceIndependent THEN <<>>
                                        ELSE [d \in config[u].dependsOn |-> all[Place(d)]]]
    BY <2>1
  <2>5. [d \in config[u].dependsOn |-> all[Place(d)]] = [d \in config[u].dependsOn |-> x[d]]
    BY <2>2
  <2>6. x[u] = all[Place(u)]
    BY <1>10
  <2> QED
    BY <2>3, <2>4, <2>5, <2>6
<1> QED
  BY <1>11 DEF AreSources

-----------------------------------------------------------------------------
(***************************************************************************)
(* The tasks of a unit: only a deploy depends on another task, and it is   *)
(* not cached; what they leave is an output.                               *)
(***************************************************************************)
TaskIsPlain(t, x) ==
  /\ x = [run |-> x.run, inputs |-> x.inputs, outputs |-> x.outputs, noCache |-> x.noCache,
          env |-> x.env, dependsOn |-> x.dependsOn]
  /\ x.outputs \subseteq {"output", "vendor"}
  /\ x.dependsOn \subseteq {"build"}
  /\ x.dependsOn # {} => t = "deploy" /\ x.noCache

LEMMA NewTaskIsPlain ==
  ASSUME NEW inputs, NEW outputs, outputs \subseteq {"output", "vendor"}, NEW t
  PROVE  TaskIsPlain(t, Task(inputs, outputs))
BY DEF TaskIsPlain, Task

LEMMA IntegrationIsPlain ==
  ASSUME NEW unit, NEW t \in unit.integrations
  PROVE  TaskIsPlain(t, IntegrationTasks(unit)[t])
BY DEF TaskIsPlain, Task, IntegrationTasks

LEMMA OverlayIsPlain ==
  ASSUME NEW unit, unit.outputs \subseteq {"output", "vendor"}, NEW inherited,
         \A t \in DOMAIN inherited : TaskIsPlain(t, inherited[t]), NEW t
  PROVE  TaskIsPlain(t, Overlay(unit, t, inherited))
<1>1. PICK from : from = IF t \in DOMAIN inherited THEN inherited[t] ELSE Task(unit.inputs, unit.outputs)
  OBVIOUS
<1>2. TaskIsPlain(t, from)
  BY <1>1, NewTaskIsPlain
<1>3. PICK run, inputs, env :
        Overlay(unit, t, inherited) = [from EXCEPT !.run = run, !.inputs = inputs, !.env = env]
  BY <1>1 DEF Overlay
<1> QED
  BY <1>2, <1>3 DEF TaskIsPlain

LEMMA TasksArePlain ==
  ASSUME NEW c \in Configs, NEW u \in Units, NEW t \in DOMAIN Tasks(c, u)
  PROVE  TaskIsPlain(t, Tasks(c, u)[t])
<1>1. c[u].outputs \subseteq {"output", "vendor"}
  BY ConfigsFollowOrder
<1>2. PICK unit : unit = c[u]
  OBVIOUS
<1>3. PICK facts : facts = FactsOf(c, u) /\ facts.outputs \subseteq {"output", "vendor"}
  BY LangIs DEF Orderly
<1>4. \A x \in facts.tasks : TaskIsPlain(x, DefaultTasks(unit, facts)[x])
  BY <1>1, <1>2, <1>3, NewTaskIsPlain DEF DefaultTasks
<1>5. \A x \in unit.integrations : TaskIsPlain(x, IntegrationTasks(unit)[x])
  BY IntegrationIsPlain
<1>6. DOMAIN DefaultTasks(unit, facts) = facts.tasks /\ DOMAIN IntegrationTasks(unit) = unit.integrations
  BY DEF DefaultTasks, IntegrationTasks
<1>7. PICK inherited : inherited = Over(IntegrationTasks(unit), DefaultTasks(unit, facts))
  OBVIOUS
<1>8. \A x \in DOMAIN inherited : TaskIsPlain(x, inherited[x])
  BY <1>4, <1>5, <1>6, <1>7 DEF Over
<1>9. Tasks(c, u) = Over([x \in DOMAIN unit.tasks |-> Overlay(unit, x, inherited)], inherited)
  BY <1>2, <1>3, <1>7 DEF Tasks, TasksOf, OverlayAll
<1>10. \A x : TaskIsPlain(x, Overlay(unit, x, inherited))
  BY <1>1, <1>2, <1>8, OverlayIsPlain
<1> QED
  BY <1>8, <1>9, <1>10 DEF Over

-----------------------------------------------------------------------------
(***************************************************************************)
(* The state, said of the configuration and the files.                     *)
(***************************************************************************)
LEMMA StateIs ==
  ASSUME Shape(config, dir), NEW u \in Units
  PROVE  /\ ResolveAdapter(u) = Lang(config, u)
         /\ Facts(u) = FactsOf(config, u)
         /\ Written(u) = MadeBy(config, u)
         /\ ResolveTasks(u) = Tasks(config, u)
         /\ \A files, globs : Matched(u, files, globs) = Hash(config, u, files, globs)
<1>1. UnitShape(config, u, dir[u])
  BY DEF Shape
<1>2. ResolveAdapter(u) = Lang(config, u)
  <2>1. CASE config[u].language # Unset
    BY <2>1 DEF ResolveAdapter, Lang
  <2>2. CASE config[u].language = Unset
    <3>1. Lang(config, u) = Detect(config[u].files)
      BY <2>2 DEF Lang
    <3>2. Detect(DOMAIN dir[u]) = Detect(config[u].files)
      BY <1>1, <3>1, DetectStays DEF UnitShape, Locks, FactsOf
    <3> QED
      BY <2>2, <3>1, <3>2 DEF ResolveAdapter
  <2> QED
    BY <2>1, <2>2
<1>3. Facts(u) = FactsOf(config, u)
  BY <1>2 DEF Facts, FactsOf
<1> QED
  BY <1>2, <1>3 DEF Written, MadeBy, ResolveTasks, Tasks, Matched, Hash

LEMMA SigsAre ==
  ASSUME config \in Configs, Shape(config, dir), NEW D
  PROVE  IsSigs(config, Signatures(D), D)
<1> SUFFICES ASSUME NEW u \in Units
             PROVE  Signatures(D)[u] = [content |-> [unit |-> u, files |-> Hash(config, u, D[u], UnitGlobs(config, u))],
                                        deps    |-> [d \in Needs(config, u) |-> Signatures(D)[d]]]
  BY DEF IsSigs
<1>1. ContentHash(u, D[u]) = [unit |-> u, files |-> Hash(config, u, D[u], UnitGlobs(config, u))]
  BY StateIs DEF ContentHash, UnitGlobs
<1>2. DepsForKey(u, Signatures(D)) = [d \in Needs(config, u) |-> Signatures(D)[d]]
  BY DEF DepsForKey, Needs
<1> QED
  BY <1>1, <1>2, SignaturesAre

LEMMA SourcesExist ==
  ASSUME config \in Configs, Shape(config, dir), NEW D
  PROVE  IsSources(config, [u \in Units |-> Sources(u, D)], D)
<1>1. PICK x : x = [u \in Units |-> Sources(u, D)]
  OBVIOUS
<1>2. ASSUME NEW u \in Units
      PROVE  x[u] = [own |-> Own(config, u, D[u]), deps |-> [d \in Needs(config, u) |-> x[d]]]
  <2>1. Restrict(D[u], DOMAIN D[u] \ Written(u)) = Own(config, u, D[u])
    BY StateIs DEF Own
  <2>2. [d \in Needs(config, u) |-> x[d]]
          = IF config[u].forceIndependent THEN <<>> ELSE [d \in config[u].dependsOn |-> x[d]]
    BY DEF Needs
  <2>3. x[u] = [own  |-> Restrict(D[u], DOMAIN D[u] \ Written(u)),
                deps |-> IF config[u].forceIndependent THEN <<>> ELSE [d \in config[u].dependsOn |-> x[d]]]
    <3>1. AreSources(x, D)
      BY <1>1, SourcesAre
    <3> QED
      BY <3>1 DEF AreSources
  <2> QED
    BY <2>1, <2>2, <2>3
<1> QED
  BY <1>1, <1>2 DEF IsSources

(* The keys of a unit: a deploy's holds that of the build, a cached one none. *)
LEMMA KeysAre ==
  ASSUME config \in Configs, Shape(config, dir), NEW u \in Units, NEW s, NEW finds
  PROVE  /\ DOMAIN KeysOf(u, s, finds) = DOMAIN Tasks(config, u)
         /\ \A t \in Cacheable(config, u) :
              KeysOf(u, s, finds)[t] = KeyIs(config, machine, u, t, finds[t], s)
<1> DEFINE Kin(t) == ResolveTasks(u)[t].dependsOn \cap DOMAIN ResolveTasks(u)
           Key(f, t) == ComputeKey(u, t, finds[t], s, [d \in Kin(t) |-> f[d]])
           Is(f) == f = [t \in DOMAIN ResolveTasks(u) |-> Key(f, t)]
           key == CHOOSE f : Is(f)
<1>1. ResolveTasks(u) = Tasks(config, u) /\ ResolveAdapter(u) = Lang(config, u) /\ Facts(u) = FactsOf(config, u)
  BY StateIs
<1>2. \A t \in DOMAIN ResolveTasks(u) : TaskIsPlain(t, ResolveTasks(u)[t])
  BY <1>1, TasksArePlain
<1>3. \A t \in DOMAIN ResolveTasks(u) : \A d \in Kin(t) : d \in DOMAIN ResolveTasks(u) /\ Kin(d) = {}
  BY <1>2 DEF TaskIsPlain
<1>4. \A t \in Cacheable(config, u) : t \in DOMAIN ResolveTasks(u) /\ Kin(t) = {}
  BY <1>1, <1>2 DEF TaskIsPlain, Cacheable
<1> HIDE DEF Kin
<1>5. PICK first : first = [t \in DOMAIN ResolveTasks(u) |-> ComputeKey(u, t, finds[t], s, <<>>)]
  OBVIOUS
<1>6. PICK f : f = [t \in DOMAIN ResolveTasks(u) |-> ComputeKey(u, t, finds[t], s, [d \in Kin(t) |-> first[d]])]
  OBVIOUS
<1>7. ASSUME NEW t \in DOMAIN ResolveTasks(u), Kin(t) = {} PROVE f[t] = first[t]
  <2>1. [d \in Kin(t) |-> first[d]] = <<>>
    BY <1>7
  <2> QED
    BY <1>5, <1>6, <2>1
<1>8. ASSUME NEW t \in DOMAIN ResolveTasks(u) PROVE f[t] = Key(f, t)
  <2>1. [d \in Kin(t) |-> first[d]] = [d \in Kin(t) |-> f[d]]
    BY <1>3, <1>7
  <2> QED
    BY <1>6, <2>1
<1>9. Is(f)
  <2> HIDE DEF Key
  <2> QED
    BY <1>6, <1>8
<1>10. Is(key)
  BY <1>9
<1>11. KeysOf(u, s, finds) = key
  BY DEF KeysOf, Kin
<1> HIDE DEF key
<1>12. ASSUME NEW t \in Cacheable(config, u) PROVE key[t] = KeyIs(config, machine, u, t, finds[t], s)
  <2>1. [d \in Kin(t) |-> key[d]] = <<>>
    BY <1>4
  <2>2. key[t] = ComputeKey(u, t, finds[t], s, <<>>)
    BY <1>4, <1>10, <2>1
  <2>3. DepsForKey(u, s) = [d \in Needs(config, u) |-> s[d]]
    BY DEF DepsForKey, Needs
  <2>4. ResolvedFingerprint(u) = IF Lang(config, u) = NoAdapter THEN NoPin ELSE machine.tool
    BY <1>1 DEF ResolvedFingerprint
  <2>5. Matched(u, finds[t], ResolveTasks(u)[t].inputs \cup Facts(u).fingerprints)
          = Hash(config, u, finds[t], TaskGlobs(config, u, t))
    BY <1>1, StateIs DEF TaskGlobs
  <2> QED
    BY <1>1, <2>2, <2>3, <2>4, <2>5 DEF ComputeKey, KeyIs
<1> QED
  BY <1>1, <1>10, <1>11, <1>12

-----------------------------------------------------------------------------
(***************************************************************************)
(* What a signature tells: equal signatures are of equal sources, though   *)
(* the first was computed from the files before the run, and the sources   *)
(* are those of after the installs.                                        *)
(***************************************************************************)
LEMMA OrderInduction ==
  ASSUME NEW good, \A i \in DOMAIN Order : (\A j \in 1..i-1 : Order[j] \in good) => Order[i] \in good
  PROVE  \A u \in Units : u \in good
<1> DEFINE T == {n \in Nat : \A i \in DOMAIN Order : i <= n => Order[i] \in good}
<1>1. 0 \in T
  BY PlacesAre
<1>2. ASSUME NEW n \in T PROVE n + 1 \in T
  <2> SUFFICES ASSUME NEW i \in DOMAIN Order, i <= n + 1 PROVE Order[i] \in good
    OBVIOUS
  <2>1. i \in Nat
    BY PlacesAre
  <2>2. ASSUME NEW j \in 1..i-1 PROVE Order[j] \in good
    <3>1. j \in DOMAIN Order /\ j <= n
      BY <2>1, PlacesAre
    <3> QED
      BY <3>1
  <2> QED
    BY <2>2
<1>3. \A n \in Nat : n \in T
  <2> HIDE DEF T
  <2> QED
    BY <1>1, <1>2, NumberInduction DEF T
<1> SUFFICES ASSUME NEW u \in Units PROVE u \in good
  OBVIOUS
<1>4. Place(u) \in DOMAIN Order /\ Place(u) \in Nat /\ Order[Place(u)] = u
  BY PlacesAre
<1>5. Place(u) \in T
  BY <1>3, <1>4
<1> QED
  BY <1>4, <1>5

LEMMA NeedsComeFirst ==
  ASSUME NEW c \in Configs, NEW i \in DOMAIN Order, NEW good, \A j \in 1..i-1 : Order[j] \in good
  PROVE  \A d \in Needs(c, Order[i]) : d \in Units /\ d \in good
<1> SUFFICES ASSUME NEW d \in Needs(c, Order[i]) PROVE d \in Units /\ d \in good
  OBVIOUS
<1>1. d \in c[Order[i]].dependsOn
  BY DEF Needs
<1>2. d \in Units /\ Place(d) \in 1..i-1 /\ Order[Place(d)] = d
  BY <1>1, PlacesAre
<1> QED
  BY <1>2

LEMMA SigsAgree ==
  ASSUME NEW c \in Configs, NEW D, NEW s1, NEW s2, IsSigs(c, s1, D), IsSigs(c, s2, D)
  PROVE  \A u \in Units : s1[u] = s2[u]
<1> DEFINE good == {u \in Units : s1[u] = s2[u]}
<1>1. ASSUME NEW i \in DOMAIN Order, \A j \in 1..i-1 : Order[j] \in good
      PROVE  Order[i] \in good
  <2>1. PICK u \in Units : u = Order[i]
    BY PlacesAre
  <2>2. \A d \in Needs(c, u) : s1[d] = s2[d]
    <3>1. \A d \in Needs(c, Order[i]) : d \in Units /\ d \in good
      <4> HIDE DEF good
      <4> QED
        BY <1>1, NeedsComeFirst
    <3> QED
      BY <2>1, <3>1
  <2>3. [d \in Needs(c, u) |-> s1[d]] = [d \in Needs(c, u) |-> s2[d]]
    BY <2>2
  <2>4. s1[u] = s2[u]
    BY <2>3 DEF IsSigs
  <2> QED
    BY <2>1, <2>4
<1>2. \A u \in Units : u \in good
  <2> HIDE DEF good
  <2> QED
    BY <1>1, OrderInduction
<1> QED
  BY <1>2

LEMMA HashTells ==
  ASSUME NEW c, NEW u, NEW f0, NEW f1, NEW f2, NEW globs,
         UnitGrows(c, u, f0, f1), DOMAIN f1 \subseteq DOMAIN f2,
         Hash(c, u, f0, globs) = Hash(c, u, f2, globs),
         DOMAIN f2 \ MadeBy(c, u) \subseteq globs
  PROVE  Own(c, u, f1) = Own(c, u, f2)
<1>1. PICK derived : derived = FactsOf(c, u).derived /\ derived \subseteq MadeBy(c, u)
  BY DEF MadeBy
<1>2. PICK h : h = Hash(c, u, f0, globs)
  OBVIOUS
<1>3. DOMAIN h = (globs \cap DOMAIN f0) \ derived /\ \A x \in DOMAIN h : h[x] = f0[x]
  BY <1>1, <1>2 DEF Hash, Restrict
<1>4. DOMAIN h = (globs \cap DOMAIN f2) \ derived /\ \A x \in DOMAIN h : h[x] = f2[x]
  BY <1>1, <1>2 DEF Hash, Restrict
<1>5. \A x \in DOMAIN f2 \ MadeBy(c, u) : x \in DOMAIN h /\ x \in DOMAIN f0 /\ x \in DOMAIN f1
  BY <1>1, <1>3, <1>4 DEF UnitGrows
<1>6. \A x \in DOMAIN f2 \ MadeBy(c, u) : f1[x] = f2[x]
  BY <1>3, <1>4, <1>5 DEF UnitGrows
<1>7. DOMAIN f1 \ MadeBy(c, u) = DOMAIN f2 \ MadeBy(c, u)
  BY <1>5
<1> QED
  BY <1>6, <1>7 DEF Own, Restrict

(* Declares of the module, for all units. *)
Declared(c) == \A u \in Units : FactsOf(c, u).inputs \subseteq UnitGlobs(c, u)

LEMMA UnitIsCovered ==
  ASSUME NEW c, KeysNameSources(c), Declared(c), NEW u \in Units, NEW files, UnitShape(c, u, files)
  PROVE  DOMAIN files \ MadeBy(c, u) \subseteq UnitGlobs(c, u)
<1>1. Locks(c, u) \subseteq UnitGlobs(c, u)
  BY LangIs DEF Locks, Orderly, UnitGlobs
<1>2. c[u].files \subseteq UnitGlobs(c, u) \cup MadeBy(c, u)
  BY DEF KeysNameSources, Declared, UnitGlobs
<1>3. {"output", "vendor"} \subseteq MadeBy(c, u)
  BY DEF MadeBy
<1> QED
  BY <1>1, <1>2, <1>3 DEF UnitShape

LEMMA SignatureTells ==
  ASSUME NEW c \in Configs, KeysNameSources(c), Declared(c), NEW D0, NEW D1, NEW D2,
         Shape(c, D2), Grows(c, D0, D1), Widens(D1, D2),
         NEW s0, IsSigs(c, s0, D0), NEW s2, IsSigs(c, s2, D2),
         NEW x1, IsSources(c, x1, D1), NEW x2, IsSources(c, x2, D2)
  PROVE  \A u \in Units : s0[u] = s2[u] => x1[u] = x2[u]
<1> DEFINE good == {u \in Units : s0[u] = s2[u] => x1[u] = x2[u]}
<1>1. ASSUME NEW i \in DOMAIN Order, \A j \in 1..i-1 : Order[j] \in good
      PROVE  Order[i] \in good
  <2>1. PICK u \in Units : u = Order[i]
    BY PlacesAre
  <2> SUFFICES ASSUME s0[u] = s2[u] PROVE x1[u] = x2[u]
    BY <2>1
  <2>2. PICK h0, h2 : h0 = Hash(c, u, D0[u], UnitGlobs(c, u)) /\ h2 = Hash(c, u, D2[u], UnitGlobs(c, u))
    OBVIOUS
  <2>3. PICK n : n = Needs(c, u)
    OBVIOUS
  <2>4. s0[u] = [content |-> [unit |-> u, files |-> h0], deps |-> [d \in n |-> s0[d]]]
    BY <2>2, <2>3 DEF IsSigs
  <2>5. s2[u] = [content |-> [unit |-> u, files |-> h2], deps |-> [d \in n |-> s2[d]]]
    BY <2>2, <2>3 DEF IsSigs
  <2>6. h0 = h2
    <3>1. PICK c0, c2 : c0 = [unit |-> u, files |-> h0] /\ c2 = [unit |-> u, files |-> h2]
      OBVIOUS
    <3>2. PICK k0, k2 : k0 = [d \in n |-> s0[d]] /\ k2 = [d \in n |-> s2[d]]
      OBVIOUS
    <3>3. s0[u] = [content |-> c0, deps |-> k0] /\ s2[u] = [content |-> c2, deps |-> k2]
      BY <2>4, <2>5, <3>1, <3>2
    <3>4. c0 = c2
      <4>1. PICK r : r = s0[u] /\ r = s2[u]
        OBVIOUS
      <4>2. r = [content |-> c0, deps |-> k0] /\ r = [content |-> c2, deps |-> k2]
        BY <3>3, <4>1
      <4>3. r.content = c0 /\ r.deps = k0
        BY <4>2
      <4>4. r.content = c2 /\ r.deps = k2
        BY <4>2
      <4> QED
        BY <4>3, <4>4
    <3> QED
      BY <3>1, <3>4
  <2>7. \A d \in n : s0[d] = s2[d]
    <3>1. PICK c0, c2 : c0 = [unit |-> u, files |-> h0] /\ c2 = [unit |-> u, files |-> h2]
      OBVIOUS
    <3>2. PICK k0, k2 : k0 = [d \in n |-> s0[d]] /\ k2 = [d \in n |-> s2[d]]
      OBVIOUS
    <3>3. s0[u] = [content |-> c0, deps |-> k0] /\ s2[u] = [content |-> c2, deps |-> k2]
      BY <2>4, <2>5, <3>1, <3>2
    <3>4. k0 = k2
      <4>1. PICK r : r = s0[u] /\ r = s2[u]
        OBVIOUS
      <4>2. r = [content |-> c0, deps |-> k0] /\ r = [content |-> c2, deps |-> k2]
        BY <3>3, <4>1
      <4>3. r.content = c0 /\ r.deps = k0
        BY <4>2
      <4>4. r.content = c2 /\ r.deps = k2
        BY <4>2
      <4> QED
        BY <4>3, <4>4
    <3>5. \A d \in n : k0[d] = s0[d] /\ k2[d] = s2[d]
      BY <3>2
    <3> QED
      BY <3>4, <3>5
  <2>8. \A d \in n : d \in Units /\ d \in good
    <3>1. \A d \in Needs(c, Order[i]) : d \in Units /\ d \in good
      <4> HIDE DEF good
      <4> QED
        BY <1>1, NeedsComeFirst
    <3> QED
      BY <2>1, <2>3, <3>1
  <2>9. [d \in n |-> x1[d]] = [d \in n |-> x2[d]]
    BY <2>7, <2>8
  <2>10. Own(c, u, D1[u]) = Own(c, u, D2[u])
    <3>1. DOMAIN D2[u] \ MadeBy(c, u) \subseteq UnitGlobs(c, u)
      BY UnitIsCovered DEF Shape
    <3>2. UnitGrows(c, u, D0[u], D1[u]) /\ DOMAIN D1[u] \subseteq DOMAIN D2[u]
      BY DEF Grows, Widens
    <3>3. Hash(c, u, D0[u], UnitGlobs(c, u)) = Hash(c, u, D2[u], UnitGlobs(c, u))
      BY <2>2, <2>6
    <3>4. PICK f0, f1, f2, globs : f0 = D0[u] /\ f1 = D1[u] /\ f2 = D2[u] /\ globs = UnitGlobs(c, u)
      OBVIOUS
    <3>5. /\ UnitGrows(c, u, f0, f1) /\ DOMAIN f1 \subseteq DOMAIN f2
          /\ Hash(c, u, f0, globs) = Hash(c, u, f2, globs) /\ DOMAIN f2 \ MadeBy(c, u) \subseteq globs
      BY <3>1, <3>2, <3>3, <3>4
    <3>6. Own(c, u, f1) = Own(c, u, f2)
      BY <3>5, HashTells
    <3> QED
      BY <3>4, <3>6
  <2>11. /\ x1[u] = [own |-> Own(c, u, D1[u]), deps |-> [d \in n |-> x1[d]]]
         /\ x2[u] = [own |-> Own(c, u, D2[u]), deps |-> [d \in n |-> x2[d]]]
    BY <2>3 DEF IsSources
  <2> QED
    BY <2>9, <2>10, <2>11
<1>2. \A u \in Units : u \in good
  <2> HIDE DEF good
  <2> QED
    BY <1>1, OrderInduction
<1> QED
  BY <1>2

(***************************************************************************)
(* An entry of the cache: task t of u, with the signatures of the files    *)
(* D0, the sources of the files D1, the files that were hashed and the     *)
(* machine of then; since then, units have not lost files.                 *)
(***************************************************************************)
Explains(c, e, u, t, D0, D1, s, x, files, m) ==
  /\ Shape(c, D1) /\ Grows(c, D0, D1)
  /\ IsSigs(c, s, D0) /\ IsSources(c, x, D1)
  /\ Own(c, u, files) = Own(c, u, D1[u])
  /\ e.key = KeyIs(c, m, u, t, files, s)
  /\ e.saw = [sources |-> x[u], image |-> e.key.image, host |-> e.key.host,
              tool |-> e.key.resolved, env |-> e.key.env]

Explained(c, now, e) ==
  \E u \in Units : \E t \in Cacheable(c, u) : \E D0, D1, s, x, files, m :
    Explains(c, e, u, t, D0, D1, s, x, files, m) /\ Widens(D1, now)

(* Equal hashes of a task, of two units perhaps, are of equal sources. *)
LEMMA TaskHashTells ==
  ASSUME NEW c, KeysNameSources(c), NEW u \in Units, NEW v \in Units,
         NEW t \in Cacheable(c, u), t \in Cacheable(c, v), Lang(c, u) = Lang(c, v),
         Tasks(c, u)[t].run = Tasks(c, v)[t].run,
         NEW f, NEW f1, UnitShape(c, u, f1), Own(c, u, f) = Own(c, u, f1), NEW f2, UnitShape(c, v, f2),
         Hash(c, u, f, TaskGlobs(c, u, t)) = Hash(c, v, f2, TaskGlobs(c, v, t))
  PROVE  Own(c, u, f1) = Own(c, v, f2)
<1>1. PICK facts, made : facts = FactsOf(c, u) /\ made = MadeBy(c, u)
  OBVIOUS
<1>2. facts = FactsOf(c, v) /\ made = MadeBy(c, v) /\ facts.derived \subseteq made /\ {"output", "vendor"} \subseteq made
  BY <1>1 DEF FactsOf, MadeBy
<1>3. Locks(c, u) \subseteq facts.fingerprints /\ Locks(c, v) \subseteq facts.fingerprints
  <2>1. Orderly(FactsOf(c, u), OwnLock(Lang(c, u))) /\ Orderly(FactsOf(c, v), OwnLock(Lang(c, v)))
    BY LangIs
  <2>2. facts.lockfile \in facts.fingerprints \cup {""}
    BY <1>1, <2>1 DEF Orderly
  <2> QED
    BY <1>1, <1>2, <2>2 DEF Locks
<1>4. HiddenFrom(c, u, t) = HiddenFrom(c, v, t)
  BY DEF KeysNameSources
<1>5. PICK hidden : hidden = HiddenFrom(c, u, t)
  OBVIOUS
<1>6. PICK g1, g2 : g1 = TaskGlobs(c, u, t) /\ g2 = TaskGlobs(c, v, t)
  OBVIOUS
<1>7. facts.fingerprints \subseteq g1 /\ facts.fingerprints \subseteq g2
  BY <1>1, <1>2, <1>6 DEF TaskGlobs
<1>8. hidden = c[u].files \ (g1 \cup made) /\ hidden = c[v].files \ (g2 \cup made)
  BY <1>1, <1>2, <1>4, <1>5, <1>6 DEF HiddenFrom
<1>9. hidden \subseteq DOMAIN f1 \ made /\ hidden = (DOMAIN f1 \ made) \ g1 /\ \A y \in hidden : f1[y] = NoPin
  <2>1. hidden \cap c[u].edited = {}
    BY <1>5 DEF KeysNameSources
  <2>2. c[u].files \subseteq DOMAIN f1 /\ DOMAIN f1 \subseteq c[u].files \cup Locks(c, u) \cup {"output", "vendor"}
    BY DEF UnitShape
  <2>3. \A y \in c[u].files \ (c[u].edited \cup made) : f1[y] = NoPin
    BY <1>1 DEF UnitShape
  <2> QED
    BY <1>2, <1>3, <1>7, <1>8, <2>1, <2>2, <2>3
<1>10. hidden \subseteq DOMAIN f2 \ made /\ hidden = (DOMAIN f2 \ made) \ g2 /\ \A y \in hidden : f2[y] = NoPin
  <2>1. hidden \cap c[v].edited = {}
    BY <1>4, <1>5 DEF KeysNameSources
  <2>2. c[v].files \subseteq DOMAIN f2 /\ DOMAIN f2 \subseteq c[v].files \cup Locks(c, v) \cup {"output", "vendor"}
    BY DEF UnitShape
  <2>3. \A y \in c[v].files \ (c[v].edited \cup made) : f2[y] = NoPin
    BY <1>2 DEF UnitShape
  <2> QED
    BY <1>2, <1>3, <1>7, <1>8, <2>1, <2>2, <2>3
<1>11. DOMAIN f \ made = DOMAIN f1 \ made /\ \A y \in DOMAIN f1 \ made : f[y] = f1[y]
  <2>1. PICK o : o = Own(c, u, f) /\ o = Own(c, u, f1)
    OBVIOUS
  <2>2. DOMAIN o = DOMAIN f \ made /\ \A y \in DOMAIN o : o[y] = f[y]
    BY <1>1, <2>1 DEF Own, Restrict
  <2>3. DOMAIN o = DOMAIN f1 \ made /\ \A y \in DOMAIN o : o[y] = f1[y]
    BY <1>1, <2>1 DEF Own, Restrict
  <2> QED
    BY <2>2, <2>3
<1>12. PICK h : h = Hash(c, u, f, g1) /\ h = Hash(c, v, f2, g2)
  BY <1>6
<1>13. DOMAIN h = (g1 \cap DOMAIN f) \ facts.derived /\ \A y \in DOMAIN h : h[y] = f[y]
  BY <1>1, <1>12 DEF Hash, Restrict
<1>14. DOMAIN h = (g2 \cap DOMAIN f2) \ facts.derived /\ \A y \in DOMAIN h : h[y] = f2[y]
  BY <1>2, <1>12 DEF Hash, Restrict
<1>15. (DOMAIN f1 \ made) \cap g1 = DOMAIN h \ made /\ (DOMAIN f2 \ made) \cap g2 = DOMAIN h \ made
  BY <1>2, <1>11, <1>13, <1>14
<1>16. DOMAIN f1 \ made = DOMAIN f2 \ made
  BY <1>9, <1>10, <1>15
<1>17. ASSUME NEW y \in DOMAIN f1 \ made PROVE f1[y] = f2[y]
  <2>1. CASE y \in hidden
    BY <1>9, <1>10, <2>1
  <2>2. CASE y \in DOMAIN h
    BY <1>11, <1>13, <1>14, <1>17, <2>2
  <2> QED
    BY <1>9, <1>15, <1>17, <2>1, <2>2
<1> QED
  BY <1>1, <1>2, <1>16, <1>17 DEF Own, Restrict

(* An entry whose key is the key of a task of now was made from what the    *)
(* task would be made from now.                                             *)
LEMMA HitTells ==
  ASSUME NEW c \in Configs, KeysNameSources(c), Declared(c), NEW now, Shape(c, now),
         NEW s2, IsSigs(c, s2, now), NEW x2, IsSources(c, x2, now), NEW m2,
         NEW e, Explained(c, now, e),
         NEW v \in Units, NEW t2 \in Cacheable(c, v), e.key = KeyIs(c, m2, v, t2, now[v], s2)
  PROVE  e.saw = [sources |-> x2[v], image |-> m2.image, host |-> m2.host,
                  tool |-> IF Lang(c, v) = NoAdapter THEN NoPin ELSE m2.tool,
                  env  |-> IF Tasks(c, v)[t2].env THEN m2.env ELSE NoPin]
<1>a. PICK u \in Units : \E t \in Cacheable(c, u) : \E D0, D1, s, x, files, m :
        Explains(c, e, u, t, D0, D1, s, x, files, m) /\ Widens(D1, now)
  BY DEF Explained
<1>b. PICK t \in Cacheable(c, u) : \E D0, D1, s, x, files, m :
        Explains(c, e, u, t, D0, D1, s, x, files, m) /\ Widens(D1, now)
  BY <1>a
<1>1. PICK D0, D1, s, x, files, m :
        Explains(c, e, u, t, D0, D1, s, x, files, m) /\ Widens(D1, now)
  BY <1>b
<1>2. PICK k : k = e.key
  OBVIOUS
<1>3. k = KeyIs(c, m, u, t, files, s) /\ k = KeyIs(c, m2, v, t2, now[v], s2)
  BY <1>1, <1>2 DEF Explains
<1>4. /\ k.task = t /\ k.run = Tasks(c, u)[t].run /\ k.adapter = Lang(c, u)
      /\ k.deps = [d \in Needs(c, u) |-> s[d]] /\ k.files = Hash(c, u, files, TaskGlobs(c, u, t))
  BY <1>3 DEF KeyIs
<1>5. /\ k.task = t2 /\ k.run = Tasks(c, v)[t2].run /\ k.adapter = Lang(c, v)
      /\ k.deps = [d \in Needs(c, v) |-> s2[d]] /\ k.files = Hash(c, v, now[v], TaskGlobs(c, v, t2))
      /\ k.image = m2.image /\ k.host = m2.host
      /\ k.resolved = IF Lang(c, v) = NoAdapter THEN NoPin ELSE m2.tool
      /\ k.env = IF Tasks(c, v)[t2].env THEN m2.env ELSE NoPin
  BY <1>3 DEF KeyIs
<1>6. Own(c, u, D1[u]) = Own(c, v, now[v])
  <2>1. t = t2 /\ Lang(c, u) = Lang(c, v) /\ Tasks(c, u)[t].run = Tasks(c, v)[t].run
    BY <1>4, <1>5
  <2>2. Hash(c, u, files, TaskGlobs(c, u, t)) = Hash(c, v, now[v], TaskGlobs(c, v, t))
    BY <1>4, <1>5
  <2>3. UnitShape(c, u, D1[u]) /\ UnitShape(c, v, now[v]) /\ Own(c, u, files) = Own(c, u, D1[u])
    BY <1>1 DEF Shape, Explains
  <2> QED
    BY <2>1, <2>2, <2>3, TaskHashTells
<1>7. [d \in Needs(c, u) |-> x[d]] = [d \in Needs(c, v) |-> x2[d]]
  <2>1. PICK n, n2 : n = Needs(c, u) /\ n2 = Needs(c, v)
    OBVIOUS
  <2>2. PICK k0, k2 : k0 = [d \in n |-> s[d]] /\ k2 = [d \in n2 |-> s2[d]]
    OBVIOUS
  <2>3. k0 = k2
    BY <1>4, <1>5, <2>1, <2>2
  <2>4. n = n2 /\ \A d \in n : s[d] = s2[d]
    <3>1. DOMAIN k0 = n /\ DOMAIN k2 = n2 /\ \A d \in n : k0[d] = s[d]
      BY <2>2
    <3>2. \A d \in n2 : k2[d] = s2[d]
      BY <2>2
    <3> QED
      BY <2>3, <3>1, <3>2
  <2>5. \A w \in Units : s[w] = s2[w] => x[w] = x2[w]
    <3>1. Grows(c, D0, D1) /\ IsSigs(c, s, D0) /\ IsSources(c, x, D1) /\ Widens(D1, now)
      BY <1>1 DEF Explains
    <3> QED
      BY <3>1, SignatureTells
  <2>6. \A d \in n : d \in Units
    BY <2>1, ConfigsFollowOrder DEF Needs
  <2> QED
    BY <2>1, <2>4, <2>5, <2>6
<1>8. x[u] = x2[v]
  <2>1. x[u] = [own |-> Own(c, u, D1[u]), deps |-> [d \in Needs(c, u) |-> x[d]]]
    BY <1>1 DEF Explains, IsSources
  <2>2. x2[v] = [own |-> Own(c, v, now[v]), deps |-> [d \in Needs(c, v) |-> x2[d]]]
    BY DEF IsSources
  <2> QED
    BY <1>6, <1>7, <2>1, <2>2
<1>9. e.saw = [sources |-> x[u], image |-> k.image, host |-> k.host, tool |-> k.resolved, env |-> k.env]
  BY <1>1, <1>2 DEF Explains
<1> QED
  BY <1>5, <1>8, <1>9

-----------------------------------------------------------------------------
(***************************************************************************)
(* What a unit's run does to its files.                                    *)
(***************************************************************************)
PlanInv ==
  /\ config \in Configs /\ Shape(config, dir)
  /\ stage \in Seq(Units) /\ quiet \in 0..2

BuildOutputs(c, u) == UNION {Tasks(c, u)[t].outputs : t \in DOMAIN Tasks(c, u) \cap {"build"}}

(* The lockfile is there, and what the build leaves is of these sources. *)
Settled(c, u, files) ==
  /\ Locks(c, u) \subseteq DOMAIN files
  /\ \A f \in BuildOutputs(c, u) : f \in DOMAIN files /\ files[f] = <<"built", Own(c, u, files)>>

LEMMA InstalledIs ==
  ASSUME PlanInv, NEW u \in Units
  PROVE  Installed(u) = [f \in DOMAIN dir[u] \cup Locks(config, u) |-> IF f \in DOMAIN dir[u] THEN dir[u][f] ELSE NoPin]
<1>1. ResolveAdapter(u) = Lang(config, u) /\ Facts(u) = FactsOf(config, u)
  BY StateIs DEF PlanInv
<1>2. dir[u] = [f \in DOMAIN dir[u] |-> dir[u][f]]
  BY DEF PlanInv, Shape, UnitShape
<1>3. CASE ResolveAdapter(u) = NoAdapter
  <2>1. Locks(config, u) = {}
    BY <1>1, <1>3, AdaptersAre DEF Locks, FactsOf, LanguageAdapter
  <2> QED
    BY <1>2, <1>3, <2>1 DEF Installed
<1>4. CASE ResolveAdapter(u) # NoAdapter
  <2>1. AfterInstall(ResolveAdapter(u), DOMAIN dir[u]) = DOMAIN dir[u] \cup Locks(config, u)
    BY <1>1 DEF AfterInstall, Locks, FactsOf
  <2>2. Installed(u) = Over(dir[u], [f \in DOMAIN dir[u] \cup Locks(config, u) |-> NoPin])
    BY <1>4, <2>1 DEF Installed
  <2> QED
    BY <2>2 DEF Over
<1> QED
  BY <1>3, <1>4

LEMMA InstalledKeeps ==
  ASSUME PlanInv, NEW u \in Units
  PROVE  /\ UnitShape(config, u, Installed(u))
         /\ UnitGrows(config, u, dir[u], Installed(u))
         /\ Locks(config, u) \subseteq DOMAIN Installed(u)
<1>1. PICK inst : inst = Installed(u)
  OBVIOUS
<1>2. inst = [f \in DOMAIN dir[u] \cup Locks(config, u) |-> IF f \in DOMAIN dir[u] THEN dir[u][f] ELSE NoPin]
  BY <1>1, InstalledIs
<1>3. UnitShape(config, u, dir[u])
  BY DEF PlanInv, Shape
<1>4. DOMAIN inst = DOMAIN dir[u] \cup Locks(config, u) /\ \A f \in DOMAIN dir[u] : inst[f] = dir[u][f]
  BY <1>2
<1>5. inst = [f \in DOMAIN inst |-> inst[f]]
  BY <1>2
<1>6. UnitShape(config, u, inst)
  BY <1>3, <1>4, <1>5 DEF UnitShape
<1> QED
  BY <1>1, <1>4, <1>6 DEF UnitGrows

LEMMA OutputsAre ==
  ASSUME PlanInv, NEW u \in Units
  PROVE  /\ Outputs(u) = [f \in BuildOutputs(config, u) |-> <<"built", Own(config, u, Installed(u))>>]
         /\ BuildOutputs(config, u) \subseteq {"output", "vendor"}
<1>1. PICK D1 : D1 = [dir EXCEPT ![u] = Installed(u)]
  OBVIOUS
<1>2. D1[u] = Installed(u)
  BY <1>1 DEF PlanInv, Shape
<1>3. Sources(u, D1).own = Own(config, u, Installed(u))
  <2>1. PICK x : x = [v \in Units |-> Sources(v, D1)]
    OBVIOUS
  <2>2. IsSources(config, x, D1)
    BY <2>1, SourcesExist DEF PlanInv
  <2>3. x[u] = [own |-> Own(config, u, D1[u]), deps |-> [d \in Needs(config, u) |-> x[d]]]
    BY <2>2 DEF IsSources
  <2>4. x[u].own = Own(config, u, D1[u])
    BY <2>3
  <2>5. x[u] = Sources(u, D1)
    BY <2>1
  <2> QED
    BY <1>2, <2>4, <2>5
<1>4. ResolveTasks(u) = Tasks(config, u)
  BY StateIs DEF PlanInv
<1>5. Outputs(u) = [f \in BuildOutputs(config, u) |-> <<"built", Sources(u, D1).own>>]
  BY <1>1, <1>4 DEF Outputs, BuildOutputs
<1>6. \A t \in DOMAIN Tasks(config, u) : Tasks(config, u)[t].outputs \subseteq {"output", "vendor"}
  BY TasksArePlain DEF PlanInv, TaskIsPlain
<1> QED
  BY <1>3, <1>5, <1>6 DEF BuildOutputs

LEMMA BuiltIs ==
  ASSUME PlanInv, NEW u \in Units, NEW built, built = Over(Outputs(u), Installed(u))
  PROVE  /\ UnitShape(config, u, built)
         /\ UnitGrows(config, u, dir[u], built)
         /\ DOMAIN Installed(u) \subseteq DOMAIN built
         /\ Own(config, u, built) = Own(config, u, Installed(u))
         /\ Settled(config, u, built)
<1>1. PICK inst, outs, made : inst = Installed(u) /\ outs = Outputs(u) /\ made = MadeBy(config, u)
  OBVIOUS
<1>2. /\ UnitShape(config, u, inst) /\ UnitGrows(config, u, dir[u], inst)
      /\ Locks(config, u) \subseteq DOMAIN inst
  BY <1>1, InstalledKeeps
<1>3. /\ outs = [f \in BuildOutputs(config, u) |-> <<"built", Own(config, u, inst)>>]
      /\ BuildOutputs(config, u) \subseteq {"output", "vendor"} /\ {"output", "vendor"} \subseteq made
  BY <1>1, OutputsAre DEF MadeBy
<1>4. built = [f \in DOMAIN outs \cup DOMAIN inst |-> IF f \in DOMAIN outs THEN outs[f] ELSE inst[f]]
  BY <1>1 DEF Over
<1>5. DOMAIN outs = BuildOutputs(config, u) /\ \A f \in DOMAIN outs : outs[f] = <<"built", Own(config, u, inst)>>
  BY <1>3
<1>6. DOMAIN built = DOMAIN outs \cup DOMAIN inst /\ \A f \in DOMAIN built \ made : f \in DOMAIN inst /\ built[f] = inst[f]
  BY <1>3, <1>4, <1>5
<1>7. Own(config, u, built) = Own(config, u, inst)
  <2>1. DOMAIN built \ made = DOMAIN inst \ made
    BY <1>3, <1>5, <1>6
  <2> QED
    BY <1>1, <1>6, <2>1 DEF Own, Restrict
<1>8. UnitShape(config, u, built)
  <2>1. built = [f \in DOMAIN built |-> built[f]]
    BY <1>4
  <2>2. \A f \in config[u].files \ (config[u].edited \cup made) : f \in DOMAIN inst /\ inst[f] = NoPin
    BY <1>1, <1>2 DEF UnitShape
  <2>3. \A f \in config[u].files \ (config[u].edited \cup made) : built[f] = NoPin
    BY <1>6, <2>2
  <2>4. config[u].files \subseteq DOMAIN built
    BY <1>2, <1>6 DEF UnitShape
  <2>5. DOMAIN built \subseteq config[u].files \cup Locks(config, u) \cup {"output", "vendor"}
    BY <1>2, <1>3, <1>5, <1>6 DEF UnitShape
  <2> QED
    BY <1>1, <2>1, <2>3, <2>4, <2>5 DEF UnitShape
<1>9. UnitGrows(config, u, dir[u], built)
  BY <1>1, <1>2, <1>6 DEF UnitGrows
<1>10. Settled(config, u, built)
  <2>1. \A f \in BuildOutputs(config, u) : f \in DOMAIN built /\ built[f] = <<"built", Own(config, u, built)>>
    BY <1>4, <1>5, <1>6, <1>7
  <2> QED
    BY <1>2, <1>6, <2>1 DEF Settled
<1> QED
  BY <1>1, <1>6, <1>7, <1>8, <1>9, <1>10

-----------------------------------------------------------------------------
(***************************************************************************)
(* The steps.                                                              *)
(***************************************************************************)
Updated(u, files) == [dir EXCEPT ![u] = files]

FilesBuilt(u) == Over(Outputs(u), Installed(u))

(* What task t of u finds: the build, what the install left, the others    *)
(* what the build left.                                                    *)
FilesFor(u, t) == IF t = "build" THEN Installed(u) ELSE FilesBuilt(u)

EntryFor(u, t) ==
  [key |-> KeyIs(config, machine, u, t, FilesFor(u, t), sigs),
   saw |-> Seen(u, t, Updated(u, Installed(u))), calm |-> ~ disturbed]

(* RunUnit without the helpers of the module. *)
RunsUnit(u) ==
  /\ stage # <<>> /\ u = Head(stage) /\ u \in Units
  /\ dir' = Updated(u, FilesBuilt(u))
  /\ stage' = Tail(stage)
  /\ cached \subseteq cached'
  /\ \A e \in cached' : e \in cached \/ \E t \in Cacheable(config, u) : e = EntryFor(u, t)
  /\ \A t \in Cacheable(config, u) : \E e \in cached' : e.key = KeyIs(config, machine, u, t, FilesFor(u, t), sigs)
  /\ quiet' = IF Len(stage) > 1 THEN quiet ELSE IF disturbed THEN 0 ELSE IF quiet = 2 THEN 2 ELSE quiet + 1
  /\ UNCHANGED <<config, machine, sigs, disturbed>>

LEMMA RunUnitIs ==
  ASSUME PlanInv, RunUnit
  PROVE  \E u \in Units : RunsUnit(u)
<1>1. stage # <<>> /\ Head(stage) \in Units
  BY DEF RunUnit, Idle, PlanInv
<1>2. PICK u \in Units : u = Head(stage)
  BY <1>1
<1>3. ResolveTasks(u) = Tasks(config, u)
  BY StateIs DEF PlanInv
<1>4. PICK finds : finds = [t \in DOMAIN ResolveTasks(u) |-> IF t = "build" THEN Installed(u) ELSE FilesBuilt(u)]
  OBVIOUS
<1>5. PICK keys : keys = KeysOf(u, sigs, finds)
  OBVIOUS
<1>6. \A t \in Cacheable(config, u) : finds[t] = FilesFor(u, t)
  BY <1>3, <1>4 DEF FilesFor, Cacheable
<1>7. DOMAIN keys = DOMAIN Tasks(config, u)
  BY <1>5, KeysAre DEF PlanInv
<1>8. \A t \in Cacheable(config, u) : keys[t] = KeyIs(config, machine, u, t, FilesFor(u, t), sigs)
  BY <1>5, <1>6, KeysAre DEF PlanInv
<1>9. PICK ran : ran = {t \in DOMAIN keys : ~ ResolveTasks(u)[t].noCache /\ ~ Contained(keys[t])}
  OBVIOUS
<1>10. cached' = cached \cup {[key |-> keys[t], saw |-> Seen(u, t, [dir EXCEPT ![u] = Installed(u)]),
                               calm |-> ~ disturbed] : t \in ran}
  BY <1>2, <1>4, <1>5, <1>9 DEF RunUnit, FilesBuilt
<1>11. \A t \in ran : t \in Cacheable(config, u)
  BY <1>3, <1>7, <1>9 DEF Cacheable
<1>12. \A e \in cached' : e \in cached \/ \E t \in Cacheable(config, u) : e = EntryFor(u, t)
  BY <1>8, <1>10, <1>11 DEF EntryFor, Updated
<1>13. ASSUME NEW t \in Cacheable(config, u) PROVE \E e \in cached' : e.key = keys[t]
  <2>1. CASE Contained(keys[t])
    BY <1>10, <2>1 DEF Contained
  <2>2. CASE ~ Contained(keys[t])
    <3>1. t \in ran
      BY <1>3, <1>7, <1>9, <2>2 DEF Cacheable
    <3>2. PICK e : e = [key |-> keys[t], saw |-> Seen(u, t, [dir EXCEPT ![u] = Installed(u)]), calm |-> ~ disturbed]
      OBVIOUS
    <3>3. e \in cached'
      BY <1>10, <3>1, <3>2
    <3> QED
      BY <3>2, <3>3
  <2> QED
    BY <2>1, <2>2
<1>14. dir' = Updated(u, FilesBuilt(u))
  BY <1>2 DEF RunUnit, FilesBuilt, Updated
<1>15. cached \subseteq cached'
  BY <1>10
<1>16. \A t \in Cacheable(config, u) : \E e \in cached' : e.key = KeyIs(config, machine, u, t, FilesFor(u, t), sigs)
  BY <1>8, <1>13
<1>17. stage' = Tail(stage) /\ UNCHANGED <<config, machine, sigs, disturbed>>
  BY DEF RunUnit
<1>18. quiet' = IF Len(stage) > 1 THEN quiet ELSE IF disturbed THEN 0 ELSE IF quiet = 2 THEN 2 ELSE quiet + 1
  BY DEF RunUnit
<1> QED
  BY <1>1, <1>2, <1>12, <1>14, <1>15, <1>16, <1>17, <1>18 DEF RunsUnit

LEMMA GrowsOn ==
  ASSUME NEW c, NEW D0, NEW D1, NEW D2, Grows(c, D0, D1), Grows(c, D1, D2)
  PROVE  Grows(c, D0, D2)
BY DEF Grows, UnitGrows

LEMMA UpdateIs ==
  ASSUME PlanInv, NEW u \in Units, NEW files, UnitShape(config, u, files)
  PROVE  /\ Shape(config, Updated(u, files)) /\ Updated(u, files)[u] = files
         /\ \A v \in Units \ {u} : Updated(u, files)[v] = dir[v]
<1>0. PICK D : D = Updated(u, files) /\ D = [dir EXCEPT ![u] = files]
  BY DEF Updated
<1>1. DOMAIN dir = Units
  BY DEF PlanInv, Shape
<1>2. D[u] = files /\ (\A v \in Units \ {u} : D[v] = dir[v]) /\ D = [v \in Units |-> D[v]]
  BY <1>0, <1>1
<1>3. \A v \in Units : UnitShape(config, v, D[v])
  BY <1>2 DEF PlanInv, Shape
<1> QED
  BY <1>0, <1>2, <1>3 DEF Shape

LEMMA UpdateGrows ==
  ASSUME PlanInv, NEW u \in Units, NEW files, UnitShape(config, u, files), UnitGrows(config, u, dir[u], files)
  PROVE  Grows(config, dir, Updated(u, files))
<1>1. Updated(u, files)[u] = files /\ \A v \in Units \ {u} : Updated(u, files)[v] = dir[v]
  BY UpdateIs
<1> QED
  BY <1>1 DEF Grows, UnitGrows

LEMMA RunUnitGrows ==
  ASSUME PlanInv, NEW u, RunsUnit(u)
  PROVE  /\ Shape(config, dir') /\ Grows(config, dir, dir') /\ Widens(dir, dir')
         /\ dir'[u] = FilesBuilt(u) /\ \A v \in Units \ {u} : dir'[v] = dir[v]
<1>1. u \in Units /\ dir' = Updated(u, FilesBuilt(u))
  BY DEF RunsUnit
<1>2. UnitShape(config, u, FilesBuilt(u)) /\ UnitGrows(config, u, dir[u], FilesBuilt(u))
  BY <1>1, BuiltIs DEF FilesBuilt
<1>3. Grows(config, dir, dir')
  BY <1>1, <1>2, UpdateGrows
<1>4. Widens(dir, dir')
  BY <1>3 DEF Grows, UnitGrows, Widens
<1> QED
  BY <1>1, <1>2, <1>3, <1>4, UpdateIs

LEMMA EditIs ==
  ASSUME PlanInv, NEW u \in Units, EditFile(u)
  PROVE  /\ Shape(config, dir') /\ Widens(dir, dir') /\ disturbed' = ~ Idle /\ quiet' = 0
         /\ UNCHANGED <<config, machine, cached, sigs, stage>>
<1>1. PICK f \in config[u].edited, v \in Contents : f \in DOMAIN dir[u] /\ dir' = [dir EXCEPT ![u][f] = v]
  BY DEF EditFile
<1>2. PICK files : files = [dir[u] EXCEPT ![f] = v]
  OBVIOUS
<1>3. dir' = Updated(u, files)
  BY <1>1, <1>2 DEF Updated
<1>4. DOMAIN files = DOMAIN dir[u] /\ \A g \in DOMAIN files \ {f} : files[g] = dir[u][g]
  BY <1>2
<1>5. files = [g \in DOMAIN files |-> files[g]]
  BY <1>2
<1>6. UnitShape(config, u, dir[u])
  BY DEF PlanInv, Shape
<1>7. UnitShape(config, u, files)
  BY <1>4, <1>5, <1>6 DEF UnitShape
<1>8. Shape(config, dir') /\ dir'[u] = files /\ \A w \in Units \ {u} : dir'[w] = dir[w]
  BY <1>3, <1>7, UpdateIs
<1>9. Widens(dir, dir')
  BY <1>4, <1>8 DEF Widens
<1> QED
  BY <1>8, <1>9 DEF EditFile, Disturb

(***************************************************************************)
(* What holds of the state all along.                                      *)
(***************************************************************************)
LEMMA PlanInvInit ==
  ASSUME PlannerInit
  PROVE  PlanInv
<1>1. config \in Configs /\ dir = [u \in Units |-> [f \in config[u].files |-> NoPin]]
  BY DEF PlannerInit
<1>2. ASSUME NEW u \in Units PROVE UnitShape(config, u, dir[u])
  <2>1. dir[u] = [f \in config[u].files |-> NoPin]
    BY <1>1
  <2>2. DOMAIN dir[u] = config[u].files /\ dir[u] = [f \in DOMAIN dir[u] |-> dir[u][f]]
    BY <2>1
  <2> QED
    BY <2>1, <2>2 DEF UnitShape
<1>3. dir = [u \in Units |-> dir[u]]
  BY <1>1
<1>4. stage \in Seq(Units)
  BY DEF PlannerInit
<1> QED
  BY <1>1, <1>2, <1>3, <1>4 DEF PlanInv, Shape, PlannerInit

LEMMA PlanInvStep ==
  ASSUME PlanInv, [PlannerNext]_plannerVars
  PROVE  PlanInv'
<1>1. CASE BeginCi
  <2>1. stage' \in Seq(Units)
    BY <1>1, PlannerAssumption DEF BeginCi
  <2> QED
    BY <1>1, <2>1 DEF BeginCi, PlanInv
<1>2. CASE RunUnit
  <2>1. PICK u \in Units : RunsUnit(u)
    BY <1>2, RunUnitIs
  <2>2. Shape(config, dir')
    BY <2>1, RunUnitGrows
  <2>3. stage' \in Seq(Units) /\ config' = config
    BY <2>1 DEF RunsUnit, PlanInv
  <2>4. quiet' \in 0..2
    BY <2>1 DEF RunsUnit, PlanInv
  <2> QED
    BY <2>2, <2>3, <2>4 DEF PlanInv
<1>3. CASE UnitErrors
  <2>1. stage' \in Seq(Units)
    BY <1>3 DEF UnitErrors
  <2> QED
    BY <1>3, <2>1 DEF UnitErrors, PlanInv
<1>4. CASE ChangeMachine
  BY <1>4 DEF ChangeMachine, Disturb, PlanInv
<1>5. ASSUME NEW u \in Units, EditFile(u) PROVE PlanInv'
  BY <1>5, EditIs DEF PlanInv
<1>6. CASE UNCHANGED plannerVars
  BY <1>6 DEF plannerVars, PlanInv
<1> QED
  BY <1>1, <1>2, <1>3, <1>4, <1>5, <1>6 DEF PlannerNext

(* The configuration is one of Configs, and the files of each unit are     *)
(* those it began with, its lockfile and what builds leave: no install, no *)
(* build and no edit changes which adapter a unit has.                     *)
THEOREM PlanIsShaped == PlannerSpec => []PlanInv
<1>1. PlannerInit => PlanInv
  BY PlanInvInit
<1>2. PlanInv /\ [PlannerNext]_plannerVars => PlanInv'
  BY PlanInvStep
<1> QED
  BY <1>1, <1>2, PTL DEF PlannerSpec

(***************************************************************************)
(* A hit is fresh.  The signatures that a run has computed are of files    *)
(* that have only been added to since; every entry is explained.           *)
(***************************************************************************)
RunFrom(c, D0, D, s) == Grows(c, D0, D) /\ IsSigs(c, s, D0)

RunInv == stage # <<>> /\ ~ disturbed => \E D0 : RunFrom(config, D0, dir, sigs)

PinInv == "pin" \in DOMAIN machine /\ machine.pin = NoPin

CacheInv == \A e \in cached : e.calm => Explained(config, dir, e)

FreshInv == PlanInv /\ RunInv /\ PinInv /\ CacheInv

LEMMA SeenIs ==
  ASSUME PlanInv, PinInv, NEW u \in Units, NEW t, NEW D
  PROVE  Seen(u, t, D) = [sources |-> Sources(u, D), image |-> machine.image, host |-> machine.host,
                          tool |-> IF Lang(config, u) = NoAdapter THEN NoPin ELSE machine.tool,
                          env |-> IF Tasks(config, u)[t].env THEN machine.env ELSE NoPin]
<1>1. ResolveAdapter(u) = Lang(config, u) /\ ResolveTasks(u) = Tasks(config, u)
  BY StateIs DEF PlanInv
<1>2. ToolThatRuns(u) = IF Lang(config, u) = NoAdapter THEN NoPin ELSE machine.tool
  BY <1>1 DEF PinInv, ToolThatRuns, ResolvedFingerprint
<1> QED
  BY <1>1, <1>2 DEF Seen

LEMMA StaysExplained ==
  ASSUME NEW c, NEW D1, NEW D2, Widens(D1, D2), NEW e, Explained(c, D1, e)
  PROVE  Explained(c, D2, e)
<1>1. \A D : Widens(D, D1) => Widens(D, D2)
  BY DEF Widens
<1> QED
  BY <1>1 DEF Explained

LEMMA NewEntryIsExplained ==
  ASSUME PlanInv, PinInv, NEW u \in Units, RunsUnit(u), NEW D0, RunFrom(config, D0, dir, sigs),
         NEW t \in Cacheable(config, u)
  PROVE  Explained(config, dir', EntryFor(u, t))
<1>1. PICK D1 : D1 = Updated(u, Installed(u))
  OBVIOUS
<1>2. UnitShape(config, u, Installed(u)) /\ UnitGrows(config, u, dir[u], Installed(u))
  BY InstalledKeeps
<1>3. Shape(config, D1) /\ D1[u] = Installed(u) /\ \A v \in Units \ {u} : D1[v] = dir[v]
  BY <1>1, <1>2, UpdateIs
<1>4. Grows(config, D0, D1)
  <2>1. Grows(config, dir, D1)
    BY <1>1, <1>2, UpdateGrows
  <2> QED
    BY <2>1, GrowsOn DEF RunFrom
<1>5. PICK x : x = [v \in Units |-> Sources(v, D1)]
  OBVIOUS
<1>6. IsSources(config, x, D1) /\ x[u] = Sources(u, D1)
  BY <1>5, SourcesExist DEF PlanInv
<1>7. PICK built : built = FilesBuilt(u) /\ built = Over(Outputs(u), Installed(u))
  BY DEF FilesBuilt
<1>8. Own(config, u, built) = Own(config, u, Installed(u)) /\ DOMAIN Installed(u) \subseteq DOMAIN built
  BY <1>7, BuiltIs
<1>9. PICK files : files = FilesFor(u, t)
  OBVIOUS
<1>10. Own(config, u, files) = Own(config, u, D1[u])
  BY <1>3, <1>7, <1>8, <1>9 DEF FilesFor
<1>11. Widens(D1, dir')
  <2>1. dir'[u] = FilesBuilt(u) /\ \A v \in Units \ {u} : dir'[v] = dir[v]
    BY RunUnitGrows
  <2> QED
    BY <1>3, <1>7, <1>8, <2>1 DEF Widens
<1>12. PICK e : e = EntryFor(u, t)
  OBVIOUS
<1>13. e.key = KeyIs(config, machine, u, t, files, sigs) /\ e.saw = Seen(u, t, D1)
  BY <1>1, <1>9, <1>12 DEF EntryFor
<1>14. PICK k : k = e.key
  OBVIOUS
<1>15. /\ k.image = machine.image /\ k.host = machine.host
       /\ k.resolved = IF Lang(config, u) = NoAdapter THEN NoPin ELSE machine.tool
       /\ k.env = IF Tasks(config, u)[t].env THEN machine.env ELSE NoPin
  BY <1>13, <1>14 DEF KeyIs
<1>16. e.saw = [sources |-> x[u], image |-> e.key.image, host |-> e.key.host,
                tool |-> e.key.resolved, env |-> e.key.env]
  BY <1>6, <1>13, <1>14, <1>15, SeenIs
<1>17. Explains(config, e, u, t, D0, D1, sigs, x, files, machine)
  BY <1>3, <1>4, <1>6, <1>10, <1>13, <1>16 DEF Explains, RunFrom
<1> QED
  BY <1>11, <1>12, <1>17 DEF Explained

LEMMA FreshInvInit ==
  ASSUME PlannerInit
  PROVE  FreshInv
<1>1. PinInv
  BY DEF PlannerInit, PinInv
<1> QED
  BY <1>1, PlanInvInit DEF FreshInv, RunInv, CacheInv, PlannerInit

LEMMA GrowsFromItself ==
  ASSUME NEW c, NEW D
  PROVE  Grows(c, D, D)
BY DEF Grows, UnitGrows

LEMMA FreshInvStep ==
  ASSUME "pin" \notin MachineFields, FreshInv, [PlannerNext]_plannerVars
  PROVE  FreshInv'
<1>1. PlanInv /\ RunInv /\ PinInv /\ CacheInv /\ PlanInv'
  BY PlanInvStep DEF FreshInv
<1>2. CASE BeginCi
  <2>1. UNCHANGED <<config, dir, machine, cached>> /\ sigs' = Signatures(dir)
    BY <1>2 DEF BeginCi
  <2>2. RunFrom(config, dir, dir, Signatures(dir))
    BY <1>1, SigsAre, GrowsFromItself DEF RunFrom, PlanInv
  <2>3. RunInv'
    BY <2>1, <2>2 DEF RunInv
  <2> QED
    BY <1>1, <2>1, <2>3 DEF FreshInv, PinInv, CacheInv
<1>3. CASE RunUnit
  <2>1. PICK u \in Units : RunsUnit(u)
    BY <1>1, <1>3, RunUnitIs
  <2>2. stage # <<>> /\ UNCHANGED <<config, machine, sigs, disturbed>>
    BY <2>1 DEF RunsUnit
  <2>3. Grows(config, dir, dir') /\ Widens(dir, dir')
    BY <1>1, <2>1, RunUnitGrows
  <2>4. CacheInv'
    <3> SUFFICES ASSUME NEW e \in cached', e.calm PROVE Explained(config, dir', e)
      BY <2>2 DEF CacheInv
    <3>1. CASE e \in cached
      BY <1>1, <2>3, <3>1, StaysExplained DEF CacheInv
    <3>2. CASE e \notin cached
      <4>1. PICK t \in Cacheable(config, u) : e = EntryFor(u, t)
        BY <2>1, <3>2 DEF RunsUnit
      <4>2. ~ disturbed
        BY <4>1 DEF EntryFor
      <4>3. PICK D0 : RunFrom(config, D0, dir, sigs)
        BY <1>1, <2>2, <4>2 DEF RunInv
      <4> QED
        BY <1>1, <2>1, <4>1, <4>3, NewEntryIsExplained
    <3> QED
      BY <3>1, <3>2
  <2>5. RunInv'
    <3> SUFFICES ASSUME ~ disturbed PROVE \E D0 : RunFrom(config, D0, dir', sigs)
      BY <2>2 DEF RunInv
    <3>1. PICK D0 : RunFrom(config, D0, dir, sigs)
      BY <1>1, <2>2 DEF RunInv
    <3>2. RunFrom(config, D0, dir', sigs)
      BY <2>3, <3>1, GrowsOn DEF RunFrom
    <3> QED
      BY <3>2
  <2> QED
    BY <1>1, <2>2, <2>4, <2>5 DEF FreshInv, PinInv
<1>4. CASE UnitErrors
  <2>1. UNCHANGED <<config, dir, machine, cached, sigs>> /\ stage' = <<>>
    BY <1>4 DEF UnitErrors
  <2> QED
    BY <1>1, <2>1 DEF FreshInv, RunInv, PinInv, CacheInv
<1>5. CASE ChangeMachine
  <2>1. UNCHANGED <<config, dir, cached, sigs, stage>> /\ disturbed' = (stage # <<>>)
    BY <1>5 DEF ChangeMachine, Disturb, Idle
  <2>2. PICK field \in MachineFields, v \in Contents : machine' = [machine EXCEPT ![field] = v]
    BY <1>5 DEF ChangeMachine
  <2>3. PinInv'
    BY <1>1, <2>2 DEF PinInv
  <2> QED
    BY <1>1, <2>1, <2>3 DEF FreshInv, RunInv, CacheInv
<1>6. ASSUME NEW u \in Units, EditFile(u) PROVE FreshInv'
  <2>1. Widens(dir, dir') /\ disturbed' = (stage # <<>>) /\ UNCHANGED <<config, machine, cached, sigs, stage>>
    BY <1>1, <1>6, EditIs DEF Idle
  <2>2. CacheInv'
    BY <1>1, <2>1, StaysExplained DEF CacheInv
  <2> QED
    BY <1>1, <2>1, <2>2 DEF FreshInv, RunInv, PinInv
<1>7. CASE UNCHANGED plannerVars
  BY <1>1, <1>7 DEF plannerVars, FreshInv, RunInv, PinInv, CacheInv
<1> QED
  BY <1>2, <1>3, <1>4, <1>5, <1>6, <1>7 DEF PlannerNext

(* A row of the plan, with all units and without --no-cache. *)
LEMMA PlanRowIs ==
  ASSUME PlanInv, NEW row \in Plan({}, FALSE), row.row # "no_adapter"
  PROVE  \E u \in Units : \E t \in DOMAIN Tasks(config, u) :
           /\ row.unit = u /\ row.task = t
           /\ t \notin Cacheable(config, u) => row.row = "uncacheable"
           /\ t \in Cacheable(config, u) =>
                /\ row.key = KeyIs(config, machine, u, t, dir[u], Signatures(dir))
                /\ row.row = IF Contained(row.key) THEN "hit" ELSE "never_cached"
<1>1. PICK u \in Units : row \in PlanUnit(u, {}, FALSE)
  BY DEF Plan
<1>2. ResolveTasks(u) = Tasks(config, u)
  BY StateIs DEF PlanInv
<1>3. PICK keys, tasks : keys = PlanKeys(u) /\ tasks = ResolveTasks(u)
  OBVIOUS
<1>4. PICK t \in DOMAIN tasks :
        row = [unit |-> u, task |-> t, row |-> PlanRow(u, tasks[t], keys[t], {}, FALSE), key |-> keys[t]]
  <2>1. CASE DOMAIN tasks = {} /\ ResolveAdapter(u) = NoAdapter
    BY <1>1, <1>3, <2>1 DEF PlanUnit
  <2>2. CASE ~ (DOMAIN tasks = {} /\ ResolveAdapter(u) = NoAdapter)
    BY <1>1, <1>3, <2>2 DEF PlanUnit
  <2> QED
    BY <2>1, <2>2
<1>5. row.unit = u /\ row.task = t /\ row.key = keys[t] /\ row.row = PlanRow(u, tasks[t], keys[t], {}, FALSE)
  BY <1>4
<1>6. t \in DOMAIN Tasks(config, u) /\ (t \in Cacheable(config, u) <=> ~ tasks[t].noCache)
  BY <1>2, <1>3 DEF Cacheable
<1>7. ASSUME t \in Cacheable(config, u)
      PROVE  row.key = KeyIs(config, machine, u, t, dir[u], Signatures(dir))
  <2>1. PICK finds : finds = [x \in DOMAIN ResolveTasks(u) |-> dir[u]]
    OBVIOUS
  <2>2. keys = KeysOf(u, Signatures(dir), finds) /\ finds[t] = dir[u]
    BY <1>3, <2>1 DEF PlanKeys
  <2> QED
    BY <1>5, <1>7, <2>2, KeysAre DEF PlanInv
<1>8. row.row = IF tasks[t].noCache THEN "uncacheable" ELSE IF Contained(row.key) THEN "hit" ELSE "never_cached"
  BY <1>5 DEF PlanRow
<1>9. t \notin Cacheable(config, u) => row.row = "uncacheable"
  BY <1>6, <1>8
<1>10. t \in Cacheable(config, u) => row.row = IF Contained(row.key) THEN "hit" ELSE "never_cached"
  BY <1>6, <1>8
<1> QED
  BY <1>5, <1>6, <1>7, <1>9, <1>10

LEMMA FreshInvSuffices ==
  ASSUME \A c \in Configs : KeysNameSources(c), FreshInv
  PROVE  HitIsFresh
<1>1. PlanInv /\ PinInv /\ CacheInv /\ config \in Configs /\ Shape(config, dir)
  BY DEF FreshInv, PlanInv
<1> SUFFICES ASSUME \A v \in Units : Declares(v), NEW e \in cached, e.calm,
                    NEW row \in Plan({}, FALSE), row.row = "hit", row.key = e.key
             PROVE  e.saw = Seen(row.unit, row.task, dir)
  BY DEF HitIsFresh
<1>2. Declared(config)
  BY <1>1, StateIs DEF Declares, Declared, UnitGlobs
<1>3. PICK u \in Units : \E t \in DOMAIN Tasks(config, u) :
        /\ row.unit = u /\ row.task = t
        /\ t \notin Cacheable(config, u) => row.row = "uncacheable"
        /\ t \in Cacheable(config, u) => row.key = KeyIs(config, machine, u, t, dir[u], Signatures(dir))
  BY <1>1, PlanRowIs
<1>4. PICK t \in Cacheable(config, u) :
        /\ row.unit = u /\ row.task = t
        /\ e.key = KeyIs(config, machine, u, t, dir[u], Signatures(dir))
  BY <1>3
<1>5. PICK x : x = [v \in Units |-> Sources(v, dir)]
  OBVIOUS
<1>6. IsSources(config, x, dir) /\ x[u] = Sources(u, dir)
  BY <1>1, <1>5, SourcesExist
<1>7. IsSigs(config, Signatures(dir), dir) /\ Explained(config, dir, e) /\ KeysNameSources(config)
  BY <1>1, SigsAre DEF CacheInv
<1>8. e.saw = [sources |-> x[u], image |-> machine.image, host |-> machine.host,
               tool |-> IF Lang(config, u) = NoAdapter THEN NoPin ELSE machine.tool,
               env  |-> IF Tasks(config, u)[t].env THEN machine.env ELSE NoPin]
  BY <1>1, <1>2, <1>4, <1>6, <1>7, HitTells
<1> QED
  BY <1>1, <1>4, <1>6, <1>8, SeenIs

(* HitIsFresh, for any units, configurations, edits and runs: a hit of     *)
(* monad plan was made from the sources of now, whatever was edited and    *)
(* run before, if no pin changes and the keys name the sources.            *)
THEOREM HitsAreFresh ==
  ASSUME "pin" \notin MachineFields, \A c \in Configs : KeysNameSources(c)
  PROVE  PlannerSpec => []HitIsFresh
<1>1. PlannerInit => FreshInv
  BY FreshInvInit
<1>2. FreshInv /\ [PlannerNext]_plannerVars => FreshInv'
  BY FreshInvStep
<1>3. FreshInv => HitIsFresh
  BY FreshInvSuffices
<1> QED
  BY <1>1, <1>2, <1>3, PTL DEF PlannerSpec

-----------------------------------------------------------------------------
(***************************************************************************)
(* monad ci settles.  After a run that nobody disturbed every unit has its *)
(* lockfile and what its build leaves; the next run changes no file, so    *)
(* its signatures are those of the end, and all that it stores is found.   *)
(***************************************************************************)
Stored(c, m, D, entries, u) ==
  \A t \in Cacheable(c, u) : \E s : IsSigs(c, s, D) /\ \E e \in entries : e.key = KeyIs(c, m, u, t, D[u], s)

Left == Units \ ToSet(stage)

SettleInv ==
  /\ PlanInv
  /\ quiet >= 1 => ~ disturbed /\ \A u \in Units : Settled(config, u, dir[u])
  /\ stage # <<>> /\ ~ disturbed => \A u \in Left : Settled(config, u, dir[u])
  /\ stage # <<>> /\ quiet >= 1 =>
       IsSigs(config, sigs, dir) /\ \A u \in Left : Stored(config, machine, dir, cached, u)
  /\ quiet = 2 => \A u \in Units : Stored(config, machine, dir, cached, u)

LEMMA KeysAgree ==
  ASSUME NEW c \in Configs, NEW m, NEW D, NEW s1, NEW s2, IsSigs(c, s1, D), IsSigs(c, s2, D),
         NEW u \in Units, NEW t, NEW files
  PROVE  KeyIs(c, m, u, t, files, s1) = KeyIs(c, m, u, t, files, s2)
<1>1. \A v \in Units : s1[v] = s2[v]
  BY SigsAgree
<1>2. \A d \in Needs(c, u) : d \in Units
  BY ConfigsFollowOrder DEF Needs
<1>3. [d \in Needs(c, u) |-> s1[d]] = [d \in Needs(c, u) |-> s2[d]]
  BY <1>1, <1>2
<1> QED
  BY <1>3 DEF KeyIs

(* Where everything is there already, a run of the unit changes nothing. *)
LEMMA SettledStays ==
  ASSUME PlanInv, NEW u \in Units, Settled(config, u, dir[u])
  PROVE  Installed(u) = dir[u] /\ FilesBuilt(u) = dir[u] /\ Updated(u, FilesBuilt(u)) = dir
<1>1. PICK files : files = dir[u]
  OBVIOUS
<1>2. files = [f \in DOMAIN files |-> files[f]]
  BY <1>1 DEF PlanInv, Shape, UnitShape
<1>3. Installed(u) = files
  <2>1. DOMAIN files \cup Locks(config, u) = DOMAIN files
    BY <1>1 DEF Settled
  <2>2. Installed(u) = [f \in DOMAIN files |-> IF f \in DOMAIN files THEN files[f] ELSE NoPin]
    BY <1>1, <2>1, InstalledIs
  <2> QED
    BY <1>2, <2>2
<1>4. FilesBuilt(u) = files
  <2>1. PICK outs : outs = Outputs(u)
    OBVIOUS
  <2>2. outs = [f \in BuildOutputs(config, u) |-> <<"built", Own(config, u, files)>>]
    BY <1>3, <2>1, OutputsAre
  <2>3. DOMAIN outs \subseteq DOMAIN files /\ \A f \in DOMAIN outs : outs[f] = files[f]
    BY <1>1, <2>2 DEF Settled
  <2>4. FilesBuilt(u) = [f \in DOMAIN outs \cup DOMAIN files |-> IF f \in DOMAIN outs THEN outs[f] ELSE files[f]]
    BY <1>3, <2>1 DEF FilesBuilt, Over
  <2>5. DOMAIN outs \cup DOMAIN files = DOMAIN files
    BY <2>3
  <2>6. FilesBuilt(u) = [f \in DOMAIN files |-> files[f]]
    BY <2>3, <2>4, <2>5
  <2> QED
    BY <1>2, <2>6
<1>5. dir = [v \in Units |-> dir[v]]
  BY DEF PlanInv, Shape
<1>6. [dir EXCEPT ![u] = files] = dir
  BY <1>1, <1>5
<1> QED
  BY <1>1, <1>3, <1>4, <1>6 DEF Updated

LEMMA TailLeaves ==
  ASSUME PlanInv, stage # <<>>
  PROVE  /\ Len(stage) \in Nat \ {0} /\ Head(stage) \in Units
         /\ ToSet(stage) \subseteq {Head(stage)} \cup ToSet(Tail(stage))
         /\ Tail(stage) # <<>> <=> Len(stage) > 1
<1>1. stage \in Seq(Units)
  BY DEF PlanInv
<1>2. PICK n \in Nat : n = Len(stage) /\ n # 0 /\ DOMAIN stage = 1..n
  BY <1>1
<1>3. Head(stage) = stage[1] /\ Head(stage) \in Units
  BY <1>1
<1>4. Tail(stage) \in Seq(Units) /\ Len(Tail(stage)) = n - 1
  BY <1>1, <1>2
<1>5. \A i \in 1..n-1 : Tail(stage)[i] = stage[i + 1]
  BY <1>1, <1>2
<1>6. ASSUME NEW i \in 2..n PROVE stage[i] \in ToSet(Tail(stage))
  <2>1. PICK j \in 1..n-1 : i = j + 1
    BY <1>2
  <2>2. j \in DOMAIN Tail(stage)
    BY <1>2, <1>4
  <2> QED
    BY <1>5, <2>1, <2>2 DEF ToSet
<1>7. ToSet(stage) \subseteq {Head(stage)} \cup ToSet(Tail(stage))
  <2>1. \A i \in 1..n : i = 1 \/ i \in 2..n
    OBVIOUS
  <2> QED
    BY <1>2, <1>3, <1>6, <2>1 DEF ToSet
<1> QED
  BY <1>2, <1>3, <1>4, <1>7

LEMMA SettleInvInit ==
  ASSUME PlannerInit
  PROVE  SettleInv
<1>1. PlanInv
  BY PlanInvInit
<1>2. stage = <<>> /\ quiet = 0
  BY DEF PlannerInit
<1> QED
  BY <1>1, <1>2 DEF SettleInv

LEMMA StoredGrows ==
  ASSUME NEW c, NEW m, NEW D, NEW entries, NEW more, entries \subseteq more, NEW u, Stored(c, m, D, entries, u)
  PROVE  Stored(c, m, D, more, u)
BY DEF Stored

LEMMA SettleRun ==
  ASSUME SettleInv, PlanInv', NEW u \in Units, RunsUnit(u)
  PROVE  SettleInv'
<1>1. PlanInv /\ stage # <<>> /\ u = Head(stage) /\ stage' = Tail(stage) /\ quiet \in 0..2
  BY DEF SettleInv, RunsUnit, PlanInv
<1>2. UNCHANGED <<config, machine, sigs, disturbed>> /\ cached \subseteq cached'
  BY DEF RunsUnit
<1>3. dir' = Updated(u, FilesBuilt(u)) /\ dir'[u] = FilesBuilt(u) /\ \A v \in Units \ {u} : dir'[v] = dir[v]
  <2>1. dir' = Updated(u, FilesBuilt(u))
    BY DEF RunsUnit
  <2> QED
    BY <1>1, <2>1, RunUnitGrows
<1>4. Settled(config, u, dir'[u])
  BY <1>1, <1>3, BuiltIs DEF FilesBuilt
<1>5. \A v \in Left' : v \in Units /\ (v = u \/ v \in Left)
  BY <1>1, TailLeaves DEF Left
<1>6. ~ disturbed => \A v \in Left' : Settled(config, v, dir'[v])
  BY <1>1, <1>3, <1>4, <1>5 DEF SettleInv
<1>7. ASSUME quiet >= 1
      PROVE  /\ dir' = dir /\ ~ disturbed /\ IsSigs(config, sigs, dir)
             /\ \A v \in Left' : Stored(config, machine, dir, cached', v)
  <2>1. /\ ~ disturbed /\ (\A v \in Units : Settled(config, v, dir[v]))
        /\ IsSigs(config, sigs, dir) /\ \A v \in Left : Stored(config, machine, dir, cached, v)
    BY <1>1, <1>7 DEF SettleInv
  <2>2. Installed(u) = dir[u] /\ FilesBuilt(u) = dir[u] /\ dir' = dir
    BY <1>1, <1>3, <2>1, SettledStays
  <2>3. Stored(config, machine, dir, cached', u)
    <3>1. \A t : FilesFor(u, t) = dir[u]
      BY <2>2 DEF FilesFor
    <3>2. \A t \in Cacheable(config, u) : \E e \in cached' : e.key = KeyIs(config, machine, u, t, dir[u], sigs)
      BY <3>1 DEF RunsUnit
    <3> QED
      BY <2>1, <3>2 DEF Stored
  <2>4. \A v \in Left : Stored(config, machine, dir, cached', v)
    BY <1>2, <2>1, StoredGrows
  <2> QED
    BY <1>5, <2>1, <2>2, <2>3, <2>4
<1>8. quiet = 2 => \A v \in Units : Stored(config, machine, dir, cached', v)
  BY <1>2, StoredGrows DEF SettleInv
<1>9. quiet >= 1 => \A v \in Units : Settled(config, v, dir[v])
  BY DEF SettleInv
<1>10. CASE Len(stage) > 1
  <2>1. quiet' = quiet
    BY <1>10 DEF RunsUnit
  <2>2. quiet = 2 => quiet >= 1
    OBVIOUS
  <2>3. quiet' >= 1 => ~ disturbed' /\ \A v \in Units : Settled(config', v, dir'[v])
    BY <1>2, <1>7, <1>9, <2>1
  <2>4. stage' # <<>> /\ ~ disturbed' => \A v \in Left' : Settled(config', v, dir'[v])
    BY <1>2, <1>6
  <2>5. quiet' >= 1 => IsSigs(config', sigs', dir') /\ \A v \in Left' : Stored(config', machine', dir', cached', v)
    BY <1>2, <1>7, <2>1
  <2>6. quiet' = 2 => \A v \in Units : Stored(config', machine', dir', cached', v)
    BY <1>2, <1>7, <1>8, <2>1, <2>2
  <2> QED
    BY <2>3, <2>4, <2>5, <2>6 DEF SettleInv
<1>11. CASE ~ (Len(stage) > 1)
  <2>1. stage' = <<>> /\ Left' = Units
    <3>1. stage' = <<>>
      BY <1>1, <1>11, TailLeaves
    <3> QED
      BY <3>1 DEF Left, ToSet
  <2>2. quiet' = IF disturbed THEN 0 ELSE IF quiet = 2 THEN 2 ELSE quiet + 1
    BY <1>11 DEF RunsUnit
  <2>3. (quiet' >= 1 => ~ disturbed) /\ (quiet' = 2 => quiet >= 1)
    BY <1>1, <2>2
  <2>4. quiet' >= 1 => ~ disturbed' /\ \A v \in Units : Settled(config', v, dir'[v])
    BY <1>2, <1>6, <2>1, <2>3
  <2>5. quiet' = 2 => \A v \in Units : Stored(config', machine', dir', cached', v)
    BY <1>2, <1>7, <2>1, <2>3
  <2> QED
    BY <2>1, <2>4, <2>5 DEF SettleInv
<1> QED
  BY <1>10, <1>11

LEMMA SettleInvStep ==
  ASSUME SettleInv, [PlannerNext]_plannerVars
  PROVE  SettleInv'
<1>1. PlanInv /\ PlanInv' /\ quiet \in 0..2
  BY PlanInvStep DEF SettleInv, PlanInv
<1>2. CASE BeginCi
  <2>1. UNCHANGED <<config, dir, machine, cached, quiet>> /\ disturbed' = FALSE
    BY <1>2 DEF BeginCi
  <2>2. stage' = Order /\ Left' = {}
    BY <1>2, PlannerAssumption DEF BeginCi, Left
  <2>3. IsSigs(config', sigs', dir')
    BY <1>1, <1>2, SigsAre DEF BeginCi, PlanInv
  <2> QED
    BY <1>1, <2>1, <2>2, <2>3 DEF SettleInv
<1>3. CASE RunUnit
  <2>1. PICK u \in Units : RunsUnit(u)
    BY <1>1, <1>3, RunUnitIs
  <2> QED
    BY <1>1, <2>1, SettleRun
<1>4. CASE UnitErrors
  <2>1. stage' = <<>> /\ quiet' = 0
    BY <1>4 DEF UnitErrors
  <2> QED
    BY <1>1, <2>1 DEF SettleInv
<1>5. CASE ChangeMachine
  <2>1. quiet' = 0 /\ stage' = stage /\ disturbed' = (stage # <<>>)
    BY <1>5 DEF ChangeMachine, Disturb, Idle
  <2>2. stage' # <<>> => disturbed'
    BY <2>1
  <2>3. ~ (quiet' >= 1) /\ quiet' # 2
    BY <2>1
  <2> QED
    BY <1>1, <2>2, <2>3 DEF SettleInv
<1>6. ASSUME NEW u \in Units, EditFile(u) PROVE SettleInv'
  <2>1. quiet' = 0 /\ stage' = stage /\ disturbed' = (stage # <<>>)
    BY <1>1, <1>6, EditIs DEF Idle
  <2>2. stage' # <<>> => disturbed'
    BY <2>1
  <2>3. ~ (quiet' >= 1) /\ quiet' # 2
    BY <2>1
  <2> QED
    BY <1>1, <2>2, <2>3 DEF SettleInv
<1>7. CASE UNCHANGED plannerVars
  BY <1>1, <1>7 DEF plannerVars, SettleInv, Left
<1> QED
  BY <1>2, <1>3, <1>4, <1>5, <1>6, <1>7 DEF PlannerNext

LEMMA SettleInvSuffices ==
  ASSUME SettleInv
  PROVE  CiSettles
<1>1. PlanInv /\ config \in Configs /\ Shape(config, dir)
  BY DEF SettleInv, PlanInv
<1> SUFFICES ASSUME quiet = 2, NEW row \in Plan({}, FALSE)
             PROVE  row.row \in {"hit", "uncacheable", "no_adapter"}
  BY DEF CiSettles
<1> SUFFICES ASSUME row.row # "no_adapter" PROVE row.row \in {"hit", "uncacheable"}
  OBVIOUS
<1>2. PICK u \in Units : \E t \in DOMAIN Tasks(config, u) :
        /\ t \notin Cacheable(config, u) => row.row = "uncacheable"
        /\ t \in Cacheable(config, u) =>
             /\ row.key = KeyIs(config, machine, u, t, dir[u], Signatures(dir))
             /\ row.row = IF Contained(row.key) THEN "hit" ELSE "never_cached"
  BY <1>1, PlanRowIs
<1>3. PICK t :
        /\ t \notin Cacheable(config, u) => row.row = "uncacheable"
        /\ t \in Cacheable(config, u) =>
             /\ row.key = KeyIs(config, machine, u, t, dir[u], Signatures(dir))
             /\ row.row = IF Contained(row.key) THEN "hit" ELSE "never_cached"
  BY <1>2
<1>4. ASSUME t \in Cacheable(config, u) PROVE Contained(row.key)
  <2>1. Stored(config, machine, dir, cached, u)
    BY DEF SettleInv
  <2>2. PICK s : IsSigs(config, s, dir) /\ \E e \in cached : e.key = KeyIs(config, machine, u, t, dir[u], s)
    BY <1>4, <2>1 DEF Stored
  <2>3. IsSigs(config, Signatures(dir), dir)
    BY <1>1, SigsAre
  <2>4. KeyIs(config, machine, u, t, dir[u], s) = KeyIs(config, machine, u, t, dir[u], Signatures(dir))
    BY <1>1, <2>2, <2>3, KeysAgree
  <2> QED
    BY <1>3, <1>4, <2>2, <2>4 DEF Contained
<1> QED
  BY <1>3, <1>4

(* CiSettles, for any units, configurations and edits: when nothing is     *)
(* edited, two runs of monad ci build all there is to build.               *)
THEOREM CiDoesSettle == PlannerSpec => []CiSettles
<1>1. PlannerInit => SettleInv
  BY SettleInvInit
<1>2. SettleInv /\ [PlannerNext]_plannerVars => SettleInv'
  BY SettleInvStep
<1>3. SettleInv => CiSettles
  BY SettleInvSuffices
<1> QED
  BY <1>1, <1>2, <1>3, PTL DEF PlannerSpec

(* Both hold of the composition too, which plans once the graph is built. *)
THEOREM CompositionPlans == Spec => PlannerSpec
<1>1. Init => PlannerInit
  BY DEF Init
<1>2. [Next]_<<gvars, plannerVars>> => [PlannerNext]_plannerVars
  BY DEF Next
<1> QED
  BY <1>1, <1>2, PTL DEF Spec, PlannerSpec
=============================================================================
