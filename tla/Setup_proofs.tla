----------------------------- MODULE Setup_proofs -----------------------------
(* Proofs about the commands that write the configuration of a workspace:  *)
(* for any directories, profiles, layouts of a repository and              *)
(* configurations of the tools it may leave, and any number of commands.   *)
EXTENDS Setup, FiniteSetTheorems, SequenceTheorems, TLAPS

(***************************************************************************)
(* Induction on the natural numbers, with a set in the place of the        *)
(* predicate: a set closed under successor that misses n maps its members  *)
(* below n into themselves, injectively and without 0.                     *)
(***************************************************************************)
LEMMA SetInduction ==
  ASSUME NEW T \in SUBSET Nat, 0 \in T, \A n \in T : n + 1 \in T
  PROVE  \A n \in Nat : n \in T
<1> SUFFICES ASSUME NEW n \in Nat, n \notin T PROVE FALSE
  OBVIOUS
<1> DEFINE S == T \cap 0..n
           f == [x \in S |-> x + 1]
<1>1. IsFiniteSet(S)
  <2>1. IsFiniteSet(0..n)
    BY FS_Interval
  <2>2. S \in SUBSET (0..n)
    OBVIOUS
  <2> QED
    BY <2>1, <2>2, FS_Subset
<1>2. IsFiniteSet(S \ {0}) /\ Cardinality(S \ {0}) = Cardinality(S) - 1
  <2>1. 0 \in S
    OBVIOUS
  <2> QED
    BY <1>1, <2>1, FS_RemoveElement
<1>3. f \in [S -> S \ {0}]
  OBVIOUS
<1>4. Cardinality(S) \in Nat
  BY <1>1, FS_CardinalityType
<1>5. PICK x, y \in S : x # y /\ f[x] = f[y]
  <2> HIDE DEF S, f
  <2>1. Cardinality(S \ {0}) < Cardinality(S)
    BY <1>2, <1>4
  <2> QED
    BY <1>1, <1>2, <1>3, <2>1, FS_PigeonHole
<1> QED
  BY <1>5

LEMMA LeastNumber ==
  ASSUME NEW S \in SUBSET Nat, S # {}
  PROVE  Min(S) \in S /\ \A n \in S : Min(S) <= n
<1> DEFINE T == {n \in Nat : \A m \in 0..n : m \notin S}
<1>1. \E n \in S : \A m \in S : n <= m
  <2> SUFFICES ASSUME \A n \in S : \E m \in S : m < n PROVE FALSE
    OBVIOUS
  <2>1. 0 \in T
    OBVIOUS
  <2>2. \A n \in T : n + 1 \in T
    OBVIOUS
  <2>3. \A n \in Nat : n \in T
    <3> HIDE DEF T
    <3> QED
      BY <2>1, <2>2, SetInduction DEF T
  <2>4. PICK n \in S : n \in Nat
    OBVIOUS
  <2>5. n \in T /\ n \in 0..n
    BY <2>3, <2>4
  <2> QED
    BY <2>4, <2>5
<1> QED
  BY <1>1 DEF Min

(* SetToSeq lists a finite set. *)
LEMMA ListOfSet ==
  ASSUME NEW S, IsFiniteSet(S)
  PROVE  SetToSeq(S) \in Seq(S) /\ ToSet(SetToSeq(S)) = S
<1> DEFINE c == Cardinality(S)
<1>1. c \in Nat /\ ExistsBijection(1..c, S)
  BY FS_CardinalityType
<1>2. \E f \in [1..c -> S] : IsInjective(f)
  BY <1>1 DEF ExistsBijection, Bijection, Injection
<1>3. SetToSeq(S) \in [1..c -> S] /\ IsInjective(SetToSeq(S))
  BY <1>2 DEF SetToSeq
<1>4. SetToSeq(S) \in Injection(1..c, S)
  BY <1>3 DEF Injection
<1>5. Cardinality(1..c) = c /\ IsFiniteSet(1..c)
  BY <1>1, FS_Interval
<1>6. SetToSeq(S) \in Surjection(1..c, S)
  BY <1>4, <1>5, FS_Injection
<1>7. SetToSeq(S) \in Seq(S)
  BY <1>1, <1>3
<1> QED
  BY <1>3, <1>6, <1>7 DEF Surjection, ToSet

(* The first place of a mark, and 0 where there is none. *)
IsFirst(b, lines, mark) ==
  \/ b = 0 /\ \A n \in 1..Len(lines) : lines[n] # mark
  \/ b \in 1..Len(lines) /\ lines[b] = mark /\ \A n \in 1..b-1 : lines[n] # mark

LEMMA FirstPlace ==
  ASSUME NEW S, NEW lines \in Seq(S), NEW mark
  PROVE  IsFirst(FirstOf(lines, mark), lines, mark)
<1> DEFINE b == FirstOf(lines, mark)
<1>1. PICK len \in Nat : len = Len(lines)
  OBVIOUS
<1> DEFINE I == {i \in 1..len : lines[i] = mark}
<1>2. b = IF I # {} THEN Min(I) ELSE 0
  BY <1>1 DEF FirstOf
<1>3. CASE I = {}
  BY <1>1, <1>2, <1>3 DEF IsFirst
<1>4. CASE I # {}
  <2>1. b \in I /\ \A n \in I : b <= n
    <3>1. I \in SUBSET Nat
      OBVIOUS
    <3> HIDE DEF I
    <3> QED
      BY <1>2, <1>4, <3>1, LeastNumber
  <2>2. b \in 1..len /\ lines[b] = mark
    BY <2>1
  <2>3. \A n \in 1..b-1 : n \in 1..len /\ ~ b <= n
    BY <2>2
  <2>4. \A n \in 1..b-1 : lines[n] # mark
    BY <2>1, <2>3
  <2> QED
    BY <1>1, <2>2, <2>4 DEF IsFirst
<1> QED
  BY <1>3, <1>4 DEF IsFirst

(* A function defined by recursion on its argument exists. *)
Recursive(f, V, first, len, step) ==
  f \in [0..len -> V] /\ f[0] = first /\ \A n \in 1..len : f[n] = step[<<n, f[n - 1]>>]

LEMMA Recursion ==
  ASSUME NEW V, NEW first \in V, NEW len \in Nat, NEW step \in [(1..len) \X V -> V]
  PROVE  \E f : Recursive(f, V, first, len, step)
<1> DEFINE Upto(f, m) == f[0] = first /\ \A n \in 1..m : f[n] = step[<<n, f[n - 1]>>]
           T == {m \in Nat : m <= len => \E f \in [0..m -> V] : Upto(f, m)}
<1>1. 0 \in T
  <2>1. Upto([n \in 0..0 |-> first], 0) /\ [n \in 0..0 |-> first] \in [0..0 -> V]
    OBVIOUS
  <2> QED
    BY <2>1
<1>2. ASSUME NEW m \in T PROVE m + 1 \in T
  <2> SUFFICES ASSUME m + 1 <= len PROVE \E f \in [0..m + 1 -> V] : Upto(f, m + 1)
    OBVIOUS
  <2>1. PICK f \in [0..m -> V] : Upto(f, m)
    OBVIOUS
  <2> DEFINE g == [n \in 0..m + 1 |-> IF n = m + 1 THEN step[<<m + 1, f[m]>>] ELSE f[n]]
  <2>2. g \in [0..m + 1 -> V]
    <3>1. <<m + 1, f[m]>> \in (1..len) \X V
      OBVIOUS
    <3>2. step[<<m + 1, f[m]>>] \in V
      BY <3>1
    <3>3. \A n \in 0..m + 1 : n # m + 1 => n \in 0..m
      OBVIOUS
    <3> QED
      BY <3>2, <3>3
  <2>3. g[0] = first /\ \A n \in 1..m : g[n] = step[<<n, g[n - 1]>>]
    BY <2>1
  <2>4. m + 1 \in 1..m + 1 /\ g[m + 1] = step[<<m + 1, g[(m + 1) - 1]>>]
    <3>1. m + 1 \in 1..m + 1 /\ (m + 1) - 1 = m /\ m \in 0..m + 1 /\ m # m + 1
      OBVIOUS
    <3>2. g[m] = f[m] /\ g[m + 1] = step[<<m + 1, f[m]>>]
      BY <3>1
    <3> QED
      BY <3>1, <3>2
  <2>5. \A n \in 1..m + 1 : n \in 1..m \/ n = m + 1
    OBVIOUS
  <2> HIDE DEF g
  <2>6. Upto(g, m + 1)
    BY <2>3, <2>4, <2>5
  <2> QED
    BY <2>2, <2>6
<1>3. len \in T
  <2> HIDE DEF T
  <2> QED
    BY <1>1, <1>2, SetInduction DEF T
<1> QED
  BY <1>3 DEF Recursive

-----------------------------------------------------------------------------
(***************************************************************************)
(* The user's lines of a text.                                             *)
(***************************************************************************)
UsersStep(lines, V) ==
  [p \in (1..Len(lines)) \X V |-> IF lines[p[1]] \in Marks THEN p[2] ELSE Append(p[2], lines[p[1]])]

Collects(f, lines) ==
  /\ f[0] = <<>>
  /\ \A n \in 1..Len(lines) : f[n] = IF lines[n] \in Marks THEN f[n - 1] ELSE Append(f[n - 1], lines[n])

LEMMA UsersStepIs ==
  ASSUME NEW S, NEW lines \in Seq(S)
  PROVE  /\ UsersStep(lines, Seq(S)) \in [(1..Len(lines)) \X Seq(S) -> Seq(S)]
         /\ \A n \in 1..Len(lines), v \in Seq(S) :
              UsersStep(lines, Seq(S))[<<n, v>>] = IF lines[n] \in Marks THEN v ELSE Append(v, lines[n])
<1>1. ASSUME NEW p \in (1..Len(lines)) \X Seq(S)
      PROVE  (IF lines[p[1]] \in Marks THEN p[2] ELSE Append(p[2], lines[p[1]])) \in Seq(S)
  <2>1. lines[p[1]] \in S /\ p[2] \in Seq(S)
    OBVIOUS
  <2> QED
    BY <2>1
<1> QED
  BY <1>1 DEF UsersStep

LEMMA CollectedOnce ==
  ASSUME NEW S, NEW lines \in Seq(S), NEW f, NEW g, Collects(f, lines), Collects(g, lines),
         f \in [0..Len(lines) -> Seq(S)]
  PROVE  \A n \in 0..Len(lines) : g[n] = f[n]
<1> DEFINE T == {n \in Nat : n <= Len(lines) => g[n] = f[n]}
<1>1. 0 \in T
  BY DEF Collects
<1>2. ASSUME NEW n \in T PROVE n + 1 \in T
  <2>1. CASE n + 1 <= Len(lines)
    <3>1. PICK m : m = n + 1
      OBVIOUS
    <3>2. m \in 1..Len(lines) /\ m - 1 = n /\ f[n] = g[n]
      BY <2>1, <3>1
    <3>3. f[m] = IF lines[m] \in Marks THEN f[m - 1] ELSE Append(f[m - 1], lines[m])
      BY <3>2 DEF Collects
    <3>4. g[m] = IF lines[m] \in Marks THEN g[m - 1] ELSE Append(g[m - 1], lines[m])
      BY <3>2 DEF Collects
    <3>5. g[m] = f[m]
      BY <3>2, <3>3, <3>4
    <3> QED
      BY <3>1, <3>5
  <2> QED
    BY <2>1
<1>3. \A n \in Nat : n \in T
  <2> HIDE DEF T
  <2> QED
    BY <1>1, <1>2, SetInduction DEF T
<1> QED
  BY <1>3

LEMMA UsersLinesCollects ==
  ASSUME NEW S, NEW lines \in Seq(S)
  PROVE  \E f \in [0..Len(lines) -> Seq(S)] : Collects(f, lines) /\ UsersLines(lines) = f[Len(lines)]
<1> DEFINE Is(f) == f = [n \in 0..Len(lines) |->
                           IF n = 0 THEN <<>> ELSE IF lines[n] \in Marks THEN f[n - 1] ELSE Append(f[n - 1], lines[n])]
           kept == CHOOSE f : Is(f)
<1>1. <<>> \in Seq(S) /\ Len(lines) \in Nat
  OBVIOUS
<1>2. PICK f \in [0..Len(lines) -> Seq(S)] :
        f[0] = <<>> /\ \A n \in 1..Len(lines) : f[n] = UsersStep(lines, Seq(S))[<<n, f[n - 1]>>]
  <2>1. PICK V : V = Seq(S)
    OBVIOUS
  <2>2. PICK step : step = UsersStep(lines, V)
    OBVIOUS
  <2>3. PICK len \in Nat : len = Len(lines)
    BY <1>1
  <2>4. step \in [(1..len) \X V -> V] /\ <<>> \in V
    BY <1>1, <2>1, <2>2, <2>3, UsersStepIs
  <2>5. \E f \in [0..len -> V] : f[0] = <<>> /\ \A n \in 1..len : f[n] = step[<<n, f[n - 1]>>]
    <3>1. \E f : Recursive(f, V, <<>>, len, step)
      BY <2>4, Recursion
    <3> QED
      BY <3>1 DEF Recursive
  <2> QED
    BY <2>1, <2>2, <2>3, <2>5
<1>3. Collects(f, lines)
  <2>0. \A m \in 1..Len(lines), v \in Seq(S) :
          UsersStep(lines, Seq(S))[<<m, v>>] = IF lines[m] \in Marks THEN v ELSE Append(v, lines[m])
    BY UsersStepIs
  <2>1. ASSUME NEW n \in 1..Len(lines)
        PROVE  f[n] = IF lines[n] \in Marks THEN f[n - 1] ELSE Append(f[n - 1], lines[n])
    <3>1. n - 1 \in 0..Len(lines)
      BY <1>1
    <3>2. f[n - 1] \in Seq(S)
      <4>1. PICK k \in 0..Len(lines) : k = n - 1
        BY <3>1
      <4>2. f[k] \in Seq(S)
        BY <1>2
      <4> QED
        BY <4>1, <4>2
    <3>3. f[n] = UsersStep(lines, Seq(S))[<<n, f[n - 1]>>]
      BY <1>2
    <3>4. PICK v \in Seq(S) : v = f[n - 1]
      BY <3>2
    <3>5. UsersStep(lines, Seq(S))[<<n, v>>] = IF lines[n] \in Marks THEN v ELSE Append(v, lines[n])
      BY <2>0
    <3> QED
      BY <3>3, <3>4, <3>5
  <2> QED
    BY <1>2, <2>1 DEF Collects
<1>4. Is(f)
  <2>1. \A n \in 0..Len(lines) : n = 0 \/ n \in 1..Len(lines)
    BY <1>1
  <2>2. f = [n \in 0..Len(lines) |-> f[n]]
    OBVIOUS
  <2> QED
    BY <1>3, <2>1, <2>2 DEF Collects
<1>5. Is(kept)
  BY <1>4
<1>6. Collects(kept, lines)
  <2>1. \A n \in 1..Len(lines) : n \in 0..Len(lines) /\ n # 0
    BY <1>1
  <2>2. 0 \in 0..Len(lines)
    BY <1>1
  <2> HIDE DEF kept
  <2> QED
    BY <1>5, <2>1, <2>2 DEF Collects
<1>7. kept[Len(lines)] = f[Len(lines)]
  <2> HIDE DEF kept
  <2> QED
    BY <1>1, <1>3, <1>6, CollectedOnce
<1>8. UsersLines(lines) = kept[Len(lines)]
  BY DEF UsersLines
<1> QED
  BY <1>3, <1>7, <1>8

LEMMA UsersLinesBy ==
  ASSUME NEW S, NEW lines \in Seq(S), NEW f, Collects(f, lines)
  PROVE  UsersLines(lines) = f[Len(lines)]
<1>1. PICK g \in [0..Len(lines) -> Seq(S)] : Collects(g, lines) /\ UsersLines(lines) = g[Len(lines)]
  BY UsersLinesCollects
<1>2. Len(lines) \in 0..Len(lines)
  OBVIOUS
<1> QED
  BY <1>1, <1>2, CollectedOnce

(* A text of marks has no line of the user's; of two texts one after the   *)
(* other they are the user's lines of the one, then those of the other.    *)
LEMMA MarksOnly ==
  ASSUME NEW S, NEW lines \in Seq(S), \A n \in 1..Len(lines) : lines[n] \in Marks
  PROVE  UsersLines(lines) = <<>>
<1> DEFINE f == [n \in 0..Len(lines) |-> <<>>]
<1>1. \A n \in 1..Len(lines) : n \in 0..Len(lines) /\ n - 1 \in 0..Len(lines)
  OBVIOUS
<1>2. 0 \in 0..Len(lines) /\ Len(lines) \in 0..Len(lines)
  OBVIOUS
<1>3. Collects(f, lines)
  BY <1>1, <1>2 DEF Collects
<1> HIDE DEF f
<1>4. UsersLines(lines) = f[Len(lines)]
  BY <1>3, UsersLinesBy
<1> QED
  BY <1>2, <1>4 DEF f

LEMMA ConcatAppend ==
  ASSUME NEW S, NEW s \in Seq(S), NEW t \in Seq(S), NEW x \in S
  PROVE  s \o Append(t, x) = Append(s \o t, x)
  OBVIOUS

LEMMA UsersLinesConcat ==
  ASSUME NEW S, NEW s \in Seq(S), NEW t \in Seq(S)
  PROVE  UsersLines(s \o t) = UsersLines(s) \o UsersLines(t)
<1>1. PICK f \in [0..Len(s) -> Seq(S)] : Collects(f, s) /\ UsersLines(s) = f[Len(s)]
  BY UsersLinesCollects
<1>2. PICK g \in [0..Len(t) -> Seq(S)] : Collects(g, t) /\ UsersLines(t) = g[Len(t)]
  BY UsersLinesCollects
<1>3. PICK m \in Nat : m = Len(s)
  OBVIOUS
<1>4. PICK k \in Nat : k = Len(t)
  OBVIOUS
<1>5. s \o t \in Seq(S) /\ Len(s \o t) = m + k
  BY <1>3, <1>4
<1>6. PICK h : h = [n \in 0..m + k |-> IF n <= m THEN f[n] ELSE f[m] \o g[n - m]]
  OBVIOUS
<1>7. \A n \in 0..m : h[n] = f[n]
  BY <1>6
<1>8. \A n \in 1..k : h[m + n] = f[m] \o g[n]
  <2>1. ASSUME NEW n \in 1..k PROVE h[m + n] = f[m] \o g[n]
    <3>1. m + n \in 0..m + k /\ ~ m + n <= m /\ (m + n) - m = n
      OBVIOUS
    <3> QED
      BY <1>6, <3>1
  <2> QED
    BY <2>1
<1>9. f[m] \in Seq(S) /\ f[m] = UsersLines(s) /\ g[k] = UsersLines(t) /\ g[0] = <<>>
  <2>1. m \in 0..Len(s)
    BY <1>3
  <2> QED
    BY <1>1, <1>2, <1>3, <1>4, <2>1 DEF Collects
<1>10. \A n \in 0..k : h[m + n] = f[m] \o g[n] /\ g[n] \in Seq(S)
  <2>1. f[m] \o g[0] = f[m] /\ m + 0 = m
    BY <1>9
  <2>2. \A n \in 0..k : n = 0 \/ n \in 1..k
    OBVIOUS
  <2>3. \A n \in 0..k : g[n] \in Seq(S)
    BY <1>2, <1>4
  <2>4. m \in 0..m
    OBVIOUS
  <2> QED
    BY <1>7, <1>8, <2>1, <2>2, <2>3, <2>4
<1>11. ASSUME NEW n \in 1..m + k
       PROVE  h[n] = IF (s \o t)[n] \in Marks THEN h[n - 1] ELSE Append(h[n - 1], (s \o t)[n])
  <2>1. CASE n <= m
    <3>1. n \in 1..m /\ n \in 0..m /\ n - 1 \in 0..m
      BY <2>1
    <3>2. (s \o t)[n] = s[n]
      BY <1>3, <3>1
    <3>3. f[n] = IF s[n] \in Marks THEN f[n - 1] ELSE Append(f[n - 1], s[n])
      BY <1>1, <1>3, <3>1 DEF Collects
    <3> QED
      BY <1>7, <3>1, <3>2, <3>3
  <2>2. CASE n > m
    <3>1. PICK i \in 1..k : n = m + i
      <4>1. n - m \in 1..k /\ n = m + (n - m)
        BY <2>2
      <4> QED
        BY <4>1
    <3>2. i \in 0..k /\ i - 1 \in 0..k /\ n - 1 = m + (i - 1)
      BY <3>1
    <3>3. (s \o t)[n] = t[i]
      BY <1>3, <1>4, <3>1
    <3>4. h[n] = f[m] \o g[i] /\ h[n - 1] = f[m] \o g[i - 1] /\ g[i - 1] \in Seq(S)
      BY <1>10, <3>1, <3>2
    <3>5. g[i] = IF t[i] \in Marks THEN g[i - 1] ELSE Append(g[i - 1], t[i])
      BY <1>2, <1>4, <3>1 DEF Collects
    <3>6. t[i] \in S
      BY <1>4, <3>1
    <3>7. f[m] \o Append(g[i - 1], t[i]) = Append(f[m] \o g[i - 1], t[i])
      <4>1. PICK a \in Seq(S), b \in Seq(S), x \in S : a = f[m] /\ b = g[i - 1] /\ x = t[i]
        BY <1>9, <3>4, <3>6
      <4>2. a \o Append(b, x) = Append(a \o b, x)
        BY ConcatAppend
      <4> QED
        BY <4>1, <4>2
    <3> QED
      BY <3>3, <3>4, <3>5, <3>7
  <2>3. n <= m \/ n > m
    OBVIOUS
  <2> QED
    BY <2>1, <2>2, <2>3
<1>12. h[0] = <<>>
  BY <1>1, <1>7 DEF Collects
<1>13. Collects(h, s \o t)
  BY <1>5, <1>11, <1>12 DEF Collects
<1>14. UsersLines(s \o t) = h[m + k]
  BY <1>5, <1>13, UsersLinesBy
<1>15. h[m + k] = f[m] \o g[k]
  BY <1>10
<1> QED
  BY <1>9, <1>14, <1>15

LEMMA UsersLinesType ==
  ASSUME NEW S, NEW lines \in Seq(S)
  PROVE  UsersLines(lines) \in Seq(S)
<1>1. PICK f \in [0..Len(lines) -> Seq(S)] : UsersLines(lines) = f[Len(lines)]
  BY UsersLinesCollects
<1>2. Len(lines) \in 0..Len(lines)
  OBVIOUS
<1> QED
  BY <1>1, <1>2

LEMMA BlockIsMarks ==
  ASSUME NEW S, Marks \subseteq S
  PROVE  Block \in Seq(S) /\ UsersLines(Block) = <<>>
<1>1. Block \in Seq(S) /\ Len(Block) = 3 /\ \A n \in 1..3 : Block[n] \in Marks
  BY DEF Block, Marks
<1> QED
  BY <1>1, MarksOnly

(* The places of a block of monad's: the first begin and the first end     *)
(* after it.                                                               *)
Puts(S, lines, b, rest, e) ==
  /\ b \in 0..Len(lines) /\ rest \in Seq(S) /\ Len(rest) = Len(lines) - b
  /\ \A n \in 1..Len(lines) - b : rest[n] = lines[b + n]
  /\ e \in 0..Len(rest)
  /\ b # 0 => lines[b] = "begin"
  /\ e # 0 => rest[e] = "end" /\ \A n \in 1..e - 1 : rest[n] # "end"

LEMMA BlockPlaces ==
  ASSUME NEW S, NEW lines \in Seq(S), NEW b, b = FirstOf(lines, "begin"),
         NEW rest, rest = SubSeq(lines, b + 1, Len(lines)), NEW e, e = FirstOf(rest, "end")
  PROVE  Puts(S, lines, b, rest, e)
<1>1. PICK len \in Nat : len = Len(lines)
  OBVIOUS
<1>2. \/ b = 0 /\ \A n \in 1..len : lines[n] # "begin"
      \/ b \in 1..len /\ lines[b] = "begin"
  <2>1. IsFirst(b, lines, "begin")
    BY FirstPlace
  <2> QED
    BY <1>1, <2>1 DEF IsFirst
<1>3. b \in 0..len /\ b \in Nat /\ b <= len
  BY <1>2
<1>4. rest \in Seq(S) /\ Len(rest) = len - b /\ \A n \in 1..len - b : rest[n] = lines[b + n]
  <2>1. \A n \in b + 1..len : lines[n] \in S
    BY <1>1, <1>3
  <2>2. /\ rest \in Seq(S)
        /\ Len(rest) = IF b + 1 <= len THEN len - (b + 1) + 1 ELSE 0
        /\ \A n \in 1..len - (b + 1) + 1 : rest[n] = lines[(b + 1) + n - 1]
    <3>0. PICK m : m = b + 1
      OBVIOUS
    <3>1. m \in Int /\ m = b + 1 /\ rest = SubSeq(lines, m, len)
      BY <1>1, <1>3, <3>0
    <3>2. len \in Int /\ \A n \in m..len : lines[n] \in S
      BY <2>1, <3>1
    <3>3. /\ rest \in Seq(S)
          /\ Len(rest) = IF m <= len THEN len - m + 1 ELSE 0
          /\ \A n \in 1..len - m + 1 : rest[n] = lines[m + n - 1]
      BY <3>1, <3>2, SubSeqProperties
    <3> QED
      BY <3>1, <3>3
  <2>3. Len(rest) = len - b
    <3>1. len - b = IF b + 1 <= len THEN len - (b + 1) + 1 ELSE 0
      BY <1>3
    <3> QED
      BY <2>2, <3>1
  <2>4. ASSUME NEW n \in 1..len - b PROVE rest[n] = lines[b + n]
    <3>0. b \in Nat /\ n \in Nat /\ len - (b + 1) + 1 = len - b
      BY <1>3
    <3>1. n \in 1..len - (b + 1) + 1 /\ (b + 1) + n - 1 = b + n
      BY <3>0
    <3> QED
      BY <2>2, <3>1
  <2> QED
    BY <2>2, <2>3, <2>4
<1>5. \/ e = 0 /\ \A n \in 1..Len(rest) : rest[n] # "end"
      \/ e \in 1..Len(rest) /\ rest[e] = "end" /\ \A n \in 1..e-1 : rest[n] # "end"
  <2>1. rest \in Seq(S)
    BY <1>4
  <2>2. IsFirst(e, rest, "end")
    BY <2>1, FirstPlace
  <2> QED
    BY <2>2 DEF IsFirst
<1>6. e \in 0..Len(rest)
  BY <1>3, <1>4, <1>5
<1> QED
  BY <1>1, <1>2, <1>3, <1>4, <1>5, <1>6 DEF Puts
LEMMA SubSeqIs ==
  ASSUME NEW S, NEW s \in Seq(S), NEW a \in Nat, a >= 1, NEW c \in Nat, c <= Len(s), a <= c + 1
  PROVE  /\ SubSeq(s, a, c) \in Seq(S) /\ Len(SubSeq(s, a, c)) = (c + 1) - a
         /\ \A n \in 1..(c + 1) - a : SubSeq(s, a, c)[n] = s[(a + n) - 1]
<1>1. PICK len \in Nat : len = Len(s)
  OBVIOUS
<1>2. \A n \in a..c : s[n] \in S
  BY <1>1
<1>3. /\ SubSeq(s, a, c) \in Seq(S)
      /\ Len(SubSeq(s, a, c)) = IF a <= c THEN c - a + 1 ELSE 0
      /\ \A n \in 1..c - a + 1 : SubSeq(s, a, c)[n] = s[a + n - 1]
  BY <1>2, SubSeqProperties
<1>4. (c + 1) - a = IF a <= c THEN c - a + 1 ELSE 0
  OBVIOUS
<1>5. (c + 1) - a = c - a + 1 /\ \A n \in 1..(c + 1) - a : (a + n) - 1 = a + n - 1
  OBVIOUS
<1> QED
  BY <1>3, <1>4, <1>5

(* The block of monad's is replaced; the user's lines are as they were.    *)
LEMMA MergeKeepsLines ==
  ASSUME NEW S, Marks \subseteq S, NEW lines \in Seq(S)
  PROVE  /\ MergeAgentText(lines) \in Seq(S)
         /\ WellMarked(lines) => UsersLines(MergeAgentText(lines)) = UsersLines(lines)
<1>1. PICK len \in Nat : len = Len(lines)
  OBVIOUS
<1>2. PICK b : b = FirstOf(lines, "begin")
  OBVIOUS
<1>3. PICK rest : rest = SubSeq(lines, b + 1, Len(lines))
  OBVIOUS
<1>4. PICK e : e = FirstOf(rest, "end")
  OBVIOUS
<1>5. /\ b \in 0..len /\ rest \in Seq(S) /\ Len(rest) = len - b
      /\ \A n \in 1..len - b : rest[n] = lines[b + n]
      /\ e \in 0..Len(rest)
      /\ b # 0 => lines[b] = "begin"
      /\ e # 0 => rest[e] = "end" /\ \A n \in 1..e - 1 : rest[n] # "end"
  <2>1. Puts(S, lines, b, rest, e)
    BY <1>2, <1>3, <1>4, BlockPlaces
  <2> QED
    BY <1>1, <2>1 DEF Puts
<1>6. Block \in Seq(S) /\ UsersLines(Block) = <<>>
  BY BlockIsMarks
<1>7. CASE ~ (b # 0 /\ e # 0)
  <2>1. MergeAgentText(lines) = lines \o Block
    BY <1>2, <1>3, <1>4, <1>7 DEF MergeAgentText
  <2>2. UsersLines(lines \o Block) = UsersLines(lines) \o <<>>
    BY <1>6, UsersLinesConcat
  <2>3. UsersLines(lines) \in Seq(S)
    BY UsersLinesType
  <2>4. UsersLines(lines) \o <<>> = UsersLines(lines)
    BY <2>3
  <2> QED
    BY <1>6, <2>1, <2>2, <2>4
<1>8. CASE b # 0 /\ e # 0
  <2>1. PICK p : p = SubSeq(lines, 1, b - 1)
    OBVIOUS
  <2>2. PICK q : q = SubSeq(rest, e + 1, Len(rest))
    OBVIOUS
  <2>3. MergeAgentText(lines) = p \o Block \o q
    BY <1>2, <1>3, <1>4, <1>8, <2>1, <2>2 DEF MergeAgentText
  <2>4. PICK c \in Nat : c = b + e
    BY <1>5
  <2>5. b \in 1..len /\ e \in 1..len - b /\ c \in b + 1..len
    BY <1>5, <1>8, <2>4
  <2>6. p \in Seq(S) /\ Len(p) = b - 1
    <3>1. b - 1 \in Nat /\ 1 \in Nat /\ b - 1 <= len /\ 1 <= (b - 1) + 1 /\ ((b - 1) + 1) - 1 = b - 1
      BY <2>5
    <3> QED
      BY <1>1, <2>1, <3>1, SubSeqIs
  <2>7. PICK m : m = SubSeq(lines, b, c)
    OBVIOUS
  <2>8. m \in Seq(S) /\ Len(m) = (c + 1) - b
    <3>1. b \in Nat /\ b >= 1 /\ c <= len /\ b <= c + 1
      BY <2>5
    <3> QED
      BY <1>1, <2>7, <3>1, SubSeqIs
  <2>9. PICK z : z = SubSeq(lines, c + 1, len)
    OBVIOUS
  <2>10. z \in Seq(S) /\ Len(z) = len - c /\ \A n \in 1..len - c : z[n] = lines[c + n]
    <3>1. /\ c + 1 \in Nat /\ c + 1 >= 1 /\ len <= len /\ c + 1 <= len + 1 /\ (len + 1) - (c + 1) = len - c
          /\ \A n \in 1..len - c : ((c + 1) + n) - 1 = c + n
      BY <2>5
    <3> QED
      BY <1>1, <2>9, <3>1, SubSeqIs
  <2>11. q = z
    <3>1. PICK r \in Nat : r = Len(rest)
      BY <1>5
    <3>2. r = len - b /\ e + 1 \in Nat /\ e + 1 >= 1 /\ e + 1 <= r + 1 /\ (r + 1) - (e + 1) = len - c
      BY <1>5, <2>4, <2>5, <3>1
    <3>3. q \in Seq(S) /\ Len(q) = len - c /\ \A n \in 1..len - c : q[n] = rest[((e + 1) + n) - 1]
      <4>1. PICK a \in Nat : a = e + 1 /\ a >= 1 /\ r <= Len(rest) /\ a <= r + 1 /\ (r + 1) - a = len - c
        BY <3>1, <3>2
      <4>2. rest \in Seq(S) /\ q = SubSeq(rest, a, r)
        BY <1>5, <2>2, <3>1, <4>1
      <4>3. /\ SubSeq(rest, a, r) \in Seq(S) /\ Len(SubSeq(rest, a, r)) = (r + 1) - a
            /\ \A n \in 1..(r + 1) - a : SubSeq(rest, a, r)[n] = rest[(a + n) - 1]
        BY <4>1, <4>2, SubSeqIs
      <4> QED
        BY <4>1, <4>2, <4>3
    <3>4. ASSUME NEW n \in 1..len - c PROVE q[n] = z[n]
      <4>1. ((e + 1) + n) - 1 = e + n /\ e + n \in 1..len - b /\ b + (e + n) = c + n
        BY <2>4, <2>5
      <4>2. q[n] = rest[e + n] /\ rest[e + n] = lines[b + (e + n)]
        BY <1>5, <3>3, <4>1
      <4> QED
        BY <2>10, <4>1, <4>2
    <3> QED
      BY <2>10, <3>3, <3>4, SeqEqual
  <2>12. MergeAgentText(lines) \in Seq(S)
    BY <1>6, <2>3, <2>6, <2>10, <2>11
  <2>13. ASSUME WellMarked(lines) PROVE UsersLines(m) = <<>>
    <3>1. b \in DOMAIN lines /\ lines[b] = "begin"
      BY <1>1, <1>5, <2>5
    <3>2. PICK f \in DOMAIN lines : f > b /\ lines[f] = "end" /\ UsersLines(SubSeq(lines, b, f)) = <<>>
      BY <2>13, <3>1 DEF WellMarked
    <3>3. f \in 1..len /\ f - b \in 1..len - b /\ b + (f - b) = f
      BY <1>1, <2>5, <3>2
    <3>4. rest[f - b] = "end"
      BY <1>5, <3>2, <3>3
    <3>5. ~ (f - b \in 1..e - 1)
      BY <1>5, <1>8, <3>4
    <3>6. f >= c
      BY <2>4, <2>5, <3>3, <3>5
    <3>7. PICK n : n = SubSeq(lines, c + 1, f)
      OBVIOUS
    <3>8. n \in Seq(S)
      <4>1. c + 1 \in Nat /\ c + 1 >= 1 /\ f \in Nat /\ f <= len /\ c + 1 <= f + 1
        BY <3>3, <3>6
      <4> QED
        BY <1>1, <3>7, <4>1, SubSeqIs
    <3>9. SubSeq(lines, b, f) = m \o n
      <4>1. b \in 1..len + 1 /\ c \in b - 1..len /\ f \in c..len
        BY <2>5, <3>3, <3>6
      <4>2. SubSeq(lines, b, c) \o SubSeq(lines, c + 1, f) = SubSeq(lines, b, f)
        BY <1>1, <4>1, ConcatAdjacentSubSeq
      <4> QED
        BY <2>7, <3>7, <4>2
    <3>10. UsersLines(m) \o UsersLines(n) = <<>>
      BY <2>8, <3>2, <3>8, <3>9, UsersLinesConcat
    <3>11. UsersLines(m) \in Seq(S) /\ UsersLines(n) \in Seq(S)
      BY <2>8, <3>8, UsersLinesType
    <3> QED
      BY <3>10, <3>11, ConcatEmptySeq
  <2>14. lines = p \o (m \o z)
    <3>1. 1 \in 1..len + 1 /\ b - 1 \in 1 - 1..len /\ len \in b - 1..len /\ b \in 1..len + 1 /\ c \in b - 1..len /\ len \in c..len
      BY <2>5
    <3>2. SubSeq(lines, b, c) \o SubSeq(lines, c + 1, len) = SubSeq(lines, b, len)
      BY <1>1, <3>1, ConcatAdjacentSubSeq
    <3>3. (b - 1) + 1 = b
      BY <2>5
    <3>4. SubSeq(lines, 1, b - 1) \o SubSeq(lines, (b - 1) + 1, len) = SubSeq(lines, 1, len)
      BY <1>1, <3>1, ConcatAdjacentSubSeq
    <3>5. SubSeq(lines, 1, len) = lines
      BY <1>1, SubSeqFull
    <3> QED
      BY <2>1, <2>7, <2>9, <3>2, <3>3, <3>4, <3>5
  <2>15. ASSUME WellMarked(lines) PROVE UsersLines(MergeAgentText(lines)) = UsersLines(lines)
    <3>1. m \o z \in Seq(S) /\ p \o Block \in Seq(S)
      BY <1>6, <2>6, <2>8, <2>10
    <3>2. UsersLines(m \o z) = UsersLines(m) \o UsersLines(z)
      BY <2>8, <2>10, UsersLinesConcat
    <3>3. UsersLines(lines) = UsersLines(p) \o UsersLines(m \o z)
      BY <2>6, <2>14, <3>1, UsersLinesConcat
    <3>4. UsersLines(p \o Block) = UsersLines(p) \o UsersLines(Block)
      BY <1>6, <2>6, UsersLinesConcat
    <3>5. UsersLines(MergeAgentText(lines)) = UsersLines(p \o Block) \o UsersLines(z)
      BY <2>3, <2>10, <2>11, <3>1, UsersLinesConcat
    <3>6. UsersLines(p) \in Seq(S) /\ UsersLines(z) \in Seq(S)
      BY <2>6, <2>10, UsersLinesType
    <3>7. UsersLines(p) \o <<>> = UsersLines(p) /\ <<>> \o UsersLines(z) = UsersLines(z)
      BY <3>6
    <3> QED
      BY <1>6, <2>13, <2>15, <3>2, <3>3, <3>4, <3>5, <3>7
  <2> QED
    BY <2>12, <2>15
<1> QED
  BY <1>7, <1>8

LEMMA MergedLines ==
  ASSUME NEW lines \in Seq(TextLines)
  PROVE  /\ MergeAgentText(lines) \in Seq(TextLines)
         /\ WellMarked(lines) => UsersLines(MergeAgentText(lines)) = UsersLines(lines)
  BY SetupAssumption, MergeKeepsLines

LEMMA BlockLines ==
  /\ <<"header">> \o Block \in Seq(TextLines)
  /\ <<>> \o Block \in Seq(TextLines)
<1>1. Marks \subseteq TextLines /\ "header" \in TextLines
  BY SetupAssumption DEF Marks
<1>2. Block \in Seq(TextLines)
  BY <1>1, BlockIsMarks
<1> QED
  BY <1>1, <1>2

-----------------------------------------------------------------------------
(***************************************************************************)
(* Sequences of writes, as sets.                                           *)
(***************************************************************************)
IsSeq(s) == s \in Seq(ToSet(s))

LEMMA RangeIsSeq ==
  ASSUME NEW S, NEW s \in Seq(S)
  PROVE  IsSeq(s) /\ ToSet(s) \subseteq S
<1>1. \A n \in 1..Len(s) : s[n] \in S /\ s[n] \in ToSet(s)
  BY DEF ToSet
<1>2. s \in [1..Len(s) -> ToSet(s)] /\ Len(s) \in Nat
  BY <1>1
<1>3. s \in Seq(ToSet(s))
  BY <1>2
<1> QED
  BY <1>1, <1>3 DEF IsSeq, ToSet

LEMMA RangeOfConcat ==
  ASSUME NEW s, IsSeq(s), NEW t, IsSeq(t)
  PROVE  IsSeq(s \o t) /\ ToSet(s \o t) = ToSet(s) \cup ToSet(t)
<1>1. PICK S : S = ToSet(s) \cup ToSet(t)
  OBVIOUS
<1>2. s \in Seq(ToSet(s)) /\ t \in Seq(ToSet(t)) /\ ToSet(s) \subseteq S /\ ToSet(t) \subseteq S
  BY <1>1 DEF IsSeq
<1>3. s \in Seq(S) /\ t \in Seq(S)
  BY <1>2
<1>4. s \o t \in Seq(S)
  BY <1>3
<1>5. IsSeq(s \o t) /\ ToSet(s \o t) \subseteq S
  <2>1. PICK u : u = s \o t
    OBVIOUS
  <2>2. u \in Seq(S)
    BY <1>4, <2>1
  <2>3. IsSeq(u) /\ ToSet(u) \subseteq S
    BY <2>2, RangeIsSeq
  <2> QED
    BY <2>1, <2>3
<1>6. PICK m \in Nat : m = Len(s)
  BY <1>3
<1>7. PICK k \in Nat : k = Len(t)
  BY <1>3
<1>8. DOMAIN s = 1..m /\ DOMAIN t = 1..k /\ DOMAIN (s \o t) = 1..m + k
  BY <1>3, <1>6, <1>7
<1>9. ASSUME NEW n \in 1..m PROVE s[n] \in ToSet(s \o t)
  <2>1. n \in 1..m + k /\ (s \o t)[n] = s[n]
    BY <1>3, <1>6, <1>7
  <2> QED
    BY <1>8, <2>1 DEF ToSet
<1>10. ASSUME NEW n \in 1..k PROVE t[n] \in ToSet(s \o t)
  <2>1. m + n \in 1..m + k /\ (s \o t)[m + n] = t[n]
    BY <1>3, <1>6, <1>7
  <2> QED
    BY <1>8, <2>1 DEF ToSet
<1>11. ToSet(s) \subseteq ToSet(s \o t) /\ ToSet(t) \subseteq ToSet(s \o t)
  BY <1>8, <1>9, <1>10 DEF ToSet
<1> QED
  BY <1>1, <1>5, <1>11

LEMMA RangeOfOne ==
  ASSUME NEW x
  PROVE  /\ IsSeq(<<x>>) /\ ToSet(<<x>>) = {x}
         /\ IsSeq(<<>>) /\ ToSet(<<>>) = {}
  BY DEF IsSeq, ToSet

LEMMA RangeOfTwo ==
  ASSUME NEW x, NEW y
  PROVE  IsSeq(<<x, y>>) /\ ToSet(<<x, y>>) = {x, y}
  BY DEF IsSeq, ToSet

LEMMA HeadAndTail ==
  ASSUME NEW s, IsSeq(s), s # <<>>
  PROVE  /\ Head(s) \in ToSet(s) /\ IsSeq(Tail(s))
         /\ ToSet(s) = {Head(s)} \cup ToSet(Tail(s))
<1>1. s \in Seq(ToSet(s))
  BY DEF IsSeq
<1>2. Head(s) \in ToSet(s) /\ Tail(s) \in Seq(ToSet(s)) /\ s = <<Head(s)>> \o Tail(s)
  BY <1>1
<1>3. IsSeq(Tail(s))
  <2>1. PICK u, S : u = Tail(s) /\ S = ToSet(s)
    OBVIOUS
  <2>2. u \in Seq(S)
    BY <1>2, <2>1
  <2> QED
    BY <2>1, <2>2, RangeIsSeq
<1>4. PICK h, t : h = Head(s) /\ t = Tail(s)
  OBVIOUS
<1>5. IsSeq(<<h>>) /\ ToSet(<<h>>) = {h} /\ IsSeq(t)
  BY <1>3, <1>4, RangeOfOne
<1>6. ToSet(<<h>> \o t) = ToSet(<<h>>) \cup ToSet(t)
  BY <1>5, RangeOfConcat
<1> QED
  BY <1>2, <1>3, <1>4, <1>5, <1>6

(* What is written for each of the members of a list. *)
LEMMA RangeOfList ==
  ASSUME NEW S, NEW order \in Seq(S), NEW f, f = [n \in DOMAIN order |-> f[n]]
  PROVE  IsSeq(f) /\ ToSet(f) = {f[n] : n \in DOMAIN order}
<1>1. DOMAIN f = 1..Len(order) /\ Len(order) \in Nat
  OBVIOUS
<1>2. f \in [1..Len(order) -> ToSet(f)]
  BY <1>1 DEF ToSet
<1>3. f \in Seq(ToSet(f))
  BY <1>1, <1>2
<1> QED
  BY <1>1, <1>3 DEF IsSeq, ToSet

-----------------------------------------------------------------------------
(***************************************************************************)
(* What the migrators make.                                                *)
(***************************************************************************)
Migrates(tool, m) ==
  /\ \A v \in ToSet(m.units) :
       /\ v.unit.twice => v.dir = RootDir /\ tool = "make"
       /\ tool \in {"turbo", "nx"} => v.unit.tasks \cap Servers = {}
  /\ m.listed # {} => tool \in {"make", "rush"}
  /\ m.listed \subseteq {v.dir : v \in ToSet(m.units)}

LEMMA NothingMigrates ==
  ASSUME NEW tool PROVE Migrates(tool, Nothing)
<1>1. Nothing.units = <<>> /\ Nothing.listed = {}
  BY DEF Nothing
<1>2. ToSet(Nothing.units) = {}
  BY <1>1, RangeOfOne
<1> QED
  BY <1>1, <1>2 DEF Migrates

LEMMA FoundMigrates ==
  ASSUME NEW tool, NEW seq,
         \A n \in DOMAIN seq : ~ seq[n].unit.twice /\ (tool \in {"turbo", "nx"} => seq[n].unit.tasks \cap Servers = {})
  PROVE  Migrates(tool, Found(seq))
<1>1. Found(seq).units = seq /\ Found(seq).listed = {}
  BY DEF Found
<1>2. \A v \in ToSet(seq) : \E n \in DOMAIN seq : v = seq[n]
  BY DEF ToSet
<1> QED
  BY <1>1, <1>2 DEF Migrates

LEMMA TurboMigrates ==
  ASSUME NEW repo \in Repos["turbo"], NEW base
  PROVE  Migrates("turbo", Turbo(repo, base))
<1>1. PICK dirs : dirs = TurboPackages(repo)
  OBVIOUS
<1>2. PICK seq : seq = [n \in DOMAIN dirs |-> [dir |-> dirs[n], unit |-> TurboUnit(repo, base, dirs[n])]]
  OBVIOUS
<1>3. ASSUME NEW d
      PROVE  ~ TurboUnit(repo, base, d).twice /\ TurboUnit(repo, base, d).tasks \cap Servers = {}
  <2>1. repo.pipeline \cap Servers = {}
    BY ServersAreServers
  <2>2. TurboUnit(repo, base, d).tasks = repo.pipeline \cap repo.packages[d].scripts
    BY DEF TurboUnit, Unit
  <2>3. TurboUnit(repo, base, d).twice = FALSE
    BY DEF TurboUnit, Unit
  <2> QED
    BY <2>1, <2>2, <2>3
<1>4. \A n \in DOMAIN seq : seq[n].unit = TurboUnit(repo, base, dirs[n])
  BY <1>2
<1>5. Migrates("turbo", Found(seq))
  BY <1>3, <1>4, FoundMigrates
<1>6. Turbo(repo, base) \in {Nothing, Found(seq)}
  BY <1>1, <1>2 DEF Turbo
<1> QED
  BY <1>5, <1>6, NothingMigrates

LEMMA LernaMigrates ==
  ASSUME NEW repo, NEW base
  PROVE  Migrates("lerna", Lerna(repo, base))
<1>1. PICK dirs : dirs = Visits(LernaGlobs(repo), DOMAIN repo.packages)
  OBVIOUS
<1>2. PICK seq : seq = [n \in DOMAIN dirs |-> [dir |-> dirs[n], unit |-> LernaUnit(repo, base, dirs[n])]]
  OBVIOUS
<1>3. \A d : ~ LernaUnit(repo, base, d).twice
  BY DEF LernaUnit, Unit
<1>4. \A n \in DOMAIN seq : seq[n].unit = LernaUnit(repo, base, dirs[n])
  BY <1>2
<1>5. Migrates("lerna", Found(seq))
  BY <1>3, <1>4, FoundMigrates
<1>6. Lerna(repo, base) \in {Nothing, Found(seq)}
  BY <1>1, <1>2 DEF Lerna
<1> QED
  BY <1>5, <1>6, NothingMigrates

LEMMA MoonMigrates ==
  ASSUME NEW repo, NEW base
  PROVE  Migrates("moon", Moon(repo, base))
<1>1. \E dirs : Moon(repo, base) \in
        {Nothing, Found([n \in DOMAIN dirs |-> [dir |-> dirs[n], unit |-> MoonUnit(repo, base, dirs[n])]])}
  BY Zenon DEF Moon
<1>2. PICK dirs : Moon(repo, base) \in
        {Nothing, Found([n \in DOMAIN dirs |-> [dir |-> dirs[n], unit |-> MoonUnit(repo, base, dirs[n])]])}
  BY <1>1
<1>3. PICK seq : seq = [n \in DOMAIN dirs |-> [dir |-> dirs[n], unit |-> MoonUnit(repo, base, dirs[n])]]
  OBVIOUS
<1>4. \A d : MoonUnit(repo, base, d).twice = FALSE
  <2>1. ASSUME NEW d PROVE MoonUnit(repo, base, d).twice = FALSE
    <3>1. \A x, y, z : Unit(x, y, z).twice = FALSE
      BY DEF Unit
    <3> QED
      BY <3>1 DEF MoonUnit
  <2> QED
    BY <2>1
<1>5. \A n \in DOMAIN seq : seq[n].unit = MoonUnit(repo, base, dirs[n])
  BY <1>3
<1>6. Migrates("moon", Found(seq))
  BY <1>4, <1>5, FoundMigrates
<1> QED
  BY <1>2, <1>3, <1>6, NothingMigrates

LEMMA NxMigrates ==
  ASSUME NEW repo \in Repos["nx"], NEW base
  PROVE  Migrates("nx", Nx(repo, base))
<1>1. PICK dirs : dirs = SetToSeq(NxProjects(repo))
  OBVIOUS
<1>2. PICK seq : seq = [n \in DOMAIN dirs |-> [dir |-> dirs[n], unit |-> NxUnit(repo, base, dirs[n])]]
  OBVIOUS
<1>3. ASSUME NEW d \in DOMAIN repo.projects
      PROVE  ~ NxUnit(repo, base, d).twice /\ NxUnit(repo, base, d).tasks \cap Servers = {}
  <2>1. PICK targets : targets = repo.projects[d].targets
    OBVIOUS
  <2>2. ASSUME NEW t \in DOMAIN targets, t \in Servers
        PROVE  MapExecutor(targets[t], t, repo.defaults) = "server"
    <3>1. ExecutorOf(targets[t], t, repo.defaults) \in NxServers
      BY <2>1, <2>2, ServersAreServers
    <3> QED
      BY <3>1 DEF MapExecutor
  <2>3. NxUnit(repo, base, d).tasks
          = DOMAIN targets \ {t \in DOMAIN targets : MapExecutor(targets[t], t, repo.defaults) = "server"}
    BY <2>1 DEF NxUnit, Unit
  <2>4. NxUnit(repo, base, d).twice = FALSE
    BY DEF NxUnit, Unit
  <2> QED
    BY <2>2, <2>3, <2>4
<1>4. \A n \in DOMAIN dirs : dirs[n] \in DOMAIN repo.projects
  <2>1. IsFiniteSet(DOMAIN repo.projects)
    BY ServersAreServers
  <2>2. NxProjects(repo) \subseteq DOMAIN repo.projects
    BY DEF NxProjects
  <2>3. IsFiniteSet(NxProjects(repo))
    BY <2>1, <2>2, FS_Subset
  <2>4. ToSet(dirs) = NxProjects(repo)
    BY <1>1, <2>3, ListOfSet
  <2> QED
    BY <2>2, <2>4 DEF ToSet
<1>5. \A n \in DOMAIN seq : n \in DOMAIN dirs /\ seq[n].unit = NxUnit(repo, base, dirs[n])
  BY <1>2
<1>6. Migrates("nx", Found(seq))
  BY <1>3, <1>4, <1>5, FoundMigrates
<1>7. Nx(repo, base) \in {Nothing, Found(seq)}
  BY <1>1, <1>2 DEF Nx
<1> QED
  BY <1>6, <1>7, NothingMigrates

LEMMA MakeMigrates ==
  ASSUME NEW repo, NEW base
  PROVE  Migrates("make", Make(repo, base))
<1>1. \E unit : Make(repo, base) \in
        {Nothing, [Found(<<[dir |-> RootDir, unit |-> unit]>>) EXCEPT !.listed = {RootDir}]}
  BY Zenon DEF Make
<1>2. PICK unit : Make(repo, base) \in
        {Nothing, [Found(<<[dir |-> RootDir, unit |-> unit]>>) EXCEPT !.listed = {RootDir}]}
  BY <1>1
<1>3. PICK v : v = [dir |-> RootDir, unit |-> unit]
  OBVIOUS
<1>4. PICK m : m = [Found(<<v>>) EXCEPT !.listed = {RootDir}]
  OBVIOUS
<1>5. m.units = <<v>> /\ m.listed = {RootDir}
  BY <1>4 DEF Found
<1>6. ToSet(m.units) = {v}
  BY <1>5, RangeOfOne
<1>7. v.dir = RootDir
  BY <1>3
<1>8. Migrates("make", m)
  BY <1>5, <1>6, <1>7 DEF Migrates
<1> QED
  BY <1>2, <1>3, <1>4, <1>8, NothingMigrates

LEMMA RushMigrates ==
  ASSUME NEW repo
  PROVE  Migrates("rush", Rush(repo))
<1>1. PICK projects : projects = repo.projects
  OBVIOUS
<1>2. PICK seq : seq = [n \in DOMAIN projects |-> [dir |-> projects[n].dir, unit |-> RushUnit(repo, projects[n])]]
  OBVIOUS
<1>3. PICK m : m = [Found(seq) EXCEPT !.listed = {projects[n].dir : n \in DOMAIN projects}]
  OBVIOUS
<1>4. m.units = seq /\ m.listed = {projects[n].dir : n \in DOMAIN projects}
  BY <1>3 DEF Found
<1>5. \A p : RushUnit(repo, p).twice = FALSE
  BY DEF RushUnit, Unit
<1>6. \A n \in DOMAIN projects : seq[n].dir = projects[n].dir /\ seq[n].unit.twice = FALSE
  BY <1>2, <1>5
<1>7. DOMAIN seq = DOMAIN projects
  BY <1>2
<1>8. \A v \in ToSet(seq) : v.unit.twice = FALSE
  BY <1>6, <1>7 DEF ToSet
<1>9. ASSUME NEW n \in DOMAIN projects PROVE projects[n].dir \in {v.dir : v \in ToSet(seq)}
  <2>1. seq[n] \in ToSet(seq)
    BY <1>7 DEF ToSet
  <2> QED
    BY <1>6, <2>1
<1>10. Migrates("rush", m)
  BY <1>4, <1>8, <1>9 DEF Migrates
<1>11. Rush(repo) \in {Nothing, m}
  BY <1>1, <1>2, <1>3 DEF Rush
<1> QED
  BY <1>10, <1>11, NothingMigrates

LEMMA MigrationMigrates ==
  ASSUME NEW tool \in Tools, NEW repo \in Repos[tool], NEW base
  PROVE  Migrates(tool, Migration(tool, repo, base))
  BY TurboMigrates, LernaMigrates, NxMigrates, MoonMigrates, MakeMigrates, RushMigrates DEF Tools, Migration

-----------------------------------------------------------------------------
(***************************************************************************)
(* What the files hold, and what is still to be written.                   *)
(***************************************************************************)
LEMMA FilesAre ==
  /\ RepoFile \in SetupFiles /\ Prod \in SetupFiles
  /\ \A p \in ProfileNames : Profile(p) \in SetupFiles
  /\ \A d \in Folders : UnitFile(d) \in SetupFiles
  /\ \A a \in AgentFiles : TextFile(a) \in SetupFiles
  /\ \A file \in SetupFiles :
       \/ file = RepoFile \/ \E p \in ProfileNames : file = Profile(p)
       \/ \E d \in Folders : file = UnitFile(d)
       \/ \E a \in AgentFiles : file = TextFile(a)
<1>1. "prod" \in ProfileNames
  BY SetupAssumption
<1> QED
  BY <1>1 DEF SetupFiles, Prod

LEMMA NamesDiffer ==
  /\ RepoFile[1] = "repo" /\ Prod[1] = "profile"
  /\ \A x : Profile(x)[1] = "profile" /\ UnitFile(x)[1] = "unit" /\ TextFile(x)[1] = "text"
  /\ \A x : Profile(x)[2] = x /\ UnitFile(x)[2] = x /\ TextFile(x)[2] = x
  /\ Prod[2] = "prod" /\ Prod = Profile("prod")
  /\ \A x, y : x # y => Profile(x) # Profile(y) /\ UnitFile(x) # UnitFile(y)
  BY DEF RepoFile, Prod, Profile, UnitFile, TextFile

LEMMA BodiesAre ==
  /\ Missing.kind = "missing" /\ Cut.kind = "cut" /\ RepoBody.kind = "repo"
  /\ \A x, y : Listing(x, y).kind = "profile" /\ Listing(x, y).name = x /\ Listing(x, y).units = y
  /\ \A x : Text(x).kind = "text" /\ Text(x).lines = x
  /\ \A x, y : UnitBody(x, y).kind = "unit" /\ UnitBody(x, y).unit = x /\ UnitBody(x, y).by = y
  BY DEF Missing, Cut, RepoBody, Listing, Text, UnitBody

LEMMA WholeIs ==
  ASSUME NEW file \in SetupFiles, NEW body, Whole(file, body)
  PROVE  /\ body.kind = file[1] /\ body.kind \notin {"missing", "cut", "source"}
         /\ body # Missing /\ body # Cut
         /\ file[1] = "profile" => /\ body.name \in ProfileNames /\ body.units \subseteq Folders
                                   /\ body = Listing(body.name, body.units)
         /\ file[1] = "unit" => WholeUnit(file[2], body)
         /\ file[1] = "text" => body = Text(body.lines) /\ body.lines \in Seq(TextLines)
         /\ file[1] = "repo" => body = RepoBody
<1>1. file[1] \in {"repo", "profile", "unit", "text"}
  BY FilesAre, NamesDiffer
<1>2. CASE file[1] = "repo"
  BY <1>2, BodiesAre DEF Whole
<1>3. CASE file[1] = "profile"
  <2>1. PICK name \in ProfileNames, units \in SUBSET Folders : body = Listing(name, units)
    BY <1>3 DEF Whole
  <2> QED
    BY <1>3, <2>1, BodiesAre
<1>4. CASE file[1] = "unit"
  BY <1>4, BodiesAre DEF Whole, WholeUnit
<1>5. CASE file[1] = "text"
  BY <1>5, BodiesAre DEF Whole
<1> QED
  BY <1>1, <1>2, <1>3, <1>4, <1>5

(* A profile has the name of its file, or the one it had in the layout.    *)
OfItsName(file, body) ==
  file[1] = "profile" /\ body.name # file[2] => file \in DOMAIN layout.files /\ body.name = layout.files[file].name

Holds(file, body) == body = Missing \/ body = Cut \/ (Whole(file, body) /\ OfItsName(file, body))
Typed(files) == \A file \in SetupFiles : Holds(file, files[file])

(* A write of a command: of a source, or of all of a configuration file.   *)
Comes(w) ==
  \/ w.body.kind = "source" /\ w.to \in Folders
  \/ w.body.kind # "source" /\ w.to \in SetupFiles /\ Whole(w.to, w.body) /\ OfItsName(w.to, w.body)
WriteTo(w, file) == w.to = file /\ w.body.kind # "source"
Pending == ToSet(setup.writes)
Kinds == {"none", "init", "add", "box"} \cup Tools

TypedInv ==
  /\ layout \in Layouts
  /\ DOMAIN disk = SetupFiles /\ Typed(disk)
  /\ DOMAIN folders = Folders
  /\ setup = [kind |-> setup.kind, writes |-> setup.writes, began |-> setup.began, found |-> setup.found]
  /\ setup.kind \in Kinds /\ (setup.kind = "none" => setup = NoCommand)
  /\ IsSeq(setup.writes) /\ \A w \in Pending : Comes(w)
  /\ setup.began \in BOOLEAN
  /\ setup.began => setup.writes # <<>> /\ Coming.body.kind # "source"
  /\ setups \in 0..MaxSetups /\ forced \subseteq SetupFiles /\ killed \in BOOLEAN

(* Without a kill, only the file that is being written is cut off.         *)
CutInv ==
  ~ killed => \A file \in SetupFiles : disk[file] = Cut => setup.began /\ file = Coming.to

(* Among the files that writes to come will leave.                         *)
Leaves(P, file, body) ==
  \/ \E w \in P : WriteTo(w, file) /\ body = w.body
  \/ (\A w \in P : ~ WriteTo(w, file)) /\ body = disk[file]
Left(P, files) == \A file \in SetupFiles : Leaves(P, file, files[file])

(* What a command may leave that it did not find.                          *)
Allowed(kind, f) ==
  \/ f = "duplicate" /\ kind \in {"init"} \cup Tools
  \/ f = "profiles" /\ kind \in {"init", "box"} \cup Tools /\ Misnamed
  \/ f = "twice" /\ kind = "make"
  \/ f = "orphan" /\ kind \in Tools
  \/ f = "cut" /\ killed /\ kind \in {"init", "make", "rush"}

EndsWell(P, kind, found) ==
  \A files : Left(P, files) => \A f \in Diagnosis(files) \ found : Allowed(kind, f)
EndInv == setup.kind # "none" /\ setup.found \subseteq {"orphan"} => EndsWell(Pending, setup.kind, setup.found)

BrokeInv ==
  \A b \in broke : b[1] \in Kinds \ {"none"} /\ Allowed(b[1], b[2])
                   /\ b[2] \in {"cut", "twice", "dangling", "duplicate", "profiles", "orphan"} /\ b = <<b[1], b[2]>>

(* The files somebody wrote.                                               *)
Lists(body, x) == body.kind = "profile" /\ x.units \subseteq body.units
UsersFile(file, x) ==
  /\ file[1] \in {"unit", "repo"} => disk[file] = x /\ \A w \in Pending : ~ WriteTo(w, file)
  /\ file[1] = "profile" =>
       \/ killed
       \/ /\ disk[file] = Cut \/ Lists(disk[file], x)
          /\ \A w \in Pending : WriteTo(w, file) => x.units \subseteq w.body.units
  /\ file[1] = "text" =>
       \/ killed
       \/ /\ disk[file] \in {x, Cut, Text(MergeAgentText(x.lines))}
          /\ \A w \in Pending : WriteTo(w, file) => w.body = Text(MergeAgentText(x.lines))
          /\ \/ disk[RepoFile] # Missing \/ \E w \in Pending : WriteTo(w, RepoFile)
             \/ disk[file] = x /\ \A w \in Pending : ~ WriteTo(w, file)
UserInv == \A file \in DOMAIN layout.files \ forced : UsersFile(file, layout.files[file])

SetupInv == TypedInv /\ CutInv /\ EndInv /\ BrokeInv /\ UserInv

LEMMA DiagnosisIs ==
  ASSUME NEW files
  PROVE  /\ Diagnosis(files) \subseteq {"cut", "twice", "dangling", "duplicate", "profiles", "orphan"}
         /\ Diagnosis(files) \subseteq {"orphan"} => Faults(files) = {}
<1>1. Faults(files) \subseteq {"cut", "twice", "dangling", "duplicate", "profiles"}
  BY DEF Faults
<1> QED
  BY <1>1 DEF Diagnosis

LEMMA InitInv == SetupInit => SetupInv
<1> SUFFICES ASSUME SetupInit PROVE SetupInv
  OBVIOUS
<1>1. /\ layout \in Layouts /\ folders = layout.folders
      /\ setup = NoCommand /\ setups = 0 /\ forced = {} /\ killed = FALSE /\ broke = {}
  BY DEF SetupInit
<1>2. /\ DOMAIN disk = SetupFiles
      /\ \A file \in SetupFiles : disk[file] = IF file \in DOMAIN layout.files THEN layout.files[file] ELSE Missing
  BY DEF SetupInit
<1>3. /\ DOMAIN layout.folders = Folders /\ DOMAIN layout.files \subseteq SetupFiles
      /\ \A file \in DOMAIN layout.files : Whole(file, layout.files[file])
  BY <1>1, LayoutsAreWhole
<1>4. setup.kind = "none" /\ setup.writes = <<>> /\ setup.began = FALSE /\ setup.found = {}
  BY <1>1 DEF NoCommand
<1>5. Pending = {} /\ IsSeq(setup.writes)
  BY <1>4, RangeOfOne DEF Pending
<1>6. \A file \in SetupFiles : \/ disk[file] = Missing
                               \/ Whole(file, disk[file]) /\ file \in DOMAIN layout.files /\ disk[file] = layout.files[file]
  BY <1>2, <1>3
<1>7. TypedInv
  <2>1. Typed(disk)
    BY <1>6 DEF Typed, Holds, OfItsName
  <2>2. setup = [kind |-> setup.kind, writes |-> setup.writes, began |-> setup.began, found |-> setup.found]
    BY <1>1 DEF NoCommand
  <2>3. MaxSetups \in Nat
    BY SetupAssumption
  <2>4. setup.kind \in Kinds /\ (setup.kind = "none" => setup = NoCommand)
    BY <1>1, <1>4 DEF Kinds
  <2>5. setups \in 0..MaxSetups /\ forced \subseteq SetupFiles /\ killed \in BOOLEAN
    <3>1. setups = 0 /\ forced = {} /\ killed = FALSE
      BY <1>1
    <3>2. setups \in 0..MaxSetups /\ forced \subseteq SetupFiles
      BY <2>3, <3>1
    <3>3. killed \in BOOLEAN
      BY <3>1
    <3> QED
      BY <3>2, <3>3
  <2>6. \A w \in Pending : Comes(w)
    BY <1>5
  <2>7. DOMAIN folders = Folders
    BY <1>1, <1>3
  <2>8. setup.began \in BOOLEAN /\ (setup.began => setup.writes # <<>> /\ Coming.body.kind # "source")
    BY <1>4
  <2> QED
    BY <1>1, <1>2, <1>5, <2>1, <2>2, <2>4, <2>5, <2>6, <2>7, <2>8 DEF TypedInv
<1>8. CutInv
  BY <1>6, WholeIs, BodiesAre DEF CutInv
<1>9. EndInv /\ BrokeInv
  BY <1>1, <1>4 DEF EndInv, BrokeInv
<1>10. UserInv
  <2>1. ASSUME NEW file \in DOMAIN layout.files PROVE UsersFile(file, layout.files[file])
    <3>1. file \in SetupFiles /\ disk[file] = layout.files[file] /\ Whole(file, disk[file])
      BY <1>2, <1>3
    <3>2. file[1] = "profile" => disk[file].kind = "profile"
      BY <3>1, WholeIs
    <3> QED
      BY <1>5, <3>1, <3>2 DEF UsersFile, Lists
  <2> QED
    BY <2>1 DEF UserInv
<1> QED
  BY <1>7, <1>8, <1>9, <1>10 DEF SetupInv

(* The writes a command begins with. *)
UserWrites(writes) ==
  \A file \in DOMAIN layout.files \ forced' : \A w \in ToSet(writes) : WriteTo(w, file) =>
    /\ file[1] \notin {"unit", "repo"}
    /\ file[1] = "profile" => killed \/ layout.files[file].units \subseteq w.body.units
    /\ file[1] = "text" =>
         killed \/ /\ w.body = Text(MergeAgentText(layout.files[file].lines))
                   /\ \E v \in ToSet(writes) : WriteTo(v, RepoFile)

Starts(kind, writes) ==
  /\ Begin(kind, writes) /\ kind \in Kinds \ {"none"}
  /\ IsSeq(writes) /\ \A w \in ToSet(writes) : Comes(w)
  /\ Faults(disk) = {} => EndsWell(ToSet(writes), kind, Diagnosis(disk))
  /\ forced \subseteq forced' /\ forced' \subseteq SetupFiles
  /\ UserWrites(writes)

LEMMA StartKeeps ==
  ASSUME SetupInv, NEW kind, NEW writes, Starts(kind, writes)
  PROVE  SetupInv'
<1>1. /\ setup = NoCommand /\ setups < MaxSetups
      /\ setup' = [kind |-> kind, writes |-> writes, began |-> FALSE, found |-> Diagnosis(disk)]
      /\ setups' = setups + 1
      /\ UNCHANGED <<disk, folders, layout, killed, broke>>
  BY DEF Starts, Begin
<1>2. setup.began = FALSE /\ setup.writes = <<>>
  BY <1>1 DEF NoCommand
<1>3. Pending = {} /\ Pending' = ToSet(writes)
  <2>1. setup'.writes = writes
    BY <1>1
  <2> QED
    BY <1>2, <2>1, RangeOfOne DEF Pending
<1>4. MaxSetups \in Nat
  BY SetupAssumption
<1>5. setup'.kind = kind /\ setup'.writes = writes /\ setup'.began = FALSE /\ setup'.found = Diagnosis(disk)
  BY <1>1
<1>6. TypedInv'
  <2>1. /\ layout' \in Layouts /\ DOMAIN disk' = SetupFiles /\ Typed(disk)' /\ DOMAIN folders' = Folders
        /\ setups' \in 0..MaxSetups /\ forced' \subseteq SetupFiles /\ killed' \in BOOLEAN
    BY <1>1, <1>4 DEF SetupInv, TypedInv, Typed, Holds, OfItsName, Starts
  <2>2. setup' = [kind |-> setup'.kind, writes |-> setup'.writes, began |-> setup'.began, found |-> setup'.found]
    BY <1>1
  <2>3. setup'.kind \in Kinds /\ setup'.kind # "none" /\ IsSeq(setup'.writes) /\ \A w \in Pending' : Comes(w)
    BY <1>3, <1>5 DEF Starts
  <2> QED
    BY <1>1, <1>5, <2>1, <2>2, <2>3 DEF TypedInv, Comes, IsSeq, OfItsName
<1>7. CutInv'
  BY <1>1, <1>2 DEF SetupInv, CutInv
<1>8. EndInv'
  <2> SUFFICES ASSUME setup'.found \subseteq {"orphan"}, NEW files, Left(Pending, files)',
                      NEW f \in Diagnosis(files) \ setup'.found
               PROVE  Allowed(setup.kind, f)'
    BY DEF EndInv, EndsWell
  <2>1. Faults(disk) = {}
    BY <1>5, DiagnosisIs
  <2>2. EndsWell(ToSet(writes), kind, Diagnosis(disk))
    BY <2>1 DEF Starts
  <2>3. Left(ToSet(writes), files)
    BY <1>1, <1>3 DEF Left, Leaves, WriteTo
  <2>4. Allowed(kind, f)
    BY <1>5, <2>2, <2>3 DEF EndsWell
  <2> QED
    BY <1>1, <1>5, <2>4 DEF Allowed, Misnamed
<1>9. BrokeInv'
  BY <1>1 DEF SetupInv, BrokeInv, Allowed, Misnamed
<1>10. UserInv'
  <2> SUFFICES ASSUME NEW file \in DOMAIN layout.files \ forced'
               PROVE  UsersFile(file, layout.files[file])'
    BY <1>1 DEF UserInv
  <2> PICK x : x = layout.files[file]
    OBVIOUS
  <2>1. UsersFile(file, x)
    BY DEF SetupInv, UserInv, Starts
  <2>2. \A w \in ToSet(writes) : WriteTo(w, file) =>
          /\ file[1] \notin {"unit", "repo"}
          /\ file[1] = "profile" => killed \/ x.units \subseteq w.body.units
          /\ file[1] = "text" => \/ killed
                                  \/ /\ w.body = Text(MergeAgentText(x.lines))
                                     /\ \E v \in ToSet(writes) : WriteTo(v, RepoFile)
    <3>1. UserWrites(writes)
      BY DEF Starts
    <3> QED
      BY <3>1 DEF UserWrites
  <2>3. UNCHANGED <<disk, killed>> /\ layout'.files[file] = x
    BY <1>1
  <2>4. file[1] \in {"unit", "repo"} => disk'[file] = x /\ \A w \in Pending' : ~ WriteTo(w, file)
    BY <1>3, <2>1, <2>2, <2>3 DEF UsersFile
  <2>5. file[1] = "profile" =>
           \/ killed
           \/ /\ disk[file] = Cut \/ Lists(disk[file], x)
              /\ \A w \in Pending' : WriteTo(w, file) => x.units \subseteq w.body.units
    BY <1>3, <2>1, <2>2 DEF UsersFile, Lists
  <2>6. file[1] = "text" =>
           \/ killed
           \/ /\ disk[file] \in {x, Cut, Text(MergeAgentText(x.lines))}
              /\ \A w \in Pending' : WriteTo(w, file) => w.body = Text(MergeAgentText(x.lines))
              /\ \/ disk[RepoFile] # Missing \/ \E w \in Pending' : WriteTo(w, RepoFile)
                 \/ disk[file] = x /\ \A w \in Pending' : ~ WriteTo(w, file)
    BY <1>3, <2>1, <2>2 DEF UsersFile, Lists
  <2> QED
    BY <2>3, <2>4, <2>5, <2>6 DEF UsersFile, Lists, WriteTo
<1> QED
  BY <1>6, <1>7, <1>8, <1>9, <1>10 DEF SetupInv

LEMMA StopTypes ==
  ASSUME SetupInv, setup' = NoCommand, UNCHANGED <<disk, folders, layout, setups, forced>>, killed' \in BOOLEAN
  PROVE  TypedInv' /\ EndInv' /\ Pending' = {} /\ setup'.began = FALSE
<1>1. setup'.kind = "none" /\ setup'.writes = <<>> /\ setup'.began = FALSE /\ setup'.found = {}
  BY DEF NoCommand
<1>2. Pending' = {} /\ IsSeq(setup'.writes)
  BY <1>1, RangeOfOne DEF Pending
<1>3. /\ layout' \in Layouts /\ DOMAIN disk' = SetupFiles /\ Typed(disk)' /\ DOMAIN folders' = Folders
      /\ setups' \in 0..MaxSetups /\ forced' \subseteq SetupFiles
  BY DEF SetupInv, TypedInv, Typed, Holds, OfItsName
<1>4. setup' = [kind |-> setup'.kind, writes |-> setup'.writes, began |-> setup'.began, found |-> setup'.found]
  BY DEF NoCommand
<1>5. setup'.kind \in Kinds
  BY <1>1 DEF Kinds
<1>6. \A w \in Pending' : Comes(w)
  BY <1>2
<1>7. TypedInv'
  <2>1. setup'.began => setup'.writes # <<>> /\ Coming'.body.kind # "source"
    BY <1>1
  <2> QED
    BY <1>1, <1>2, <1>3, <1>4, <1>5, <1>6, <2>1 DEF TypedInv, Comes, IsSeq, OfItsName
<1>8. EndInv'
  BY <1>1 DEF EndInv
<1> QED
  BY <1>1, <1>2, <1>7, <1>8

LEMMA KillKeeps == SetupInv /\ KillSetup => SetupInv'
<1> SUFFICES ASSUME SetupInv, KillSetup PROVE SetupInv'
  OBVIOUS
<1>1. setup' = NoCommand /\ killed' = TRUE /\ UNCHANGED <<disk, folders, layout, setups, forced, broke>>
  BY DEF KillSetup
<1>2. TypedInv' /\ EndInv' /\ Pending' = {}
  BY <1>1, StopTypes
<1>3. CutInv'
  BY <1>1 DEF CutInv
<1>4. BrokeInv'
  BY <1>1 DEF SetupInv, BrokeInv, Allowed, Misnamed
<1>5. UserInv'
  BY <1>1, <1>2 DEF SetupInv, UserInv, UsersFile, WriteTo
<1> QED
  BY <1>2, <1>3, <1>4, <1>5 DEF SetupInv

LEMMA EndKeeps == SetupInv /\ EndSetup => SetupInv'
<1> SUFFICES ASSUME SetupInv, EndSetup PROVE SetupInv'
  OBVIOUS
<1>1. /\ setup # NoCommand /\ setup.writes = <<>> /\ setup' = NoCommand
      /\ UNCHANGED <<disk, folders, layout, setups, forced, killed>>
  BY DEF EndSetup
<1>2. TypedInv
  BY DEF SetupInv
<1>3. TypedInv' /\ EndInv' /\ Pending' = {} /\ setup'.began = FALSE
  <2>1. killed' \in BOOLEAN
    BY <1>1, <1>2 DEF TypedInv
  <2> QED
    BY <1>1, <2>1, StopTypes
<1>4. setup.began = FALSE /\ Pending = {}
  BY <1>1, <1>2, RangeOfOne DEF TypedInv, Pending
<1>5. CutInv'
  BY <1>1, <1>4 DEF SetupInv, CutInv
<1>6. setup.kind \in Kinds \ {"none"}
  BY <1>1, <1>2 DEF TypedInv
<1>7. ASSUME setup.found \subseteq {"orphan"}, NEW f \in Diagnosis(disk) \ setup.found
      PROVE  Allowed(setup.kind, f)
  <2>1. EndsWell(Pending, setup.kind, setup.found)
    BY <1>6, <1>7 DEF SetupInv, EndInv
  <2>2. Left(Pending, disk)
    BY <1>4 DEF Left, Leaves
  <2> QED
    BY <1>7, <2>1, <2>2 DEF EndsWell
<1>8. BrokeInv'
  <2>1. ASSUME NEW b \in broke'
        PROVE  b \in broke \/ \E f \in Diagnosis(disk) \ setup.found : setup.found \subseteq {"orphan"} /\ b = <<setup.kind, f>>
    BY <2>1 DEF EndSetup
  <2>2. ASSUME NEW b \in broke'
        PROVE  /\ b[1] \in Kinds \ {"none"} /\ Allowed(b[1], b[2])
               /\ b[2] \in {"cut", "twice", "dangling", "duplicate", "profiles", "orphan"} /\ b = <<b[1], b[2]>>
    <3>1. CASE b \in broke
      BY <3>1 DEF SetupInv, BrokeInv
    <3>2. CASE b \notin broke
      <4>1. PICK f \in Diagnosis(disk) \ setup.found : setup.found \subseteq {"orphan"} /\ b = <<setup.kind, f>>
        BY <2>1, <3>2
      <4>2. b[1] = setup.kind /\ b[2] = f
        BY <4>1
      <4> QED
        BY <1>6, <1>7, <4>1, <4>2, DiagnosisIs
    <3> QED
      BY <3>1, <3>2
  <2> QED
    BY <1>1, <2>2 DEF BrokeInv, Allowed, Misnamed
<1>9. UserInv'
  BY <1>1, <1>3, <1>4 DEF SetupInv, UserInv, UsersFile, WriteTo
<1> QED
  BY <1>3, <1>5, <1>8, <1>9 DEF SetupInv

LEMMA CreateKeeps == SetupInv /\ CreateFile => SetupInv'
<1> SUFFICES ASSUME SetupInv, CreateFile PROVE SetupInv'
  OBVIOUS
<1>1. /\ setup.writes # <<>> /\ Coming.body.kind = "source"
      /\ folders' = [folders EXCEPT ![Coming.to] = @ \cup {Coming.body.name}]
      /\ setup' = [setup EXCEPT !.writes = Tail(@)]
      /\ UNCHANGED <<disk, layout, setups, forced, killed, broke>>
  BY DEF CreateFile
<1>2. TypedInv
  BY DEF SetupInv
<1>3. /\ setup'.kind = setup.kind /\ setup'.writes = Tail(setup.writes)
      /\ setup'.began = setup.began /\ setup'.found = setup.found
      /\ setup' = [kind |-> setup'.kind, writes |-> setup'.writes, began |-> setup'.began, found |-> setup'.found]
  BY <1>1, <1>2 DEF TypedInv
<1>4. IsSeq(setup'.writes) /\ Pending = {Coming} \cup Pending'
  BY <1>1, <1>2, <1>3, HeadAndTail DEF TypedInv, Pending, Coming
<1>5. \A file : \A w \in Pending : WriteTo(w, file) => w \in Pending'
  BY <1>1, <1>4 DEF WriteTo
<1>6. setup.began = FALSE
  BY <1>1, <1>2 DEF TypedInv
<1>7. TypedInv'
  <2>1. setup'.kind \in Kinds /\ setup'.kind # "none"
    BY <1>1, <1>2, <1>3 DEF TypedInv, NoCommand
  <2>2. \A w \in Pending' : Comes(w)
    BY <1>2, <1>4 DEF TypedInv
  <2>3. DOMAIN folders' = Folders
    BY <1>1, <1>2 DEF TypedInv
  <2>4. /\ layout' \in Layouts /\ DOMAIN disk' = SetupFiles /\ Typed(disk)'
        /\ setups' \in 0..MaxSetups /\ forced' \subseteq SetupFiles /\ killed' \in BOOLEAN
    BY <1>1, <1>2 DEF TypedInv, Typed, Holds, OfItsName
  <2> QED
    BY <1>1, <1>3, <1>4, <1>6, <2>1, <2>2, <2>3, <2>4 DEF TypedInv, Comes, IsSeq, OfItsName
<1>8. CutInv'
  BY <1>1, <1>6 DEF SetupInv, CutInv
<1>9. EndInv'
  <2> SUFFICES ASSUME setup'.kind # "none", setup'.found \subseteq {"orphan"}, NEW files, Left(Pending, files)',
                      NEW f \in Diagnosis(files) \ setup'.found
               PROVE  Allowed(setup.kind, f)'
    BY DEF EndInv, EndsWell
  <2>1. Left(Pending, files)
    BY <1>1, <1>4, <1>5 DEF Left, Leaves, WriteTo
  <2> QED
    BY <1>1, <1>3, <2>1 DEF SetupInv, EndInv, EndsWell, Allowed, Misnamed
<1>10. BrokeInv'
  BY <1>1 DEF SetupInv, BrokeInv, Allowed, Misnamed
<1>11. UserInv'
  <2> SUFFICES ASSUME NEW file \in DOMAIN layout.files \ forced
               PROVE  UsersFile(file, layout.files[file])'
    BY <1>1 DEF UserInv
  <2> PICK x : x = layout.files[file]
    OBVIOUS
  <2>1. UsersFile(file, x)
    BY DEF SetupInv, UserInv
  <2>2. \A g : (\E w \in Pending : WriteTo(w, g)) <=> (\E w \in Pending' : WriteTo(w, g))
    BY <1>4, <1>5
  <2>3. UsersFile(file, x)'
    BY <1>1, <1>4, <1>5, <2>1, <2>2 DEF UsersFile, Lists, WriteTo
  <2> QED
    BY <1>1, <2>3
<1> QED
  BY <1>7, <1>8, <1>9, <1>10, <1>11 DEF SetupInv

LEMMA BeginKeeps == SetupInv /\ BeginFile => SetupInv'
<1> SUFFICES ASSUME SetupInv, BeginFile PROVE SetupInv'
  OBVIOUS
<1>1. /\ setup.writes # <<>> /\ Coming.body.kind # "source"
      /\ disk' = [disk EXCEPT ![Coming.to] = Cut] /\ setup' = [setup EXCEPT !.began = TRUE]
      /\ UNCHANGED <<folders, layout, setups, forced, killed, broke>>
  BY DEF BeginFile
<1>2. TypedInv
  BY DEF SetupInv
<1>3. /\ setup'.kind = setup.kind /\ setup'.writes = setup.writes
      /\ setup'.began = TRUE /\ setup'.found = setup.found
      /\ setup' = [kind |-> setup'.kind, writes |-> setup'.writes, began |-> setup'.began, found |-> setup'.found]
  BY <1>1, <1>2 DEF TypedInv
<1>4. Pending' = Pending /\ Coming' = Coming
  BY <1>3 DEF Pending, Coming
<1>5. Coming \in Pending /\ WriteTo(Coming, Coming.to) /\ Coming.to \in SetupFiles
  <2>1. Coming \in Pending
    BY <1>1, <1>2, HeadAndTail DEF TypedInv, Pending, Coming
  <2>2. Comes(Coming)
    BY <1>2, <2>1 DEF TypedInv
  <2> QED
    BY <1>1, <2>1, <2>2 DEF Comes, WriteTo
<1>6. disk'[Coming.to] = Cut /\ \A file \in SetupFiles : file # Coming.to => disk'[file] = disk[file]
  BY <1>1, <1>2, <1>5 DEF TypedInv
<1>7. TypedInv'
  <2>1. setup'.kind \in Kinds /\ setup'.kind # "none"
    BY <1>1, <1>2, <1>3 DEF TypedInv, NoCommand
  <2>2. DOMAIN disk' = SetupFiles
    BY <1>1, <1>2 DEF TypedInv
  <2>3. \A file \in SetupFiles : Holds(file, disk'[file])
    BY <1>2, <1>6 DEF TypedInv, Typed, Holds, OfItsName
  <2>4. \A w \in Pending' : Comes(w)
    BY <1>2, <1>4 DEF TypedInv
  <2>5. IsSeq(setup'.writes) /\ setup'.writes # <<>> /\ Coming'.body.kind # "source"
    BY <1>1, <1>2, <1>3, <1>4 DEF TypedInv
  <2>6. /\ layout' \in Layouts /\ DOMAIN folders' = Folders
        /\ setups' \in 0..MaxSetups /\ forced' \subseteq SetupFiles /\ killed' \in BOOLEAN
    BY <1>1, <1>2 DEF TypedInv
  <2> QED
    BY <1>1, <1>3, <2>1, <2>2, <2>3, <2>4, <2>5, <2>6 DEF TypedInv, Typed, Holds, OfItsName, Comes, IsSeq
<1>8. CutInv'
  <2>1. ASSUME ~ killed, NEW file \in SetupFiles, disk'[file] = Cut PROVE file = Coming.to
    BY <1>1, <1>6, <2>1 DEF SetupInv, CutInv, BeginFile
  <2> QED
    BY <1>1, <1>3, <1>4, <2>1 DEF CutInv
<1>9. EndInv'
  <2> SUFFICES ASSUME setup'.kind # "none", setup'.found \subseteq {"orphan"}, NEW files, Left(Pending, files)',
                      NEW f \in Diagnosis(files) \ setup'.found
               PROVE  Allowed(setup.kind, f)'
    BY DEF EndInv, EndsWell
  <2>1. Left(Pending, files)
    BY <1>4, <1>5, <1>6 DEF Left, Leaves, WriteTo
  <2> QED
    BY <1>1, <1>3, <2>1 DEF SetupInv, EndInv, EndsWell, Allowed, Misnamed
<1>10. BrokeInv'
  BY <1>1 DEF SetupInv, BrokeInv, Allowed, Misnamed
<1>11. UserInv'
  <2> SUFFICES ASSUME NEW file \in DOMAIN layout.files \ forced
               PROVE  UsersFile(file, layout.files[file])'
    BY <1>1 DEF UserInv
  <2> PICK x : x = layout.files[file]
    OBVIOUS
  <2>1. UsersFile(file, x)
    BY DEF SetupInv, UserInv
  <2>2. file \in SetupFiles /\ RepoFile \in SetupFiles
    BY <1>2, LayoutsAreWhole, FilesAre DEF TypedInv
  <2>3. disk[RepoFile] # Missing => disk'[RepoFile] # Missing
    BY <1>6, <2>2, BodiesAre
  <2>4. disk'[file] = IF file = Coming.to THEN Cut ELSE disk[file]
    BY <1>6, <2>2
  <2>5. UsersFile(file, x)'
    BY <1>1, <1>4, <1>5, <2>1, <2>3, <2>4 DEF UsersFile, Lists, WriteTo
  <2> QED
    BY <1>1, <2>5
<1> QED
  BY <1>7, <1>8, <1>9, <1>10, <1>11 DEF SetupInv

LEMMA FillKeeps == SetupInv /\ FillFile => SetupInv'
<1> SUFFICES ASSUME SetupInv, FillFile PROVE SetupInv'
  OBVIOUS
<1>1. /\ setup.began
      /\ disk' = [disk EXCEPT ![Coming.to] = Coming.body]
      /\ setup' = [setup EXCEPT !.writes = Tail(@), !.began = FALSE]
      /\ UNCHANGED <<folders, layout, setups, forced, killed, broke>>
  BY DEF FillFile
<1>2. TypedInv
  BY DEF SetupInv
<1>3. setup.writes # <<>> /\ Coming.body.kind # "source"
  BY <1>1, <1>2 DEF TypedInv
<1>4. /\ setup'.kind = setup.kind /\ setup'.writes = Tail(setup.writes)
      /\ setup'.began = FALSE /\ setup'.found = setup.found
      /\ setup' = [kind |-> setup'.kind, writes |-> setup'.writes, began |-> setup'.began, found |-> setup'.found]
  BY <1>1, <1>2 DEF TypedInv
<1>5. IsSeq(setup'.writes) /\ Pending = {Coming} \cup Pending'
  BY <1>2, <1>3, <1>4, HeadAndTail DEF TypedInv, Pending, Coming
<1>6. WriteTo(Coming, Coming.to) /\ Coming.to \in SetupFiles /\ Whole(Coming.to, Coming.body) /\ OfItsName(Coming.to, Coming.body)
  <2>1. Comes(Coming)
    BY <1>2, <1>5 DEF TypedInv
  <2> QED
    BY <1>3, <2>1 DEF Comes, WriteTo
<1>7. disk'[Coming.to] = Coming.body /\ \A file \in SetupFiles : file # Coming.to => disk'[file] = disk[file]
  BY <1>1, <1>2, <1>6 DEF TypedInv
<1>8. TypedInv'
  <2>1. setup'.kind \in Kinds /\ setup'.kind # "none"
    BY <1>2, <1>3, <1>4 DEF TypedInv, NoCommand
  <2>2. DOMAIN disk' = SetupFiles
    BY <1>1, <1>2 DEF TypedInv
  <2>3. \A file \in SetupFiles : Holds(file, disk'[file])
    BY <1>2, <1>6, <1>7 DEF TypedInv, Typed, Holds, OfItsName
  <2>4. \A w \in Pending' : Comes(w)
    BY <1>2, <1>5 DEF TypedInv
  <2>5. /\ layout' \in Layouts /\ DOMAIN folders' = Folders
        /\ setups' \in 0..MaxSetups /\ forced' \subseteq SetupFiles /\ killed' \in BOOLEAN
    BY <1>1, <1>2 DEF TypedInv
  <2> QED
    BY <1>1, <1>4, <1>5, <2>1, <2>2, <2>3, <2>4, <2>5 DEF TypedInv, Typed, Holds, OfItsName, Comes, IsSeq
<1>9. CutInv'
  <2>1. ASSUME ~ killed, NEW file \in SetupFiles, disk'[file] = Cut PROVE FALSE
    <3>1. Coming.body # Cut
      BY <1>6, WholeIs
    <3>2. file # Coming.to /\ disk[file] = Cut
      BY <1>7, <2>1, <3>1
    <3> QED
      BY <2>1, <3>2 DEF SetupInv, CutInv
  <2> QED
    BY <1>1, <2>1 DEF CutInv
<1>10. EndInv'
  <2> SUFFICES ASSUME setup'.kind # "none", setup'.found \subseteq {"orphan"}, NEW files, Left(Pending, files)',
                      NEW f \in Diagnosis(files) \ setup'.found
               PROVE  Allowed(setup.kind, f)'
    BY DEF EndInv, EndsWell
  <2>1. ASSUME NEW file \in SetupFiles PROVE Leaves(Pending, file, files[file])
    <3>1. Leaves(Pending, file, files[file])'
      BY <2>1 DEF Left
    <3>2. CASE file = Coming.to
      BY <1>5, <1>6, <1>7, <3>1, <3>2 DEF Leaves, WriteTo
    <3>3. CASE file # Coming.to
      <4>1. ~ WriteTo(Coming, file) /\ disk'[file] = disk[file]
        BY <1>7, <3>3 DEF WriteTo
      <4> QED
        BY <1>5, <3>1, <4>1 DEF Leaves, WriteTo
    <3> QED
      BY <3>2, <3>3
  <2>2. Left(Pending, files)
    BY <2>1 DEF Left
  <2> QED
    BY <1>1, <1>4, <2>2 DEF SetupInv, EndInv, EndsWell, Allowed, Misnamed
<1>11. BrokeInv'
  BY <1>1 DEF SetupInv, BrokeInv, Allowed, Misnamed
<1>12. UserInv'
  <2> SUFFICES ASSUME NEW file \in DOMAIN layout.files \ forced
               PROVE  UsersFile(file, layout.files[file])'
    BY <1>1 DEF UserInv
  <2> PICK x : x = layout.files[file]
    OBVIOUS
  <2>1. UsersFile(file, x)
    BY DEF SetupInv, UserInv
  <2>2. file \in SetupFiles /\ RepoFile \in SetupFiles
    BY <1>2, LayoutsAreWhole, FilesAre DEF TypedInv
  <2>3. Coming.body # Missing /\ (Coming.to[1] = "profile" => Coming.body.kind = "profile")
    BY <1>6, WholeIs
  <2>4. disk[RepoFile] # Missing => disk'[RepoFile] # Missing
    BY <1>7, <2>2, <2>3
  <2>5. (\E w \in Pending : WriteTo(w, RepoFile)) => disk'[RepoFile] # Missing \/ \E w \in Pending' : WriteTo(w, RepoFile)
    BY <1>5, <1>7, <2>3 DEF WriteTo
  <2>6. \/ file = Coming.to /\ disk'[file] = Coming.body
        \/ disk'[file] = disk[file]
    BY <1>7, <2>2
  <2>7. UsersFile(file, x)'
    <3>1. \A w \in Pending' : WriteTo(w, file)' => w \in Pending /\ WriteTo(w, file)
      BY <1>5 DEF WriteTo
    <3>2. file[1] \in {"unit", "repo"} => disk'[file] = x
      BY <1>5, <1>6, <2>1, <2>6 DEF UsersFile, Lists, WriteTo
    <3>3. file[1] = "profile" => killed \/ disk'[file] = Cut \/ Lists(disk'[file], x)
      BY <1>5, <1>6, <2>1, <2>3, <2>6 DEF UsersFile, Lists, WriteTo
    <3>4. file[1] = "text" => killed \/ disk'[file] \in {x, Cut, Text(MergeAgentText(x.lines))}
      BY <1>5, <1>6, <2>1, <2>6 DEF UsersFile, Lists, WriteTo
    <3>5. file[1] = "text" =>
            \/ killed
            \/ disk'[RepoFile] # Missing \/ \E w \in Pending' : WriteTo(w, RepoFile)
            \/ disk'[file] = x /\ \A w \in Pending' : ~ WriteTo(w, file)
      BY <1>5, <1>6, <2>1, <2>4, <2>5, <2>6 DEF UsersFile, Lists, WriteTo
    <3> QED
      BY <1>1, <2>1, <3>1, <3>2, <3>3, <3>4, <3>5 DEF UsersFile, Lists, WriteTo
  <2> QED
    BY <1>1, <2>7
<1> QED
  BY <1>8, <1>9, <1>10, <1>11, <1>12 DEF SetupInv

-----------------------------------------------------------------------------
(***************************************************************************)
(* Workspace::load of the files a command leaves.                          *)
(***************************************************************************)
LEMMA WiredFolders ==
  ASSUME NEW files, Typed(files)
  PROVE  Wired(files) \subseteq Folders
<1> SUFFICES ASSUME NEW d \in Wired(files) PROVE d \in Folders
  OBVIOUS
<1>1. PICK p \in ProfileNames : files[Profile(p)].kind = "profile" /\ d \in files[Profile(p)].units
  BY DEF Wired
<1>2. Profile(p) \in SetupFiles /\ Profile(p)[1] = "profile"
  BY FilesAre, NamesDiffer
<1>3. Whole(Profile(p), files[Profile(p)])
  BY <1>1, <1>2, BodiesAre DEF Typed, Holds, OfItsName
<1> QED
  BY <1>1, <1>2, <1>3, WholeIs

LEMMA Loads ==
  ASSUME NEW files, Typed(files), Faults(files) = {}
  PROVE  /\ files[RepoFile] # Cut
         /\ \A p \in ProfileNames : files[Profile(p)] # Cut
         /\ \A d \in Wired(files) : files[UnitFile(d)].kind = "unit" /\ ~ files[UnitFile(d)].unit.twice
         /\ \A d, e \in Wired(files) : d # e => files[UnitFile(d)].unit.name # files[UnitFile(e)].unit.name
<1>1. "cut" \notin Faults(files) /\ "twice" \notin Faults(files) /\ "dangling" \notin Faults(files) /\ "duplicate" \notin Faults(files)
  OBVIOUS
<1>2. \A file \in Needed(files) : files[file] # Cut
  BY <1>1 DEF Faults
<1>3. \A d \in Wired(files) : files[UnitFile(d)].kind = "unit"
  <2>1. ASSUME NEW d \in Wired(files) PROVE files[UnitFile(d)].kind = "unit"
    <3>1. files[UnitFile(d)] # Missing
      BY <1>1 DEF Faults
    <3>2. files[UnitFile(d)] # Cut
      BY <1>2 DEF Needed
    <3>3. UnitFile(d) \in SetupFiles /\ UnitFile(d)[1] = "unit"
      BY WiredFolders, FilesAre, NamesDiffer
    <3>4. Whole(UnitFile(d), files[UnitFile(d)])
      BY <3>1, <3>2, <3>3 DEF Typed, Holds, OfItsName
    <3> QED
      BY <3>3, <3>4, WholeIs
  <2> QED
    BY <2>1
<1>4. \A d \in Wired(files) : ~ files[UnitFile(d)].unit.twice
  BY <1>1, <1>3 DEF Faults
<1>5. \A d, e \in Wired(files) : d # e => files[UnitFile(d)].unit.name # files[UnitFile(e)].unit.name
  BY <1>1, <1>3 DEF Faults
<1>6. files[RepoFile] # Cut /\ \A p \in ProfileNames : files[Profile(p)] # Cut
  BY <1>2 DEF Needed
<1> QED
  BY <1>3, <1>4, <1>5, <1>6

(* The files after some of them are written whole. *)
After(files) == Typed(files) /\ \A file \in SetupFiles : files[file] = disk[file] \/ Whole(file, files[file])
NewlyWired(files) == Wired(files) \ Wired(disk)

LEMMA FaultsAfter ==
  ASSUME Typed(disk), Faults(disk) = {}, NEW files, After(files)
  PROVE  /\ "cut" \in Faults(files) => \E d \in NewlyWired(files) : disk[UnitFile(d)] = Cut /\ files[UnitFile(d)] = Cut
         /\ "dangling" \in Faults(files) => \E d \in NewlyWired(files) : files[UnitFile(d)] = Missing
         /\ "twice" \in Faults(files) => \E d \in Wired(files) :
              /\ files[UnitFile(d)].kind = "unit" /\ files[UnitFile(d)].unit.twice
              /\ d \in NewlyWired(files) \/ files[UnitFile(d)] # disk[UnitFile(d)]
         /\ "duplicate" \in Faults(files) => \E d, e \in Wired(files) :
              d # e /\ files[UnitFile(d)].unit.name = files[UnitFile(e)].unit.name
<1>1. /\ disk[RepoFile] # Cut
      /\ \A p \in ProfileNames : disk[Profile(p)] # Cut
      /\ \A d \in Wired(disk) : disk[UnitFile(d)].kind = "unit" /\ ~ disk[UnitFile(d)].unit.twice
  BY Loads
<1>2. \A file \in SetupFiles : files[file] # disk[file] => files[file] # Cut /\ files[file] # Missing
  BY WholeIs DEF After
<1>3. Wired(files) \subseteq Folders
  BY WiredFolders DEF After
<1>4. \A d \in Wired(files) : UnitFile(d) \in SetupFiles
  BY <1>3, FilesAre
<1>5. ASSUME "cut" \in Faults(files)
      PROVE  \E d \in NewlyWired(files) : disk[UnitFile(d)] = Cut /\ files[UnitFile(d)] = Cut
  <2>1. PICK file \in Needed(files) : files[file] = Cut
    BY <1>5 DEF Faults
  <2>2. files[RepoFile] # Cut /\ \A p \in ProfileNames : files[Profile(p)] # Cut
    BY <1>1, <1>2, FilesAre
  <2>3. PICK d \in Wired(files) : file = UnitFile(d)
    BY <2>1, <2>2 DEF Needed
  <2>4. disk[file] = Cut
    BY <1>2, <1>4, <2>1, <2>3
  <2>5. d \notin Wired(disk)
    BY <1>1, <2>3, <2>4, BodiesAre
  <2> QED
    BY <2>1, <2>3, <2>4, <2>5 DEF NewlyWired
<1>6. ASSUME "dangling" \in Faults(files)
      PROVE  \E d \in NewlyWired(files) : files[UnitFile(d)] = Missing
  <2>1. PICK d \in Wired(files) : files[UnitFile(d)] = Missing
    BY <1>6 DEF Faults
  <2>2. disk[UnitFile(d)] = Missing
    BY <1>2, <1>4, <2>1
  <2>3. d \notin Wired(disk)
    BY <1>1, <2>2, BodiesAre
  <2> QED
    BY <2>1, <2>3 DEF NewlyWired
<1>7. ASSUME "twice" \in Faults(files)
      PROVE  \E d \in Wired(files) :
              /\ files[UnitFile(d)].kind = "unit" /\ files[UnitFile(d)].unit.twice
              /\ d \in NewlyWired(files) \/ files[UnitFile(d)] # disk[UnitFile(d)]
  <2>1. PICK d \in Wired(files) : files[UnitFile(d)].kind = "unit" /\ files[UnitFile(d)].unit.twice
    BY <1>7 DEF Faults
  <2> QED
    BY <1>1, <2>1 DEF NewlyWired
<1>8. ASSUME "duplicate" \in Faults(files)
      PROVE  \E d, e \in Wired(files) : d # e /\ files[UnitFile(d)].unit.name = files[UnitFile(e)].unit.name
  BY <1>8 DEF Faults
<1> QED
  BY <1>5, <1>6, <1>7, <1>8

(* Two profiles have one name only where one is not called like its file.  *)
LEMMA NamesClash ==
  ASSUME NEW files, Typed(files), "profiles" \in Faults(files)
  PROVE  Misnamed
<1>1. PICK p, q \in ProfileNames :
        /\ files[Profile(p)].kind = "profile" /\ files[Profile(q)].kind = "profile"
        /\ p # q /\ files[Profile(p)].name = files[Profile(q)].name
  BY DEF Faults
<1>2. ASSUME NEW x \in ProfileNames, files[Profile(x)].kind = "profile", files[Profile(x)].name # x
      PROVE  Misnamed
  <2>1. Profile(x) \in SetupFiles /\ Profile(x)[1] = "profile" /\ Profile(x)[2] = x
    BY FilesAre, NamesDiffer
  <2>2. OfItsName(Profile(x), files[Profile(x)])
    BY <1>2, <2>1, BodiesAre DEF Typed, Holds
  <2> QED
    BY <1>2, <2>1, <2>2 DEF OfItsName, Misnamed
<1> QED
  BY <1>1, <1>2

LEMMA LeftAfter ==
  ASSUME Typed(disk), NEW P, \A w \in P : Comes(w), NEW files, Left(P, files)
  PROVE  After(files)
<1>1. ASSUME NEW file \in SetupFiles
      PROVE  files[file] = disk[file] \/ (Whole(file, files[file]) /\ OfItsName(file, files[file]))
  BY DEF Left, Leaves, WriteTo, Comes
<1> QED
  BY <1>1 DEF After, Typed, Holds

(* A command that leaves the wired units alone and as many as they are.    *)
LEMMA NothingNew ==
  ASSUME Typed(disk), Faults(disk) = {}, NEW files, After(files),
         NEW added, Wired(files) = Wired(disk) \cup added,
         \A d \in added : files[UnitFile(d)].kind = "unit" /\ ~ files[UnitFile(d)].unit.twice,
         \A d \in Folders \ added : files[UnitFile(d)] = disk[UnitFile(d)]
  PROVE  /\ Faults(files) \subseteq {"duplicate", "profiles"}
         /\ Orphans(files) \subseteq Orphans(disk)
         /\ Faults(files) = {} => Diagnosis(files) \subseteq Diagnosis(disk)
<1>1. Wired(files) \subseteq Folders
  BY WiredFolders DEF After
<1>2. NewlyWired(files) \subseteq added
  BY DEF NewlyWired
<1>3. "cut" \notin Faults(files) /\ "dangling" \notin Faults(files)
  BY <1>2, FaultsAfter, BodiesAre
<1>4. "twice" \notin Faults(files)
  <2> SUFFICES ASSUME "twice" \in Faults(files) PROVE FALSE
    OBVIOUS
  <2>1. PICK d \in Wired(files) :
              /\ files[UnitFile(d)].kind = "unit" /\ files[UnitFile(d)].unit.twice
              /\ d \in NewlyWired(files) \/ files[UnitFile(d)] # disk[UnitFile(d)]
    BY FaultsAfter
  <2>2. d \notin added
    BY <2>1
  <2> QED
    BY <1>1, <1>2, <2>1, <2>2
<1>5. Faults(files) \subseteq {"duplicate", "profiles"}
  BY <1>3, <1>4 DEF Faults
<1>6. Orphans(files) \subseteq Orphans(disk)
  <2> SUFFICES ASSUME NEW d \in Orphans(files) PROVE d \in Orphans(disk)
    OBVIOUS
  <2>1. d \in Folders \ {RootDir} /\ files[UnitFile(d)] # Missing /\ d \notin Wired(files)
    BY DEF Orphans
  <2>2. d \notin added /\ d \notin Wired(disk)
    BY <2>1
  <2> QED
    BY <2>1, <2>2 DEF Orphans
<1>7. Faults(files) = {} => Diagnosis(files) \subseteq Diagnosis(disk)
  BY <1>6 DEF Diagnosis
<1> QED
  BY <1>5, <1>6, <1>7

-----------------------------------------------------------------------------
(***************************************************************************)
(* The commands.                                                           *)
(***************************************************************************)
LEMMA WriteIs ==
  ASSUME NEW file, NEW body, body.kind # "source"
  PROVE  /\ Write(file, body).to = file /\ Write(file, body).body = body
         /\ \A g : WriteTo(Write(file, body), g) <=> g = file
  BY DEF Write, WriteTo

LEMMA WholeBodies ==
  /\ Whole(RepoFile, RepoBody)
  /\ \A p, name \in ProfileNames, units \in SUBSET Folders : Whole(Profile(p), Listing(name, units))
  /\ \A a \in AgentFiles, lines \in Seq(TextLines) : Whole(TextFile(a), Text(lines))
  /\ \A d \in Folders : \A unit, by : ~ unit.twice /\ by \notin {"turbo", "nx"} => Whole(UnitFile(d), UnitBody(unit, by))
<1>1. Whole(RepoFile, RepoBody)
  BY NamesDiffer DEF Whole
<1>2. ASSUME NEW p \in ProfileNames, NEW name \in ProfileNames, NEW units \in SUBSET Folders
      PROVE  Whole(Profile(p), Listing(name, units))
  BY NamesDiffer DEF Whole
<1>3. ASSUME NEW a \in AgentFiles, NEW lines \in Seq(TextLines) PROVE Whole(TextFile(a), Text(lines))
  <2>1. Text(Text(lines).lines) = Text(lines) /\ Text(lines).lines = lines
    BY BodiesAre
  <2> QED
    BY <2>1, NamesDiffer DEF Whole
<1>4. ASSUME NEW d \in Folders, NEW unit, NEW by, ~ unit.twice, by \notin {"turbo", "nx"}
      PROVE  Whole(UnitFile(d), UnitBody(unit, by))
  <2>1. UnitBody(unit, by).unit = unit /\ UnitBody(unit, by).by = by
    BY BodiesAre
  <2>2. WholeUnit(d, UnitBody(unit, by))
    BY <1>4, <2>1 DEF WholeUnit
  <2> QED
    BY <2>2, NamesDiffer DEF Whole
<1> QED
  BY <1>1, <1>2, <1>3, <1>4

LEMMA WriteComes ==
  ASSUME NEW file \in SetupFiles, NEW body, Whole(file, body), OfItsName(file, body)
  PROVE  Comes(Write(file, body)) /\ body.kind # "source"
  BY WholeIs, WriteIs DEF Comes

LEMMA NamedBodies ==
  /\ \A body : OfItsName(RepoFile, body)
  /\ \A x, body : OfItsName(UnitFile(x), body) /\ OfItsName(TextFile(x), body)
  /\ \A p, units : OfItsName(Profile(p), Listing(p, units))
  /\ \A units : OfItsName(Prod, Listing("prod", units))
  BY NamesDiffer, BodiesAre DEF OfItsName

(* What a command that begins finds.                                       *)
ItRests == SetupInv /\ setup = NoCommand

LEMMA IdleIs ==
  ASSUME ItRests
  PROVE  /\ Typed(disk) /\ DOMAIN disk = SetupFiles /\ layout \in Layouts /\ forced \subseteq SetupFiles
         /\ Pending = {} /\ (~ killed => \A file \in SetupFiles : disk[file] # Cut)
         /\ \A file \in DOMAIN layout.files \ forced :
              /\ file \in SetupFiles /\ Whole(file, layout.files[file])
              /\ file[1] \in {"unit", "repo"} => Exists(file)
              /\ file[1] = "profile" => killed \/ Lists(disk[file], layout.files[file])
              /\ file[1] = "text" => killed \/ Exists(RepoFile) \/ disk[file] = layout.files[file]
<1>1. setup.began = FALSE /\ setup.writes = <<>>
  BY DEF ItRests, NoCommand
<1>2. Pending = {}
  BY <1>1, RangeOfOne DEF Pending
<1>3. ~ killed => \A file \in SetupFiles : disk[file] # Cut
  BY <1>1 DEF ItRests, SetupInv, CutInv
<1>4. /\ Typed(disk) /\ DOMAIN disk = SetupFiles /\ layout \in Layouts /\ forced \subseteq SetupFiles
  BY DEF ItRests, SetupInv, TypedInv
<1>5. ASSUME NEW file \in DOMAIN layout.files \ forced
      PROVE  /\ file \in SetupFiles /\ Whole(file, layout.files[file])
             /\ file[1] \in {"unit", "repo"} => Exists(file)
             /\ file[1] = "profile" => killed \/ Lists(disk[file], layout.files[file])
             /\ file[1] = "text" => killed \/ Exists(RepoFile) \/ disk[file] = layout.files[file]
  <2>1. file \in SetupFiles /\ Whole(file, layout.files[file])
    BY <1>4, LayoutsAreWhole
  <2>2. PICK x : x = layout.files[file]
    OBVIOUS
  <2>3. UsersFile(file, x) /\ x # Missing
    BY <2>1, <2>2, WholeIs DEF ItRests, SetupInv, UserInv
  <2> QED
    BY <1>2, <1>3, <2>1, <2>2, <2>3 DEF UsersFile, Exists
<1> QED
  BY <1>2, <1>3, <1>4, <1>5

LEMMA BoxStarts ==
  ASSUME ItRests, NEW p \in ProfileNames, RunBoxAdd(p)
  PROVE  \E kind, writes : Starts(kind, writes)
<1>1. PICK w : w = Write(Profile(p), Listing(p, {}))
  OBVIOUS
<1>2. ~ Exists(Profile(p)) /\ Begin("box", <<w>>) /\ forced' = forced
  BY <1>1 DEF RunBoxAdd
<1>3. Profile(p) \in SetupFiles /\ Profile(p)[1] = "profile" /\ disk[Profile(p)] = Missing /\ Missing.kind = "missing"
  BY <1>2, FilesAre, NamesDiffer, BodiesAre DEF Exists
<1>4. IsSeq(<<w>>) /\ ToSet(<<w>>) = {w}
  BY RangeOfOne
<1>5. Comes(w) /\ Listing(p, {}).kind # "source"
  <2>1. PICK body : body = Listing(p, {})
    OBVIOUS
  <2>2. Whole(Profile(p), body) /\ OfItsName(Profile(p), body)
    BY <2>1, WholeBodies, NamedBodies
  <2> QED
    BY <1>1, <1>3, <2>1, <2>2, WriteComes
<1>6. w.body = Listing(p, {}) /\ \A g : WriteTo(w, g) <=> g = Profile(p)
  BY <1>1, <1>5, WriteIs
<1>7. ASSUME Faults(disk) = {}, NEW files, Left({w}, files), NEW f \in Diagnosis(files) \ Diagnosis(disk)
      PROVE  Allowed("box", f)
  <2>1. Typed(disk)
    BY IdleIs
  <2>2. After(files)
    BY <1>5, <1>7, <2>1, LeftAfter
  <2>3. files[Profile(p)] = Listing(p, {}) /\ \A file \in SetupFiles : file # Profile(p) => files[file] = disk[file]
    BY <1>3, <1>6, <1>7 DEF Left, Leaves
  <2>4. Wired(files) = Wired(disk) \cup {}
    <3>1. files[Profile(p)].units = {}
      BY <2>3, BodiesAre
    <3>2. \A q \in ProfileNames : q # p => files[Profile(q)] = disk[Profile(q)]
      BY <2>3, FilesAre, NamesDiffer
    <3> QED
      BY <1>3, <3>1, <3>2 DEF Wired
  <2>5. \A d \in Folders : files[UnitFile(d)] = disk[UnitFile(d)]
    BY <1>3, <2>3, FilesAre, NamesDiffer
  <2>6. Faults(files) \subseteq {"duplicate", "profiles"} /\ (Faults(files) = {} => Diagnosis(files) \subseteq Diagnosis(disk))
    <3>1. PICK added : added = {}
      OBVIOUS
    <3> QED
      BY <1>7, <2>1, <2>2, <2>4, <2>5, <3>1, NothingNew
  <2>7. "duplicate" \notin Faults(files)
    <3>1. "duplicate" \in Faults(files) =>
            \E d, e \in Wired(files) : d # e /\ files[UnitFile(d)].unit.name = files[UnitFile(e)].unit.name
      BY <1>7, <2>1, <2>2, FaultsAfter
    <3>2. \A d, e \in Wired(disk) : d # e => disk[UnitFile(d)].unit.name # disk[UnitFile(e)].unit.name
      BY <1>7, <2>1, Loads
    <3>3. Wired(disk) \subseteq Folders
      BY <2>1, WiredFolders
    <3> QED
      BY <2>4, <2>5, <3>1, <3>2, <3>3
  <2>8. f = "profiles" /\ "profiles" \in Faults(files)
    <3>1. Faults(files) # {}
      BY <1>7, <2>6
    <3> QED
      BY <1>7, <2>6, <2>7, <3>1 DEF Diagnosis
  <2>9. Misnamed
    BY <2>2, <2>8, NamesClash DEF After
  <2> QED
    BY <2>8, <2>9 DEF Allowed
<1>8. Faults(disk) = {} => EndsWell({w}, "box", Diagnosis(disk))
  BY <1>7 DEF EndsWell
<1>9. UserWrites(<<w>>)
  <2> SUFFICES ASSUME NEW file \in DOMAIN layout.files \ forced, WriteTo(w, file)
               PROVE  killed /\ file[1] = "profile"
    BY <1>2, <1>4 DEF UserWrites
  <2>1. file = Profile(p) /\ file[1] = "profile"
    BY <1>3, <1>6
  <2>2. ~ Lists(disk[file], layout.files[file])
    BY <1>3, <2>1 DEF Lists
  <2> QED
    BY <2>1, <2>2, IdleIs
<1>10. forced \subseteq forced' /\ forced' \subseteq SetupFiles /\ "box" \in Kinds \ {"none"}
  BY <1>2, IdleIs DEF Kinds
<1>11. Starts("box", <<w>>)
  BY <1>2, <1>4, <1>5, <1>8, <1>9, <1>10 DEF Starts
<1> QED
  BY <1>11

(* The unit that is added, whatever else there is made for it.             *)
Adds(d, p, sources, lang, tasks, u, w, writes) ==
  /\ disk[Profile(p)].kind = "profile" /\ IsNew(d) /\ ~ Exists(UnitFile(d))
  /\ \A c \in sources : c.body.kind = "source" /\ c.to \in Folders
  /\ u = Write(UnitFile(d), UnitBody(Unit(layout.base[d], lang, tasks), "add"))
  /\ w = Write(Profile(p), Listing(disk[Profile(p)].name, disk[Profile(p)].units \cup {d}))
  /\ IsSeq(writes) /\ ToSet(writes) = sources \cup {u, w}
  /\ Begin("add", writes) /\ forced' = forced

LEMMA AddStarts ==
  ASSUME ItRests, Faults(disk) = {}, NEW d \in Folders, NEW p \in ProfileNames,
         NEW sources, NEW lang, NEW tasks, NEW u, NEW w, NEW writes,
         Adds(d, p, sources, lang, tasks, u, w, writes)
  PROVE  Starts("add", writes)
<1> /\ disk[Profile(p)].kind = "profile" /\ IsNew(d) /\ ~ Exists(UnitFile(d))
    /\ \A c \in sources : c.body.kind = "source" /\ c.to \in Folders
    /\ u = Write(UnitFile(d), UnitBody(Unit(layout.base[d], lang, tasks), "add"))
    /\ w = Write(Profile(p), Listing(disk[Profile(p)].name, disk[Profile(p)].units \cup {d}))
    /\ IsSeq(writes) /\ ToSet(writes) = sources \cup {u, w}
    /\ Begin("add", writes) /\ forced' = forced
  BY DEF Adds
<1>1. PICK body : body = UnitBody(Unit(layout.base[d], lang, tasks), "add")
  OBVIOUS
<1>2. PICK name, units : name = disk[Profile(p)].name /\ units = disk[Profile(p)].units
  OBVIOUS
<1>3. Typed(disk)
  BY IdleIs
<1>4. /\ Profile(p) \in SetupFiles /\ Profile(p)[1] = "profile"
      /\ UnitFile(d) \in SetupFiles /\ UnitFile(d)[1] = "unit" /\ Profile(p) # UnitFile(d)
  <2>1. /\ Profile(p) \in SetupFiles /\ Profile(p)[1] = "profile"
        /\ UnitFile(d) \in SetupFiles /\ UnitFile(d)[1] = "unit"
    BY FilesAre, NamesDiffer
  <2> QED
    BY <2>1
<1>5. Whole(Profile(p), disk[Profile(p)]) /\ OfItsName(Profile(p), disk[Profile(p)])
      /\ name \in ProfileNames /\ units \subseteq Folders
  <2>1. Whole(Profile(p), disk[Profile(p)]) /\ OfItsName(Profile(p), disk[Profile(p)])
    BY <1>3, <1>4, BodiesAre DEF Typed, Holds, OfItsName
  <2> QED
    BY <1>2, <1>4, <2>1, WholeIs
<1>6. /\ body.kind = "unit" /\ body.unit.twice = FALSE /\ body.unit.name = layout.base[d]
      /\ Whole(UnitFile(d), body)
  <2>1. PICK unit : unit = Unit(layout.base[d], lang, tasks)
    OBVIOUS
  <2>2. unit.twice = FALSE /\ unit.name = layout.base[d]
    BY <2>1 DEF Unit
  <2>3. body = UnitBody(unit, "add")
    BY <1>1, <2>1
  <2> QED
    BY <2>2, <2>3, BodiesAre, WholeBodies
<1>7. Whole(Profile(p), Listing(name, units \cup {d})) /\ OfItsName(Profile(p), Listing(name, units \cup {d}))
  <2>1. Listing(name, units \cup {d}).name = disk[Profile(p)].name
    BY <1>2, BodiesAre
  <2> QED
    BY <1>5, <2>1, WholeBodies DEF OfItsName
<1>8. Comes(u) /\ u.body = body /\ \A g : WriteTo(u, g) <=> g = UnitFile(d)
  <2>1. u = Write(UnitFile(d), body)
    BY <1>1
  <2> QED
    BY <1>4, <1>6, <2>1, WriteComes, WriteIs, NamedBodies
<1>9. Comes(w) /\ w.body = Listing(name, units \cup {d}) /\ \A g : WriteTo(w, g) <=> g = Profile(p)
  <2>1. PICK listing : listing = Listing(name, units \cup {d})
    OBVIOUS
  <2>2. w = Write(Profile(p), listing) /\ listing.kind # "source"
    BY <1>2, <2>1, BodiesAre
  <2>3. Whole(Profile(p), listing) /\ OfItsName(Profile(p), listing)
    BY <1>7, <2>1
  <2>4. Comes(Write(Profile(p), listing))
    BY <1>4, <2>3, WriteComes
  <2>5. /\ Write(Profile(p), listing).body = listing
        /\ \A g : WriteTo(Write(Profile(p), listing), g) <=> g = Profile(p)
    BY <2>2, WriteIs
  <2> QED
    BY <2>1, <2>2, <2>4, <2>5
<1>10. \A c \in ToSet(writes) : Comes(c) /\ \A g : WriteTo(c, g) => c \in {u, w}
  BY <1>8, <1>9 DEF Comes, WriteTo
<1>11. ASSUME NEW files, Left(ToSet(writes), files)
       PROVE  Diagnosis(files) \subseteq Diagnosis(disk)
  <2>1. After(files)
    BY <1>3, <1>10, <1>11, LeftAfter
  <2>2. ASSUME NEW g \in SetupFiles
        PROVE  /\ g = UnitFile(d) => files[g] = body
               /\ g = Profile(p) => files[g] = Listing(name, units \cup {d})
               /\ g \notin {UnitFile(d), Profile(p)} => files[g] = disk[g]
    <3>1. Leaves(ToSet(writes), g, files[g])
      BY <1>11 DEF Left
    <3>2. u \in ToSet(writes) /\ w \in ToSet(writes)
      OBVIOUS
    <3> QED
      BY <1>4, <1>8, <1>9, <1>10, <3>1, <3>2 DEF Leaves
  <2>3. files[UnitFile(d)] = body
    BY <1>4, <2>2
  <2>4. PICK added : added = {d}
    OBVIOUS
  <2>5. Wired(files) = Wired(disk) \cup added
    <3>1. files[Profile(p)].units = units \cup {d} /\ files[Profile(p)].kind = "profile"
      BY <1>4, <2>2, BodiesAre
    <3>2. \A q \in ProfileNames : q # p => files[Profile(q)] = disk[Profile(q)]
      BY <1>4, <2>2, FilesAre, NamesDiffer
    <3> QED
      BY <1>2, <2>4, <3>1, <3>2 DEF Wired
  <2>6. \A e \in Folders \ added : files[UnitFile(e)] = disk[UnitFile(e)]
    BY <1>4, <2>2, <2>4, FilesAre, NamesDiffer
  <2>7. Faults(files) \subseteq {"duplicate", "profiles"} /\ (Faults(files) = {} => Diagnosis(files) \subseteq Diagnosis(disk))
    <3>1. \A e \in added : files[UnitFile(e)].kind = "unit" /\ ~ files[UnitFile(e)].unit.twice
      BY <1>6, <2>3, <2>4
    <3> QED
      BY <1>3, <2>1, <2>5, <2>6, <3>1, NothingNew
  <2>8. "duplicate" \notin Faults(files)
    <3>1. "duplicate" \in Faults(files) =>
            \E a, b \in Wired(files) : a # b /\ files[UnitFile(a)].unit.name = files[UnitFile(b)].unit.name
      BY <1>3, <2>1, FaultsAfter
    <3>2. \A a, b \in Wired(disk) : a # b => disk[UnitFile(a)].unit.name # disk[UnitFile(b)].unit.name
      BY <1>3, Loads
    <3>3. Wired(disk) \subseteq Folders
      BY <1>3, WiredFolders
    <3>4. \A e \in Wired(disk) : e # d /\ disk[UnitFile(e)].unit.name # layout.base[d]
      BY DEF IsNew
    <3>5. \A e \in Wired(disk) : files[UnitFile(e)] = disk[UnitFile(e)]
      BY <2>4, <2>6, <3>3, <3>4
    <3> QED
      BY <1>6, <2>3, <2>4, <2>5, <3>1, <3>2, <3>4, <3>5
  <2>9. "profiles" \notin Faults(files)
    <3>1. ASSUME NEW q \in ProfileNames, files[Profile(q)].kind = "profile"
          PROVE  disk[Profile(q)].kind = "profile" /\ disk[Profile(q)].name = files[Profile(q)].name
      <4>1. CASE q = p
        BY <1>2, <1>4, <2>2, <4>1, BodiesAre
      <4>2. CASE q # p
        BY <1>4, <2>2, <3>1, <4>2, FilesAre, NamesDiffer
      <4> QED
        BY <4>1, <4>2
    <3>2. "profiles" \notin Faults(disk)
      OBVIOUS
    <3> QED
      BY <3>1, <3>2 DEF Faults
  <2> QED
    BY <2>7, <2>8, <2>9
<1>12. EndsWell(ToSet(writes), "add", Diagnosis(disk))
  BY <1>11 DEF EndsWell
<1>13. UserWrites(writes)
  <2> SUFFICES ASSUME NEW file \in DOMAIN layout.files \ forced, NEW c \in ToSet(writes), WriteTo(c, file)
               PROVE  file[1] = "profile" /\ (killed \/ layout.files[file].units \subseteq c.body.units)
    BY DEF UserWrites
  <2>1. file # UnitFile(d)
    BY <1>4, IdleIs
  <2>2. c = w /\ file = Profile(p)
    BY <1>8, <1>9, <1>10, <2>1
  <2>3. killed \/ Lists(disk[file], layout.files[file])
    BY <1>4, <2>2, IdleIs
  <2>4. c.body.units = units \cup {d}
    BY <1>9, <2>2, BodiesAre
  <2> QED
    BY <1>2, <1>4, <2>2, <2>3, <2>4 DEF Lists
<1>14. forced \subseteq forced' /\ forced' \subseteq SetupFiles /\ "add" \in Kinds \ {"none"}
  BY IdleIs DEF Kinds
<1> QED
  BY <1>10, <1>12, <1>13, <1>14 DEF Starts

LEMMA ScaffoldedIsSeq == \A lang : IsSeq(Scaffolded(lang))
<1> SUFFICES ASSUME NEW lang PROVE IsSeq(Scaffolded(lang))
  OBVIOUS
<1>1. PICK S : S = {"go.mod", "source", "package.json", "tsconfig.json", ".nvmrc", "pyproject.toml", ".python-version",
                    "Cargo.toml", "rust-toolchain.toml", "deno.json", "Gemfile", ".ruby-version", "composer.json",
                    ".php-version", "pom.xml", ".java-version", "settings.gradle", "build.gradle.kts"}
  OBVIOUS
<1>2. /\ ScaffoldGo \in Seq(S) /\ ScaffoldJs \in Seq(S) /\ ScaffoldPython \in Seq(S) /\ ScaffoldCargo \in Seq(S)
      /\ ScaffoldDeno \in Seq(S) /\ ScaffoldRuby \in Seq(S) /\ ScaffoldPhp \in Seq(S) /\ ScaffoldMaven \in Seq(S)
      /\ ScaffoldGradle \in Seq(S)
  BY <1>1 DEF ScaffoldGo, ScaffoldJs, ScaffoldPython, ScaffoldCargo, ScaffoldDeno, ScaffoldRuby, ScaffoldPhp,
              ScaffoldMaven, ScaffoldGradle
<1>3. Scaffolded(lang) \in {ScaffoldGo, ScaffoldJs, ScaffoldPython, ScaffoldCargo, ScaffoldDeno, ScaffoldRuby,
                            ScaffoldPhp, ScaffoldMaven, ScaffoldGradle}
  BY DEF Scaffolded
<1>4. PICK s : s = Scaffolded(lang)
  OBVIOUS
<1>5. s \in Seq(S)
  BY <1>2, <1>3, <1>4
<1> QED
  BY <1>4, <1>5, RangeIsSeq

Scaffolds(s, d, sources, language, tasks) ==
  /\ \A c \in sources : c.body.kind = "source" /\ c.to \in Folders
  /\ IsSeq(s)
  /\ ToSet(s) = sources \cup {Write(UnitFile(d), UnitBody(Unit(layout.base[d], language, tasks), "add"))}

LEMMA ScaffoldWritesAre ==
  ASSUME NEW d \in Folders, NEW lang
  PROVE  \E sources, language, tasks : Scaffolds(ScaffoldWrites(d, lang), d, sources, language, tasks)
<1>1. PICK names : names = Scaffolded(lang)
  OBVIOUS
<1>2. PICK f : f = [n \in DOMAIN names |-> Create(d, names[n])]
  OBVIOUS
<1>3. PICK language : language = IF lang = "python-uv" THEN "python" ELSE lang
  OBVIOUS
<1>4. PICK tasks : tasks = {"build", "test", "lint"}
  OBVIOUS
<1>5. PICK u : u = Write(UnitFile(d), UnitBody(Unit(layout.base[d], language, tasks), "add"))
  OBVIOUS
<1>6. ScaffoldWrites(d, lang) = f \o <<u>>
  BY <1>1, <1>2, <1>3, <1>4, <1>5 DEF ScaffoldWrites
<1>7. \A n \in DOMAIN f : f[n].body.kind = "source" /\ f[n].to \in Folders
  BY <1>2 DEF Create
<1>8. IsSeq(f) /\ \A c \in ToSet(f) : c.body.kind = "source" /\ c.to \in Folders
  <2>1. names \in Seq(ToSet(names))
    BY <1>1, ScaffoldedIsSeq DEF IsSeq
  <2>2. f = [n \in DOMAIN names |-> f[n]] /\ DOMAIN f = DOMAIN names
    BY <1>2
  <2>3. IsSeq(f) /\ ToSet(f) = {f[n] : n \in DOMAIN names}
    BY <2>1, <2>2, RangeOfList
  <2> QED
    BY <1>7, <2>2, <2>3
<1>9. IsSeq(f \o <<u>>) /\ ToSet(f \o <<u>>) = ToSet(f) \cup {u}
  <2>1. IsSeq(<<u>>) /\ ToSet(<<u>>) = {u}
    BY RangeOfOne
  <2>2. PICK t : t = <<u>>
    OBVIOUS
  <2> QED
    BY <1>8, <2>1, <2>2, RangeOfConcat
<1>10. Scaffolds(ScaffoldWrites(d, lang), d, ToSet(f), language, tasks)
  BY <1>5, <1>6, <1>8, <1>9 DEF Scaffolds
<1> QED
  BY <1>10

LEMMA UnitAddStarts ==
  ASSUME ItRests, NEW d \in Folders, NEW p \in ProfileNames, RunUnitAdd(d, p)
  PROVE  \E kind, writes : Starts(kind, writes)
<1>1. Faults(disk) = {} /\ disk[Profile(p)].kind = "profile" /\ IsNew(d) /\ forced' = forced
  BY DEF RunUnitAdd
<1>2. PICK w : w = Write(Profile(p), Listing(disk[Profile(p)].name, disk[Profile(p)].units \cup {d}))
  OBVIOUS
<1>3. Wire(d, p) = <<w>> /\ IsSeq(<<w>>) /\ ToSet(<<w>>) = {w}
  BY <1>2, RangeOfOne DEF Wire
<1>4. CASE \E lang \in Languages : Empty(d) /\ Begin("add", ScaffoldWrites(d, lang) \o Wire(d, p))
  <2>1. PICK lang \in Languages : Empty(d) /\ Begin("add", ScaffoldWrites(d, lang) \o Wire(d, p))
    BY <1>4
  <2>2. PICK s : s = ScaffoldWrites(d, lang)
    OBVIOUS
  <2>3. PICK sources, language, tasks :
           /\ \A c \in sources : c.body.kind = "source" /\ c.to \in Folders
           /\ IsSeq(s)
           /\ ToSet(s) = sources \cup {Write(UnitFile(d), UnitBody(Unit(layout.base[d], language, tasks), "add"))}
    <3>1. \E sources, language, tasks : Scaffolds(s, d, sources, language, tasks)
      BY <2>2, ScaffoldWritesAre
    <3> QED
      BY <3>1 DEF Scaffolds
  <2>4. PICK u : u = Write(UnitFile(d), UnitBody(Unit(layout.base[d], language, tasks), "add"))
    OBVIOUS
  <2>5. PICK t : t = <<w>>
    OBVIOUS
  <2>6. PICK writes : writes = s \o t
    OBVIOUS
  <2>7. IsSeq(writes) /\ ToSet(writes) = sources \cup {u, w}
    <3>1. IsSeq(s) /\ IsSeq(t) /\ ToSet(t) = {w}
      BY <1>3, <2>3, <2>5
    <3>2. IsSeq(writes) /\ ToSet(writes) = ToSet(s) \cup ToSet(t)
      BY <2>6, <3>1, RangeOfConcat
    <3> QED
      BY <2>3, <2>4, <3>1, <3>2
  <2>8. ~ Exists(UnitFile(d)) /\ Begin("add", writes)
    BY <1>3, <2>1, <2>2, <2>5, <2>6 DEF Empty
  <2>9. Starts("add", writes)
    <3>1. Adds(d, p, sources, language, tasks, u, w, writes)
      BY <1>1, <1>2, <2>3, <2>4, <2>7, <2>8 DEF Adds
    <3> QED
      BY <1>1, <3>1, AddStarts
  <2> QED
    BY <2>9
<1>5. CASE \E lang \in ToSet(Lang!Builtin) : Adoptable(d, lang) /\ Begin("add", AdoptWrites(d, lang) \o Wire(d, p))
  <2>1. PICK lang \in ToSet(Lang!Builtin) : Adoptable(d, lang) /\ Begin("add", AdoptWrites(d, lang) \o Wire(d, p))
    BY <1>5
  <2>2. PICK u : u = Write(UnitFile(d), UnitBody(Unit(layout.base[d], lang, {}), "add"))
    OBVIOUS
  <2>3. PICK s, t, writes : s = <<u>> /\ t = <<w>> /\ writes = s \o t
    OBVIOUS
  <2>4. PICK sources : sources = {}
    OBVIOUS
  <2>5. IsSeq(writes) /\ ToSet(writes) = sources \cup {u, w}
    <3>1. IsSeq(s) /\ ToSet(s) = {u} /\ IsSeq(t) /\ ToSet(t) = {w}
      BY <2>3, RangeOfOne
    <3>2. IsSeq(writes) /\ ToSet(writes) = ToSet(s) \cup ToSet(t)
      BY <2>3, <3>1, RangeOfConcat
    <3> QED
      BY <2>4, <3>1, <3>2
  <2>6. ~ Exists(UnitFile(d)) /\ Begin("add", writes)
    BY <1>3, <2>1, <2>2, <2>3 DEF Adoptable, AdoptWrites
  <2>7. \A c \in sources : c.body.kind = "source" /\ c.to \in Folders
    BY <2>4
  <2>8. Starts("add", writes)
    <3>1. Adds(d, p, sources, lang, {}, u, w, writes)
      BY <1>1, <1>2, <2>2, <2>5, <2>6, <2>7 DEF Adds
    <3> QED
      BY <1>1, <3>1, AddStarts
  <2> QED
    BY <2>8
<1> QED
  BY <1>4, <1>5 DEF RunUnitAdd

LEMMA UnitWritesAre ==
  ASSUME NEW dirs, IsFiniteSet(dirs), NEW unitOf, NEW by
  PROVE  /\ IsSeq(UnitWrites(dirs, unitOf, by))
         /\ ToSet(UnitWrites(dirs, unitOf, by)) = {Write(UnitFile(d), UnitBody(unitOf[d], by)) : d \in dirs}
<1>1. PICK order : order = SetToSeq(dirs)
  OBVIOUS
<1>2. order \in Seq(dirs) /\ ToSet(order) = dirs
  BY <1>1, ListOfSet
<1>3. PICK f : f = [n \in DOMAIN order |-> Write(UnitFile(order[n]), UnitBody(unitOf[order[n]], by))]
  OBVIOUS
<1>4. f = UnitWrites(dirs, unitOf, by)
  BY <1>1, <1>3 DEF UnitWrites
<1>5. f = [n \in DOMAIN order |-> f[n]]
  BY <1>3
<1>6. IsSeq(f) /\ ToSet(f) = {f[n] : n \in DOMAIN order}
  BY <1>2, <1>5, RangeOfList
<1>7. \A n \in DOMAIN order : order[n] \in dirs /\ f[n] = Write(UnitFile(order[n]), UnitBody(unitOf[order[n]], by))
  BY <1>2, <1>3 DEF ToSet
<1>8. \A d \in dirs : \E n \in DOMAIN order : order[n] = d
  BY <1>2 DEF ToSet
<1>9. ToSet(f) = {Write(UnitFile(d), UnitBody(unitOf[d], by)) : d \in dirs}
  BY <1>6, <1>7, <1>8
<1> QED
  BY <1>4, <1>6, <1>9

IsTextWrite(w) ==
  \E a \in AgentFiles : \E lines \in Seq(TextLines) :
    /\ w = Write(TextFile(a), Text(lines))
    /\ Exists(TextFile(a)) /\ disk[TextFile(a)] # Cut => lines = MergeAgentText(disk[TextFile(a)].lines)

LEMMA TextWritesAre ==
  ASSUME Typed(disk)
  PROVE  IsSeq(TextWrites) /\ \A w \in ToSet(TextWrites) : IsTextWrite(w)
<1> DEFINE Merged(a) == IF Exists(TextFile(a)) /\ disk[TextFile(a)] # Cut
                        THEN MergeAgentText(disk[TextFile(a)].lines)
                        ELSE (IF Exists(TextFile(a)) THEN <<>> ELSE <<"header">>) \o Block
           changed == {a \in AgentFiles : Text(Merged(a)) # disk[TextFile(a)]}
<1>1. PICK order : order = SetToSeq(changed)
  OBVIOUS
<1>2. IsFiniteSet(changed)
  BY SetupAssumption, FS_Subset
<1>3. order \in Seq(changed) /\ ToSet(order) = changed
  <2> HIDE DEF changed
  <2> QED
    BY <1>1, <1>2, ListOfSet
<1>4. ASSUME NEW a \in AgentFiles PROVE IsTextWrite(Write(TextFile(a), Text(Merged(a))))
  <2>1. TextFile(a) \in SetupFiles /\ TextFile(a)[1] = "text"
    BY FilesAre, NamesDiffer
  <2>2. CASE Exists(TextFile(a)) /\ disk[TextFile(a)] # Cut
    <3>1. Whole(TextFile(a), disk[TextFile(a)])
      BY <2>1, <2>2 DEF Typed, Holds, OfItsName, Exists
    <3>2. disk[TextFile(a)].lines \in Seq(TextLines)
      BY <2>1, <3>1, WholeIs
    <3>3. Merged(a) = MergeAgentText(disk[TextFile(a)].lines) /\ Merged(a) \in Seq(TextLines)
      BY <2>2, <3>2, MergedLines
    <3> QED
      BY <3>3 DEF IsTextWrite
  <2>3. CASE ~ (Exists(TextFile(a)) /\ disk[TextFile(a)] # Cut)
    <3>1. Merged(a) \in {<<"header">> \o Block, <<>> \o Block}
      BY <2>3
    <3>2. Merged(a) \in Seq(TextLines)
      BY <3>1, BlockLines
    <3> QED
      BY <2>3, <3>2 DEF IsTextWrite
  <2> QED
    BY <2>2, <2>3
<1>5. PICK f : f = [n \in DOMAIN order |-> Write(TextFile(order[n]), Text(Merged(order[n])))]
  OBVIOUS
<1>6. f = TextWrites
  BY <1>1, <1>5 DEF TextWrites
<1>7. f = [n \in DOMAIN order |-> f[n]]
  BY <1>5
<1>8. \A n \in DOMAIN order : order[n] \in AgentFiles
  BY <1>3 DEF ToSet
<1>9. \A n \in DOMAIN order : IsTextWrite(f[n])
  <2> HIDE DEF Merged
  <2> QED
    BY <1>4, <1>5, <1>8
<1>10. IsSeq(f) /\ ToSet(f) = {f[n] : n \in DOMAIN order}
  BY <1>3, <1>7, RangeOfList
<1> QED
  BY <1>6, <1>9, <1>10

(* The writes of init: the directories that are listed, those of them      *)
(* whose unit.toml is new, and the texts.                                  *)
Inits(detected, new, P) ==
  /\ new = {d \in detected : ~ Exists(UnitFile(d))} /\ detected \subseteq Folders \ {RootDir}
  /\ ~ Exists(RepoFile) /\ ~ Exists(Prod)
  /\ Write(RepoFile, RepoBody) \in P /\ Write(Prod, Listing("prod", detected)) \in P
  /\ \A d \in new : \E unit : ~ unit.twice /\ Write(UnitFile(d), UnitBody(unit, "init")) \in P
  /\ \A w \in P :
       \/ w = Write(RepoFile, RepoBody) \/ w = Write(Prod, Listing("prod", detected))
       \/ \E d \in new : \E unit : ~ unit.twice /\ w = Write(UnitFile(d), UnitBody(unit, "init"))
       \/ IsTextWrite(w)

LEMMA InitWritesAre ==
  ASSUME NEW detected, NEW new, NEW P, Inits(detected, new, P)
  PROVE  /\ \A w \in P : Comes(w) /\ w.body.kind # "source"
         /\ \E w \in P : WriteTo(w, RepoFile)
         /\ \E w \in P : WriteTo(w, Prod)
         /\ \A w \in P : WriteTo(w, Prod) => w.body = Listing("prod", detected)
         /\ \A d \in new : \E w \in P : WriteTo(w, UnitFile(d))
         /\ \A w \in P : \A d : WriteTo(w, UnitFile(d)) => d \in new
         /\ \A w \in P : \A p : WriteTo(w, Profile(p)) => p = "prod"
         /\ \A w \in P : \A a : WriteTo(w, TextFile(a)) =>
              \/ ~ Exists(TextFile(a)) \/ disk[TextFile(a)] = Cut
              \/ w.body = Text(MergeAgentText(disk[TextFile(a)].lines))
<1>1. PICK r : r = Write(RepoFile, RepoBody)
  OBVIOUS
<1>2. PICK listing : listing = Listing("prod", detected)
  OBVIOUS
<1>3. PICK q : q = Write(Prod, listing)
  OBVIOUS
<1>4. /\ detected \subseteq Folders /\ new \subseteq detected /\ r \in P /\ q \in P
      /\ \A d \in new : \E unit : ~ unit.twice /\ Write(UnitFile(d), UnitBody(unit, "init")) \in P
      /\ \A w \in P :
           \/ w = r \/ w = q
           \/ \E d \in new : \E unit : ~ unit.twice /\ w = Write(UnitFile(d), UnitBody(unit, "init"))
           \/ IsTextWrite(w)
  BY <1>1, <1>2, <1>3 DEF Inits
<1>5. Comes(r) /\ r.body.kind # "source" /\ \A g : WriteTo(r, g) <=> g = RepoFile
  <2>1. RepoFile \in SetupFiles /\ Whole(RepoFile, RepoBody)
    BY FilesAre, WholeBodies
  <2>2. Comes(r) /\ RepoBody.kind # "source"
    BY <1>1, <2>1, WriteComes, NamedBodies
  <2> QED
    BY <1>1, <2>2, WriteIs
<1>6. Comes(q) /\ q.body.kind # "source" /\ q.body = listing /\ \A g : WriteTo(q, g) <=> g = Prod
  <2>1. Prod \in SetupFiles /\ Whole(Prod, listing) /\ OfItsName(Prod, listing)
    BY <1>2, <1>4, FilesAre, WholeBodies, NamedBodies, NamesDiffer, SetupAssumption
  <2>2. Comes(q) /\ listing.kind # "source"
    BY <1>3, <2>1, WriteComes
  <2> QED
    BY <1>3, <2>2, WriteIs
<1>7. ASSUME NEW d \in new, NEW unit, ~ unit.twice, NEW w, w = Write(UnitFile(d), UnitBody(unit, "init"))
      PROVE  Comes(w) /\ w.body.kind # "source" /\ \A g : WriteTo(w, g) <=> g = UnitFile(d)
  <2>1. PICK body : body = UnitBody(unit, "init")
    OBVIOUS
  <2>2. d \in Folders /\ UnitFile(d) \in SetupFiles
    BY <1>4, FilesAre
  <2>3. Whole(UnitFile(d), body)
    BY <1>7, <2>1, <2>2, WholeBodies
  <2>4. w = Write(UnitFile(d), body)
    BY <1>7, <2>1
  <2>5. Comes(w) /\ body.kind # "source"
    BY <2>2, <2>3, <2>4, WriteComes, NamedBodies
  <2> QED
    BY <2>4, <2>5, WriteIs
<1>8. ASSUME NEW w, IsTextWrite(w)
      PROVE  \E a \in AgentFiles :
               /\ Comes(w) /\ w.body.kind # "source" /\ \A g : WriteTo(w, g) <=> g = TextFile(a)
               /\ \/ ~ Exists(TextFile(a)) \/ disk[TextFile(a)] = Cut
                  \/ w.body = Text(MergeAgentText(disk[TextFile(a)].lines))
  <2>1. PICK a \in AgentFiles, lines \in Seq(TextLines) :
          /\ w = Write(TextFile(a), Text(lines))
          /\ Exists(TextFile(a)) /\ disk[TextFile(a)] # Cut => lines = MergeAgentText(disk[TextFile(a)].lines)
    BY <1>8 DEF IsTextWrite
  <2>2. PICK body : body = Text(lines)
    OBVIOUS
  <2>3. TextFile(a) \in SetupFiles /\ Whole(TextFile(a), body)
    BY <2>2, FilesAre, WholeBodies
  <2>4. w = Write(TextFile(a), body)
    BY <2>1, <2>2
  <2>5. Comes(w) /\ body.kind # "source"
    BY <2>3, <2>4, WriteComes, NamedBodies
  <2>6. w.body = body /\ \A g : WriteTo(w, g) <=> g = TextFile(a)
    BY <2>4, <2>5, WriteIs
  <2> QED
    BY <2>1, <2>2, <2>5, <2>6
<1>9. \A w \in P : Comes(w) /\ w.body.kind # "source"
  BY <1>4, <1>5, <1>6, <1>7, <1>8
<1>10. (\E w \in P : WriteTo(w, RepoFile)) /\ \E w \in P : WriteTo(w, Prod)
  BY <1>4, <1>5, <1>6
<1>11. \A d \in new : \E w \in P : WriteTo(w, UnitFile(d))
  BY <1>4, <1>7
<1>12. /\ \A x : RepoFile # UnitFile(x) /\ RepoFile # Profile(x) /\ RepoFile # TextFile(x)
       /\ \A x, y : UnitFile(x) # Profile(y) /\ UnitFile(x) # TextFile(y) /\ Profile(x) # TextFile(y)
       /\ \A x : (Profile(x) = Prod => x = "prod") /\ Prod # UnitFile(x) /\ Prod # TextFile(x)
       /\ RepoFile # Prod /\ \A x, y : UnitFile(x) = UnitFile(y) => x = y
       /\ \A x, y : TextFile(x) = TextFile(y) => x = y
  BY NamesDiffer
<1>13. ASSUME NEW w \in P
       PROVE  /\ WriteTo(w, Prod) => w.body = listing
              /\ \A d : WriteTo(w, UnitFile(d)) => d \in new
              /\ \A p : WriteTo(w, Profile(p)) => p = "prod"
              /\ \A a : WriteTo(w, TextFile(a)) =>
                   \/ ~ Exists(TextFile(a)) \/ disk[TextFile(a)] = Cut
                   \/ w.body = Text(MergeAgentText(disk[TextFile(a)].lines))
  <2>1. CASE w = r
    BY <1>5, <1>12, <2>1
  <2>2. CASE w = q
    BY <1>6, <1>12, <2>2
  <2>3. CASE \E d \in new : \E unit : ~ unit.twice /\ w = Write(UnitFile(d), UnitBody(unit, "init"))
    <3>1. PICK d \in new : \A g : WriteTo(w, g) <=> g = UnitFile(d)
      BY <1>7, <2>3
    <3> QED
      BY <1>12, <3>1
  <2>4. CASE IsTextWrite(w)
    <3>1. PICK a \in AgentFiles :
               /\ \A g : WriteTo(w, g) <=> g = TextFile(a)
               /\ \/ ~ Exists(TextFile(a)) \/ disk[TextFile(a)] = Cut
                  \/ w.body = Text(MergeAgentText(disk[TextFile(a)].lines))
      BY <1>8, <2>4
    <3> QED
      BY <1>12, <3>1
  <2> QED
    BY <1>4, <2>1, <2>2, <2>3, <2>4
<1> QED
  BY <1>2, <1>9, <1>10, <1>11, <1>13

LEMMA InitEndsWell ==
  ASSUME ItRests, Faults(disk) = {}, NEW detected, NEW new, NEW P, Inits(detected, new, P),
         NEW files, Left(P, files), NEW f \in Diagnosis(files) \ Diagnosis(disk)
  PROVE  Allowed("init", f)
<1>1. Typed(disk) /\ (~ killed => \A file \in SetupFiles : disk[file] # Cut)
  BY IdleIs
<1>2. /\ new = {d \in detected : ~ Exists(UnitFile(d))} /\ detected \subseteq Folders /\ RootDir \notin detected
      /\ ~ Exists(RepoFile) /\ ~ Exists(Prod)
  BY DEF Inits
<1>3. /\ \A w \in P : Comes(w) /\ w.body.kind # "source"
      /\ \E w \in P : WriteTo(w, Prod)
      /\ \A w \in P : WriteTo(w, Prod) => w.body = Listing("prod", detected)
      /\ \A d \in new : \E w \in P : WriteTo(w, UnitFile(d))
      /\ \A w \in P : \A d : WriteTo(w, UnitFile(d)) => d \in new
      /\ \A w \in P : \A p : WriteTo(w, Profile(p)) => p = "prod"
  BY InitWritesAre
<1>4. After(files)
  BY <1>1, <1>3, LeftAfter
<1>5. \A d \in Folders \ new : files[UnitFile(d)] = disk[UnitFile(d)]
  BY <1>3, FilesAre DEF Left, Leaves
<1>6. \A d \in new : files[UnitFile(d)] # Missing
  <2>1. ASSUME NEW d \in new PROVE files[UnitFile(d)] # Missing
    <3>1. UnitFile(d) \in SetupFiles
      BY <1>2, FilesAre
    <3>2. PICK w \in P : WriteTo(w, UnitFile(d)) /\ files[UnitFile(d)] = w.body
      BY <1>3, <3>1 DEF Left, Leaves
    <3>3. Whole(UnitFile(d), w.body)
      BY <1>3, <3>2 DEF Comes, WriteTo
    <3> QED
      BY <3>1, <3>2, <3>3, WholeIs
  <2> QED
    BY <2>1
<1>7. Wired(files) = Wired(disk) \cup detected
  <2>1. Prod \in SetupFiles /\ Prod = Profile("prod") /\ "prod" \in ProfileNames
    BY FilesAre, NamesDiffer, SetupAssumption
  <2>2. files[Prod] = Listing("prod", detected)
    BY <1>3, <2>1 DEF Left, Leaves
  <2>3. \A p \in ProfileNames \ {"prod"} : files[Profile(p)] = disk[Profile(p)]
    BY <1>3, FilesAre DEF Left, Leaves
  <2>4. files[Prod].kind = "profile" /\ files[Prod].units = detected /\ disk[Prod].kind # "profile"
    BY <1>2, <2>2, BodiesAre DEF Exists
  <2> QED
    BY <2>1, <2>3, <2>4 DEF Wired
<1>8. Wired(files) \subseteq Folders /\ NewlyWired(files) \subseteq detected
  BY <1>4, <1>7, WiredFolders DEF After, NewlyWired
<1>9. "dangling" \notin Faults(files)
  <2> SUFFICES ASSUME "dangling" \in Faults(files) PROVE FALSE
    OBVIOUS
  <2>1. PICK d \in NewlyWired(files) : files[UnitFile(d)] = Missing
    BY <1>1, <1>4, FaultsAfter
  <2>2. d \in detected /\ d \in Folders
    BY <1>2, <1>8
  <2> QED
    BY <1>2, <1>5, <1>6, <2>1, <2>2 DEF Exists
<1>10. "twice" \notin Faults(files)
  <2> SUFFICES ASSUME "twice" \in Faults(files) PROVE FALSE
    OBVIOUS
  <2>1. PICK d \in Wired(files) :
          /\ files[UnitFile(d)].kind = "unit" /\ files[UnitFile(d)].unit.twice
          /\ d \in NewlyWired(files) \/ files[UnitFile(d)] # disk[UnitFile(d)]
    BY <1>1, <1>4, FaultsAfter
  <2>2. d \in detected
    BY <1>2, <1>5, <1>8, <2>1
  <2>3. UnitFile(d) \in SetupFiles /\ UnitFile(d)[1] = "unit" /\ UnitFile(d)[2] = d
    BY <1>8, FilesAre, NamesDiffer
  <2>4. Whole(UnitFile(d), files[UnitFile(d)])
    BY <1>4, <2>1, <2>3, BodiesAre DEF After, Typed, Holds, OfItsName
  <2>5. d = RootDir
    BY <2>1, <2>3, <2>4, WholeIs DEF WholeUnit
  <2> QED
    BY <1>2, <2>2, <2>5
<1>11. "cut" \in Faults(files) => killed
  <2> SUFFICES ASSUME "cut" \in Faults(files) PROVE killed
    OBVIOUS
  <2>1. PICK d \in NewlyWired(files) : disk[UnitFile(d)] = Cut
    BY <1>1, <1>4, FaultsAfter
  <2>2. UnitFile(d) \in SetupFiles
    BY <1>8, FilesAre DEF NewlyWired
  <2> QED
    BY <1>1, <2>1, <2>2
<1>12. CASE f \in Faults(files)
  <2>1. "profiles" \in Faults(files) => Misnamed
    BY <1>4, NamesClash DEF After
  <2> QED
    BY <1>9, <1>10, <1>11, <1>12, <2>1 DEF Allowed, Faults
<1>13. CASE f \notin Faults(files)
  <2>1. f = "orphan" /\ Orphans(files) # {}
    BY <1>13 DEF Diagnosis
  <2>2. PICK d \in Folders \ {RootDir} : files[UnitFile(d)] # Missing /\ d \notin Wired(files)
    BY <2>1 DEF Orphans
  <2>3. d \in Orphans(disk)
    BY <1>2, <1>5, <1>7, <2>2 DEF Orphans
  <2>4. "orphan" \in Diagnosis(disk)
    BY <2>3 DEF Diagnosis
  <2> QED
    BY <2>1, <2>4
<1> QED
  BY <1>12, <1>13

LEMMA InitUserWrites ==
  ASSUME ItRests, forced' = forced, NEW detected, NEW new, NEW writes, Inits(detected, new, ToSet(writes))
  PROVE  UserWrites(writes)
<1>1. PICK P : P = ToSet(writes)
  OBVIOUS
<1>2. /\ new = {d \in detected : ~ Exists(UnitFile(d))} /\ ~ Exists(RepoFile) /\ ~ Exists(Prod)
  BY DEF Inits
<1>3. /\ \A w \in P : Comes(w) /\ w.body.kind # "source"
      /\ \E w \in P : WriteTo(w, RepoFile)
      /\ \A w \in P : \A d : WriteTo(w, UnitFile(d)) => d \in new
      /\ \A w \in P : \A p : WriteTo(w, Profile(p)) => p = "prod"
      /\ \A w \in P : \A a : WriteTo(w, TextFile(a)) =>
              \/ ~ Exists(TextFile(a)) \/ disk[TextFile(a)] = Cut
              \/ w.body = Text(MergeAgentText(disk[TextFile(a)].lines))
  BY <1>1, InitWritesAre
<1>4. ASSUME NEW file \in DOMAIN layout.files \ forced, NEW w \in P, WriteTo(w, file)
      PROVE  /\ file[1] \notin {"unit", "repo"}
             /\ file[1] = "profile" => killed
             /\ file[1] = "text" => killed \/ w.body = Text(MergeAgentText(layout.files[file].lines))
  <2>1. /\ file \in SetupFiles /\ Whole(file, layout.files[file])
        /\ file[1] \in {"unit", "repo"} => Exists(file)
        /\ file[1] = "profile" => killed \/ Lists(disk[file], layout.files[file])
        /\ file[1] = "text" => killed \/ Exists(RepoFile) \/ disk[file] = layout.files[file]
    BY IdleIs
  <2>2. CASE file = RepoFile
    BY <1>2, <2>1, <2>2, NamesDiffer
  <2>3. ASSUME NEW p \in ProfileNames, file = Profile(p) PROVE killed /\ file[1] = "profile"
    <3>1. file = Prod /\ file[1] = "profile"
      BY <1>3, <1>4, <2>3, NamesDiffer
    <3>2. ~ Lists(disk[file], layout.files[file])
      BY <1>2, <3>1, BodiesAre DEF Exists, Lists
    <3> QED
      BY <2>1, <3>1, <3>2
  <2>4. ASSUME NEW d \in Folders, file = UnitFile(d) PROVE FALSE
    BY <1>2, <1>3, <1>4, <2>1, <2>4, NamesDiffer
  <2>5. ASSUME NEW a \in AgentFiles, file = TextFile(a)
        PROVE  file[1] = "text" /\ (killed \/ w.body = Text(MergeAgentText(layout.files[file].lines)))
    <3>1. file[1] = "text"
      BY <2>5, NamesDiffer
    <3>2. killed \/ disk[file] = layout.files[file]
      BY <1>2, <2>1, <3>1
    <3>3. layout.files[file] # Missing /\ layout.files[file] # Cut
      BY <2>1, WholeIs
    <3> QED
      BY <1>3, <1>4, <2>5, <3>1, <3>2, <3>3 DEF Exists
  <2> QED
    BY <2>1, <2>2, <2>3, <2>4, <2>5, FilesAre
<1> QED
  BY <1>1, <1>3, <1>4 DEF UserWrites

LEMMA InitStarts ==
  ASSUME ItRests, NEW detected \in SUBSET (Folders \ {RootDir}), InitWith(detected)
  PROVE  \E kind, writes : Starts(kind, writes)
<1>1. PICK new : new = {d \in detected : ~ Exists(UnitFile(d))}
  OBVIOUS
<1>2. PICK unitOf : unitOf = [d \in new |-> Unit(layout.base[d], Lang!Detect(folders[d]), {})]
  OBVIOUS
<1>3. PICK s, u, t, writes : s = <<Write(RepoFile, RepoBody), Write(Prod, Listing("prod", detected))>>
        /\ u = UnitWrites(new, unitOf, "init") /\ t = TextWrites /\ writes = (s \o u) \o t
  OBVIOUS
<1>4. ~ Exists(RepoFile) /\ ~ Exists(Prod) /\ Begin("init", writes) /\ forced' = forced
  BY <1>1, <1>2, <1>3 DEF InitWith
<1>5. IsFiniteSet(new)
  <2>1. new \subseteq Folders
    BY <1>1
  <2> QED
    BY <2>1, FS_Subset, SetupAssumption
<1>6. IsSeq(u) /\ ToSet(u) = {Write(UnitFile(d), UnitBody(unitOf[d], "init")) : d \in new}
  BY <1>3, <1>5, UnitWritesAre
<1>7. IsSeq(t) /\ \A w \in ToSet(t) : IsTextWrite(w)
  BY <1>3, IdleIs, TextWritesAre
<1>8. IsSeq(s) /\ ToSet(s) = {Write(RepoFile, RepoBody), Write(Prod, Listing("prod", detected))}
  BY <1>3, RangeOfTwo
<1>9. IsSeq(writes) /\ ToSet(writes) = (ToSet(s) \cup ToSet(u)) \cup ToSet(t)
  <2>1. PICK v : v = s \o u
    OBVIOUS
  <2>2. IsSeq(v) /\ ToSet(v) = ToSet(s) \cup ToSet(u)
    BY <1>6, <1>8, <2>1, RangeOfConcat
  <2>3. writes = v \o t
    BY <1>3, <2>1
  <2>4. IsSeq(v \o t) /\ ToSet(v \o t) = ToSet(v) \cup ToSet(t)
    BY <1>7, <2>2, RangeOfConcat
  <2> QED
    BY <2>2, <2>3, <2>4
<1>10. \A d \in new : unitOf[d].twice = FALSE
  BY <1>2 DEF Unit
<1>11. Inits(detected, new, ToSet(writes))
  <2>1. ASSUME NEW d \in new PROVE ~ unitOf[d].twice /\ Write(UnitFile(d), UnitBody(unitOf[d], "init")) \in ToSet(writes)
    BY <1>6, <1>9, <1>10
  <2>2. ASSUME NEW w \in ToSet(writes)
        PROVE  \/ w = Write(RepoFile, RepoBody) \/ w = Write(Prod, Listing("prod", detected))
               \/ \E d \in new : \E unit : ~ unit.twice /\ w = Write(UnitFile(d), UnitBody(unit, "init"))
               \/ IsTextWrite(w)
    <3>1. CASE w \in ToSet(u)
      <4>1. PICK d \in new : w = Write(UnitFile(d), UnitBody(unitOf[d], "init"))
        BY <1>6, <3>1
      <4> QED
        BY <1>10, <4>1
    <3> QED
      BY <1>7, <1>8, <1>9, <3>1
  <2>3. Write(RepoFile, RepoBody) \in ToSet(writes) /\ Write(Prod, Listing("prod", detected)) \in ToSet(writes)
    BY <1>8, <1>9
  <2> QED
    BY <1>1, <1>4, <2>1, <2>2, <2>3 DEF Inits
<1>12. EndsWell(ToSet(writes), "init", Diagnosis(disk)) \/ Faults(disk) # {}
  <2>1. ASSUME Faults(disk) = {}, NEW files, Left(ToSet(writes), files), NEW f \in Diagnosis(files) \ Diagnosis(disk)
        PROVE  Allowed("init", f)
    BY <1>11, <2>1, InitEndsWell
  <2> QED
    BY <2>1 DEF EndsWell
<1>13. UserWrites(writes)
  BY <1>4, <1>11, InitUserWrites
<1>14. \A w \in ToSet(writes) : Comes(w)
  BY <1>11, InitWritesAre
<1>15. forced \subseteq forced' /\ forced' \subseteq SetupFiles /\ "init" \in Kinds \ {"none"}
  BY <1>4, IdleIs DEF Kinds
<1>16. Starts("init", writes)
  BY <1>4, <1>9, <1>12, <1>13, <1>14, <1>15 DEF Starts
<1> QED
  BY <1>16

(* The writes of a migration: the directories whose unit.toml is written,  *)
(* those that are listed, and whether prod.toml is kept.                   *)
Moves(tool, written, listing, keepProd, P) ==
  /\ tool \in Tools /\ written \subseteq Folders /\ listing \subseteq Folders
  /\ \A d \in written : \E w \in P : WriteTo(w, UnitFile(d))
  /\ \A w \in P : Comes(w) /\ w.body.kind # "source" /\ w.to[1] # "text"
  /\ \A w \in P : \A d : WriteTo(w, UnitFile(d)) => d \in written /\ w.body.by = tool
  /\ \A w \in P : \A p : WriteTo(w, Profile(p)) => p = "prod" /\ ~ keepProd /\ w.body = Listing("prod", listing)
  /\ \A d \in listing \ written : Exists(UnitFile(d)) /\ tool \in {"make", "rush"} /\ (tool = "rush" => d # RootDir)

LEMMA MoveEndsWell ==
  ASSUME ItRests, Faults(disk) = {}, NEW tool, NEW written, NEW listing, NEW keepProd, NEW P,
         Moves(tool, written, listing, keepProd, P),
         NEW files, Left(P, files), NEW f \in Diagnosis(files)
  PROVE  Allowed(tool, f)
<1>1. Typed(disk) /\ (~ killed => \A file \in SetupFiles : disk[file] # Cut)
  BY IdleIs
<1>2. /\ tool \in Tools /\ written \subseteq Folders /\ listing \subseteq Folders
      /\ \A d \in written : \E w \in P : WriteTo(w, UnitFile(d))
      /\ \A w \in P : Comes(w)
      /\ \A w \in P : \A d : WriteTo(w, UnitFile(d)) => d \in written /\ w.body.by = tool
      /\ \A w \in P : \A p : WriteTo(w, Profile(p)) => w.body = Listing("prod", listing)
      /\ \A d \in listing \ written : Exists(UnitFile(d)) /\ tool \in {"make", "rush"} /\ (tool = "rush" => d # RootDir)
  BY DEF Moves
<1>3. After(files)
  BY <1>1, <1>2, LeftAfter
<1>4. \A d \in Folders \ written : files[UnitFile(d)] = disk[UnitFile(d)]
  BY <1>2, FilesAre DEF Left, Leaves
<1>5. \A d \in written : Whole(UnitFile(d), files[UnitFile(d)]) /\ files[UnitFile(d)].by = tool
  <2>1. ASSUME NEW d \in written PROVE Whole(UnitFile(d), files[UnitFile(d)]) /\ files[UnitFile(d)].by = tool
    <3>1. UnitFile(d) \in SetupFiles
      BY <1>2, FilesAre
    <3>2. PICK w \in P : WriteTo(w, UnitFile(d)) /\ files[UnitFile(d)] = w.body
      BY <1>2, <3>1 DEF Left, Leaves
    <3> QED
      BY <1>2, <3>2 DEF Comes, WriteTo
  <2> QED
    BY <2>1
<1>6. Wired(files) \subseteq Wired(disk) \cup listing
  <2>1. ASSUME NEW p \in ProfileNames, files[Profile(p)] # disk[Profile(p)]
        PROVE  files[Profile(p)].units = listing
    <3>1. PICK w \in P : WriteTo(w, Profile(p)) /\ files[Profile(p)] = w.body
      BY <2>1, FilesAre DEF Left, Leaves
    <3> QED
      BY <1>2, <3>1, BodiesAre
  <2> QED
    BY <2>1 DEF Wired
<1>7. NewlyWired(files) \subseteq listing /\ Wired(files) \subseteq Folders
  BY <1>3, <1>6, WiredFolders DEF NewlyWired, After
<1>8. \A d \in Folders : UnitFile(d) \in SetupFiles /\ UnitFile(d)[1] = "unit" /\ UnitFile(d)[2] = d
  BY FilesAre, NamesDiffer
<1>9. "dangling" \notin Faults(files)
  <2> SUFFICES ASSUME "dangling" \in Faults(files) PROVE FALSE
    OBVIOUS
  <2>1. PICK d \in NewlyWired(files) : files[UnitFile(d)] = Missing
    BY <1>1, <1>3, FaultsAfter
  <2>2. d \in listing /\ d \in Folders
    BY <1>2, <1>7
  <2>3. d \notin written
    BY <1>5, <1>8, <2>1, <2>2, WholeIs
  <2> QED
    BY <1>2, <1>4, <2>1, <2>2, <2>3 DEF Exists
<1>10. "cut" \in Faults(files) => killed /\ tool \in {"make", "rush"}
  <2> SUFFICES ASSUME "cut" \in Faults(files) PROVE killed /\ tool \in {"make", "rush"}
    OBVIOUS
  <2>1. PICK d \in NewlyWired(files) : disk[UnitFile(d)] = Cut /\ files[UnitFile(d)] = Cut
    BY <1>1, <1>3, FaultsAfter
  <2>2. d \in listing /\ d \in Folders
    BY <1>2, <1>7
  <2>3. d \notin written
    BY <1>5, <1>8, <2>1, <2>2, WholeIs
  <2> QED
    BY <1>1, <1>2, <1>8, <2>1, <2>2, <2>3
<1>11. "twice" \in Faults(files) => tool = "make"
  <2> SUFFICES ASSUME "twice" \in Faults(files) PROVE tool = "make"
    OBVIOUS
  <2>1. PICK d \in Wired(files) :
          /\ files[UnitFile(d)].kind = "unit" /\ files[UnitFile(d)].unit.twice
          /\ d \in NewlyWired(files) \/ files[UnitFile(d)] # disk[UnitFile(d)]
    BY <1>1, <1>3, FaultsAfter
  <2>2. d \in Folders
    BY <1>7
  <2>3. Whole(UnitFile(d), files[UnitFile(d)])
    BY <1>3, <1>8, <2>1, <2>2, BodiesAre DEF After, Typed, Holds, OfItsName
  <2>4. d = RootDir /\ files[UnitFile(d)].by = "make"
    BY <1>8, <2>1, <2>2, <2>3, WholeIs DEF WholeUnit
  <2>5. CASE d \in written
    BY <1>5, <2>4, <2>5
  <2>6. CASE d \notin written
    BY <1>2, <1>4, <1>7, <2>1, <2>2, <2>4, <2>6
  <2> QED
    BY <2>5, <2>6
<1>12. CASE f \in Faults(files)
  <2>1. "profiles" \in Faults(files) => Misnamed
    BY <1>3, NamesClash DEF After
  <2> QED
    BY <1>2, <1>9, <1>10, <1>11, <1>12, <2>1 DEF Allowed, Faults
<1>13. CASE f \notin Faults(files)
  <2>1. f = "orphan"
    BY <1>13 DEF Diagnosis
  <2> QED
    BY <1>2, <2>1 DEF Allowed, Misnamed
<1> QED
  BY <1>12, <1>13

LEMMA MoveUserWrites ==
  ASSUME ItRests, NEW tool, NEW written, NEW listing, NEW keepProd, NEW writes,
         Moves(tool, written, listing, keepProd, ToSet(writes)), NEW force \in BOOLEAN,
         \A w \in ToSet(writes) : force \/ ~ Exists(w.to),
         forced' = IF force THEN forced \cup {w.to : w \in ToSet(writes)} ELSE forced
  PROVE  UserWrites(writes)
<1>1. ASSUME NEW file \in DOMAIN layout.files \ forced', NEW w \in ToSet(writes), WriteTo(w, file)
      PROVE  /\ file[1] \notin {"unit", "repo"}
             /\ file[1] = "profile" => killed
             /\ file[1] # "text"
  <2>1. w.to = file
    BY <1>1 DEF WriteTo
  <2>2. file \notin forced /\ ~ Exists(file)
    BY <1>1, <2>1
  <2>3. /\ file[1] \in {"unit", "repo"} => Exists(file)
        /\ file[1] = "profile" => killed \/ Lists(disk[file], layout.files[file])
    BY <1>1, <2>2, IdleIs
  <2>4. ~ Lists(disk[file], layout.files[file])
    BY <2>2, BodiesAre DEF Exists, Lists
  <2>5. file[1] # "text"
    BY <1>1, <2>1 DEF Moves
  <2> QED
    BY <2>2, <2>3, <2>4, <2>5
<1> QED
  BY <1>1 DEF UserWrites

WrittenDirs(m, force) == {v.dir : v \in Written(m, force)}
MigrateSet(tool, m, force) ==
  {Write(UnitFile(v.dir), UnitBody(v.unit, tool)) : v \in Written(m, force)}
  \cup {w \in {Write(RepoFile, RepoBody)} : ~ Kept(RepoFile, force)}
  \cup {w \in {Write(Prod, Listing("prod", m.listed \cup WrittenDirs(m, force)))} : ~ Kept(Prod, force)}

LEMMA MigrateWritesAre ==
  ASSUME NEW tool, NEW m, NEW force \in BOOLEAN, IsFiniteSet(ToSet(m.units))
  PROVE  /\ IsSeq(MigrateWrites(tool, m, force))
         /\ ToSet(MigrateWrites(tool, m, force)) = MigrateSet(tool, m, force)
<1> PICK r, q : r = Write(RepoFile, RepoBody) /\ q = Write(Prod, Listing("prod", m.listed \cup WrittenDirs(m, force)))
  OBVIOUS
<1>1. PICK visits : visits = SetToSeq(Written(m, force))
  OBVIOUS
<1>2. visits \in Seq(Written(m, force)) /\ ToSet(visits) = Written(m, force)
  <2>1. Written(m, force) \subseteq ToSet(m.units)
    BY DEF Written
  <2>2. IsFiniteSet(Written(m, force))
    BY <2>1, FS_Subset
  <2> QED
    BY <1>1, <2>2, ListOfSet
<1>3. PICK a : a = [n \in DOMAIN visits |-> Write(UnitFile(visits[n].dir), UnitBody(visits[n].unit, tool))]
  OBVIOUS
<1>4. PICK b : b = IF Kept(RepoFile, force) THEN <<>> ELSE <<r>>
  OBVIOUS
<1>5. PICK c : c = IF Kept(Prod, force) THEN <<>> ELSE <<q>>
  OBVIOUS
<1>6. PICK ab : ab = a \o b
  OBVIOUS
<1>7. MigrateWrites(tool, m, force) = ab \o c
  BY <1>1, <1>3, <1>4, <1>5, <1>6 DEF MigrateWrites, WrittenDirs
<1>8. IsSeq(a) /\ ToSet(a) = {Write(UnitFile(v.dir), UnitBody(v.unit, tool)) : v \in Written(m, force)}
  <2>1. a = [n \in DOMAIN visits |-> a[n]]
    BY <1>3
  <2>2. IsSeq(a) /\ ToSet(a) = {a[n] : n \in DOMAIN visits}
    BY <1>2, <2>1, RangeOfList
  <2>3. \A n \in DOMAIN visits : visits[n] \in Written(m, force)
          /\ a[n] = Write(UnitFile(visits[n].dir), UnitBody(visits[n].unit, tool))
    BY <1>2, <1>3 DEF ToSet
  <2>4. \A v \in Written(m, force) : \E n \in DOMAIN visits : visits[n] = v
    BY <1>2 DEF ToSet
  <2> QED
    BY <2>2, <2>3, <2>4
<1>9. IsSeq(b) /\ ToSet(b) = {w \in {r} : ~ Kept(RepoFile, force)}
  BY <1>4, RangeOfOne
<1>10. IsSeq(c) /\ ToSet(c) = {w \in {q} : ~ Kept(Prod, force)}
  BY <1>5, RangeOfOne
<1>11. IsSeq(ab) /\ ToSet(ab) = ToSet(a) \cup ToSet(b)
  BY <1>6, <1>8, <1>9, RangeOfConcat
<1>12. IsSeq(ab \o c) /\ ToSet(ab \o c) = ToSet(ab) \cup ToSet(c)
  BY <1>10, <1>11, RangeOfConcat
<1> QED
  BY <1>7, <1>8, <1>9, <1>10, <1>11, <1>12 DEF MigrateSet

LEMMA MigrationMoves ==
  ASSUME ItRests, NEW tool \in Tools, NEW repo \in Repos[tool], NEW m, m = Migration(tool, repo, layout.base),
         NEW force \in BOOLEAN
  PROVE  /\ Moves(tool, WrittenDirs(m, force), m.listed \cup WrittenDirs(m, force),
                  Kept(Prod, force), MigrateSet(tool, m, force))
         /\ \A w \in MigrateSet(tool, m, force) : force \/ ~ Exists(w.to)
<1> PICK P : P = MigrateSet(tool, m, force)
  OBVIOUS
<1>1. /\ IsFiniteSet(ToSet(m.units))
      /\ \A v \in ToSet(m.units) : v.dir \in Folders /\ (tool = "rush" => v.dir # RootDir)
  BY IdleIs, ReposAreHere
<1>2. /\ \A v \in ToSet(m.units) :
           /\ v.unit.twice => v.dir = RootDir /\ tool = "make"
           /\ tool \in {"turbo", "nx"} => v.unit.tasks \cap Servers = {}
      /\ m.listed # {} => tool \in {"make", "rush"}
      /\ m.listed \subseteq {v.dir : v \in ToSet(m.units)}
  <2>1. Migrates(tool, m)
    BY MigrationMigrates
  <2> QED
    BY <2>1 DEF Migrates
<1>3. PICK W : W = Written(m, force)
  OBVIOUS
<1>4. W \subseteq ToSet(m.units) /\ \A v \in W : force \/ ~ Exists(UnitFile(v.dir))
  BY <1>3 DEF Written, Kept
<1>5. PICK written : written = {v.dir : v \in W}
  OBVIOUS
<1>6. PICK listing : listing = m.listed \cup written
  OBVIOUS
<1>7. written \subseteq Folders /\ listing \subseteq Folders
  BY <1>1, <1>2, <1>4, <1>5, <1>6
<1>8. PICK r, q : r = Write(RepoFile, RepoBody) /\ q = Write(Prod, Listing("prod", listing))
  OBVIOUS
<1>9. P = {Write(UnitFile(v.dir), UnitBody(v.unit, tool)) : v \in W}
          \cup {w \in {r} : ~ Kept(RepoFile, force)} \cup {w \in {q} : ~ Kept(Prod, force)}
  BY <1>3, <1>5, <1>6, <1>8 DEF MigrateSet, WrittenDirs
<1>10. Comes(r) /\ r.body.kind # "source" /\ r.to = RepoFile /\ \A g : WriteTo(r, g) <=> g = RepoFile
  <2>1. RepoFile \in SetupFiles /\ Whole(RepoFile, RepoBody)
    BY FilesAre, WholeBodies
  <2>2. Comes(r) /\ RepoBody.kind # "source"
    BY <1>8, <2>1, WriteComes, NamedBodies
  <2> QED
    BY <1>8, <2>2, WriteIs
<1>11. Comes(q) /\ q.body.kind # "source" /\ q.to = Prod /\ q.body = Listing("prod", listing) /\ \A g : WriteTo(q, g) <=> g = Prod
  <2>1. PICK body : body = Listing("prod", listing)
    OBVIOUS
  <2>2. Prod \in SetupFiles /\ Whole(Prod, body) /\ OfItsName(Prod, body)
    BY <1>7, <2>1, FilesAre, WholeBodies, NamedBodies, NamesDiffer, SetupAssumption
  <2>3. q = Write(Prod, body)
    BY <1>8, <2>1
  <2>4. Comes(q) /\ body.kind # "source"
    BY <2>2, <2>3, WriteComes
  <2>5. q.to = Prod /\ q.body = body /\ \A g : WriteTo(q, g) <=> g = Prod
    BY <2>3, <2>4, WriteIs
  <2> QED
    BY <2>1, <2>3, <2>4, <2>5
<1>12. ASSUME NEW v \in W, NEW w, w = Write(UnitFile(v.dir), UnitBody(v.unit, tool))
       PROVE  /\ Comes(w) /\ w.body.kind # "source" /\ w.to = UnitFile(v.dir) /\ w.body.by = tool
              /\ \A g : WriteTo(w, g) <=> g = UnitFile(v.dir)
  <2>1. PICK body : body = UnitBody(v.unit, tool)
    OBVIOUS
  <2>2. body.unit = v.unit /\ body.by = tool
    BY <2>1, BodiesAre
  <2>3. WholeUnit(v.dir, body)
    <3>1. body = UnitBody(body.unit, body.by)
      BY <2>1, <2>2
    <3>2. body.unit.twice => v.dir = RootDir /\ body.by = "make"
      BY <1>2, <1>4, <2>2
    <3>3. body.by \in {"turbo", "nx"} => body.unit.tasks \cap Servers = {}
      BY <1>2, <1>4, <2>2
    <3> QED
      BY <3>1, <3>2, <3>3 DEF WholeUnit
  <2>4. UnitFile(v.dir) \in SetupFiles /\ Whole(UnitFile(v.dir), body)
    <3>1. v.dir \in Folders
      BY <1>1, <1>4
    <3>2. UnitFile(v.dir) \in SetupFiles /\ UnitFile(v.dir)[1] = "unit" /\ UnitFile(v.dir)[2] = v.dir
      BY <3>1, FilesAre, NamesDiffer
    <3> QED
      BY <2>3, <3>2 DEF Whole
  <2>5. w = Write(UnitFile(v.dir), body)
    BY <1>12, <2>1
  <2>6. Comes(w) /\ body.kind # "source"
    BY <2>4, <2>5, WriteComes, NamedBodies
  <2>7. w.to = UnitFile(v.dir) /\ w.body = body /\ \A g : WriteTo(w, g) <=> g = UnitFile(v.dir)
    BY <2>5, <2>6, WriteIs
  <2> QED
    BY <2>2, <2>6, <2>7
<1>13. /\ \A x : RepoFile # UnitFile(x) /\ RepoFile # Profile(x) /\ RepoFile[1] = "repo" /\ UnitFile(x)[1] = "unit"
       /\ \A x, y : UnitFile(x) # Profile(y)
       /\ \A x : (Profile(x) = Prod => x = "prod") /\ Prod # UnitFile(x)
       /\ Prod[1] = "profile" /\ \A x, y : UnitFile(x) = UnitFile(y) => x = y
  BY NamesDiffer
<1>14. ASSUME NEW w \in P
       PROVE  /\ Comes(w) /\ w.body.kind # "source" /\ w.to[1] # "text"
              /\ \A d : WriteTo(w, UnitFile(d)) => d \in written /\ w.body.by = tool
              /\ \A p : WriteTo(w, Profile(p)) => p = "prod" /\ ~ Kept(Prod, force) /\ w.body = Listing("prod", listing)
              /\ force \/ ~ Exists(w.to)
  <2>1. CASE w = r /\ ~ Kept(RepoFile, force)
    BY <1>10, <1>13, <2>1 DEF Kept
  <2>2. CASE w = q /\ ~ Kept(Prod, force)
    BY <1>11, <1>13, <2>2 DEF Kept
  <2>3. CASE \E v \in W : w = Write(UnitFile(v.dir), UnitBody(v.unit, tool))
    <3>1. PICK v \in W : w = Write(UnitFile(v.dir), UnitBody(v.unit, tool))
      BY <2>3
    <3>2. v.dir \in written /\ (force \/ ~ Exists(UnitFile(v.dir)))
      BY <1>4, <1>5
    <3> QED
      BY <1>12, <1>13, <3>1, <3>2
  <2> QED
    BY <1>9, <2>1, <2>2, <2>3
<1>15. \A d \in written : \E w \in P : WriteTo(w, UnitFile(d))
  <2>1. ASSUME NEW d \in written PROVE \E w \in P : WriteTo(w, UnitFile(d))
    <3>1. PICK v \in W : d = v.dir
      BY <1>5
    <3>2. Write(UnitFile(v.dir), UnitBody(v.unit, tool)) \in P
      BY <1>9
    <3> QED
      BY <1>12, <3>1, <3>2
  <2> QED
    BY <2>1
<1>16. \A d \in listing \ written : Exists(UnitFile(d)) /\ tool \in {"make", "rush"} /\ (tool = "rush" => d # RootDir)
  <2>1. ASSUME NEW d \in listing \ written
        PROVE  Exists(UnitFile(d)) /\ tool \in {"make", "rush"} /\ (tool = "rush" => d # RootDir)
    <3>1. d \in m.listed /\ tool \in {"make", "rush"}
      BY <1>2, <1>6
    <3>2. PICK v \in ToSet(m.units) : d = v.dir
      BY <1>2, <3>1
    <3>3. v \notin W
      BY <1>5, <3>2
    <3>4. Exists(UnitFile(d))
      BY <1>3, <3>2, <3>3 DEF Written, Kept
    <3> QED
      BY <1>1, <3>1, <3>2, <3>4
  <2> QED
    BY <2>1
<1>17. Moves(tool, written, listing, Kept(Prod, force), P)
  BY <1>7, <1>14, <1>15, <1>16 DEF Moves
<1> QED
  BY <1>3, <1>5, <1>6, <1>14, <1>17 DEF WrittenDirs

LEMMA MigrateStarts ==
  ASSUME ItRests, NEW tool \in Tools, RunMigrate(tool)
  PROVE  \E kind, writes : Starts(kind, writes)
<1>1. PICK repo \in Repos[tool], force \in BOOLEAN :
        LET m      == Migration(tool, repo, layout.base)
            writes == MigrateWrites(tool, m, force)
        IN  /\ Begin(tool, writes)
            /\ forced' = IF force THEN forced \cup {writes[n].to : n \in DOMAIN writes} ELSE forced
  BY DEF RunMigrate
<1>2. PICK m : m = Migration(tool, repo, layout.base)
  OBVIOUS
<1>3. PICK writes : writes = MigrateWrites(tool, m, force)
  OBVIOUS
<1>4. Begin(tool, writes) /\ forced' = IF force THEN forced \cup {writes[n].to : n \in DOMAIN writes} ELSE forced
  BY <1>1, <1>2, <1>3
<1>5. PICK P : P = MigrateSet(tool, m, force)
  OBVIOUS
<1>6. IsSeq(writes) /\ ToSet(writes) = P
  <2>1. IsFiniteSet(ToSet(m.units))
    BY <1>2, IdleIs, ReposAreHere
  <2> QED
    BY <1>3, <1>5, <2>1, MigrateWritesAre
<1>7. PICK written, listing, keepProd :
         /\ written = WrittenDirs(m, force) /\ listing = m.listed \cup written
         /\ keepProd = Kept(Prod, force)
  OBVIOUS
<1>8. Moves(tool, written, listing, keepProd, P) /\ \A w \in P : force \/ ~ Exists(w.to)
  BY <1>2, <1>5, <1>7, MigrationMoves
<1>9. Faults(disk) = {} => EndsWell(P, tool, Diagnosis(disk))
  <2>1. ASSUME Faults(disk) = {}, NEW files, Left(P, files), NEW f \in Diagnosis(files)
        PROVE  Allowed(tool, f)
    BY <1>8, <2>1, MoveEndsWell
  <2> QED
    BY <2>1 DEF EndsWell
<1>10. {writes[n].to : n \in DOMAIN writes} = {w.to : w \in ToSet(writes)}
  BY DEF ToSet
<1>11. forced' = IF force THEN forced \cup {w.to : w \in ToSet(writes)} ELSE forced
  BY <1>4, <1>10
<1>12. UserWrites(writes)
  BY <1>6, <1>8, <1>11, MoveUserWrites
<1>13. \A w \in ToSet(writes) : Comes(w) /\ w.body.kind # "source"
  BY <1>6, <1>8 DEF Moves
<1>14. forced \subseteq forced' /\ forced' \subseteq SetupFiles
  BY <1>11, <1>13, IdleIs DEF Comes
<1>15. tool \in Kinds \ {"none"}
  BY DEF Kinds, Tools
<1>16. Starts(tool, writes)
  BY <1>4, <1>6, <1>9, <1>12, <1>13, <1>14, <1>15 DEF Starts
<1> QED
  BY <1>16

-----------------------------------------------------------------------------
(***************************************************************************)
(* The theorems.                                                           *)
(***************************************************************************)
LEMMA CommandKeeps ==
  ASSUME SetupInv,
         \/ RunInit \/ \E tool \in Tools : RunMigrate(tool)
         \/ \E d \in Folders, p \in ProfileNames : RunUnitAdd(d, p)
         \/ \E p \in ProfileNames : RunBoxAdd(p)
  PROVE  SetupInv'
<1>1. CASE RunInit
  <2>1. DetectedUnits \in SUBSET (Folders \ {RootDir}) /\ {} \in SUBSET (Folders \ {RootDir})
    BY DEF DetectedUnits
  <2>2. PICK detected \in SUBSET (Folders \ {RootDir}) : InitWith(detected)
    BY <1>1, <2>1 DEF RunInit
  <2>3. ItRests
    BY <2>2 DEF InitWith, Begin, ItRests
  <2> QED
    BY <2>2, <2>3, InitStarts, StartKeeps
<1>2. CASE \E tool \in Tools : RunMigrate(tool)
  <2>1. PICK tool \in Tools : RunMigrate(tool)
    BY <1>2
  <2>2. ItRests
    BY <2>1 DEF RunMigrate, Begin, ItRests
  <2> QED
    BY <2>1, <2>2, MigrateStarts, StartKeeps
<1>3. CASE \E d \in Folders, p \in ProfileNames : RunUnitAdd(d, p)
  <2>1. PICK d \in Folders, p \in ProfileNames : RunUnitAdd(d, p)
    BY <1>3
  <2>2. ItRests
    BY <2>1 DEF RunUnitAdd, Begin, ItRests
  <2> QED
    BY <2>1, <2>2, UnitAddStarts, StartKeeps
<1>4. CASE \E p \in ProfileNames : RunBoxAdd(p)
  <2>1. PICK p \in ProfileNames : RunBoxAdd(p)
    BY <1>4
  <2>2. ItRests
    BY <2>1 DEF RunBoxAdd, Begin, ItRests
  <2> QED
    BY <2>1, <2>2, BoxStarts, StartKeeps
<1> QED
  BY <1>1, <1>2, <1>3, <1>4

LEMMA RestKeeps ==
  ASSUME SetupInv, UNCHANGED setupVars
  PROVE  SetupInv'
<1>1. UNCHANGED <<disk, folders, layout, setup, setups, forced, killed, broke>>
  BY DEF setupVars
<1>2. Pending' = Pending /\ Coming' = Coming
  BY <1>1 DEF Pending, Coming
<1>3. TypedInv'
  BY <1>1, <1>2 DEF SetupInv, TypedInv, Typed, Holds, OfItsName, Comes, IsSeq
<1>4. CutInv' /\ BrokeInv'
  BY <1>1, <1>2 DEF SetupInv, CutInv, BrokeInv, Allowed, Misnamed
<1>5. EndInv'
  BY <1>1, <1>2 DEF SetupInv, EndInv, EndsWell, Left, Leaves, WriteTo, Allowed, Misnamed
<1>6. UserInv'
  BY <1>1, <1>2 DEF SetupInv, UserInv, UsersFile, Lists, WriteTo
<1> QED
  BY <1>3, <1>4, <1>5, <1>6 DEF SetupInv

LEMMA SetupKeeps == SetupInv /\ [SetupNext]_setupVars => SetupInv'
<1> SUFFICES ASSUME SetupInv, [SetupNext]_setupVars PROVE SetupInv'
  OBVIOUS
<1>1. CASE \/ RunInit \/ \E tool \in Tools : RunMigrate(tool)
           \/ \E d \in Folders, p \in ProfileNames : RunUnitAdd(d, p)
           \/ \E p \in ProfileNames : RunBoxAdd(p)
  BY <1>1, CommandKeeps
<1>2. CASE CreateFile
  BY <1>2, CreateKeeps
<1>3. CASE BeginFile
  BY <1>3, BeginKeeps
<1>4. CASE FillFile
  BY <1>4, FillKeeps
<1>5. CASE EndSetup
  BY <1>5, EndKeeps
<1>6. CASE KillSetup
  BY <1>6, KillKeeps
<1>7. CASE UNCHANGED setupVars
  BY <1>7, RestKeeps
<1> QED
  BY <1>1, <1>2, <1>3, <1>4, <1>5, <1>6, <1>7 DEF SetupNext

LEMMA InvTypes == SetupInv => SetupTypeOK
<1> SUFFICES ASSUME SetupInv PROVE SetupTypeOK
  OBVIOUS
<1>1. \A file \in SetupFiles : disk[file].kind \in {"missing", "cut", file[1]}
  BY WholeIs, BodiesAre DEF SetupInv, TypedInv, Typed, Holds, OfItsName
<1>2. broke \subseteq ({"init", "add", "box"} \cup Tools) \X {"cut", "twice", "dangling", "duplicate", "profiles", "orphan"}
  BY DEF SetupInv, BrokeInv, Kinds
<1> QED
  BY <1>1, <1>2 DEF SetupInv, TypedInv, SetupTypeOK, Kinds

LEMMA InvRuns == SetupInv => SetupLeavesItRunnable
<1> SUFFICES ASSUME SetupInv PROVE SetupLeavesItRunnable
  OBVIOUS
<1>1. ASSUME NEW b \in broke
      PROVE  \/ b[2] = "duplicate" /\ b[1] \in {"init"} \cup Tools
             \/ b[2] = "profiles" /\ b[1] \in {"init", "box"} \cup Tools /\ Misnamed
             \/ b = <<"make", "twice">>
             \/ b[2] = "orphan" /\ b[1] \in Tools
             \/ b[2] = "cut" /\ killed /\ b[1] \in {"init", "make", "rush"}
  <2>1. Allowed(b[1], b[2]) /\ b = <<b[1], b[2]>>
    BY DEF SetupInv, BrokeInv
  <2> QED
    BY <2>1 DEF Allowed, Misnamed
<1>2. ASSUME NEW d \in Folders, disk[UnitFile(d)].kind = "unit", disk[UnitFile(d)].by \in {"turbo", "nx"}
      PROVE  disk[UnitFile(d)].unit.tasks \cap Servers = {}
  <2>1. UnitFile(d) \in SetupFiles /\ UnitFile(d)[1] = "unit" /\ UnitFile(d)[2] = d
    BY FilesAre, NamesDiffer
  <2>2. Whole(UnitFile(d), disk[UnitFile(d)])
    BY <1>2, <2>1, BodiesAre DEF SetupInv, TypedInv, Typed, Holds, OfItsName
  <2> QED
    BY <1>2, <2>1, <2>2, WholeIs DEF WholeUnit
<1> QED
  BY <1>1, <1>2 DEF SetupLeavesItRunnable

LEMMA InvUsers == SetupInv => UsersWorkStays
<1> SUFFICES ASSUME SetupInv, NEW file \in DOMAIN layout.files \ forced
             PROVE  CASE layout.files[file].kind \in {"unit", "repo"} -> disk[file] = layout.files[file]
                      [] layout.files[file].kind = "profile" ->
                           killed \/ disk[file] = Cut \/ layout.files[file].units \subseteq disk[file].units
                      [] layout.files[file].kind = "text"    ->
                           \/ killed \/ disk[file] = Cut \/ ~ WellMarked(layout.files[file].lines)
                           \/ UsersLines(disk[file].lines) = UsersLines(layout.files[file].lines)
  BY DEF UsersWorkStays
<1>1. PICK x : x = layout.files[file]
  OBVIOUS
<1>2. file \in SetupFiles /\ Whole(file, x)
  BY <1>1, LayoutsAreWhole DEF SetupInv, TypedInv
<1>3. x.kind = file[1] /\ file[1] \in {"repo", "profile", "unit", "text"}
  BY <1>2, WholeIs, FilesAre, NamesDiffer
<1>4. UsersFile(file, x)
  BY <1>1 DEF SetupInv, UserInv
<1>5. file[1] \in {"unit", "repo"} => disk[file] = x
  BY <1>4 DEF UsersFile
<1>6. file[1] = "profile" => killed \/ disk[file] = Cut \/ x.units \subseteq disk[file].units
  BY <1>4 DEF UsersFile, Lists
<1>7. file[1] = "text" => \/ killed \/ disk[file] = Cut \/ ~ WellMarked(x.lines)
                          \/ UsersLines(disk[file].lines) = UsersLines(x.lines)
  <2>1. SUFFICES ASSUME file[1] = "text", ~ killed, disk[file] # Cut, WellMarked(x.lines)
                 PROVE  UsersLines(disk[file].lines) = UsersLines(x.lines)
    OBVIOUS
  <2>2. disk[file] = x \/ disk[file] = Text(MergeAgentText(x.lines))
    BY <1>4, <2>1 DEF UsersFile
  <2>3. x.lines \in Seq(TextLines)
    BY <1>2, <2>1, WholeIs
  <2>4. UsersLines(MergeAgentText(x.lines)) = UsersLines(x.lines)
    BY <2>1, <2>3, MergedLines
  <2>5. Text(MergeAgentText(x.lines)).lines = MergeAgentText(x.lines)
    BY BodiesAre
  <2> QED
    BY <2>2, <2>4, <2>5
<1> QED
  BY <1>1, <1>3, <1>5, <1>6, <1>7

(* Every variable of the commands that write a configuration has its type: *)
(* no file holds what does not belong there, whatever commands run and     *)
(* wherever they are killed.                                               *)
THEOREM SetupTyped == SetupSpec => []SetupTypeOK
<1>1. SetupInit => SetupInv
  BY InitInv
<1>2. SetupInv /\ [SetupNext]_setupVars => SetupInv'
  BY SetupKeeps
<1>3. SetupInv => SetupTypeOK
  BY InvTypes
<1> QED
  BY <1>1, <1>2, <1>3, PTL DEF SetupSpec

(* Init, a migration, unit add and box add leave a workspace that loads as *)
(* one that loads, for every repository and every configuration the six    *)
(* migrators may find, but for the faults named in SetupLeavesItRunnable,  *)
(* two profiles of one name among them; and no server of Turborepo's or    *)
(* Nx's becomes a task.                                                    *)
THEOREM SetupRuns == SetupSpec => []SetupLeavesItRunnable
<1>1. SetupInit => SetupInv
  BY InitInv
<1>2. SetupInv /\ [SetupNext]_setupVars => SetupInv'
  BY SetupKeeps
<1>3. SetupInv => SetupLeavesItRunnable
  BY InvRuns
<1> QED
  BY <1>1, <1>2, <1>3, PTL DEF SetupSpec

(* What somebody wrote stays until --force is given for its file: the      *)
(* unit.toml and monad.toml as they are, the units a profile lists, and    *)
(* every line of a text outside of monad's own block.                      *)
THEOREM UsersWorkIsKept == SetupSpec => []UsersWorkStays
<1>1. SetupInit => SetupInv
  BY InitInv
<1>2. SetupInv /\ [SetupNext]_setupVars => SetupInv'
  BY SetupKeeps
<1>3. SetupInv => UsersWorkStays
  BY InvUsers
<1> QED
  BY <1>1, <1>2, <1>3, PTL DEF SetupSpec
=============================================================================
