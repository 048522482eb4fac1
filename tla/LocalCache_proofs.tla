-------------------------- MODULE LocalCache_proofs --------------------------
(* Proofs about LocalCache: as long as two writers never use one temporary *)
(* file at a time, no hit is torn and the directory implements AtomicCache, *)
(* for any processes, any bundles of any size and any interleaving of puts, *)
(* fetches, reads, clears and crashes.                                     *)
EXTENDS LocalCache, TLAPS

Writers == {p \in Procs : Writing(p)}
Readers == {p \in Procs : at[p] = "read"}

(* Where a process is fits what it does; what it writes is a whole bundle, *)
(* and it has read nothing before it opens a file.                         *)
PlacesFit ==
  \A p \in Procs :
    /\ op[p] = "off" <=> at[p] = "off"
    /\ at[p] \in {"create", "write", "rename"} => op[p] \in {"put", "fetch"} /\ source[p] \in Whole
    /\ at[p] \in {"create", "open"} => offset[p] = 0
    /\ at[p] = "rename" => offset[p] = Size
    /\ at[p] \in {"create", "write", "rename", "open", "clear"} => got[p] = Blank

(* One name per inode. *)
NamesAreApart == \A f, g \in Paths : f # g /\ path[f] # None => path[f] # path[g]

(* A writer is alone with its temporary file: it has the file that the     *)
(* path names (or a clear took the path away), and nobody else has it.     *)
WritersAreAlone ==
  \A p \in Writers :
    /\ path[TmpOf(p)] \in {None, handle[p]}
    /\ \A f \in Paths \ {TmpOf(p)} : path[f] # handle[p]
    /\ \A q \in Procs \ {p} : handle[q] # handle[p]
    /\ \A q \in Writers \ {p} : op[q] # op[p]

(* What a writer has written is what it was to write. *)
WrittenSoFar ==
  \A p \in Writers : \A c \in Chunks : c <= offset[p] => data[handle[p]][c] = source[p][c]

(* A reader has a whole bundle that no writer will find by a temporary     *)
(* path, and has read what is in it.                                       *)
ReadersHoldWhole ==
  \A p \in Readers :
    /\ data[handle[p]] \in Whole
    /\ handle[p] \notin {path["tmp"], path["remote_tmp"]}
    /\ \A c \in Chunks : c <= offset[p] => got[p][c] = data[handle[p]][c]

Inv ==
  /\ TypeOK /\ PlacesFit /\ NamesAreApart /\ WritersAreAlone /\ WrittenSoFar
  /\ ReadersHoldWhole /\ HitsAreWhole /\ WriteIsAtomic
-----------------------------------------------------------------------------
LEMMA BlankAndWhole ==
  /\ Blank \in Pieces /\ Whole \subseteq Pieces
  /\ Blank \notin Whole
  /\ \A w \in Whole : w[1] \in Bundles /\ w[1] # Hole /\ \A c \in Chunks : w[c] = w[1]
  BY SizeIsPositive, MarkersAreNoData DEF Blank, Whole, Pieces, Chunks

LEMMA InitKeepsInv == Init => Inv
<1> SUFFICES ASSUME Init PROVE Inv
  OBVIOUS
<1>1. TypeOK
  BY BlankAndWhole, SizeIsPositive, OverlapIsFlag, MarkersAreNoData DEF Init, TypeOK, Results, Paths
<1>2. PlacesFit
  BY DEF Init, PlacesFit
<1>3. NamesAreApart /\ WriteIsAtomic /\ HitsAreWhole
  BY DEF Init, NamesAreApart, WriteIsAtomic, HitsAreWhole, Paths
<1>4. WritersAreAlone /\ WrittenSoFar /\ ReadersHoldWhole
  BY DEF Init, WritersAreAlone, WrittenSoFar, ReadersHoldWhole, Writers, Readers, Writing
<1> QED
  BY <1>1, <1>2, <1>3, <1>4 DEF Inv

(* An operation begins: it holds no file yet. *)
LEMMA BeginKeepsInv ==
  ASSUME Inv, NEW p \in Procs, NEW what, NEW place, NEW chunks \in Pieces,
         Begin(p, what, place, chunks),
         \/ what \in {"put", "fetch"} /\ place = "create" /\ chunks \in Whole
         \/ what \in {"get", "push"} /\ place = "open"
         \/ what = "clear" /\ place = "clear"
  PROVE  Inv'
<1> USE DEF Begin, Inv
<1>0. at[p] = "off" /\ handle[p] = None
  BY DEF PlacesFit, TypeOK
<1>1. TypeOK'
  BY BlankAndWhole, SizeIsPositive, OverlapIsFlag, <1>0 DEF TypeOK, Results
<1>2. PlacesFit'
  BY DEF PlacesFit, TypeOK
<1>3. Writers' = Writers /\ Readers' = Readers /\ p \notin Writers \cup Readers
  BY <1>0 DEF Writers, Readers, Writing, TypeOK
<1>4. NamesAreApart' /\ WriteIsAtomic'
  BY DEF NamesAreApart, WriteIsAtomic
<1>5. WritersAreAlone'
  BY <1>3 DEF WritersAreAlone, TmpOf, TypeOK, Writers
<1>6. WrittenSoFar' /\ ReadersHoldWhole'
  BY <1>3 DEF WrittenSoFar, ReadersHoldWhole, TypeOK, Writers, Readers
<1>7. HitsAreWhole'
  BY <1>0 DEF HitsAreWhole, TypeOK
<1> QED
  BY <1>1, <1>2, <1>4, <1>5, <1>6, <1>7

(* An operation returns: the file it held is closed. *)
LEMMA ReturnKeepsInv ==
  ASSUME Inv, NEW p \in Procs, NEW answer \in Results, Return(p, answer),
         UNCHANGED <<data, path, offset, got, ops>>,
         object' \in Whole \cup {None},
         answer = "ok" => got[p] \in Whole \cup {Blank}
  PROVE  Inv'
<1> USE DEF Return, Move, Inv
<1>1. TypeOK'
  BY BlankAndWhole DEF TypeOK
<1>2. PlacesFit'
  BY DEF PlacesFit, TypeOK
<1>3. Writers' = Writers \ {p} /\ Readers' = Readers \ {p}
  BY DEF Writers, Readers, Writing, TypeOK
<1>4. NamesAreApart' /\ WriteIsAtomic'
  BY DEF NamesAreApart, WriteIsAtomic
<1>5. WritersAreAlone'
  BY <1>3, MarkersAreNoData DEF WritersAreAlone, TmpOf, TypeOK, Writers, Writing
<1>6. WrittenSoFar' /\ ReadersHoldWhole'
  BY <1>3 DEF WrittenSoFar, ReadersHoldWhole, TypeOK, Writers, Readers
<1>7. HitsAreWhole'
  BY DEF HitsAreWhole, TypeOK
<1> QED
  BY <1>1, <1>2, <1>4, <1>5, <1>6, <1>7

(* A temporary file is created or truncated: no process holds its inode,   *)
(* for the only ones that could are writers of the same temporary file.    *)
LEMMA CreateKeepsInv ==
  ASSUME Inv, ~ Overlap, NEW p \in Procs, CreateTmp(p)
  PROVE  Inv'
<1> DEFINE f == TmpOf(p)
<1>1. PICK n \in Inodes :
        /\ path[f] # None => n = path[f]
        /\ path[f] = None => Free(n)
        /\ path' = [path EXCEPT ![f] = n]
        /\ data' = [data EXCEPT ![n] = Blank]
        /\ handle' = [handle EXCEPT ![p] = n]
  BY DEF CreateTmp, Inv, TypeOK, TmpOf, Paths
<1>2. /\ at[p] = "create" /\ at' = [at EXCEPT ![p] = "write"]
      /\ \A q \in Writers : op[q] # op[p]
      /\ UNCHANGED <<object, op, source, offset, got, result, ops>>
  BY DEF CreateTmp, Move, Writers, Writing
<1>3. f \in {"tmp", "remote_tmp"} /\ \A q \in Writers : TmpOf(q) # f
  BY <1>2 DEF TmpOf, Inv, PlacesFit, Writers, Writing
<1>4. Writers' = Writers \cup {p} /\ Readers' = Readers /\ p \notin Writers \cup Readers
  BY <1>2 DEF Writers, Readers, Writing, Inv, TypeOK
<1>5. \A g \in Paths \ {f} : path[g] # n
  BY <1>1, <1>3, MarkersAreNoData DEF Free, Linked, Inv, NamesAreApart, Paths
<1>6. \A q \in Procs : handle[q] # n
  <2> SUFFICES ASSUME NEW q \in Procs, handle[q] = n PROVE FALSE
    OBVIOUS
  <2>1. path[f] = n
    BY <1>1 DEF Free, Held
  <2>2. q \in Writers \cup Readers
    BY MarkersAreNoData DEF Inv, TypeOK, Writers, Readers, Writing
  <2> QED
    BY <1>3, <2>1, <2>2 DEF Inv, WritersAreAlone, ReadersHoldWhole, Paths
<1> HIDE DEF f
<1>7. TypeOK'
  BY <1>1, <1>2, <1>3, BlankAndWhole, MarkersAreNoData DEF Inv, TypeOK, Paths
<1>8. PlacesFit'
  BY <1>2, SizeIsPositive DEF Inv, PlacesFit, TypeOK
<1>9. NamesAreApart'
  BY <1>1, <1>5 DEF Inv, NamesAreApart, TypeOK
<1>10. WritersAreAlone'
  <2> SUFFICES ASSUME NEW q \in Writers'
               PROVE  /\ path'[TmpOf(q)'] \in {None, handle'[q]}
                      /\ \A g \in Paths \ {TmpOf(q)'} : path'[g] # handle'[q]
                      /\ \A r \in Procs \ {q} : handle'[r] # handle'[q]
                      /\ \A r \in Writers' \ {q} : op'[r] # op'[q]
    BY DEF WritersAreAlone
  <2>0. TmpOf(q)' = TmpOf(q)
    BY <1>2 DEF TmpOf
  <2>1. CASE q = p
    BY <1>1, <1>2, <1>3, <1>4, <1>5, <1>6, <2>0, <2>1 DEF Inv, TypeOK, f, Paths
  <2>2. CASE q # p
    BY <1>1, <1>2, <1>3, <1>4, <1>6, <2>0, <2>2 DEF Inv, TypeOK, WritersAreAlone, Writers, Paths
  <2> QED
    BY <2>1, <2>2
<1>11. WrittenSoFar'
  BY <1>1, <1>2, <1>4, <1>6 DEF Inv, TypeOK, WrittenSoFar, PlacesFit, Writers, Chunks
<1>12. ReadersHoldWhole'
  BY <1>1, <1>2, <1>3, <1>4, <1>6 DEF Inv, TypeOK, ReadersHoldWhole, Readers, Paths
<1>13. HitsAreWhole' /\ WriteIsAtomic'
  BY <1>1, <1>2, <1>3, <1>5 DEF Inv, TypeOK, HitsAreWhole, WriteIsAtomic, Paths
<1> QED
  BY <1>7, <1>8, <1>9, <1>10, <1>11, <1>12, <1>13 DEF Inv

(* A chunk is written: into a file that no reader has and no name but the  *)
(* temporary one leads to.                                                 *)
LEMMA WriteKeepsInv ==
  ASSUME Inv, NEW p \in Procs, WriteChunk(p)
  PROVE  Inv'
<1> DEFINE h == handle[p]  c == offset[p] + 1
<1>1. /\ at[p] = "write" /\ p \in Writers /\ h \in Inodes /\ c \in Chunks
      /\ data' = [data EXCEPT ![h] = [@ EXCEPT ![c] = source[p][c]]]
      /\ offset' = [offset EXCEPT ![p] = c]
      /\ at' = [at EXCEPT ![p] = IF c = Size THEN "rename" ELSE "write"]
      /\ UNCHANGED <<path, object, op, source, handle, got, result, ops>>
  BY SizeIsPositive DEF WriteChunk, Move, Inv, TypeOK, Writers, Writing, Chunks
<1>2. \A n \in Inodes \ {h} : data'[n] = data[n]
  BY <1>1 DEF Inv, TypeOK
<1>3. data'[h] = [data[h] EXCEPT ![c] = source[p][c]]
  BY <1>1 DEF Inv, TypeOK
<1>4. Writers' = Writers /\ Readers' = Readers
  BY <1>1 DEF Writers, Readers, Writing, Inv, TypeOK
<1>5. (\A q \in Procs \ {p} : handle[q] # h) /\ path["tar"] # h
  BY <1>1 DEF Inv, WritersAreAlone, TmpOf, Paths
<1>6. TypeOK'
  <2>1. data' \in [Inodes -> Pieces] /\ offset' \in [Procs -> 0..Size]
    BY <1>1, SizeIsPositive DEF Inv, TypeOK, Pieces, Chunks
  <2> QED
    BY <1>1, <2>1 DEF Inv, TypeOK
<1>7. PlacesFit'
  BY <1>1, SizeIsPositive DEF Inv, PlacesFit, TypeOK
<1>8. NamesAreApart' /\ WritersAreAlone'
  BY <1>1, <1>4 DEF Inv, NamesAreApart, WritersAreAlone, TmpOf
<1>9. WrittenSoFar'
  <2> SUFFICES ASSUME NEW q \in Writers', NEW d \in Chunks, d <= offset'[q]
               PROVE  data'[handle'[q]][d] = source'[q][d]
    BY DEF WrittenSoFar
  <2>1. CASE q = p
    <3>1. d = c \/ d <= offset[p]
      BY <1>1, <2>1, SizeIsPositive DEF Chunks, Inv, TypeOK
    <3> QED
      BY <1>1, <1>3, <2>1, <3>1 DEF Inv, TypeOK, WrittenSoFar, Pieces
  <2>2. CASE q # p
    <3>1. q \in Writers /\ q \in Procs /\ handle[q] \in Inodes \ {h}
      BY <1>4, <1>5, <2>2 DEF Inv, TypeOK, Writers, Writing
    <3> QED
      BY <1>1, <1>2, <2>2, <3>1 DEF Inv, TypeOK, WrittenSoFar
  <2> QED
    BY <2>1, <2>2
<1>10. ReadersHoldWhole'
  <2> SUFFICES ASSUME NEW q \in Readers
               PROVE  /\ data'[handle[q]] \in Whole
                      /\ handle[q] \notin {path["tmp"], path["remote_tmp"]}
                      /\ \A d \in Chunks : d <= offset'[q] => got[q][d] = data'[handle[q]][d]
    BY <1>1, <1>4 DEF ReadersHoldWhole
  <2>1. q \in Procs /\ q # p /\ handle[q] \in Inodes \ {h}
    BY <1>1, <1>5 DEF Inv, TypeOK, Readers
  <2> QED
    BY <1>1, <1>2, <2>1 DEF Inv, TypeOK, ReadersHoldWhole
<1>11. HitsAreWhole' /\ WriteIsAtomic'
  BY <1>1, <1>2, <1>5 DEF Inv, TypeOK, HitsAreWhole, WriteIsAtomic, Paths
<1> QED
  BY <1>6, <1>7, <1>8, <1>9, <1>10, <1>11 DEF Inv

(* What is renamed is the writer's own file, written to its end.           *)
LEMMA WrittenIsWhole ==
  ASSUME Inv, NEW p \in Procs, at[p] = "rename"
  PROVE  data[handle[p]] = source[p] /\ source[p] \in Whole /\ handle[p] \in Inodes
<1>1. p \in Writers /\ offset[p] = Size /\ source[p] \in Whole /\ handle[p] \in Inodes
  BY DEF Inv, TypeOK, PlacesFit, Writers, Writing
<1>2. \A c \in Chunks : data[handle[p]][c] = source[p][c]
  BY <1>1, SizeIsPositive DEF Inv, WrittenSoFar, Chunks
<1>3. data[handle[p]] \in Pieces /\ source[p] \in Pieces
  BY <1>1 DEF Inv, TypeOK
<1> QED
  BY <1>1, <1>2, <1>3 DEF Pieces

LEMMA RenameKeepsInv ==
  ASSUME Inv, NEW p \in Procs, RenameTmp(p)
  PROVE  Inv'
<1> DEFINE f == TmpOf(p)
<1>1. at[p] = "rename" /\ p \in Writers /\ got[p] = Blank
  BY DEF RenameTmp, Inv, PlacesFit, Writers, Writing
<1>2. CASE path[f] = None
  <2>1. Return(p, "error") /\ UNCHANGED <<data, path, object, offset, got, ops>>
    BY <1>2 DEF RenameTmp
  <2> QED
    BY <2>1, ReturnKeepsInv DEF Results, Inv, HitsAreWhole
<1>3. CASE path[f] # None
  <2> DEFINE h == handle[p]
  <2>0. f \in {"tmp", "remote_tmp"}
    BY DEF TmpOf
  <2>1. /\ path' = [path EXCEPT !["tar"] = h, ![f] = None]
        /\ path[f] = h /\ Return(p, "ok")
        /\ UNCHANGED <<data, object, offset, got, ops>>
    BY <1>1, <1>3 DEF RenameTmp, Inv, WritersAreAlone
  <2>2. data[h] \in Whole /\ h \in Inodes
    BY <1>1, WrittenIsWhole
  <2>3. Writers' = Writers \ {p} /\ Readers' = Readers
    BY <1>1, <2>1 DEF Return, Move, Writers, Readers, Writing, Inv, TypeOK
  <2>4. \A q \in Procs \ {p} : handle[q] # h
    BY <1>1 DEF Inv, WritersAreAlone
  <2> HIDE DEF f, h
  <2>5. path' \in [Paths -> Inodes \cup {None}]
    BY <2>0, <2>1, <2>2 DEF Inv, TypeOK, Paths
  <2>6. TypeOK'
    BY <2>1, <2>5, BlankAndWhole DEF Return, Move, Inv, TypeOK, Results
  <2>7. PlacesFit'
    BY <2>1 DEF Return, Move, Inv, PlacesFit, TypeOK
  <2>8. NamesAreApart'
    BY <2>0, <2>1 DEF Inv, TypeOK, NamesAreApart, Paths
  <2>9. WritersAreAlone'
    <3> SUFFICES ASSUME NEW q \in Writers \ {p}
                 PROVE  /\ path'[TmpOf(q)'] \in {None, handle'[q]}
                        /\ \A g \in Paths \ {TmpOf(q)'} : path'[g] # handle'[q]
                        /\ \A r \in Procs \ {q} : handle'[r] # handle'[q]
                        /\ \A r \in Writers \ {p, q} : op'[r] # op'[q]
      BY <2>3 DEF WritersAreAlone
    <3>1. /\ q \in Procs /\ op'[q] = op[q] /\ handle'[q] = handle[q] /\ handle[q] \in Inodes
          /\ handle[q] # h
      BY <2>1, <2>4 DEF Return, Inv, TypeOK, Writers, Writing
    <3>2. TmpOf(q)' = TmpOf(q) /\ TmpOf(q) \in {"tmp", "remote_tmp"}
      BY <3>1 DEF TmpOf
    <3>3. \A g \in Paths : path'[g] \in {path[g], h, None}
      BY <2>0, <2>1 DEF Inv, TypeOK, Paths
    <3>4. path'[TmpOf(q)] \in {path[TmpOf(q)], None}
      BY <2>0, <2>1, <3>2 DEF Inv, TypeOK, Paths
    <3>5. /\ path[TmpOf(q)] \in {None, handle[q]}
          /\ \A g \in Paths \ {TmpOf(q)} : path[g] # handle[q]
          /\ \A r \in Procs \ {q} : handle[r] # handle[q]
          /\ \A r \in Writers \ {q} : op[r] # op[q]
      BY DEF Inv, WritersAreAlone
    <3>6. \A r \in Procs \ {q} : handle'[r] # handle[q]
      BY <2>1, <3>1, <3>5, MarkersAreNoData DEF Return, Inv, TypeOK
    <3>7. \A r \in Writers \ {p, q} : op'[r] # op[q]
      BY <2>1, <3>5 DEF Return, Inv, TypeOK, Writers
    <3> QED
      BY <3>1, <3>2, <3>3, <3>4, <3>5, <3>6, <3>7, MarkersAreNoData
  <2>10. WrittenSoFar'
    BY <2>1, <2>3 DEF Return, Inv, TypeOK, WrittenSoFar, Writers
  <2>11. ReadersHoldWhole'
    <3>1. \A q \in Readers : q \in Procs /\ q # p /\ handle'[q] = handle[q] /\ handle[q] \in Inodes
      BY <1>1, <2>1 DEF Return, Inv, TypeOK, Readers
    <3>2. path'["tmp"] \in {path["tmp"], None} /\ path'["remote_tmp"] \in {path["remote_tmp"], None}
      BY <2>0, <2>1 DEF Inv, TypeOK, Paths
    <3> QED
      BY <2>1, <2>3, <3>1, <3>2, MarkersAreNoData DEF Inv, ReadersHoldWhole
  <2>12. HitsAreWhole'
    BY <1>1, <2>1 DEF Return, Move, Inv, TypeOK, HitsAreWhole
  <2>13. WriteIsAtomic'
    BY <2>0, <2>1, <2>2 DEF Inv, TypeOK, WriteIsAtomic, Paths
  <2> QED
    BY <2>6, <2>7, <2>8, <2>9, <2>10, <2>11, <2>12, <2>13 DEF Inv
<1> QED
  BY <1>2, <1>3

(* What a reader opens is whole, and no writer will find it by a temporary *)
(* path.                                                                   *)
LEMMA OpenKeepsInv ==
  ASSUME Inv, NEW p \in Procs, OpenBundle(p)
  PROVE  Inv'
<1>1. /\ at[p] = "open" /\ path["tar"] # None /\ path["tar"] \in Inodes
      /\ handle' = [handle EXCEPT ![p] = path["tar"]]
      /\ at' = [at EXCEPT ![p] = "read"]
      /\ UNCHANGED <<data, path, object, op, source, offset, got, result, ops>>
  BY DEF OpenBundle, Move, Inv, TypeOK, Paths
<1>2. Writers' = Writers /\ Readers' = Readers \cup {p} /\ p \notin Writers
  BY <1>1 DEF Writers, Readers, Writing, Inv, TypeOK
<1>3. \A q \in Writers : q \in Procs /\ path["tar"] # handle[q]
  BY DEF Inv, WritersAreAlone, TmpOf, Paths, Writers
<1>4. TypeOK'
  BY <1>1, MarkersAreNoData DEF Inv, TypeOK
<1>5. PlacesFit' /\ NamesAreApart' /\ WriteIsAtomic' /\ HitsAreWhole'
  BY <1>1 DEF Inv, PlacesFit, NamesAreApart, WriteIsAtomic, HitsAreWhole, TypeOK
<1>6. WritersAreAlone'
  BY <1>1, <1>2, <1>3 DEF Inv, TypeOK, WritersAreAlone, TmpOf
<1>7. WrittenSoFar'
  BY <1>1, <1>2, <1>3 DEF Inv, TypeOK, WrittenSoFar
<1>8. ReadersHoldWhole'
  BY <1>1, <1>2 DEF Inv, TypeOK, ReadersHoldWhole, Readers, NamesAreApart, WriteIsAtomic,
                    PlacesFit, Chunks, Paths
<1> QED
  BY <1>4, <1>5, <1>6, <1>7, <1>8 DEF Inv

LEMMA ReadKeepsInv ==
  ASSUME Inv, NEW p \in Procs, ReadChunk(p)
  PROVE  Inv'
<1> DEFINE c == offset[p] + 1
<1>1. /\ at[p] = "read" /\ p \in Readers /\ handle[p] \in Inodes /\ c \in Chunks
      /\ got' = [got EXCEPT ![p] = [@ EXCEPT ![c] = data[handle[p]][c]]]
      /\ offset' = [offset EXCEPT ![p] = c]
      /\ UNCHANGED <<data, path, object, op, at, source, handle, result, ops>>
  BY SizeIsPositive DEF ReadChunk, Inv, TypeOK, Readers, Chunks
<1>2. Writers' = Writers /\ Readers' = Readers /\ p \notin Writers
  BY <1>1 DEF Writers, Readers, Writing
<1>3. TypeOK'
  <2>1. got' \in [Procs -> Pieces] /\ offset' \in [Procs -> 0..Size]
    BY <1>1, SizeIsPositive DEF Inv, TypeOK, Pieces, Chunks
  <2> QED
    BY <1>1, <2>1 DEF Inv, TypeOK
<1>4. PlacesFit' /\ NamesAreApart' /\ WriteIsAtomic' /\ HitsAreWhole'
  BY <1>1 DEF Inv, PlacesFit, NamesAreApart, WriteIsAtomic, HitsAreWhole, TypeOK
<1>5. WritersAreAlone' /\ WrittenSoFar'
  BY <1>1, <1>2 DEF Inv, TypeOK, WritersAreAlone, WrittenSoFar, TmpOf, Writers
<1>6. ReadersHoldWhole'
  <2> SUFFICES ASSUME NEW q \in Readers, NEW d \in Chunks, d <= offset'[q]
               PROVE  got'[q][d] = data[handle[q]][d]
    BY <1>1, <1>2 DEF Inv, ReadersHoldWhole
  <2>1. q \in Procs /\ (d <= offset[q] => got[q][d] = data[handle[q]][d])
    BY DEF Inv, ReadersHoldWhole, Readers
  <2>2. CASE q = p
    <3>1. d = c \/ d <= offset[p]
      BY <1>1, <2>2, SizeIsPositive DEF Chunks, Inv, TypeOK
    <3> QED
      BY <1>1, <2>1, <2>2, <3>1 DEF Inv, TypeOK, Pieces
  <2>3. CASE q # p
    BY <1>1, <2>1, <2>3 DEF Inv, TypeOK
  <2> QED
    BY <2>2, <2>3
<1> QED
  BY <1>3, <1>4, <1>5, <1>6 DEF Inv

(* What was read to the end is what the file holds. *)
LEMMA ReadToTheEndIsWhole ==
  ASSUME Inv, NEW p \in Procs, at[p] = "read", offset[p] = Size
  PROVE  got[p] \in Whole
<1>1. p \in Readers /\ handle[p] \in Inodes /\ data[handle[p]] \in Pieces /\ got[p] \in Pieces
  BY DEF Inv, TypeOK, Readers
<1>2. data[handle[p]] \in Whole /\ \A c \in Chunks : got[p][c] = data[handle[p]][c]
  BY <1>1, SizeIsPositive DEF Inv, ReadersHoldWhole, Chunks
<1> QED
  BY <1>1, <1>2 DEF Pieces

(* A file is unlinked: who has it open keeps it. *)
LEMMA ClearKeepsInv ==
  ASSUME Inv, NEW p \in Procs, ClearFile(p)
  PROVE  Inv'
<1>1. PICK f \in Paths : path[f] # None /\ path' = [path EXCEPT ![f] = None]
  BY DEF ClearFile
<1>2. UNCHANGED <<data, object, op, at, source, handle, offset, got, result, ops>>
  BY DEF ClearFile
<1>3. path' \in [Paths -> Inodes \cup {None}] /\ \A g \in Paths : path'[g] \in {path[g], None}
  BY <1>1 DEF Inv, TypeOK
<1>4. TypeOK' /\ PlacesFit' /\ HitsAreWhole'
  BY <1>2, <1>3 DEF Inv, TypeOK, PlacesFit, HitsAreWhole
<1>5. NamesAreApart' /\ WriteIsAtomic'
  BY <1>1, <1>2, <1>3 DEF Inv, TypeOK, NamesAreApart, WriteIsAtomic, Paths
<1>6. Writers' = Writers /\ Readers' = Readers /\ \A q \in Procs : TmpOf(q)' = TmpOf(q)
  BY <1>2 DEF Writers, Readers, Writing, TmpOf
<1>7. \A q \in Writers \cup Readers : q \in Procs /\ handle[q] \in Inodes
  BY DEF Inv, TypeOK, Writers, Readers, Writing
<1>8. WritersAreAlone'
  <2> SUFFICES ASSUME NEW q \in Writers
               PROVE  /\ path'[TmpOf(q)] \in {None, handle[q]}
                      /\ \A g \in Paths \ {TmpOf(q)} : path'[g] # handle[q]
                      /\ \A r \in Procs \ {q} : handle[r] # handle[q]
                      /\ \A r \in Writers \ {q} : op[r] # op[q]
    BY <1>2, <1>6, <1>7 DEF WritersAreAlone
  <2>1. TmpOf(q) \in Paths
    BY DEF TmpOf, Paths
  <2> QED
    BY <1>3, <1>7, <2>1, MarkersAreNoData DEF Inv, WritersAreAlone
<1>9. WrittenSoFar'
  BY <1>2, <1>6 DEF Inv, WrittenSoFar
<1>10. ReadersHoldWhole'
  BY <1>2, <1>3, <1>6, <1>7, MarkersAreNoData DEF Inv, ReadersHoldWhole, Paths
<1> QED
  BY <1>4, <1>5, <1>8, <1>9, <1>10 DEF Inv

(* Every way an operation ends. *)
Ends(p) == WriteFails(p) \/ OpenMisses(p) \/ Extracted(p) \/ Pushed(p) \/ ClearEnds(p) \/ Crash(p)

LEMMA EndingReturns ==
  ASSUME Inv, NEW p \in Procs, Ends(p)
  PROVE  \E answer \in Results :
           /\ Return(p, answer)
           /\ answer = "ok" => got[p] \in Whole \cup {Blank}
           /\ object' \in Whole \cup {None}
           /\ UNCHANGED <<data, path, offset, got, ops>>
<1>0. object \in Whole \cup {None}
  BY DEF Inv, HitsAreWhole
<1>1. CASE WriteFails(p)
  BY <1>0, <1>1 DEF WriteFails, Results
<1>2. CASE OpenMisses(p)
  BY <1>0, <1>2 DEF OpenMisses, Results
<1>3. CASE Extracted(p)
  <2>1. got[p] \in Whole
    BY <1>3, ReadToTheEndIsWhole DEF Extracted
  <2> QED
    BY <1>0, <1>3, <2>1 DEF Extracted, Results
<1>4. CASE Pushed(p)
  <2>1. got[p] \in Whole
    BY <1>4, ReadToTheEndIsWhole DEF Pushed
  <2> QED
    BY <1>0, <1>4, <2>1 DEF Pushed, Results
<1>5. CASE ClearEnds(p)
  <2>1. got[p] = Blank
    BY <1>5 DEF ClearEnds, Inv, PlacesFit
  <2> QED
    BY <1>0, <1>5, <2>1 DEF ClearEnds, Results
<1>6. CASE Crash(p)
  BY <1>0, <1>6 DEF Crash, Results
<1> QED
  BY <1>1, <1>2, <1>3, <1>4, <1>5, <1>6 DEF Ends

Begins(p) == BeginPut(p) \/ BeginFetch(p) \/ BeginGet(p) \/ BeginPush(p) \/ BeginClear(p)

LEMMA BeginningKeepsInv ==
  ASSUME Inv, NEW p \in Procs, Begins(p)
  PROVE  Inv'
<1>1. CASE BeginPut(p)
  <2>1. PICK b \in Bundles : Begin(p, "put", "create", [c \in Chunks |-> b])
    BY <1>1 DEF BeginPut
  <2>2. [c \in Chunks |-> b] \in Whole
    BY DEF Whole
  <2> QED
    BY <2>1, <2>2, BeginKeepsInv, BlankAndWhole
<1>2. CASE BeginFetch(p)
  BY <1>2, BeginKeepsInv, BlankAndWhole DEF BeginFetch, Inv, HitsAreWhole
<1>3. CASE BeginGet(p) \/ BeginPush(p) \/ BeginClear(p)
  BY <1>3, BeginKeepsInv, BlankAndWhole DEF BeginGet, BeginPush, BeginClear
<1> QED
  BY <1>1, <1>2, <1>3 DEF Begins

LEMMA NextSplits ==
  ASSUME Next
  PROVE  \E p \in Procs :
           \/ Begins(p) \/ CreateTmp(p) \/ WriteChunk(p) \/ RenameTmp(p) \/ OpenBundle(p)
           \/ ReadChunk(p) \/ ClearFile(p) \/ Ends(p)
  BY DEF Next, Begins, Ends

LEMMA StepKeepsInv ==
  ASSUME Inv, ~ Overlap, [Next]_vars
  PROVE  Inv'
<1>1. CASE UNCHANGED vars
  BY <1>1 DEF vars, Inv, TypeOK, PlacesFit, NamesAreApart, WritersAreAlone, WrittenSoFar,
              ReadersHoldWhole, HitsAreWhole, WriteIsAtomic, Writers, Readers, Writing, TmpOf
<1>2. ASSUME NEW p \in Procs, Ends(p) PROVE Inv'
  BY <1>2, EndingReturns, ReturnKeepsInv
<1> QED
  BY <1>1, <1>2, NextSplits, BeginningKeepsInv, CreateKeepsInv, WriteKeepsInv, RenameKeepsInv,
     OpenKeepsInv, ReadKeepsInv, ClearKeepsInv

LEMMA InvHolds == ASSUME ~ Overlap PROVE Spec => []Inv
  BY InitKeepsInv, StepKeepsInv, PTL DEF Spec

(* local.rs and remote.rs: whatever puts, fetches, clears and crashes do   *)
(* to each other, a hit is a whole bundle of one build, and so is what a   *)
(* push leaves in the remote cache; as long as a temporary file has one    *)
(* writer at a time.                                                       *)
THEOREM HitsAreNeverTorn == ASSUME ~ Overlap PROVE Spec => []HitsAreWhole
<1>1. Inv => HitsAreWhole
  BY DEF Inv
<1> QED
  BY InvHolds, <1>1, PTL

(* LocalCache::put, "Write is atomic via rename": under the same premise   *)
(* the sentence is true, at every moment and not only when someone opens   *)
(* the bundle; without it the run LocalCacheOverlap refutes it.            *)
THEOREM RenameIsAtomic == ASSUME ~ Overlap PROVE Spec => []WriteIsAtomic
<1>1. Inv => WriteIsAtomic
  BY DEF Inv
<1> QED
  BY InvHolds, <1>1, PTL

(* The types, with the file handles that go with each place. *)
THEOREM FilesAreTyped == ASSUME ~ Overlap PROVE Spec => []TypeOK
<1>1. Inv => TypeOK
  BY DEF Inv
<1> QED
  BY InvHolds, <1>1, PTL
-----------------------------------------------------------------------------
(* The refinement: what AtomicCache calls stored and reading.              *)
storedBar  == BundleIn(path["tar"])
readingBar == [p \in Procs |-> IF at[p] = "read" THEN BundleIn(handle[p]) ELSE None]

LEMMA WholeBundles ==
  \A w \in Whole : w[1] \in Bundles
  BY SizeIsPositive DEF Whole, Chunks

(* An operation begins or a chunk is read: nothing anyone could see. *)
LEMMA QuietSteps ==
  ASSUME Inv, NEW p \in Procs, Begins(p) \/ ReadChunk(p)
  PROVE  UNCHANGED <<storedBar, readingBar>>
<1>1. UNCHANGED <<data, path, handle>> /\ \A q \in Procs : at[q] = "read" <=> at'[q] = "read"
  BY DEF Begins, BeginPut, BeginFetch, BeginGet, BeginPush, BeginClear, Begin, ReadChunk,
         Inv, TypeOK, PlacesFit
<1> QED
  BY <1>1 DEF storedBar, readingBar, BundleIn

(* A writer writes: into no file that anyone reads or could open.          *)
LEMMA WritesAreUnseen ==
  ASSUME Inv, Inv', NEW p \in Procs, NEW n \in Inodes,
         p \in Writers', handle'[p] = n,
         \A m \in Inodes \ {n} : data'[m] = data[m],
         UNCHANGED path["tar"],
         Readers' = Readers, \A q \in Procs \ {p} : handle'[q] = handle[q]
  PROVE  UNCHANGED <<storedBar, readingBar>>
<1>1. path["tar"] # n
  BY DEF Inv, WritersAreAlone, TmpOf, Paths
<1>2. storedBar' = storedBar
  BY <1>1 DEF storedBar, BundleIn, Inv, TypeOK, Paths
<1>3. \A q \in Readers : q # p /\ handle'[q] = handle[q] /\ handle[q] \in Inodes \ {n}
  BY DEF Inv, WritersAreAlone, TypeOK, Readers, Writers, Writing
<1>4. readingBar' = readingBar
  BY <1>3 DEF readingBar, BundleIn, Readers
<1> QED
  BY <1>2, <1>4

(* RenameTmp of a file that is still there is the Replace of AtomicCache.  *)
LEMMA RenameReplaces ==
  ASSUME Inv, NEW p \in Procs, RenameTmp(p)
  PROVE  [Atomic!Next]_<<storedBar, readingBar>>
<1>1. at[p] = "rename" /\ p \in Writers /\ at' = [at EXCEPT ![p] = "off"]
      /\ handle' = [handle EXCEPT ![p] = None] /\ UNCHANGED data
  BY DEF RenameTmp, Return, Move, Writers, Writing
<1>2. readingBar' = readingBar
  BY <1>1 DEF readingBar, BundleIn, Inv, TypeOK
<1>3. CASE path[TmpOf(p)] = None
  BY <1>1, <1>2, <1>3 DEF RenameTmp, storedBar, BundleIn
<1>4. CASE path[TmpOf(p)] # None
  <2>1. path'["tar"] = handle[p]
    BY <1>1, <1>4 DEF RenameTmp, TmpOf, Inv, WritersAreAlone, TypeOK, Paths
  <2>2. storedBar' \in Bundles
    BY <1>1, <2>1, WrittenIsWhole, WholeBundles, MarkersAreNoData DEF storedBar, BundleIn
  <2> QED
    BY <1>2, <2>2 DEF Atomic!Next, Atomic!Replace, storedBar, readingBar
<1> QED
  BY <1>3, <1>4

(* Opening the bundle is Open, and what is opened is there.                *)
LEMMA OpenOpens ==
  ASSUME Inv, NEW p \in Procs, OpenBundle(p)
  PROVE  Atomic!Open(p)
<1>1. /\ path["tar"] \in Inodes /\ data[path["tar"]] \in Whole
      /\ handle' = [handle EXCEPT ![p] = path["tar"]] /\ at' = [at EXCEPT ![p] = "read"]
      /\ UNCHANGED <<data, path>>
  BY DEF OpenBundle, Move, Inv, TypeOK, WriteIsAtomic, Paths
<1>2. storedBar # None /\ storedBar' = storedBar
  BY <1>1, WholeBundles, MarkersAreNoData DEF storedBar, BundleIn
<1>3. readingBar' = [readingBar EXCEPT ![p] = storedBar]
  BY <1>1 DEF storedBar, readingBar, BundleIn, Inv, TypeOK
<1> QED
  BY <1>2, <1>3 DEF Atomic!Open, storedBar, readingBar

(* Unlinking the bundle is Clear; unlinking a temporary file is nothing.   *)
LEMMA UnlinkClears ==
  ASSUME Inv, NEW p \in Procs, ClearFile(p)
  PROVE  [Atomic!Next]_<<storedBar, readingBar>>
<1>1. path'["tar"] \in {path["tar"], None} /\ UNCHANGED <<data, at, handle>>
  BY DEF ClearFile, Inv, TypeOK, Paths
<1>2. readingBar' = readingBar /\ storedBar' \in {storedBar, None}
  BY <1>1 DEF readingBar, storedBar, BundleIn
<1> QED
  BY <1>2 DEF Atomic!Next, Atomic!Clear, readingBar, storedBar

(* Whatever ends an operation is Close.                                    *)
LEMMA EndsClose ==
  ASSUME Inv, NEW p \in Procs, Ends(p)
  PROVE  Atomic!Close(p)
<1>1. /\ at' = [at EXCEPT ![p] = "off"] /\ handle' = [handle EXCEPT ![p] = None]
      /\ UNCHANGED <<data, path>>
  BY EndingReturns DEF Return, Move
<1>2. readingBar' = [readingBar EXCEPT ![p] = None] /\ storedBar' = storedBar
  BY <1>1 DEF readingBar, storedBar, BundleIn, Inv, TypeOK
<1> QED
  BY <1>2 DEF Atomic!Close, readingBar, storedBar

LEMMA StepsAreAtomic ==
  ASSUME Inv, Inv', ~ Overlap, [Next]_vars
  PROVE  [Atomic!Next]_<<storedBar, readingBar>>
<1>1. CASE UNCHANGED vars
  BY <1>1 DEF vars, storedBar, readingBar, BundleIn
<1>2. ASSUME NEW p \in Procs, CreateTmp(p)
      PROVE  [Atomic!Next]_<<storedBar, readingBar>>
  <2> DEFINE n == IF path[TmpOf(p)] = None THEN CHOOSE m \in Inodes : Free(m)
                  ELSE path[TmpOf(p)]
  <2>1. /\ n \in Inodes
        /\ path' = [path EXCEPT ![TmpOf(p)] = n] /\ data' = [data EXCEPT ![n] = Blank]
        /\ handle' = [handle EXCEPT ![p] = n] /\ at' = [at EXCEPT ![p] = "write"]
        /\ at[p] = "create"
    BY <1>2 DEF CreateTmp, Move, Inv, TypeOK, TmpOf, Paths
  <2> HIDE DEF n
  <2>2. p \in Writers' /\ Readers' = Readers /\ handle'[p] = n /\ path'["tar"] = path["tar"]
    BY <2>1 DEF Writers, Writing, Readers, Inv, TypeOK, TmpOf, Paths
  <2>3. (\A q \in Procs \ {p} : handle'[q] = handle[q]) /\ \A m \in Inodes \ {n} : data'[m] = data[m]
    BY <2>1 DEF Inv, TypeOK
  <2> QED
    BY <2>1, <2>2, <2>3, WritesAreUnseen
<1>3. ASSUME NEW p \in Procs, WriteChunk(p)
      PROVE  [Atomic!Next]_<<storedBar, readingBar>>
  <2>1. /\ at[p] = "write" /\ at' = [at EXCEPT ![p] = IF offset[p] + 1 = Size THEN "rename" ELSE "write"]
        /\ UNCHANGED <<path, handle>> /\ handle[p] \in Inodes
        /\ data' = [data EXCEPT ![handle[p]][offset[p] + 1] = source[p][offset[p] + 1]]
    BY <1>3 DEF WriteChunk, Move, Inv, TypeOK
  <2>2. p \in Writers' /\ Readers' = Readers
    BY <2>1 DEF Writers, Writing, Readers, Inv, TypeOK
  <2>3. \A m \in Inodes \ {handle[p]} : data'[m] = data[m]
    BY <2>1 DEF Inv, TypeOK
  <2> QED
    BY <2>1, <2>2, <2>3, WritesAreUnseen
<1>4. ASSUME NEW p \in Procs, OpenBundle(p) \/ Ends(p)
      PROVE  Atomic!Next
  BY <1>4, OpenOpens, EndsClose DEF Atomic!Next
<1> QED
  BY <1>1, <1>2, <1>3, <1>4, NextSplits, QuietSteps, RenameReplaces, UnlinkClears

(* The cache directory implements AtomicCache: a put or a fetch takes      *)
(* effect at its rename and a clear at its unlink, all else changes        *)
(* nothing that anyone sees, and a reader keeps the bundle it opened.      *)
THEOREM DirectoryIsAtomic == ASSUME ~ Overlap PROVE Spec => ImplementsAtomicCache
<1>1. Init => Atomic!Init
  BY DEF Init, Atomic!Init, BundleIn, Paths
<1>2. Inv /\ Inv' /\ [Next]_vars => [Atomic!Next]_<<storedBar, readingBar>>
  BY StepsAreAtomic
<1> QED
  BY <1>1, <1>2, InvHolds, PTL DEF Spec, ImplementsAtomicCache, Atomic!Spec, storedBar, readingBar
=============================================================================
