------------------------- MODULE ScriptCache_proofs -------------------------
(***************************************************************************)
(* Proofs about module ScriptCache, for any number of processes, blocks    *)
(* and scripts: its types, the uses of an entry and how a step counts      *)
(* them, and the invariant Core, by which no entry is freed in use.        *)
(***************************************************************************)
EXTENDS ScriptCache, SequenceTheorems, FiniteSetTheorems, TLAPS

-----------------------------------------------------------------------------
(* A process that restores or adds an entry has one: what makes TypeOK     *)
(* inductive.                                                              *)
HasEntry == \A p \in Proc : pc[p] \in {"restore", "add"} => frame[p].ptr \in Block

TypeInv == TypeOK /\ HasEntry

LEMMA SomeKeyType == SomeKey \in Key
  BY ConstantsAssumption DEF SomeKey

LEMMA CardBlocks ==
  ASSUME NEW S, S \subseteq Block
  PROVE  IsFiniteSet(S) /\ Cardinality(S) \in Nat
  BY ConstantsAssumption, FS_Subset, FS_CardinalityType

LEMMA CardUses ==
  ASSUME TypeOK, NEW p \in Proc, NEW b
  PROVE  IsFiniteSet(Uses(p, b)) /\ Cardinality(Uses(p, b)) \in Nat
<1>1. used[p] \in Seq(Block)
  BY DEF TypeOK
<1>2. IsFiniteSet(DOMAIN used[p])
  BY <1>1, LenProperties, FS_Interval
<1>3. Uses(p, b) \subseteq DOMAIN used[p]
  BY DEF Uses
<1> QED
  BY <1>2, <1>3, FS_Subset, FS_CardinalityType

LEMMA TypeInit == Init => TypeInv
  BY SomeKeyType DEF Init, TypeInv, TypeOK, HasEntry, NewEntry, Entry, Frame, NoFrame, Labels

(* What becomes of the entries taken out of the table keeps its type.      *)
LEMMA DiscardType ==
  ASSUME TypeOK, NEW D \in SUBSET Block
  PROVE  /\ Discard(D) => /\ alloc' \subseteq Block /\ removed' \subseteq Block
                          /\ rem_cnt' \in Int
         /\ Flagged(D) \in [Block -> Entry]
<1>1. Kept(D) \subseteq Block
  BY DEF Kept
<1>2. Cardinality(Kept(D)) \in Nat
  BY <1>1, CardBlocks
<1>3. Discard(D) => /\ alloc' \subseteq Block /\ removed' \subseteq Block
                    /\ rem_cnt' \in Int
  BY <1>1, <1>2 DEF TypeOK, Discard
<1>4. Flagged(D) \in [Block -> Entry]
  BY DEF TypeOK, Flagged, Entry
<1> QED
  BY <1>3, <1>4

(* A step of process p moves p alone.                                      *)
LEMMA GoType ==
  ASSUME TypeOK, NEW p \in Proc, NEW l \in Labels, Go(p, l)
  PROVE  /\ pc' \in [Proc -> Labels]
         /\ pc'[p] = l
         /\ \A q \in Proc \ {p} : pc'[q] = pc[q]
  BY DEF TypeOK, Go

LEMMA TypeNext == TypeInv /\ [Next]_vars => TypeInv'
<1> SUFFICES ASSUME TypeInv, [Next]_vars  PROVE TypeInv'
  OBVIOUS
<1> USE DEF TypeInv
<1>a. /\ ShmTtl \in Nat /\ PrunePeriod \in Nat /\ MaxRev \in Nat
      /\ NoFrame \in Frame
  BY ConstantsAssumption, SomeKeyType DEF NoFrame, Frame
<1>1. CASE UNCHANGED vars
  BY <1>1 DEF vars, shm, lists, files, past, local, TypeOK, HasEntry
<1>2. ASSUME NEW p \in Proc, StartRequest(p)  PROVE TypeInv'
  BY <1>2 DEF StartRequest, shm, lists, files, past, TypeOK, HasEntry, Go, Labels
<1>3. ASSUME NEW p \in Proc, NEW k \in Key, CompileFile(p, k)  PROVE TypeInv'
  <2>1. PICK r \in 0 .. MaxRev :
          frame' = [frame EXCEPT ![p] = [NoFrame EXCEPT !.key = k, !.buf = r]]
    BY <1>3 DEF CompileFile
  <2>2. [NoFrame EXCEPT !.key = k, !.buf = r] \in Frame
    <3>1. r \in Nat
      BY <1>a
    <3> QED  BY <1>a, <3>1 DEF Frame
  <2>3. frame' \in [Proc -> Frame] /\ \A q \in Proc \ {p} : frame'[q] = frame[q]
    BY <2>1, <2>2 DEF TypeOK
  <2>4. Go(p, "find") /\ "find" \in Labels
    BY <1>3 DEF CompileFile, Labels
  <2>5. TypeOK'
    BY <1>3, <2>3, <2>4, GoType DEF CompileFile, shm, lists, files, past, TypeOK
  <2>6. HasEntry'
    BY <2>3, <2>4, GoType DEF HasEntry
  <2> QED  BY <2>5, <2>6
<1>4. ASSUME NEW p \in Proc, FindHit(p)  PROVE TypeInv'
  <2>1. PICK b \in hash :
          /\ entry' = [entry EXCEPT ![b].use_cnt = @ + 1, ![b].ttl = Expiry(p)]
          /\ frame' = [frame EXCEPT ![p].ptr = b]
    BY <1>4 DEF FindHit, Cached
  <2>2. b \in Block /\ Expiry(p) \in Nat /\ entry[b] \in Entry
    BY <1>a DEF TypeOK, Expiry
  <2>3. entry' \in [Block -> Entry]
    <3>1. entry[b].use_cnt + 1 \in Int
      BY <2>2 DEF Entry
    <3>2. [entry[b] EXCEPT !.use_cnt = entry[b].use_cnt + 1, !.ttl = Expiry(p)] \in Entry
      BY <2>2, <3>1 DEF Entry
    <3>3. entry' = [entry EXCEPT ![b] =
            [entry[b] EXCEPT !.use_cnt = entry[b].use_cnt + 1, !.ttl = Expiry(p)]]
      BY <2>1, <2>2 DEF TypeOK, Entry
    <3> QED  BY <3>2, <3>3 DEF TypeOK
  <2>4. frame' \in [Proc -> Frame] /\ frame'[p].ptr = b
    BY <2>1, <2>2 DEF TypeOK, Frame
  <2>5. "restore" \in Labels /\ Go(p, "restore")
    BY <1>4 DEF FindHit, Labels
  <2>6. TypeOK'
    BY <1>4, <2>3, <2>4, <2>5, GoType DEF FindHit, files, past, TypeOK
  <2>7. HasEntry'
    BY <2>1, <2>2, <2>4, <2>5, GoType DEF HasEntry
  <2> QED  BY <2>6, <2>7
<1>5. ASSUME NEW p \in Proc, FindStale(p)  PROVE TypeInv'
  <2>1. PICK b \in hash : hash' = hash \ {b} /\ Discard({b}) /\ entry' = Flagged({b})
    BY <1>5 DEF FindStale, Cached
  <2>2. {b} \in SUBSET Block
    BY DEF TypeOK
  <2>3. /\ alloc' \subseteq Block /\ removed' \subseteq Block /\ rem_cnt' \in Int
        /\ entry' \in [Block -> Entry]
    BY <2>1, <2>2, DiscardType
  <2>4. "compile" \in Labels /\ Go(p, "compile")
    BY <1>5 DEF FindStale, Labels
  <2>5. TypeOK'
    <3>1. hash' \subseteq Block /\ hash_cnt' \in Int
      BY <1>5, <2>1 DEF FindStale, TypeOK
    <3>2. pc' \in [Proc -> Labels]
      BY <2>4, GoType
    <3> QED  BY <1>5, <2>3, <3>1, <3>2 DEF FindStale, files, past, local, TypeOK
  <2>6. HasEntry'
    BY <1>5, <2>4, GoType DEF FindStale, local, HasEntry
  <2> QED  BY <2>5, <2>6
<1>6. ASSUME NEW p \in Proc, FindMiss(p)  PROVE TypeInv'
  <2>1. "compile" \in Labels /\ Go(p, "compile")
    BY <1>6 DEF FindMiss, Labels
  <2>2. TypeOK'
    BY <1>6, <2>1, GoType DEF FindMiss, shm, lists, files, past, local, TypeOK
  <2>3. HasEntry'
    BY <1>6, <2>1, GoType DEF FindMiss, local, HasEntry
  <2> QED  BY <2>2, <2>3
<1>7. ASSUME NEW p \in Proc, Restore(p)  PROVE TypeInv'
  BY <1>7, <1>a DEF Restore, Leave, shm, lists, files, past, TypeOK, HasEntry, Go, Labels
<1>8. ASSUME NEW p \in Proc, RestoreRefused(p)  PROVE TypeInv'
  <2>1. frame' \in [Proc -> Frame] /\ \A q \in Proc \ {p} : frame'[q] = frame[q]
    BY <1>8 DEF RestoreRefused, TypeOK, Frame
  <2>2. Go(p, "compile") /\ "compile" \in Labels
    BY <1>8 DEF RestoreRefused, Labels
  <2>3. TypeOK'
    BY <1>8, <2>1, <2>2, GoType DEF RestoreRefused, shm, lists, files, past, TypeOK
  <2>4. HasEntry'
    BY <2>1, <2>2, GoType DEF HasEntry
  <2> QED  BY <2>3, <2>4
<1>9. ASSUME NEW p \in Proc, Compile(p)  PROVE TypeInv'
  <2>1. Go(p, "stat")
    BY <1>9 DEF Compile
  <2>2. "stat" \in Labels
    BY DEF Labels
  <2>3. frame' \in [Proc -> Frame] /\ \A q \in Proc \ {p} : frame'[q] = frame[q]
    BY <1>9 DEF Compile, TypeOK, Frame
  <2>4. TypeOK'
    BY <1>9, <2>1, <2>2, <2>3, GoType DEF Compile, shm, lists, files, past, TypeOK
  <2>5. HasEntry'
    BY <2>1, <2>2, <2>3, GoType DEF HasEntry
  <2> QED  BY <2>4, <2>5
<1>10. ASSUME NEW p \in Proc, CompileFails(p)  PROVE TypeInv'
  BY <1>10, <1>a DEF CompileFails, Leave, shm, lists, files, past, TypeOK, HasEntry, Go, Labels
<1>11. ASSUME NEW p \in Proc, KeepStat(p)  PROVE TypeInv'
  <2>1. "malloc" \in Labels /\ Go(p, "malloc")
    BY <1>11 DEF KeepStat, Labels
  <2>2. TypeOK'
    BY <1>11, <2>1, GoType DEF KeepStat, shm, lists, files, past, local, TypeOK
  <2>3. HasEntry'
    BY <1>11, <2>1, GoType DEF KeepStat, local, HasEntry
  <2> QED  BY <2>2, <2>3
<1>12. ASSUME NEW p \in Proc, StatAfter(p)  PROVE TypeInv'
  <2>1. PICK l \in {"malloc", "run"} : Go(p, l)
    BY <1>12 DEF StatAfter, Leave
  <2>2. l \in Labels /\ l \notin {"restore", "add"}
    BY DEF Labels
  <2>3. frame' \in [Proc -> Frame] /\ \A q \in Proc \ {p} : frame'[q] = frame[q]
    <3>1. CASE frame' = [frame EXCEPT ![p].buf = rev[frame[p].key]]
      <4>1. rev[frame[p].key] \in Nat
        BY DEF TypeOK, Frame
      <4> QED  BY <3>1, <4>1 DEF TypeOK, Frame
    <3>2. CASE frame' = [frame EXCEPT ![p] = NoFrame]
      BY <3>2, <1>a DEF TypeOK
    <3> QED  BY <1>12, <3>1, <3>2 DEF StatAfter, Leave
  <2>4. TypeOK'
    BY <1>12, <2>1, <2>2, <2>3, GoType DEF StatAfter, shm, lists, files, past, TypeOK
  <2>5. HasEntry'
    BY <2>1, <2>2, <2>3, GoType DEF HasEntry
  <2> QED  BY <2>4, <2>5
<1>13. ASSUME NEW p \in Proc, Malloc(p)  PROVE TypeInv'
  <2>1. PICK b \in Block :
          /\ alloc' = alloc \cup {b}
          /\ entry' = [entry EXCEPT ![b] =
               NewEntry(frame[p].key, frame[p].buf, frame[p].code, Expiry(p))]
          /\ frame' = [frame EXCEPT ![p].ptr = b]
    BY <1>13 DEF Malloc
  <2>2. Expiry(p) \in Nat /\ frame[p] \in Frame
    BY <1>a DEF TypeOK, Expiry
  <2>3. NewEntry(frame[p].key, frame[p].buf, frame[p].code, Expiry(p)) \in Entry
    BY <2>2 DEF NewEntry, Entry, Frame
  <2>4. entry' \in [Block -> Entry] /\ alloc' \subseteq Block
    BY <2>1, <2>3 DEF TypeOK
  <2>5. /\ frame' \in [Proc -> Frame] /\ frame'[p].ptr = b
        /\ \A q \in Proc \ {p} : frame'[q] = frame[q]
    BY <2>1, <2>2 DEF TypeOK, Frame
  <2>6. "add" \in Labels /\ Go(p, "add")
    BY <1>13 DEF Malloc, Labels
  <2>7. TypeOK'
    BY <1>13, <2>4, <2>5, <2>6, GoType DEF Malloc, files, past, TypeOK
  <2>8. HasEntry'
    BY <2>5, <2>6, GoType DEF HasEntry
  <2> QED  BY <2>7, <2>8
<1>14. ASSUME NEW p \in Proc, MallocFails(p)  PROVE TypeInv'
  <2>1. PICK l \in {"malloc2", "run"} : Go(p, l)
    BY <1>14 DEF MallocFails, Leave
  <2>2. l \in Labels /\ l \notin {"restore", "add"}
    BY DEF Labels
  <2>3. frame' \in [Proc -> Frame] /\ \A q \in Proc \ {p} : frame'[q] = frame[q]
    BY <1>14, <1>a DEF MallocFails, Leave, TypeOK
  <2>4. TypeOK'
    BY <1>14, <2>1, <2>2, <2>3, GoType DEF MallocFails, shm, lists, files, past, TypeOK
  <2>5. HasEntry'
    BY <2>1, <2>2, <2>3, GoType DEF HasEntry
  <2> QED  BY <2>4, <2>5
<1>15. ASSUME NEW p \in Proc, Malloc2(p)  PROVE TypeInv'
  BY <1>15, <1>a DEF Malloc2, Leave, shm, lists, files, past, TypeOK, HasEntry, Go, Labels
<1>16. ASSUME NEW t \in Nat, Prune(t), UNCHANGED <<files, local>>
       PROVE  TypeOK' <=> pc' \in [Proc -> Labels]
  BY <1>16, CardBlocks DEF Prune, files, past, local, TypeOK
<1>17. ASSUME NEW p \in Proc, PruneForSpace(p)  PROVE TypeInv'
  BY <1>16, <1>17 DEF PruneForSpace, TypeOK, HasEntry, Go, Labels, local
<1>18. ASSUME NEW p \in Proc, Add(p)  PROVE TypeInv'
  BY <1>18, <1>a, DiscardType, CardBlocks DEF Add, Replaced, Cached, Leave, files, past, TypeOK, HasEntry, Go, Labels
<1>19. ASSUME NEW p \in Proc, CleanRequest(p)  PROVE TypeInv'
  <2>1. PICK l \in {"idle", "release"} : Go(p, l)
    BY <1>19 DEF CleanRequest
  <2>2. l \in Labels /\ l \notin {"restore", "add"}
    BY DEF Labels
  <2>3. entry' \in [Block -> Entry]
    <3>1. ASSUME NEW b \in Block
          PROVE  [entry[b] EXCEPT !.use_cnt = Left(p, b)] \in Entry
      <4>1. Left(p, b) \in Int /\ entry[b] \in Entry
        BY CardUses DEF Left, TypeOK, Entry
      <4> QED  BY <4>1 DEF Entry
    <3> QED  BY <1>19, <3>1 DEF CleanRequest
  <2>4. LastUse(p) \subseteq Block /\ Cardinality(LastUse(p)) \in Nat
    BY CardBlocks DEF LastUse, TypeOK
  <2>5. removed' \subseteq Block /\ alloc' \subseteq Block /\ rem_cnt' \in Int
    BY <1>19, <2>4 DEF CleanRequest, TypeOK
  <2>6. used' \in [Proc -> Seq(Block)]
    BY <1>19 DEF CleanRequest, TypeOK
  <2>7. stale' \in [Proc -> SUBSET Block]
    <3>1. RangeOf(used[p]) \subseteq Block
      BY DEF TypeOK, RangeOf
    <3>2. {b \in RangeOf(used[p]) : b \in LastUse(p) => Cardinality(Uses(p, b)) > 1}
            \in SUBSET Block
      BY <3>1
    <3> QED  BY <1>19, <3>2 DEF CleanRequest, TypeOK
  <2>8. TypeOK'
    <3>1. pc' \in [Proc -> Labels]
      BY <2>1, <2>2, GoType
    <3> QED  BY <1>19, <2>3, <2>5, <2>6, <2>7, <3>1 DEF CleanRequest, files, past, TypeOK
  <2>9. HasEntry'
    BY <1>19, <2>1, <2>2, GoType DEF CleanRequest, HasEntry
  <2> QED  BY <2>8, <2>9
<1>20. ASSUME NEW p \in Proc, NEW b \in Block, FreeUsed(p, b)  PROVE TypeInv'
  BY <1>20 DEF FreeUsed, files, past, TypeOK, HasEntry, Go, Labels
<1>21. ASSUME NEW p \in Proc, Crash(p)  PROVE TypeInv'
  BY <1>21, <1>a DEF Crash, shm, lists, files, TypeOK, HasEntry, Go, Labels
<1>22. ASSUME NEW p \in Proc, Clean(p)  PROVE TypeInv'
  BY <1>16, <1>22 DEF Clean, TypeOK, HasEntry, local
<1>23. ASSUME NEW p \in Proc, Clear(p)  PROVE TypeInv'
  BY <1>23, DiscardType, CardBlocks DEF Clear, files, past, local, TypeOK, HasEntry
<1>24. ASSUME NEW p \in Proc, Purge(p)  PROVE TypeInv'
  BY <1>24 DEF Purge, files, past, local, TypeOK, HasEntry
<1>25. ASSUME NEW p \in Proc, SetCheckMtime(p)  PROVE TypeInv'
  BY <1>25 DEF SetCheckMtime, lists, files, past, local, TypeOK, HasEntry
<1>26. ASSUME NEW k \in Key, Edit(k) \/ Delete(k)  PROVE TypeInv'
  BY <1>26 DEF Edit, Delete, shm, lists, past, local, TypeOK, HasEntry
<1>27. CASE Tick
  BY <1>27 DEF Tick, shm, lists, past, local, TypeOK, HasEntry
<1> QED
  BY <1>1, <1>2, <1>3, <1>4, <1>5, <1>6, <1>7, <1>8, <1>9, <1>10, <1>11, <1>12, <1>13,
     <1>14, <1>15, <1>17, <1>18, <1>19, <1>20, <1>21, <1>22, <1>23, <1>24, <1>25,
     <1>26, <1>27 DEF Next, Serve

(* Type correctness of the script cache.                                   *)
THEOREM TypeCorrect == Spec => []TypeOK
<1>1. Spec => []TypeInv
  BY TypeInit, TypeNext, PTL DEF Spec
<1> QED
  BY <1>1, PTL DEF TypeInv
-----------------------------------------------------------------------------
(* The live uses of an entry, counted, and those of one process among them. *)
Count(b) == Cardinality(Users(b))

Of(p, b) == {u \in Users(b) : u[1] = p}

Others(p, b) == {u \in Users(b) : u[1] # p}

Restoring(p, b) == pc[p] = "restore" /\ frame[p].ptr = b

Mine(p, b) == Cardinality(Uses(p, b)) + IF Restoring(p, b) THEN 1 ELSE 0

(* A use is that of one process.                                           *)
UsersAre ==
  \A b, u : u \in Users(b) <=>
    \E p \in Proc : \/ \E i \in Uses(p, b) : u = <<p, i>>
                    \/ u = <<p, 0>> /\ Restoring(p, b)

LEMMA UsersMember == UsersAre
  BY DEF Users, Restoring, UsersAre

(* The uses of a process are as many as Mine says.                         *)
LEMMA OfCard ==
  ASSUME TypeOK, NEW p \in Proc, NEW b
  PROVE  IsFiniteSet(Of(p, b)) /\ Cardinality(Of(p, b)) = Mine(p, b)
<1> DEFINE T == {<<p, i>> : i \in Uses(p, b)}
           f == [i \in Uses(p, b) |-> <<p, i>>]
<1>1. IsFiniteSet(Uses(p, b)) /\ Cardinality(Uses(p, b)) \in Nat
  BY CardUses
<1>2. f \in Bijection(Uses(p, b), T)
  <2>1. f \in [Uses(p, b) -> T]
    OBVIOUS
  <2>2. \A i, j \in Uses(p, b) : f[i] = f[j] => i = j
    OBVIOUS
  <2>3. \A t \in T : \E i \in Uses(p, b) : f[i] = t
    OBVIOUS
  <2> HIDE DEF T, f
  <2> QED  BY <2>1, <2>2, <2>3 DEF Bijection, Injection, IsInjective, Surjection
<1>3. IsFiniteSet(T) /\ Cardinality(T) = Cardinality(Uses(p, b))
  BY <1>1, <1>2, FS_Bijection DEF ExistsBijection
<1>4. <<p, 0>> \notin T
  <2>1. used[p] \in Seq(Block)
    BY DEF TypeOK
  <2>2. 0 \notin Uses(p, b)
    BY <2>1 DEF Uses
  <2> QED  BY <2>2
<1>5. CASE Restoring(p, b)
  <2>1. Of(p, b) = T \cup {<<p, 0>>}
    BY <1>5, UsersMember DEF UsersAre, Of
  <2>2. Mine(p, b) = Cardinality(Uses(p, b)) + 1
    BY <1>5 DEF Mine
  <2>3. /\ IsFiniteSet(T \cup {<<p, 0>>})
        /\ Cardinality(T \cup {<<p, 0>>}) = Cardinality(T) + 1
    BY <1>3, <1>4, FS_AddElement
  <2> HIDE DEF T
  <2> QED  BY <1>3, <2>1, <2>2, <2>3
<1>6. CASE ~ Restoring(p, b)
  <2>1. Of(p, b) = T
    BY <1>6, UsersMember DEF UsersAre, Of
  <2> QED  BY <1>1, <1>3, <1>6, <2>1 DEF Mine
<1> QED
  BY <1>5, <1>6

(* There are only finitely many uses, those of a process and the others.   *)
LEMMA UsersSplit ==
  ASSUME TypeOK, NEW p \in Proc, NEW b
  PROVE  /\ Mine(p, b) \in Nat /\ Cardinality(Others(p, b)) \in Nat
         /\ Count(b) \in Nat /\ IsFiniteSet(Users(b))
         /\ Count(b) = Cardinality(Others(p, b)) + Mine(p, b)
<1> DEFINE S == {Of(q, b) : q \in Proc}
           f == [q \in Proc |-> Of(q, b)]
<1>1. IsFiniteSet(S)
  <2>1. f \in Surjection(Proc, S)
    BY DEF Surjection
  <2> QED  BY <2>1, ConstantsAssumption, FS_Surjection
<1>2. \A U \in S : IsFiniteSet(U)
  BY OfCard
<1>3. Users(b) = UNION S
  BY UsersMember DEF UsersAre, Of
<1>4. IsFiniteSet(Users(b))
  BY <1>1, <1>2, <1>3, FS_UNION
<1>5. IsFiniteSet(Others(p, b))
  BY <1>4, FS_Subset DEF Others
<1>6. Users(b) = Others(p, b) \cup Of(p, b) /\ Others(p, b) \cap Of(p, b) = {}
  BY DEF Others, Of
<1>7. Cardinality(Users(b)) = Cardinality(Others(p, b)) + Cardinality(Of(p, b)) - 0
  BY <1>5, <1>6, OfCard, FS_Union, FS_EmptySet
<1>8. Mine(p, b) \in Nat
  BY CardUses DEF Mine
<1>9. Cardinality(Others(p, b)) \in Nat
  BY <1>5, FS_CardinalityType
<1> QED
  BY <1>4, <1>7, <1>8, <1>9, OfCard DEF Count

(* An entry nobody has among his pins is one with no uses.                 *)
LEMMA Unused ==
  ASSUME TypeOK, NEW b
  PROVE  /\ Count(b) \in Nat
         /\ Count(b) = 0 <=> ~ InUse(b)
         /\ Users(b) = {} <=> ~ InUse(b)
<1>1. Users(b) = {} <=> ~ InUse(b)
  <2>1. InUse(b) <=> \E p \in Proc : Uses(p, b) # {} \/ Restoring(p, b)
    BY DEF InUse, Pins, RangeOf, Uses, Restoring
  <2>2. Users(b) # {} <=> \E p \in Proc : Uses(p, b) # {} \/ Restoring(p, b)
    BY UsersMember DEF UsersAre
  <2> QED  BY <2>1, <2>2
<1>2. CASE Proc = {}
  <2>1. Users(b) = {}
    BY <1>2, UsersMember DEF UsersAre
  <2> QED  BY <1>1, <2>1, FS_EmptySet DEF Count
<1>3. CASE Proc # {}
  <2>1. PICK p \in Proc : TRUE
    BY <1>3
  <2>2. IsFiniteSet(Users(b)) /\ Count(b) \in Nat
    BY <2>1, UsersSplit
  <2> QED  BY <1>1, <2>2, FS_EmptySet DEF Count
<1> QED
  BY <1>2, <1>3

LEMMA CountNat == TypeOK => \A b : Count(b) \in Nat
  BY Unused

LEMMA UnusedAll == TypeOK => \A b : Count(b) = 0 <=> ~ InUse(b)
  BY Unused

Splits ==
  \A p \in Proc : \A b :
    /\ Mine(p, b) \in Nat /\ Cardinality(Others(p, b)) \in Nat
    /\ Count(b) = Cardinality(Others(p, b)) + Mine(p, b)

LEMMA SplitsNow == TypeOK => Splits
  BY UsersSplit DEF Splits

LEMMA SplitsNext == TypeOK' => Splits'
  BY SplitsNow, PTL

LEMMA UsersNext == UsersAre'
  BY UsersMember, PTL

(* A step of one process leaves the uses of the others as they are.        *)
OnlyOf(p) ==
  \A q \in Proc \ {p} : /\ used'[q] = used[q] /\ pc'[q] = pc[q]
                        /\ frame'[q] = frame[q]

LEMMA CountStep ==
  ASSUME TypeOK, TypeOK', NEW p \in Proc, OnlyOf(p), NEW b
  PROVE  /\ Count(b) \in Nat /\ Count(b)' \in Nat
         /\ Mine(p, b) \in Nat /\ Mine(p, b)' \in Nat
         /\ Count(b)' - Mine(p, b)' = Count(b) - Mine(p, b)
         /\ Count(b) >= Mine(p, b) /\ Count(b)' >= Mine(p, b)'
<1>1. Others(p, b)' = Others(p, b)
  <2>1. \A q \in Proc \ {p} : Uses(q, b)' = Uses(q, b) /\ (Restoring(q, b)' <=> Restoring(q, b))
    BY DEF OnlyOf, Uses, Restoring
  <2>2. \A u : u \in Others(p, b) <=>
          \E q \in Proc \ {p} : \/ \E i \in Uses(q, b) : u = <<q, i>>
                                \/ u = <<q, 0>> /\ Restoring(q, b)
    BY UsersMember DEF UsersAre, Others
  <2>3. (\A u : u \in Others(p, b) <=>
          \E q \in Proc \ {p} : \/ \E i \in Uses(q, b) : u = <<q, i>>
                                \/ u = <<q, 0>> /\ Restoring(q, b))'
    BY UsersNext DEF UsersAre, Others
  <2>4. \A u : u \in Others(p, b)' <=> u \in Others(p, b)
    BY <2>1, <2>2, <2>3
  <2> QED  BY <2>4 DEF Others
<1>2. /\ Mine(p, b)' \in Nat /\ Cardinality(Others(p, b)') \in Nat
      /\ Count(b)' = Cardinality(Others(p, b)') + Mine(p, b)'
  BY SplitsNext DEF Splits
<1> QED
  BY <1>1, <1>2, UsersSplit

(* Most steps of a process neither begin nor end a use.                    *)
LEMMA CountQuiet ==
  ASSUME TypeOK, TypeOK', NEW p \in Proc, OnlyOf(p), used'[p] = used[p],
         pc[p] # "restore", pc'[p] # "restore"
  PROVE  \A b : Count(b)' = Count(b) /\ Count(b) \in Nat
<1>1. ASSUME NEW b  PROVE Mine(p, b)' = Mine(p, b)
  BY DEF Mine, Uses, Restoring
<1> QED
  BY <1>1, CountStep

(* Nor do the steps that leave requests as they are.                       *)
LEMMA CountSame ==
  ASSUME TypeOK, UNCHANGED <<pc, used, frame>>
  PROVE  \A b : Users(b)' = Users(b) /\ Count(b)' = Count(b) /\ Count(b) \in Nat
<1>1. \A b : Users(b)' = Users(b)
  BY DEF Users, Uses
<1> QED
  BY <1>1, CountNat DEF Count

(* A look-up that finds an entry adds one use of it.                       *)
LEMMA CountFound ==
  ASSUME TypeOK, TypeOK', NEW p \in Proc, OnlyOf(p), used'[p] = used[p],
         pc[p] # "restore", pc'[p] = "restore", NEW c, frame'[p].ptr = c
  PROVE  \A b : /\ Count(b)' = Count(b) + (IF b = c THEN 1 ELSE 0)
                /\ Count(b) \in Nat
<1>1. ASSUME NEW b  PROVE Mine(p, b)' = Mine(p, b) + IF b = c THEN 1 ELSE 0
  <2>1. Uses(p, b)' = Uses(p, b)
    BY DEF Uses
  <2>2. ~ Restoring(p, b) /\ (Restoring(p, b)' <=> b = c)
    BY DEF Restoring
  <2> QED  BY <2>1, <2>2, CardUses DEF Mine
<1> QED
  BY <1>1, CountStep

(* Refusing it takes that use back.                                        *)
LEMMA CountRefused ==
  ASSUME TypeOK, TypeOK', NEW p \in Proc, OnlyOf(p), used'[p] = used[p],
         pc[p] = "restore", pc'[p] # "restore"
  PROVE  \A b : /\ Count(b)' = Count(b) - (IF b = frame[p].ptr THEN 1 ELSE 0)
                /\ Count(b) \in Nat
<1>1. ASSUME NEW b
      PROVE  Mine(p, b)' = Mine(p, b) - IF b = frame[p].ptr THEN 1 ELSE 0
  <2>1. Uses(p, b)' = Uses(p, b)
    BY DEF Uses
  <2>2. ~ Restoring(p, b)' /\ (Restoring(p, b) <=> b = frame[p].ptr)
    BY DEF Restoring
  <2> QED  BY <2>1, <2>2, CardUses DEF Mine
<1> QED
  BY <1>1, CountStep

(* Restoring it keeps the use, under another number.                       *)
LEMMA CountRestored ==
  ASSUME TypeOK, TypeOK', NEW p \in Proc, OnlyOf(p), frame[p].ptr \in Block,
         used'[p] = Append(used[p], frame[p].ptr),
         pc[p] = "restore", pc'[p] # "restore"
  PROVE  \A b : Count(b)' = Count(b) /\ Count(b) \in Nat
<1> DEFINE c == frame[p].ptr
           n == Len(used[p])
<1>1. used[p] \in Seq(Block) /\ n \in Nat
  BY LenProperties DEF TypeOK
<1>2. /\ DOMAIN used[p] = 1 .. n /\ DOMAIN used'[p] = 1 .. n + 1
      /\ \A i \in 1 .. n : used'[p][i] = used[p][i]
      /\ used'[p][n + 1] = c
  BY <1>1, AppendProperties, LenProperties
<1>3. ASSUME NEW b  PROVE Mine(p, b)' = Mine(p, b)
  <2>1. IsFiniteSet(Uses(p, b)) /\ Cardinality(Uses(p, b)) \in Nat
    BY CardUses
  <2>2. ~ Restoring(p, b)' /\ (Restoring(p, b) <=> b = c)
    BY DEF Restoring
  <2>3. CASE b = c
    <3>1. Uses(p, b)' = Uses(p, b) \cup {n + 1} /\ n + 1 \notin Uses(p, b)
      BY <1>1, <1>2, <2>3 DEF Uses
    <3>2. Cardinality(Uses(p, b)') = Cardinality(Uses(p, b)) + 1
      BY <2>1, <3>1, FS_AddElement
    <3> QED  BY <2>1, <2>2, <2>3, <3>2 DEF Mine
  <2>4. CASE b # c
    <3>1. Uses(p, b)' = Uses(p, b)
      BY <1>1, <1>2, <2>4 DEF Uses
    <3> QED  BY <2>1, <2>2, <2>4, <3>1 DEF Mine
  <2> QED  BY <2>3, <2>4
<1> QED
  BY <1>3, CountStep

(* A request that ends has no uses any more.                               *)
LEMMA CountEnded ==
  ASSUME TypeOK, TypeOK', NEW p \in Proc, OnlyOf(p), used'[p] = << >>,
         pc'[p] # "restore"
  PROVE  \A b : /\ Mine(p, b)' = 0 /\ Mine(p, b) \in Nat
                /\ Count(b)' = Count(b) - Mine(p, b)
                /\ Count(b) \in Nat /\ Count(b)' \in Nat
<1>1. ASSUME NEW b  PROVE Mine(p, b)' = 0
  <2>1. Uses(p, b)' = {}
    BY DEF Uses
  <2>2. ~ Restoring(p, b)'
    BY DEF Restoring
  <2> QED  BY <2>1, <2>2, FS_EmptySet DEF Mine
<1> QED
  BY <1>1, CountStep
-----------------------------------------------------------------------------
(* A file is not edited between the moment a request looks at it and the   *)
(* last use of what it compiled from it.                                   *)
QuietStat == QuietEdits /\ CheckMtime /\ "check_mtime" \notin AdminOps

(* eaccelerator_prune frees what it takes out of the table without a look  *)
(* at use_cnt, and eaccelerator_purge what is on the removed list.         *)
PruneIsSafe ==
  \/ PrunePeriod = 0 /\ "clean" \notin AdminOps
  \/ QuietStat

PurgeIsSafe == QuietPurge \/ "purge" \notin AdminOps

(* What holds of every block, on the lists or not.                         *)
Sound(b) ==
  /\ b \in hash => b \notin removed /\ b \in alloc /\ ~ entry[b].removed
  /\ b \in removed => b \in alloc /\ entry[b].removed
  /\ entry[b].use_cnt >= Count(b)
  /\ Count(b) > 0 => b \in hash \cup removed

Counted == hash_cnt = Cardinality(hash) /\ rem_cnt = Cardinality(removed)

(* A block being filled is on no list and belongs to one process.          *)
Apart(b) ==
  b \in alloc /\ b \notin hash /\ b \notin removed /\ ~ entry[b].removed

Storers ==
  /\ \A p \in Proc : pc[p] = "add" => Apart(frame[p].ptr)
  /\ \A p, q \in Proc :
       pc[p] = "add" /\ pc[q] = "add" /\ p # q => frame[p].ptr # frame[q].ptr

(* With quiet edits, a request knows the file as it is, and so does an     *)
(* entry in use.                                                           *)
Fresh ==
  QuietStat =>
    /\ check_mtime
    /\ \A p \in Proc : pc[p] \notin {"idle", "run", "release"} =>
         frame[p].key \in present /\ frame[p].buf = rev[frame[p].key]
    /\ \A b \in hash : Count(b) > 0 => ~ Changed(b)

(* Between two requests a process uses nothing, and it prunes only when    *)
(* there is a period to do so.                                             *)
Ended == \A p \in Proc : pc[p] \in {"idle", "release"} => used[p] = << >>

Pruning == \A p \in Proc : pc[p] = "prune" => PrunePeriod # 0

Core ==
  /\ TypeInv /\ Counted /\ Storers /\ Fresh /\ Ended /\ Pruning
  /\ \A b \in Block : Sound(b)
-----------------------------------------------------------------------------
(* Steps that touch none of the lists.                                     *)
Passing(p) ==
  \/ StartRequest(p) \/ Crash(p) \/ SetCheckMtime(p)
  \/ \E k \in Key : CompileFile(p, k)
  \/ FindMiss(p) \/ Restore(p) \/ RestoreRefused(p)
  \/ Compile(p) \/ CompileFails(p) \/ KeepStat(p) \/ StatAfter(p)
  \/ MallocFails(p) \/ Malloc2(p)

Outside ==
  \/ \E k \in Key : Edit(k) \/ Delete(k)
  \/ Tick \/ UNCHANGED vars

Listing(p) ==
  \/ FindHit(p) \/ FindStale(p) \/ Malloc(p) \/ PruneForSpace(p) \/ Add(p)
  \/ CleanRequest(p) \/ \E b \in Block : FreeUsed(p, b)
  \/ Clean(p) \/ Clear(p) \/ Purge(p)

LEMMA Steps ==
  [Next]_vars => Outside \/ \E p \in Proc : Passing(p) \/ Listing(p)
<1>1. ASSUME NEW p \in Proc, Serve(p)  PROVE Passing(p) \/ Listing(p)
  BY <1>1 DEF Serve, Passing, Listing
<1>2. Next => Outside \/ \E p \in Proc : Passing(p) \/ Listing(p)
  BY <1>1 DEF Next, Outside, Passing, Listing
<1> QED
  BY <1>2 DEF Outside

(* What they leave alone; a use only ends with the request, or is lost.    *)
Aside ==
  /\ UNCHANGED lists
  /\ \A q \in Proc : pc'[q] = "add" => pc[q] = "add" /\ frame'[q] = frame[q]
  /\ \A b : /\ Count(b) \in Nat /\ Count(b)' \in Nat /\ Count(b)' <= Count(b)
            /\ UNCHANGED past => Count(b)' = Count(b)
  /\ crashes' = 0 /\ refused' = 0 => UNCHANGED past

LEMMA AloneGo ==
  ASSUME TypeOK, NEW p \in Proc, NEW l, Go(p, l)
  PROVE  pc'[p] = l /\ \A q \in Proc \ {p} : pc'[q] = pc[q]
  BY DEF TypeOK, Go

LEMMA AloneFrame ==
  ASSUME TypeOK, NEW p \in Proc, NEW f, frame' = [frame EXCEPT ![p] = f]
  PROVE  frame'[p] = f /\ \A q \in Proc \ {p} : frame'[q] = frame[q]
  BY DEF TypeOK

LEMMA AloneUsed ==
  ASSUME TypeOK, NEW p \in Proc, NEW s, used' = [used EXCEPT ![p] = s]
  PROVE  used'[p] = s /\ \A q \in Proc \ {p} : used'[q] = used[q]
  BY DEF TypeOK

(* A step of process p with the uses as they are.                          *)
LEMMA QuietAside ==
  ASSUME TypeOK, TypeOK', NEW p \in Proc, OnlyOf(p), UNCHANGED <<lists, used, past>>,
         pc[p] # "restore", pc'[p] \notin {"restore", "add"}
  PROVE  Aside
<1>1. used'[p] = used[p]
  OBVIOUS
<1>2. \A b : Count(b)' = Count(b) /\ Count(b) \in Nat
  BY <1>1, CountQuiet
<1>3. \A q \in Proc : pc'[q] = "add" => pc[q] = "add" /\ frame'[q] = frame[q]
  BY DEF OnlyOf
<1> QED
  BY <1>2, <1>3 DEF Aside, past

LEMMA PassingAside ==
  ASSUME TypeInv, TypeInv', Ended, NEW p \in Proc, Passing(p)
  PROVE  OnlyOf(p) /\ Aside
<1> USE DEF TypeInv
<1>1. CASE StartRequest(p)
  <2>1. /\ pc[p] = "idle" /\ pc'[p] = "run" /\ used'[p] = << >>
        /\ UNCHANGED <<lists, frame, past>>
    BY <1>1, AloneGo, AloneUsed DEF StartRequest, shm
  <2>2. OnlyOf(p)
    BY <1>1, AloneGo, AloneUsed DEF StartRequest, OnlyOf
  <2>3. used'[p] = used[p]
    BY <2>1 DEF Ended
  <2>4. \A b : Count(b)' = Count(b) /\ Count(b) \in Nat
    BY <2>1, <2>2, <2>3, CountQuiet
  <2> QED  BY <2>1, <2>2, <2>4 DEF Aside, OnlyOf, past
<1>2. CASE Crash(p)
  <2>1. /\ pc'[p] = "idle" /\ used'[p] = << >> /\ crashes' = crashes + 1
        /\ UNCHANGED lists
    BY <1>2, AloneGo, AloneUsed DEF Crash, shm
  <2>2. OnlyOf(p)
    BY <1>2, AloneGo, AloneUsed, AloneFrame DEF Crash, OnlyOf
  <2>3. \A b : /\ Mine(p, b) \in Nat /\ Count(b)' = Count(b) - Mine(p, b)
               /\ Count(b) \in Nat /\ Count(b)' \in Nat
    BY <2>1, <2>2, CountEnded
  <2>4. crashes' # 0
    BY <2>1 DEF TypeOK
  <2>5. ~ UNCHANGED past
    BY <2>1 DEF TypeOK, past
  <2> QED  BY <2>1, <2>2, <2>3, <2>4, <2>5 DEF Aside, OnlyOf
<1>3. CASE SetCheckMtime(p)
  <2>1. UNCHANGED <<lists, pc, used, frame, past>>
    BY <1>3 DEF SetCheckMtime, local
  <2> QED  BY <2>1, CountSame DEF Aside, OnlyOf, past
<1>4. CASE \E k \in Key : CompileFile(p, k)
  <2>1. PICK k \in Key : CompileFile(p, k)
    BY <1>4
  <2>2. PICK f : frame' = [frame EXCEPT ![p] = f]
    BY <2>1 DEF CompileFile
  <2>3. OnlyOf(p)
    BY <2>1, <2>2, AloneGo, AloneFrame DEF CompileFile, OnlyOf
  <2>4. /\ pc[p] # "restore" /\ pc'[p] \notin {"restore", "add"}
        /\ UNCHANGED <<lists, used, past>>
    BY <2>1, AloneGo DEF CompileFile, shm
  <2> QED  BY <2>3, <2>4, QuietAside
<1>5. CASE FindMiss(p)
  <2>1. /\ OnlyOf(p) /\ pc[p] # "restore" /\ pc'[p] \notin {"restore", "add"}
        /\ UNCHANGED <<lists, used, past>>
    BY <1>5, AloneGo DEF FindMiss, OnlyOf, shm, local
  <2> QED  BY <2>1, QuietAside
<1>6. CASE Restore(p)
  <2>1. OnlyOf(p)
    BY <1>6, AloneGo, AloneFrame, AloneUsed DEF Restore, Leave, OnlyOf
  <2>2. /\ pc[p] = "restore" /\ pc'[p] = "run" /\ UNCHANGED <<lists, past>>
        /\ used'[p] = Append(used[p], frame[p].ptr)
    BY <1>6, AloneGo, AloneUsed DEF Restore, Leave, shm
  <2>3. frame[p].ptr \in Block
    BY <2>2 DEF HasEntry
  <2>4. \A b : Count(b)' = Count(b) /\ Count(b) \in Nat
    BY <2>1, <2>2, <2>3, CountRestored
  <2> QED  BY <2>1, <2>2, <2>4 DEF Aside, OnlyOf, past
<1>7. CASE RestoreRefused(p)
  <2>1. OnlyOf(p)
    BY <1>7, AloneGo DEF RestoreRefused, OnlyOf, TypeOK
  <2>2. /\ pc[p] = "restore" /\ pc'[p] = "compile" /\ UNCHANGED <<lists, used>>
        /\ refused' = refused + 1
    BY <1>7, AloneGo DEF RestoreRefused, shm
  <2>3. used'[p] = used[p] /\ refused' # 0
    BY <2>2 DEF TypeOK
  <2>4. \A b : Count(b)' = Count(b) - (IF b = frame[p].ptr THEN 1 ELSE 0)
    BY <2>1, <2>2, <2>3, CountRefused
  <2>5. \A b : Count(b) \in Nat /\ Count(b)' \in Nat
    BY <2>1, CountStep
  <2>6. ~ UNCHANGED past
    BY <2>2 DEF TypeOK, past
  <2> QED  BY <2>1, <2>2, <2>3, <2>4, <2>5, <2>6 DEF Aside, OnlyOf
<1>8. CASE Compile(p)
  <2>1. OnlyOf(p)
    BY <1>8, AloneGo DEF Compile, OnlyOf, TypeOK
  <2>2. /\ pc[p] # "restore" /\ pc'[p] \notin {"restore", "add"}
        /\ UNCHANGED <<lists, used, past>>
    BY <1>8, AloneGo DEF Compile, shm
  <2> QED  BY <2>1, <2>2, QuietAside
<1>9. CASE CompileFails(p)
  <2>1. /\ OnlyOf(p) /\ pc[p] # "restore" /\ pc'[p] \notin {"restore", "add"}
        /\ UNCHANGED <<lists, used, past>>
    BY <1>9, AloneGo, AloneFrame DEF CompileFails, Leave, OnlyOf, shm
  <2> QED  BY <2>1, QuietAside
<1>10. CASE KeepStat(p)
  <2>1. /\ OnlyOf(p) /\ pc[p] # "restore" /\ pc'[p] \notin {"restore", "add"}
        /\ UNCHANGED <<lists, used, past>>
    BY <1>10, AloneGo DEF KeepStat, OnlyOf, shm, local
  <2> QED  BY <2>1, QuietAside
<1>11. CASE StatAfter(p)
  <2>1. OnlyOf(p)
    BY <1>11, AloneGo DEF StatAfter, Leave, OnlyOf, TypeOK
  <2>2. /\ pc[p] # "restore" /\ pc'[p] \notin {"restore", "add"}
        /\ UNCHANGED <<lists, used, past>>
    BY <1>11, AloneGo DEF StatAfter, Leave, shm
  <2> QED  BY <2>1, <2>2, QuietAside
<1>12. CASE MallocFails(p)
  <2>1. OnlyOf(p)
    BY <1>12, AloneGo, AloneFrame DEF MallocFails, Leave, OnlyOf
  <2>2. /\ pc[p] # "restore" /\ pc'[p] \notin {"restore", "add"}
        /\ UNCHANGED <<lists, used, past>>
    BY <1>12, AloneGo DEF MallocFails, Leave, shm
  <2> QED  BY <2>1, <2>2, QuietAside
<1>13. CASE Malloc2(p)
  <2>1. OnlyOf(p)
    BY <1>13, AloneGo, AloneFrame DEF Malloc2, Leave, OnlyOf
  <2>2. /\ pc[p] # "restore" /\ pc'[p] \notin {"restore", "add"}
        /\ UNCHANGED <<lists, used, past>>
    BY <1>13, AloneGo DEF Malloc2, Leave, shm
  <2> QED  BY <2>1, <2>2, QuietAside
<1> QED
  BY <1>1, <1>2, <1>3, <1>4, <1>5, <1>6, <1>7, <1>8, <1>9, <1>10, <1>11, <1>12,
     <1>13 DEF Passing

LEMMA OutsideAside ==
  ASSUME TypeInv, Outside
  PROVE  UNCHANGED <<lists, check_mtime, pc, local>> /\ Aside
<1>1. UNCHANGED <<lists, check_mtime, pc, local>>
  BY DEF Outside, Edit, Delete, Tick, vars, shm
<1>2. UNCHANGED <<pc, used, frame, past>>
  BY <1>1 DEF local
<1> QED
  BY <1>1, <1>2, CountSame DEF Aside, TypeInv, past
-----------------------------------------------------------------------------
(* The entries taken out of the table, one by one.                         *)
LEMMA DiscardOne ==
  ASSUME TypeOK, NEW D \in SUBSET Block, Discard(D), entry' = Flagged(D),
         NEW b \in Block
  PROVE  /\ entry'[b].use_cnt = entry[b].use_cnt /\ entry[b].use_cnt \in Int
         /\ entry'[b].key = entry[b].key
         /\ entry'[b].mtime = entry[b].mtime /\ entry'[b].code = entry[b].code
         /\ b \in D /\ entry[b].use_cnt > 0 =>
              /\ entry'[b].removed = TRUE
              /\ b \in removed' /\ (b \in alloc' <=> b \in alloc)
         /\ b \notin D \/ entry[b].use_cnt <= 0 =>
              /\ entry'[b].removed = entry[b].removed
              /\ b \in removed' <=> b \in removed
         /\ b \in D /\ entry[b].use_cnt <= 0 => b \notin alloc'
         /\ b \notin D => (b \in alloc' <=> b \in alloc)
<1>1. entry[b] \in Entry /\ entry[b].use_cnt \in Int
  BY DEF TypeOK, Entry
<1>2. b \in Kept(D) <=> b \in D /\ entry[b].use_cnt > 0
  BY DEF Kept
<1>3. entry'[b] = IF b \in Kept(D) THEN [entry[b] EXCEPT !.removed = TRUE]
                                   ELSE entry[b]
  BY DEF Flagged
<1>4. /\ entry'[b].use_cnt = entry[b].use_cnt /\ entry'[b].key = entry[b].key
      /\ entry'[b].mtime = entry[b].mtime /\ entry'[b].code = entry[b].code
      /\ b \in Kept(D) => entry'[b].removed = TRUE
      /\ b \notin Kept(D) => entry'[b].removed = entry[b].removed
  BY <1>1, <1>3 DEF Entry
<1>5. /\ b \in alloc' <=> b \in alloc /\ (b \notin D \/ b \in Kept(D))
      /\ b \in removed' <=> b \in removed \/ b \in Kept(D)
  BY DEF Discard
<1> QED
  BY <1>1, <1>2, <1>4, <1>5

LEMMA SoundDiscard ==
  ASSUME TypeOK, NEW D \in SUBSET hash, Discard(D), entry' = Flagged(D),
         NEW b \in Block, Sound(b), b \in hash' <=> b \in hash \ D,
         Count(b)' = Count(b), Count(b) \in Nat
  PROVE  Sound(b)'
<1>1. D \in SUBSET Block
  BY DEF TypeOK
<1>2. CASE b \in D /\ entry[b].use_cnt > 0
  BY <1>1, <1>2, DiscardOne DEF Sound
<1>3. CASE b \in D /\ entry[b].use_cnt <= 0
  <2>1. /\ entry'[b].use_cnt = entry[b].use_cnt /\ entry[b].use_cnt \in Int
        /\ b \in removed' <=> b \in removed
        /\ b \notin alloc'
    BY <1>1, <1>3, DiscardOne
  <2>2. b \in hash /\ b \notin hash' /\ b \notin removed
    BY <1>3 DEF Sound
  <2>3. Count(b) = 0
    BY <1>3, <2>1 DEF Sound
  <2> QED  BY <2>1, <2>2, <2>3 DEF Sound
<1>4. CASE b \notin D
  <2>1. /\ entry'[b].use_cnt = entry[b].use_cnt
        /\ entry'[b].removed = entry[b].removed
        /\ b \in removed' <=> b \in removed
        /\ b \in alloc' <=> b \in alloc
    BY <1>1, <1>4, DiscardOne
  <2>2. b \in hash' <=> b \in hash
    BY <1>4
  <2> QED  BY <2>1, <2>2 DEF Sound
<1>5. entry[b].use_cnt \in Int
  BY DEF TypeOK, Entry
<1> QED
  BY <1>2, <1>3, <1>4, <1>5

LEMMA SoundFindHit ==
  ASSUME Core, TypeInv', NEW p \in Proc, FindHit(p), NEW b \in Block
  PROVE  Sound(b)'
<1> USE DEF Core, TypeInv
<1>1. PICK c \in Cached(frame[p].key) :
        /\ entry' = [entry EXCEPT ![c].use_cnt = @ + 1, ![c].ttl = Expiry(p)]
        /\ frame' = [frame EXCEPT ![p].ptr = c]
  BY DEF FindHit
<1>2. c \in hash /\ c \in Block
  BY DEF Cached, TypeOK
<1>3. /\ pc[p] # "restore" /\ pc'[p] = "restore" /\ used'[p] = used[p]
      /\ UNCHANGED <<alloc, hash, removed>>
  BY AloneGo DEF FindHit
<1>4. OnlyOf(p) /\ frame'[p].ptr = c
  <2>1. frame'[p].ptr = c /\ \A q \in Proc \ {p} : frame'[q] = frame[q]
    BY <1>1 DEF TypeOK, Frame
  <2> QED  BY <2>1, AloneGo DEF FindHit, OnlyOf
<1>5. /\ Count(b)' = Count(b) + (IF b = c THEN 1 ELSE 0)
      /\ Count(b) \in Nat
  BY <1>3, <1>4, CountFound
<1>6. /\ entry[b].use_cnt \in Int /\ entry'[b].removed = entry[b].removed
      /\ entry'[b].use_cnt = entry[b].use_cnt + (IF b = c THEN 1 ELSE 0)
  <2>1. entry[b] \in Entry /\ entry[b].use_cnt \in Int
    BY DEF TypeOK, Entry
  <2>2. CASE b = c
    BY <1>1, <2>1, <2>2 DEF TypeOK, Entry
  <2>3. CASE b # c
    BY <1>1, <2>1, <2>3 DEF TypeOK
  <2> QED  BY <2>2, <2>3
<1>7. Sound(b) /\ Sound(c)
  BY <1>2
<1> QED
  BY <1>2, <1>3, <1>5, <1>6, <1>7 DEF Sound

LEMMA SoundFindStale ==
  ASSUME Core, TypeInv', NEW p \in Proc, FindStale(p), NEW b \in Block
  PROVE  Sound(b)'
<1> USE DEF Core, TypeInv
<1>1. PICK c \in hash : hash' = hash \ {c} /\ Discard({c}) /\ entry' = Flagged({c})
  BY DEF FindStale, Cached
<1>2. /\ pc[p] # "restore" /\ pc'[p] # "restore" /\ used'[p] = used[p]
      /\ OnlyOf(p)
  BY AloneGo DEF FindStale, OnlyOf, local
<1>3. Count(b)' = Count(b) /\ Count(b) \in Nat
  BY <1>2, CountQuiet
<1> QED
  BY <1>1, <1>3, SoundDiscard

LEMMA SoundMalloc ==
  ASSUME Core, TypeInv', NEW p \in Proc, Malloc(p), NEW b \in Block
  PROVE  Sound(b)'
<1> USE DEF Core, TypeInv
<1>1. PICK c \in Block \ alloc :
        /\ alloc' = alloc \cup {c}
        /\ entry' = [entry EXCEPT ![c] =
             NewEntry(frame[p].key, frame[p].buf, frame[p].code, Expiry(p))]
        /\ frame' = [frame EXCEPT ![p].ptr = c]
  BY DEF Malloc
<1>2. /\ pc[p] # "restore" /\ pc'[p] # "restore" /\ used'[p] = used[p]
      /\ UNCHANGED <<hash, removed>> /\ OnlyOf(p)
  BY <1>1, AloneGo DEF Malloc, OnlyOf, TypeOK
<1>3. Count(b)' = Count(b) /\ Count(b) \in Nat
  BY <1>2, CountQuiet
<1>4. CASE b = c
  <2>1. entry'[b].use_cnt = 0
    BY <1>1, <1>4 DEF TypeOK, NewEntry
  <2>2. b \notin hash /\ b \notin removed /\ Count(b) = 0
    BY <1>1, <1>3, <1>4 DEF Sound
  <2> QED  BY <1>2, <1>3, <2>1, <2>2 DEF Sound
<1>5. CASE b # c
  <2>1. entry'[b] = entry[b] /\ (b \in alloc' <=> b \in alloc)
    BY <1>1, <1>5 DEF TypeOK
  <2> QED  BY <1>2, <1>3, <2>1 DEF Sound
<1> QED
  BY <1>4, <1>5

(* The entries a prune takes out are not in use.                           *)
LEMMA PrunedUnused ==
  ASSUME PruneIsSafe, Core, NEW p \in Proc,
         pc[p] = "prune" \/ "clean" \in AdminOps,
         NEW b \in hash, NEW t, Expired(b, t) \/ Changed(b)
  PROVE  Count(b) = 0
<1>1. /\ TypeOK /\ b \in Block /\ Sound(b)
  BY DEF Core, TypeInv, TypeOK
<1>2. entry[b].use_cnt \in Int /\ Count(b) \in Nat
  BY <1>1, CountNat DEF TypeOK, Entry
<1>3. CASE Expired(b, t)
  BY <1>1, <1>2, <1>3 DEF Expired, Sound
<1>4. CASE Changed(b)
  <2>1. QuietStat
    BY DEF Core, Pruning, PruneIsSafe
  <2>2. ~ (Count(b) > 0)
    BY <1>4, <2>1 DEF Core, Fresh
  <2> QED  BY <1>2, <2>2
<1> QED
  BY <1>3, <1>4

LEMMA SoundPrune ==
  ASSUME PruneIsSafe, Core, NEW p \in Proc,
         pc[p] = "prune" \/ "clean" \in AdminOps, NEW t, Prune(t),
         NEW b \in Block, Count(b)' = Count(b)
  PROVE  Sound(b)'
<1> DEFINE gone == {c \in hash : Expired(c, t) \/ Changed(c)}
<1>1. hash' = hash \ gone /\ alloc' = alloc \ gone /\ UNCHANGED <<entry, removed>>
  BY DEF Prune
<1>2. b \in gone => Count(b) = 0 /\ b \in hash
  BY PrunedUnused
<1>3. Sound(b)
  BY DEF Core
<1> HIDE DEF gone
<1> QED
  BY <1>1, <1>2, <1>3 DEF Sound

LEMMA SoundAdd ==
  ASSUME Core, TypeInv', NEW p \in Proc, Add(p), NEW b \in Block
  PROVE  Sound(b)'
<1> USE DEF Core, TypeInv
<1>1. PICK old \in Replaced(frame[p].key) :
        /\ hash' = (hash \ old) \cup {frame[p].ptr}
        /\ Discard(old) /\ entry' = Flagged(old)
  BY DEF Add
<1>2. old \in SUBSET hash /\ old \in SUBSET Block
  BY DEF Replaced, Cached, TypeOK
<1>3. /\ pc[p] = "add" /\ pc'[p] # "restore" /\ used'[p] = used[p]
      /\ OnlyOf(p)
  BY AloneGo, AloneFrame DEF Add, Leave, OnlyOf
<1>4. Count(b)' = Count(b) /\ Count(b) \in Nat
  BY <1>3, CountQuiet
<1>5. CASE b # frame[p].ptr
  <2>1. b \in hash' <=> b \in hash \ old
    BY <1>1, <1>5
  <2> QED  BY <1>1, <1>2, <1>4, <2>1, SoundDiscard
<1>6. CASE b = frame[p].ptr
  <2>1. b \in alloc /\ b \notin hash /\ b \notin removed
    BY <1>3, <1>6 DEF Storers, Apart
  <2>2. b \notin old
    BY <1>2, <2>1
  <2>3. /\ entry'[b].use_cnt = entry[b].use_cnt /\ b \notin removed' /\ b \in alloc'
        /\ entry'[b].removed = entry[b].removed
    BY <1>1, <1>2, <2>1, <2>2, DiscardOne
  <2>4. ~ entry[b].removed
    BY <1>3, <1>6 DEF Storers, Apart
  <2> QED  BY <1>1, <1>4, <1>6, <2>1, <2>3, <2>4 DEF Sound
<1> QED
  BY <1>5, <1>6

LEMMA SoundCleanRequest ==
  ASSUME Core, TypeInv', NEW p \in Proc, CleanRequest(p), NEW b \in Block
  PROVE  Sound(b)'
<1> USE DEF Core, TypeInv
<1>1. /\ entry' = [c \in Block |-> [entry[c] EXCEPT !.use_cnt = Left(p, c)]]
      /\ removed' = removed \ LastUse(p) /\ alloc' = alloc \ LastUse(p)
      /\ hash' = hash
  BY DEF CleanRequest
<1>2. /\ pc[p] = "run" /\ pc'[p] \in {"idle", "release"} /\ used'[p] = << >>
      /\ OnlyOf(p)
  BY AloneGo, AloneUsed DEF CleanRequest, OnlyOf
<1>3. /\ Count(b)' = Count(b) - Mine(p, b)
      /\ Count(b) \in Nat /\ Count(b)' \in Nat
  BY <1>2, CountEnded
<1>4. Mine(p, b) = Cardinality(Uses(p, b)) /\ Cardinality(Uses(p, b)) \in Nat
  BY <1>2, CardUses DEF Mine, Restoring
<1>5. /\ entry'[b].use_cnt = Left(p, b) /\ entry'[b].removed = entry[b].removed
      /\ entry[b].use_cnt \in Int
  <2>1. entry[b] \in Entry /\ entry[b].use_cnt \in Int
    BY DEF TypeOK, Entry
  <2>2. entry'[b] = [entry[b] EXCEPT !.use_cnt = Left(p, b)]
    BY <1>1
  <2> QED  BY <2>1, <2>2 DEF Entry
<1>6. b \in LastUse(p) => b \in removed /\ Left(p, b) <= 0
  BY DEF LastUse
<1>7. Left(p, b) >= Count(b)'
  BY <1>3, <1>4, <1>5 DEF Left, Sound
<1>8. b \in LastUse(p) => Count(b)' = 0
  BY <1>3, <1>4, <1>5, <1>6, <1>7 DEF Left
<1>9. Sound(b)
  OBVIOUS
<1> HIDE DEF Core
<1> QED
  BY <1>1, <1>3, <1>4, <1>5, <1>6, <1>7, <1>8, <1>9 DEF Sound

(* What is read without the lock at the end of a request frees nothing.    *)
LEMMA FreeUsedNothing ==
  ASSUME Core, NEW p \in Proc, NEW c \in Block, FreeUsed(p, c)
  PROVE  /\ UNCHANGED lists /\ UNCHANGED <<used, frame, check_mtime, files, past>>
         /\ OnlyOf(p) /\ pc[p] = "release" /\ pc'[p] \in {"idle", "release"}
<1> USE DEF Core, TypeInv
<1>1. entry[c].use_cnt \in Int /\ Count(c) \in Nat
  BY CountNat DEF TypeOK, Entry
<1>2. ~ (entry[c].use_cnt < 0)
  BY <1>1 DEF Sound
<1>3. /\ pc[p] = "release" /\ pc'[p] \in {"idle", "release"}
      /\ \A q \in Proc \ {p} : pc'[q] = pc[q]
  BY AloneGo DEF FreeUsed
<1> QED
  BY <1>2, <1>3 DEF FreeUsed, lists, OnlyOf

LEMMA FreeUsedAside ==
  ASSUME Core, TypeInv', NEW p \in Proc, NEW c \in Block, FreeUsed(p, c)
  PROVE  Aside
  BY FreeUsedNothing, QuietAside DEF Core, TypeInv

LEMMA SoundAside ==
  ASSUME Core, Aside, NEW b \in Block
  PROVE  Sound(b)'
<1>1. /\ Sound(b) /\ entry[b].use_cnt \in Int
      /\ Count(b) \in Nat /\ Count(b)' \in Nat /\ Count(b)' <= Count(b)
      /\ UNCHANGED <<alloc, entry, hash, removed>>
  BY DEF Core, Aside, TypeInv, TypeOK, Entry, lists
<1> QED
  BY <1>1 DEF Sound

LEMMA SoundAdmin ==
  ASSUME PruneIsSafe, PurgeIsSafe, Core, NEW p \in Proc,
         Clean(p) \/ Clear(p) \/ Purge(p), NEW b \in Block
  PROVE  Sound(b)'
<1>1. TypeOK /\ Sound(b)
  BY DEF Core, TypeInv
<1>2. UNCHANGED <<pc, used, frame>>
  BY DEF Clean, Clear, Purge, local
<1>3. Count(b)' = Count(b) /\ Count(b) \in Nat
  BY <1>1, <1>2, CountSame
<1>4. CASE Clean(p)
  BY <1>3, <1>4, SoundPrune DEF Clean
<1>5. CASE Clear(p)
  <2>1. Discard(hash) /\ entry' = Flagged(hash) /\ hash' = {}
    BY <1>5 DEF Clear
  <2>2. hash \in SUBSET hash /\ (b \in hash' <=> b \in hash \ hash)
    BY <2>1
  <2> QED  BY <1>1, <1>3, <2>1, <2>2, SoundDiscard
<1>6. CASE Purge(p)
  <2>1. \A c \in removed : ~ InUse(c)
    BY <1>6 DEF Purge, PurgeIsSafe
  <2>2. b \in removed => Count(b) = 0
    BY <1>1, <2>1, Unused
  <2>3. removed' = {} /\ alloc' = alloc \ removed /\ UNCHANGED <<entry, hash>>
    BY <1>6 DEF Purge
  <2> QED  BY <1>1, <1>3, <2>2, <2>3 DEF Sound
<1> QED
  BY <1>4, <1>5, <1>6

LEMMA SoundNext ==
  ASSUME PruneIsSafe, PurgeIsSafe, Core, TypeInv', [Next]_vars, NEW b \in Block
  PROVE  Sound(b)'
<1>1. CASE Outside
  BY <1>1, OutsideAside, SoundAside DEF Core
<1>2. ASSUME NEW p \in Proc, Passing(p)  PROVE Sound(b)'
  BY <1>2, PassingAside, SoundAside DEF Core
<1>3. ASSUME NEW p \in Proc, Listing(p)  PROVE Sound(b)'
  <2>1. CASE PruneForSpace(p)
    <3>1. TypeOK /\ TypeOK'
      BY DEF Core, TypeInv
    <3>2. /\ OnlyOf(p) /\ pc[p] = "prune" /\ pc'[p] # "restore"
          /\ used'[p] = used[p] /\ Prune(req_start[p])
      BY <2>1, <3>1, AloneGo DEF PruneForSpace, OnlyOf, local
    <3>3. pc[p] # "restore"
      BY <3>2
    <3>4. Count(b)' = Count(b)
      BY <3>1, <3>2, <3>3, CountQuiet
    <3> QED  BY <3>2, <3>4, SoundPrune
  <2>2. CASE \E c \in Block : FreeUsed(p, c)
    BY <2>2, FreeUsedAside, SoundAside
  <2>3. CASE Clean(p) \/ Clear(p) \/ Purge(p)
    BY <2>3, SoundAdmin
  <2> QED
    BY <1>3, <2>1, <2>2, <2>3, SoundFindHit, SoundFindStale, SoundMalloc, SoundAdd,
       SoundCleanRequest DEF Listing
<1> QED
  BY <1>1, <1>2, <1>3, Steps
-----------------------------------------------------------------------------
(* What a step on the lists does to the request that makes it.             *)
LEMMA ListingOnly ==
  ASSUME TypeInv, NEW p \in Proc, Listing(p)
  PROVE  OnlyOf(p)
<1> USE DEF TypeInv
<1>1. CASE FindHit(p)
  <2>1. PICK c : frame' = [frame EXCEPT ![p].ptr = c]
    BY <1>1 DEF FindHit
  <2> QED  BY <1>1, <2>1, AloneGo DEF FindHit, OnlyOf, TypeOK
<1>2. CASE Malloc(p)
  <2>1. PICK c : frame' = [frame EXCEPT ![p].ptr = c]
    BY <1>2 DEF Malloc
  <2> QED  BY <1>2, <2>1, AloneGo DEF Malloc, OnlyOf, TypeOK
<1>3. CASE Add(p)
  BY <1>3, AloneGo, AloneFrame DEF Add, Leave, OnlyOf
<1>4. CASE CleanRequest(p)
  BY <1>4, AloneGo, AloneUsed DEF CleanRequest, OnlyOf
<1>5. CASE FindStale(p)
  BY <1>5, AloneGo DEF FindStale, OnlyOf, local
<1>6. CASE PruneForSpace(p)
  BY <1>6, AloneGo DEF PruneForSpace, OnlyOf, local
<1>7. CASE \E c \in Block : FreeUsed(p, c)
  BY <1>7, AloneGo DEF FreeUsed, OnlyOf
<1>8. CASE Clean(p) \/ Clear(p) \/ Purge(p)
  BY <1>8 DEF Clean, Clear, Purge, OnlyOf, local
<1> QED
  BY <1>1, <1>2, <1>3, <1>4, <1>5, <1>6, <1>7, <1>8 DEF Listing

(* The counters.                                                           *)
LEMMA CardMinus ==
  ASSUME NEW S \in SUBSET Block, NEW T \in SUBSET S
  PROVE  /\ Cardinality(S) \in Nat /\ Cardinality(T) \in Nat
         /\ Cardinality(S \ T) = Cardinality(S) - Cardinality(T)
<1>1. IsFiniteSet(S) /\ IsFiniteSet(T) /\ Cardinality(S) \in Nat /\ Cardinality(T) \in Nat
  BY CardBlocks
<1>2. S \cap T = T
  OBVIOUS
<1> QED
  BY <1>1, <1>2, FS_Difference

LEMMA CountedDiscard ==
  ASSUME Core, NEW D \in SUBSET hash, Discard(D)
  PROVE  rem_cnt' = Cardinality(removed')
<1>1. /\ removed \in SUBSET Block /\ Kept(D) \in SUBSET Block
      /\ \A b \in hash : b \in Block /\ b \notin removed
  BY DEF Core, TypeInv, TypeOK, Sound, Kept
<1>2. removed \cap Kept(D) = {}
  BY <1>1 DEF Kept
<1>3. Cardinality(removed \cup Kept(D)) = Cardinality(removed) + Cardinality(Kept(D)) - 0
  BY <1>1, <1>2, CardBlocks, FS_Union, FS_EmptySet
<1>4. Cardinality(removed) \in Nat /\ Cardinality(Kept(D)) \in Nat
  BY <1>1, CardBlocks
<1> QED
  BY <1>3, <1>4 DEF Discard, Core, Counted

LEMMA CountedPrune ==
  ASSUME Core, NEW t, Prune(t)
  PROVE  Counted'
<1> DEFINE gone == {b \in hash : Expired(b, t) \/ Changed(b)}
<1>1. hash \in SUBSET Block /\ gone \in SUBSET hash
  BY DEF Core, TypeInv, TypeOK
<1>2. /\ hash' = hash \ gone /\ hash_cnt' = hash_cnt - Cardinality(gone)
      /\ UNCHANGED <<removed, rem_cnt>>
  BY DEF Prune
<1> HIDE DEF gone
<1> QED
  BY <1>1, <1>2, CardMinus DEF Core, Counted

LEMMA CountedNext ==
  ASSUME Core, TypeInv', [Next]_vars
  PROVE  Counted'
<1>t. /\ TypeOK /\ hash \in SUBSET Block /\ removed \in SUBSET Block
      /\ IsFiniteSet(hash) /\ IsFiniteSet(removed)
      /\ Cardinality(hash) \in Nat /\ Cardinality(removed) \in Nat
      /\ hash_cnt = Cardinality(hash) /\ rem_cnt = Cardinality(removed)
  BY CardBlocks DEF Core, TypeInv, TypeOK, Counted
<1>1. ASSUME Aside  PROVE Counted'
  BY <1>1, <1>t DEF Aside, lists, Counted
<1>2. CASE Outside
  BY <1>1, <1>2, OutsideAside DEF Core
<1>3. ASSUME NEW p \in Proc, Passing(p)  PROVE Counted'
  BY <1>1, <1>3, PassingAside DEF Core
<1>4. ASSUME NEW p \in Proc, Listing(p)  PROVE Counted'
  <2>1. CASE FindHit(p)
    BY <2>1, <1>t DEF FindHit, Counted
  <2>2. CASE FindStale(p)
    <3>1. PICK c \in hash : hash' = hash \ {c} /\ Discard({c}) /\ hash_cnt' = hash_cnt - 1
      BY <2>2 DEF FindStale, Cached
    <3>2. Cardinality(hash') = Cardinality(hash) - 1
      BY <1>t, <3>1, FS_RemoveElement
    <3> QED  BY <1>t, <3>1, <3>2, CountedDiscard DEF Counted
  <2>3. CASE Malloc(p)
    BY <2>3, <1>t DEF Malloc, Counted
  <2>4. CASE PruneForSpace(p)
    BY <2>4, CountedPrune DEF PruneForSpace
  <2>5. CASE Add(p)
    <3>1. PICK old \in Replaced(frame[p].key) :
            /\ hash' = (hash \ old) \cup {frame[p].ptr} /\ Discard(old)
            /\ hash_cnt' = hash_cnt + 1 - Cardinality(old)
      BY <2>5 DEF Add
    <3>2. old \in SUBSET hash
      BY DEF Replaced, Cached
    <3>3. /\ IsFiniteSet(hash \ old) /\ Cardinality(old) \in Nat
          /\ Cardinality(hash \ old) = Cardinality(hash) - Cardinality(old)
      BY <1>t, <3>2, CardMinus, FS_Difference
    <3>4. frame[p].ptr \notin hash \ old
      BY <2>5 DEF Add, Core, Storers, Apart
    <3>5. Cardinality(hash') = Cardinality(hash \ old) + 1
      BY <3>1, <3>3, <3>4, FS_AddElement
    <3> QED  BY <1>t, <3>1, <3>2, <3>3, <3>5, CountedDiscard DEF Counted
  <2>6. CASE CleanRequest(p)
    <3>1. /\ removed' = removed \ LastUse(p)
          /\ rem_cnt' = rem_cnt - Cardinality(LastUse(p)) /\ UNCHANGED <<hash, hash_cnt>>
      BY <2>6 DEF CleanRequest
    <3>2. LastUse(p) \in SUBSET removed
      BY DEF LastUse
    <3> QED  BY <1>t, <3>1, <3>2, CardMinus DEF Counted
  <2>7. CASE \E c \in Block : FreeUsed(p, c)
    BY <1>1, <2>7, FreeUsedAside
  <2>8. CASE Clean(p)
    BY <2>8, CountedPrune DEF Clean
  <2>9. CASE Clear(p)
    <3>1. hash' = {} /\ hash_cnt' = hash_cnt - Cardinality(hash) /\ Discard(hash)
      BY <2>9 DEF Clear
    <3>2. hash \in SUBSET hash
      OBVIOUS
    <3> QED  BY <1>t, <3>1, <3>2, CountedDiscard, FS_EmptySet DEF Counted
  <2>10. CASE Purge(p)
    BY <2>10, <1>t, FS_EmptySet DEF Purge, Counted
  <2> QED
    BY <1>4, <2>1, <2>2, <2>3, <2>4, <2>5, <2>6, <2>7, <2>8, <2>9, <2>10 DEF Listing
<1> QED
  BY <1>2, <1>3, <1>4, Steps

(* Blocks being filled.                                                    *)
StaysApart(b) == Apart(b) => Apart(b)'

LEMMA StorersKept ==
  ASSUME TypeInv, Storers,
         \A q \in Proc : pc'[q] = "add" => pc[q] = "add" /\ frame'[q] = frame[q],
         \A b \in Block : StaysApart(b)
  PROVE  Storers'
<1>1. ASSUME NEW q \in Proc, pc'[q] = "add"
      PROVE  pc[q] = "add" /\ frame[q].ptr \in Block /\ frame'[q] = frame[q]
  BY <1>1 DEF TypeInv, HasEntry
<1> QED
  BY <1>1 DEF Storers, StaysApart, Apart

LEMMA ApartDiscard ==
  ASSUME TypeOK, NEW D \in SUBSET hash, Discard(D), entry' = Flagged(D),
         NEW b \in Block, b \in hash' => b \in hash
  PROVE  StaysApart(b)
<1> SUFFICES ASSUME Apart(b)  PROVE Apart(b)'
  BY DEF StaysApart
<1>1. D \in SUBSET Block /\ b \notin D /\ b \notin hash'
  BY DEF TypeOK, Apart
<1>2. /\ b \in alloc' <=> b \in alloc
      /\ b \in removed' <=> b \in removed
      /\ entry'[b].removed = entry[b].removed
  BY <1>1, DiscardOne
<1> QED
  BY <1>2 DEF Apart

LEMMA ApartPrune ==
  ASSUME NEW t, Prune(t), NEW b
  PROVE  StaysApart(b)
<1>1. /\ alloc' = alloc \ {c \in hash : Expired(c, t) \/ Changed(c)}
      /\ hash' = hash \ {c \in hash : Expired(c, t) \/ Changed(c)}
      /\ UNCHANGED <<removed, entry>>
  BY DEF Prune
<1> QED
  BY <1>1 DEF Apart, StaysApart

LEMMA StorersNext ==
  ASSUME Core, TypeInv', [Next]_vars
  PROVE  Storers'
<1>t. /\ TypeInv /\ TypeOK /\ Storers /\ hash \in SUBSET Block
      /\ \A q \in Proc : pc[q] = "add" => frame[q].ptr \in Block /\ Apart(frame[q].ptr)
  BY DEF Core, TypeInv, TypeOK, HasEntry, Storers
<1>1. ASSUME Aside  PROVE Storers'
  BY <1>1, <1>t, StorersKept DEF Aside, lists, Apart, StaysApart, Core
<1>2. CASE Outside
  BY <1>1, <1>2, OutsideAside DEF Core
<1>3. ASSUME NEW p \in Proc, Passing(p)  PROVE Storers'
  BY <1>1, <1>3, PassingAside DEF Core
<1>4. ASSUME NEW p \in Proc, Listing(p)  PROVE Storers'
  <2>o. OnlyOf(p)
    BY <1>4, ListingOnly DEF Core
  <2>k. \A q \in Proc :
          pc'[q] = "add" /\ q # p => pc[q] = "add" /\ frame'[q] = frame[q]
    BY <2>o DEF OnlyOf
  <2>1. CASE FindHit(p)
    <3>1. PICK c \in hash :
            entry' = [entry EXCEPT ![c].use_cnt = @ + 1, ![c].ttl = Expiry(p)]
      BY <2>1 DEF FindHit, Cached
    <3>2. pc'[p] # "add" /\ UNCHANGED <<alloc, hash, removed>>
      BY <1>t, <2>1, AloneGo DEF FindHit
    <3>3. ASSUME NEW b \in Block  PROVE StaysApart(b)
      <4>a. SUFFICES ASSUME Apart(b)  PROVE Apart(b)'
        BY DEF StaysApart
      <4>1. entry'[b] = entry[b]
        BY <1>t, <3>1, <4>a DEF Apart, TypeOK
      <4> QED  BY <3>2, <4>a, <4>1 DEF Apart
    <3>k. \A q \in Proc : pc'[q] = "add" => pc[q] = "add" /\ frame'[q] = frame[q]
      BY <2>k, <3>1, <3>2
    <3> QED  BY <1>t, <3>3, <3>k, StorersKept
  <2>2. CASE FindStale(p)
    <3>1. PICK c \in hash :
            hash' = hash \ {c} /\ Discard({c}) /\ entry' = Flagged({c})
      BY <2>2 DEF FindStale, Cached
    <3>2. pc'[p] # "add"
      BY <1>t, <2>2, AloneGo DEF FindStale
    <3>3. ASSUME NEW b \in Block  PROVE StaysApart(b)
      <4>1. {c} \in SUBSET hash /\ (b \in hash' => b \in hash)
        BY <3>1
      <4> QED  BY <1>t, <3>1, <4>1, ApartDiscard
    <3>k. \A q \in Proc : pc'[q] = "add" => pc[q] = "add" /\ frame'[q] = frame[q]
      BY <2>k, <3>1, <3>2
    <3> QED  BY <1>t, <3>3, <3>k, StorersKept
  <2>3. CASE Malloc(p)
    <3>1. PICK c \in Block \ alloc :
            /\ alloc' = alloc \cup {c}
            /\ entry' = [entry EXCEPT ![c] =
                 NewEntry(frame[p].key, frame[p].buf, frame[p].code, Expiry(p))]
            /\ frame' = [frame EXCEPT ![p].ptr = c]
      BY <2>3 DEF Malloc
    <3>2. pc[p] # "add" /\ UNCHANGED <<hash, removed>>
      BY <2>3 DEF Malloc
    <3>3. frame'[p].ptr = c
      BY <1>t, <3>1 DEF TypeOK, Frame
    <3>4. Apart(c)'
      <4>1. ~ entry'[c].removed /\ c \in alloc'
        BY <1>t, <3>1 DEF TypeOK, NewEntry
      <4>2. c \notin hash /\ c \notin removed
        BY <3>1 DEF Core, Sound
      <4> QED  BY <3>2, <4>1, <4>2 DEF Apart
    <3>5. ASSUME NEW q \in Proc \ {p}, pc'[q] = "add"
          PROVE  /\ pc[q] = "add" /\ frame'[q] = frame[q]
                 /\ StaysApart(frame[q].ptr) /\ frame[q].ptr # c
                 /\ Apart(frame[q].ptr)
      <4>1. pc[q] = "add" /\ frame'[q] = frame[q]
        BY <2>o, <3>5 DEF OnlyOf
      <4>2. frame[q].ptr \in Block /\ Apart(frame[q].ptr) /\ frame[q].ptr # c
        BY <1>t, <3>1, <4>1 DEF Apart
      <4>3. entry'[frame[q].ptr] = entry[frame[q].ptr] /\ frame[q].ptr \in alloc'
        BY <1>t, <3>1, <4>2 DEF TypeOK, Apart
      <4> QED  BY <3>2, <4>1, <4>2, <4>3 DEF Apart, StaysApart
    <3>6. \A q, r \in Proc :
            pc'[q] = "add" /\ pc'[r] = "add" /\ q # r => frame'[q].ptr # frame'[r].ptr
      BY <1>t, <3>3, <3>5 DEF Storers
    <3> QED  BY <3>3, <3>4, <3>5, <3>6 DEF Storers, Apart, StaysApart
  <2>4. CASE PruneForSpace(p)
    <3>1. pc'[p] # "add" /\ Prune(req_start[p])
      BY <1>t, <2>4, AloneGo DEF PruneForSpace
    <3>2. \A b \in Block : StaysApart(b)
      BY <3>1, ApartPrune
    <3>k. \A q \in Proc : pc'[q] = "add" => pc[q] = "add" /\ frame'[q] = frame[q]
      BY <2>k, <3>1, <3>2
    <3> QED  BY <1>t, <3>1, <3>2, <3>k, StorersKept
  <2>5. CASE Add(p)
    <3>1. PICK old \in Replaced(frame[p].key) :
            /\ hash' = (hash \ old) \cup {frame[p].ptr}
            /\ Discard(old) /\ entry' = Flagged(old)
      BY <2>5 DEF Add
    <3>2. old \in SUBSET hash
      BY DEF Replaced, Cached
    <3>3. pc[p] = "add" /\ pc'[p] # "add"
      BY <1>t, <2>5, AloneGo DEF Add, Leave
    <3>4. ASSUME NEW q \in Proc, pc'[q] = "add"
          PROVE  /\ pc[q] = "add" /\ frame'[q] = frame[q] /\ q # p
                 /\ Apart(frame[q].ptr) /\ frame[q].ptr # frame[p].ptr
                 /\ frame[q].ptr \in Block
      <4>1. pc[q] = "add" /\ frame'[q] = frame[q] /\ q # p
        BY <2>k, <3>3, <3>4
      <4> QED  BY <1>t, <3>3, <4>1 DEF Storers
    <3>5. ASSUME NEW b \in Block, b # frame[p].ptr  PROVE StaysApart(b)
      <4>1. b \in hash' => b \in hash
        BY <3>1, <3>5
      <4> QED  BY <1>t, <3>1, <3>2, <4>1, ApartDiscard
    <3>6. \A q, r \in Proc :
            pc'[q] = "add" /\ pc'[r] = "add" /\ q # r => frame'[q].ptr # frame'[r].ptr
      BY <1>t, <3>4 DEF Storers
    <3> QED  BY <3>4, <3>5, <3>6 DEF Storers, StaysApart, Apart
  <2>6. CASE CleanRequest(p)
    <3>1. /\ entry' = [c \in Block |-> [entry[c] EXCEPT !.use_cnt = Left(p, c)]]
          /\ removed' = removed \ LastUse(p) /\ alloc' = alloc \ LastUse(p)
          /\ hash' = hash /\ pc'[p] # "add"
      BY <1>t, <2>6, AloneGo DEF CleanRequest
    <3>2. LastUse(p) \subseteq removed
      BY DEF LastUse
    <3>3. ASSUME NEW b \in Block  PROVE StaysApart(b)
      <4>1. entry'[b].removed = entry[b].removed
        BY <1>t, <3>1 DEF TypeOK, Entry
      <4> QED  BY <3>1, <3>2, <4>1 DEF Apart, StaysApart
    <3>k. \A q \in Proc : pc'[q] = "add" => pc[q] = "add" /\ frame'[q] = frame[q]
      BY <2>k, <3>1, <3>2
    <3> QED  BY <1>t, <3>3, <3>k, StorersKept
  <2>7. CASE \E c \in Block : FreeUsed(p, c)
    BY <1>1, <2>7, FreeUsedAside
  <2>8. CASE Clean(p)
    <3>1. pc' = pc /\ frame' = frame /\ Prune(now)
      BY <2>8 DEF Clean, local
    <3>2. \A b \in Block : StaysApart(b)
      BY <3>1, ApartPrune
    <3> QED  BY <1>t, <3>1, <3>2, StorersKept
  <2>9. CASE Clear(p)
    <3>1. /\ pc' = pc /\ frame' = frame /\ hash' = {}
          /\ Discard(hash) /\ entry' = Flagged(hash)
      BY <2>9 DEF Clear, local
    <3>2. ASSUME NEW b \in Block  PROVE StaysApart(b)
      <4>1. hash \in SUBSET hash /\ (b \in hash' => b \in hash)
        BY <3>1
      <4> QED  BY <1>t, <3>1, <4>1, ApartDiscard
    <3> QED  BY <1>t, <3>1, <3>2, StorersKept
  <2>10. CASE Purge(p)
    <3>1. /\ pc' = pc /\ frame' = frame /\ removed' = {}
          /\ alloc' = alloc \ removed /\ UNCHANGED <<entry, hash>>
      BY <2>10 DEF Purge, local
    <3>2. ASSUME NEW b \in Block  PROVE StaysApart(b)
      BY <3>1 DEF Apart, StaysApart
    <3> QED  BY <1>t, <3>1, <3>2, StorersKept
  <2> QED
    BY <1>4, <2>1, <2>2, <2>3, <2>4, <2>5, <2>6, <2>7, <2>8, <2>9, <2>10 DEF Listing
<1> QED
  BY <1>2, <1>3, <1>4, Steps
-----------------------------------------------------------------------------
(* What a request knows of its script stays true as long as nobody touches *)
(* the file and the request keeps the script and the stat.                 *)
Serving(p) == pc[p] \notin {"idle", "run", "release"}

KeepsStat(p) ==
  Serving(p)' => /\ Serving(p) /\ frame'[p].key = frame[p].key
                 /\ frame'[p].buf = frame[p].buf

KeepsEntry(b) ==
  b \in hash' /\ Count(b)' > 0 =>
    /\ b \in hash /\ Count(b) > 0
    /\ entry'[b].key = entry[b].key /\ entry'[b].mtime = entry[b].mtime

LEMMA FreshKept ==
  ASSUME Core, TypeInv', QuietStat, UNCHANGED <<check_mtime, rev, present>>,
         \A p \in Proc : KeepsStat(p), \A b \in Block : KeepsEntry(b)
  PROVE  Fresh'
<1>1. check_mtime'
  BY DEF Core, Fresh
<1>2. ASSUME NEW p \in Proc, pc'[p] \notin {"idle", "run", "release"}
      PROVE  frame'[p].key \in present' /\ frame'[p].buf = rev'[frame'[p].key]
  BY <1>2 DEF KeepsStat, Serving, Core, Fresh
<1>3. ASSUME NEW b \in hash', Count(b)' > 0
      PROVE  entry'[b].key \in present' /\ entry'[b].mtime = rev'[entry'[b].key]
  <2>1. b \in Block
    BY DEF TypeInv, TypeOK
  <2>2. /\ b \in hash /\ Count(b) > 0
        /\ entry'[b].key = entry[b].key /\ entry'[b].mtime = entry[b].mtime
    BY <1>3, <2>1 DEF KeepsEntry
  <2>3. ~ Changed(b)
    BY <2>2 DEF Core, Fresh
  <2> QED  BY <2>2, <2>3 DEF Changed
<1> QED
  BY <1>1, <1>2, <1>3 DEF Fresh, Changed

(* With quiet edits the checks are always on.                              *)
LEMMA QuietChecked ==
  ASSUME Core, QuietStat
  PROVE  MtimeChecked /\ ~ \E p \in Proc : SetCheckMtime(p)
  BY DEF Core, Fresh, QuietStat, MtimeChecked, SetCheckMtime

LEMMA FreshAside ==
  ASSUME Core, TypeInv', QuietStat, Aside, UNCHANGED <<check_mtime, rev, present>>,
         \A p \in Proc : KeepsStat(p)
  PROVE  Fresh'
<1>1. ASSUME NEW b \in Block  PROVE KeepsEntry(b)
  <2>1. /\ UNCHANGED <<hash, entry>>
        /\ Count(b) \in Nat /\ Count(b)' \in Nat /\ Count(b)' <= Count(b)
    BY DEF Aside, lists
  <2> QED  BY <2>1 DEF KeepsEntry
<1> QED
  BY <1>1, FreshKept

(* The others know what they knew.                                         *)
LEMMA OthersKeepStat ==
  ASSUME NEW p \in Proc, OnlyOf(p), KeepsStat(p)
  PROVE  \A q \in Proc : KeepsStat(q)
  BY DEF OnlyOf, KeepsStat, Serving

LEMMA FreshPassing ==
  ASSUME Core, TypeInv', QuietStat, NEW p \in Proc, Passing(p)
  PROVE  Fresh'
<1>t. TypeOK /\ TypeInv /\ Ended /\ MtimeChecked /\ ~ SetCheckMtime(p)
  BY QuietChecked DEF Core, TypeInv
<1>a. OnlyOf(p) /\ Aside
  BY <1>t, PassingAside
<1>k. ASSUME KeepsStat(p), UNCHANGED <<check_mtime, rev, present>>  PROVE Fresh'
  BY <1>a, <1>k, FreshAside, OthersKeepStat
<1>1. CASE \E k \in Key : CompileFile(p, k)
  <2>1. PICK k \in Key : CompileFile(p, k)
    BY <1>1
  <2>2. PICK r \in 0 .. MaxRev :
          /\ r = rev[k]
          /\ frame' = [frame EXCEPT ![p] = [NoFrame EXCEPT !.key = k, !.buf = r]]
    BY <1>t, <2>1 DEF CompileFile
  <2>3. k \in present /\ UNCHANGED <<check_mtime, rev, present, lists>>
    BY <1>t, <2>1 DEF CompileFile, shm, files
  <2>4. frame'[p].key = k /\ frame'[p].buf = rev[k]
    <3>1. frame'[p] = [NoFrame EXCEPT !.key = k, !.buf = r]
      BY <1>t, <2>2 DEF TypeOK
    <3> QED  BY <2>2, <3>1 DEF NoFrame
  <2>5. check_mtime'
    BY <2>3 DEF Core, Fresh
  <2>6. ASSUME NEW q \in Proc, pc'[q] \notin {"idle", "run", "release"}
        PROVE  frame'[q].key \in present' /\ frame'[q].buf = rev'[frame'[q].key]
    <3>1. CASE q = p
      BY <2>3, <2>4, <3>1
    <3>2. CASE q # p
      BY <1>a, <2>3, <2>6, <3>2 DEF OnlyOf, Core, Fresh
    <3> QED  BY <3>1, <3>2
  <2>7. ASSUME NEW b \in hash', Count(b)' > 0
        PROVE  entry'[b].key \in present' /\ entry'[b].mtime = rev'[entry'[b].key]
    <3>1. b \in hash /\ Count(b) > 0
      BY <1>a, <2>3, <2>7 DEF Aside, lists
    <3>2. ~ Changed(b)
      BY <3>1 DEF Core, Fresh
    <3> QED  BY <2>3, <3>2 DEF Changed, lists
  <2> QED  BY <2>5, <2>6, <2>7 DEF Fresh, Changed
<1>2. CASE StartRequest(p)
  BY <1>t, <1>k, <1>2, AloneGo DEF StartRequest, KeepsStat, Serving, shm, files
<1>3. CASE Crash(p)
  BY <1>t, <1>k, <1>3, AloneGo DEF Crash, KeepsStat, Serving, shm, files
<1>4. CASE FindMiss(p)
  BY <1>t, <1>k, <1>4, AloneGo DEF FindMiss, KeepsStat, Serving, shm, files, local
<1>5. CASE Restore(p)
  BY <1>t, <1>k, <1>5, AloneGo DEF Restore, Leave, KeepsStat, Serving, shm, files
<1>6. CASE RestoreRefused(p)
  <2>1. frame'[p].key = frame[p].key /\ frame'[p].buf = frame[p].buf
    BY <1>t, <1>6 DEF RestoreRefused, TypeOK, Frame
  <2> QED
    BY <1>k, <1>6, <2>1 DEF RestoreRefused, KeepsStat, Serving, shm, files
<1>7. CASE Compile(p)
  <2>1. frame'[p].key = frame[p].key /\ frame'[p].buf = frame[p].buf
    BY <1>t, <1>7 DEF Compile, TypeOK, Frame
  <2> QED
    BY <1>k, <1>7, <2>1 DEF Compile, KeepsStat, Serving, shm, files
<1>8. CASE CompileFails(p)
  BY <1>t, <1>k, <1>8, AloneGo DEF CompileFails, Leave, KeepsStat, Serving, shm, files
<1>9. CASE KeepStat(p)
  BY <1>t, <1>k, <1>9 DEF KeepStat, KeepsStat, Serving, shm, files, local
<1>10. CASE StatAfter(p)
  BY <1>t, <1>10 DEF StatAfter
<1>11. CASE MallocFails(p)
  <2>1. \/ pc'[p] = "run"
        \/ pc[p] = "malloc" /\ frame'[p] = frame[p]
    BY <1>t, <1>11, AloneGo DEF MallocFails, Leave
  <2> QED  BY <1>k, <1>11, <2>1 DEF MallocFails, KeepsStat, Serving, shm, files
<1>12. CASE Malloc2(p)
  <2>1. \/ pc'[p] = "run"
        \/ pc[p] = "malloc2" /\ frame'[p] = frame[p]
    BY <1>t, <1>12, AloneGo DEF Malloc2, Leave
  <2> QED  BY <1>k, <1>12, <2>1 DEF Malloc2, KeepsStat, Serving, shm, files
<1> QED
  BY <1>t, <1>1, <1>2, <1>3, <1>4, <1>5, <1>6, <1>7, <1>8, <1>9, <1>10, <1>11, <1>12
     DEF Passing

LEMMA FreshOutside ==
  ASSUME Core, TypeInv', QuietStat, Outside
  PROVE  Fresh'
<1>t. TypeOK /\ TypeInv /\ QuietEdits
  BY DEF Core, TypeInv, QuietStat
<1>a. UNCHANGED <<lists, check_mtime, pc, local>> /\ Aside
  BY <1>t, OutsideAside
<1>b. UNCHANGED <<hash, entry, pc, frame, check_mtime>>
  BY <1>a DEF lists, local
<1>c. \A b : Count(b)' <= Count(b) /\ Count(b) \in Nat /\ Count(b)' \in Nat
  BY <1>a DEF Aside
<1>1. ASSUME UNCHANGED <<rev, present>>  PROVE Fresh'
  BY <1>a, <1>b, <1>1, FreshAside DEF KeepsStat, Serving
<1>2. ASSUME NEW k \in Key, Edit(k) \/ Delete(k)  PROVE Fresh'
  <2>1. ~ Busy(k)
    BY <1>t, <1>2 DEF Edit, Delete
  <2>2. \A l \in Key \ {k} : rev'[l] = rev[l] /\ (l \in present => l \in present')
    BY <1>t, <1>2 DEF Edit, Delete, TypeOK
  <2>3. check_mtime'
    BY <1>b DEF Core, Fresh
  <2>4. ASSUME NEW q \in Proc, pc'[q] \notin {"idle", "run", "release"}
        PROVE  frame'[q].key \in present' /\ frame'[q].buf = rev'[frame'[q].key]
    <3>1. frame[q].key \in present /\ frame[q].buf = rev[frame[q].key]
      BY <1>b, <2>4 DEF Core, Fresh
    <3>2. frame[q].key \in Key /\ frame[q].key # k
      BY <1>t, <1>b, <2>1, <2>4 DEF Busy, TypeOK, Frame
    <3> QED  BY <1>b, <2>2, <3>1, <3>2
  <2>5. ASSUME NEW b \in hash', Count(b)' > 0  PROVE ~ Changed(b)'
    <3>1. b \in hash /\ Count(b) > 0 /\ b \in Block
      BY <1>b, <1>c, <1>t, <2>5 DEF TypeOK
    <3>2. entry[b].key \in present /\ entry[b].mtime = rev[entry[b].key]
      BY <3>1 DEF Core, Fresh, Changed
    <3>3. InUse(b)
      BY <1>t, <3>1, Unused
    <3>4. entry[b].key \in Key /\ entry[b].key # k
      BY <1>t, <2>1, <3>1, <3>3 DEF Busy, TypeOK, Entry
    <3> QED  BY <1>b, <2>2, <3>2, <3>4 DEF Changed
  <2> QED  BY <2>3, <2>4, <2>5 DEF Fresh, Changed
<1>3. CASE Tick \/ UNCHANGED vars
  BY <1>1, <1>3 DEF Tick, vars, files
<1> QED
  BY <1>2, <1>3 DEF Outside

LEMMA FreshListing ==
  ASSUME Core, TypeInv', QuietStat, NEW p \in Proc, Listing(p)
  PROVE  Fresh'
<1>t. /\ TypeOK /\ TypeOK' /\ TypeInv /\ MtimeChecked /\ Fresh
      /\ \A b \in Block : Sound(b)
  BY QuietChecked DEF Core, TypeInv
<1>o. OnlyOf(p)
  BY <1>t, ListingOnly
<1>f. UNCHANGED <<check_mtime, rev, present>>
  BY DEF Listing, FindHit, FindStale, Malloc, PruneForSpace, Add, CleanRequest,
         FreeUsed, Clean, Clear, Purge, Prune, files
<1>k. ASSUME KeepsStat(p), \A b \in Block : KeepsEntry(b)  PROVE Fresh'
  BY <1>f, <1>o, <1>k, FreshKept, OthersKeepStat
<1>c. ASSUME NEW b \in Block, Count(b)' = Count(b), b \in hash' => b \in hash,
             entry'[b].key = entry[b].key, entry'[b].mtime = entry[b].mtime
      PROVE  KeepsEntry(b)
  BY <1>c DEF KeepsEntry
<1>q. ASSUME used'[p] = used[p], pc[p] # "restore", pc'[p] # "restore"
      PROVE  \A b : Count(b)' = Count(b)
  BY <1>o, <1>q, <1>t, CountQuiet
<1>1. CASE FindHit(p)
  <2>1. PICK c \in Cached(frame[p].key) :
          /\ Valid(p, c)
          /\ entry' = [entry EXCEPT ![c].use_cnt = @ + 1, ![c].ttl = Expiry(p)]
          /\ frame' = [frame EXCEPT ![p].ptr = c]
    BY <1>1 DEF FindHit
  <2>2. /\ pc[p] = "find" /\ pc'[p] = "restore" /\ used'[p] = used[p]
        /\ UNCHANGED hash
    BY <1>1, <1>t, AloneGo DEF FindHit
  <2>3. /\ frame'[p].ptr = c
        /\ frame'[p].key = frame[p].key /\ frame'[p].buf = frame[p].buf
    BY <1>t, <2>1 DEF TypeOK, Frame
  <2>4. \A b : Count(b)' = Count(b) + (IF b = c THEN 1 ELSE 0) /\ Count(b) \in Nat
    BY <1>o, <1>t, <2>2, <2>3, CountFound
  <2>5. \A b \in Block : entry'[b].key = entry[b].key /\ entry'[b].mtime = entry[b].mtime
    BY <1>t, <2>1 DEF TypeOK, Entry
  <2>6. check_mtime'
    BY <1>f, <1>t DEF Fresh
  <2>7. ASSUME NEW q \in Proc, pc'[q] \notin {"idle", "run", "release"}
        PROVE  frame'[q].key \in present' /\ frame'[q].buf = rev'[frame'[q].key]
    <3>1. /\ pc[q] \notin {"idle", "run", "release"}
          /\ frame'[q].key = frame[q].key /\ frame'[q].buf = frame[q].buf
      BY <1>o, <2>2, <2>3, <2>7 DEF OnlyOf
    <3> QED  BY <1>f, <1>t, <3>1 DEF Fresh
  <2>8. ASSUME NEW b \in hash', Count(b)' > 0
        PROVE  entry'[b].key \in present' /\ entry'[b].mtime = rev'[entry'[b].key]
    <3>1. b \in hash /\ b \in Block
      BY <1>t, <2>2 DEF TypeOK
    <3>2. CASE b = c
      <4>1. entry[b].key = frame[p].key /\ entry[b].mtime = frame[p].buf
        BY <1>t, <2>1, <3>2 DEF Cached, Valid
      <4>2. frame[p].key \in present /\ frame[p].buf = rev[frame[p].key]
        BY <1>t, <2>2 DEF Fresh
      <4> QED  BY <1>f, <2>5, <3>1, <4>1, <4>2
    <3>3. CASE b # c
      <4>1. Count(b) > 0
        BY <2>4, <2>8, <3>3
      <4>2. entry[b].key \in present /\ entry[b].mtime = rev[entry[b].key]
        BY <1>t, <3>1, <4>1 DEF Fresh, Changed
      <4> QED  BY <1>f, <2>5, <3>1, <4>2
    <3> QED  BY <3>2, <3>3
  <2> QED  BY <2>6, <2>7, <2>8 DEF Fresh, Changed
<1>2. CASE FindStale(p)
  <2>1. PICK c \in hash :
          hash' = hash \ {c} /\ Discard({c}) /\ entry' = Flagged({c})
    BY <1>2 DEF FindStale, Cached
  <2>2. /\ pc[p] = "find" /\ pc'[p] = "compile" /\ UNCHANGED <<used, frame>>
    BY <1>2, <1>t, AloneGo DEF FindStale, local
  <2>3. \A b : Count(b)' = Count(b)
    BY <1>q, <2>2
  <2>4. KeepsStat(p)
    BY <2>2 DEF KeepsStat, Serving
  <2>5. ASSUME NEW b \in Block  PROVE KeepsEntry(b)
    <3>1. {c} \in SUBSET Block
      BY <1>t DEF TypeOK
    <3>2. entry'[b].key = entry[b].key /\ entry'[b].mtime = entry[b].mtime
      BY <1>t, <2>1, <3>1, DiscardOne
    <3> QED  BY <1>c, <2>1, <2>3, <3>2
  <2> QED  BY <1>k, <2>4, <2>5
<1>3. CASE Malloc(p)
  <2>1. PICK c \in Block \ alloc :
          /\ entry' = [entry EXCEPT ![c] =
               NewEntry(frame[p].key, frame[p].buf, frame[p].code, Expiry(p))]
          /\ frame' = [frame EXCEPT ![p].ptr = c]
    BY <1>3 DEF Malloc
  <2>2. /\ pc[p] \in {"malloc", "malloc3"} /\ pc'[p] = "add" /\ used'[p] = used[p]
        /\ UNCHANGED hash
    BY <1>3, <1>t, AloneGo DEF Malloc
  <2>3. \A b : Count(b)' = Count(b)
    BY <1>q, <2>2
  <2>4. KeepsStat(p)
    <3>1. frame'[p].key = frame[p].key /\ frame'[p].buf = frame[p].buf
      BY <1>t, <2>1 DEF TypeOK, Frame
    <3> QED  BY <2>2, <3>1 DEF KeepsStat, Serving
  <2>5. ASSUME NEW b \in Block  PROVE KeepsEntry(b)
    <3>1. CASE b \in hash
      <4>1. b # c
        BY <1>t, <2>1, <3>1 DEF Sound
      <4>2. entry'[b] = entry[b]
        BY <1>t, <2>1, <4>1 DEF TypeOK
      <4> QED  BY <1>c, <2>2, <2>3, <4>2
    <3>2. CASE b \notin hash
      BY <2>2, <3>2 DEF KeepsEntry
    <3> QED  BY <3>1, <3>2
  <2> QED  BY <1>k, <2>4, <2>5
<1>4. CASE PruneForSpace(p)
  <2>1. /\ pc[p] = "prune" /\ pc'[p] = "malloc3" /\ UNCHANGED <<used, frame>>
        /\ UNCHANGED entry /\ \A b : b \in hash' => b \in hash
    BY <1>4, <1>t, AloneGo DEF PruneForSpace, Prune, local
  <2>2. \A b : Count(b)' = Count(b)
    BY <1>q, <2>1
  <2>3. KeepsStat(p)
    BY <2>1 DEF KeepsStat, Serving
  <2> QED  BY <1>c, <1>k, <2>1, <2>2, <2>3
<1>5. CASE Add(p)
  <2>1. PICK old \in Replaced(frame[p].key) :
          /\ hash' = (hash \ old) \cup {frame[p].ptr}
          /\ Discard(old) /\ entry' = Flagged(old)
    BY <1>5 DEF Add
  <2>2. old \in SUBSET Block
    BY <1>t DEF Replaced, Cached, TypeOK
  <2>3. pc[p] = "add" /\ pc'[p] = "run" /\ used'[p] = used[p]
    BY <1>5, <1>t, AloneGo DEF Add, Leave
  <2>4. \A b : Count(b)' = Count(b)
    BY <1>q, <2>3
  <2>5. KeepsStat(p)
    BY <2>3 DEF KeepsStat, Serving
  <2>6. ASSUME NEW b \in Block  PROVE KeepsEntry(b)
    <3>1. entry'[b].key = entry[b].key /\ entry'[b].mtime = entry[b].mtime
      BY <1>t, <2>1, <2>2, DiscardOne
    <3>2. CASE b = frame[p].ptr
      <4>1. ~ (Count(b) > 0)
        BY <1>t, <2>3, <3>2 DEF Core, Storers, Apart, Sound
      <4> QED  BY <2>4, <4>1 DEF KeepsEntry
    <3>3. CASE b # frame[p].ptr
      BY <1>c, <2>1, <2>4, <3>1, <3>3
    <3> QED  BY <3>2, <3>3
  <2> QED  BY <1>k, <2>5, <2>6
<1>6. CASE CleanRequest(p)
  <2>1. /\ pc'[p] \in {"idle", "release"} /\ used'[p] = << >> /\ UNCHANGED hash
        /\ entry' = [b \in Block |-> [entry[b] EXCEPT !.use_cnt = Left(p, b)]]
    BY <1>6, <1>t, AloneGo, AloneUsed DEF CleanRequest
  <2>2. \A b : /\ Mine(p, b) \in Nat /\ Count(b)' = Count(b) - Mine(p, b)
               /\ Count(b) \in Nat
    BY <1>o, <1>t, <2>1, CountEnded
  <2>3. KeepsStat(p)
    BY <2>1 DEF KeepsStat, Serving
  <2>4. ASSUME NEW b \in Block  PROVE KeepsEntry(b)
    <3>1. entry'[b].key = entry[b].key /\ entry'[b].mtime = entry[b].mtime
      BY <1>t, <2>1 DEF TypeOK, Entry
    <3> QED  BY <2>1, <2>2, <3>1 DEF KeepsEntry
  <2> QED  BY <1>k, <2>3, <2>4
<1>7. CASE \E c \in Block : FreeUsed(p, c)
  <2>1. Aside /\ pc'[p] \in {"idle", "release"}
    BY <1>7, FreeUsedAside, FreeUsedNothing
  <2>2. KeepsStat(p)
    BY <2>1 DEF KeepsStat, Serving
  <2> QED  BY <1>f, <1>o, <2>1, <2>2, FreshAside, OthersKeepStat
<1>8. CASE Clean(p) \/ Clear(p) \/ Purge(p)
  <2>1. UNCHANGED <<pc, used, frame>>
    BY <1>8 DEF Clean, Clear, Purge, local
  <2>2. \A b : Count(b)' = Count(b)
    BY <1>t, <2>1, CountSame
  <2>3. KeepsStat(p)
    BY <2>1 DEF KeepsStat, Serving
  <2>4. \A b : b \in hash' => b \in hash
    BY <1>8 DEF Clean, Clear, Purge, Prune
  <2>5. ASSUME NEW b \in Block
        PROVE  entry'[b].key = entry[b].key /\ entry'[b].mtime = entry[b].mtime
    <3>1. CASE Clear(p)
      <4>1. Discard(hash) /\ entry' = Flagged(hash) /\ hash \in SUBSET Block
        BY <1>t, <3>1 DEF Clear, TypeOK
      <4> QED  BY <1>t, <4>1, DiscardOne
    <3>2. CASE Clean(p) \/ Purge(p)
      BY <3>2 DEF Clean, Purge, Prune
    <3> QED  BY <1>8, <3>1, <3>2
  <2> QED  BY <1>c, <1>k, <2>2, <2>3, <2>4, <2>5
<1> QED
  BY <1>1, <1>2, <1>3, <1>4, <1>5, <1>6, <1>7, <1>8 DEF Listing

LEMMA FreshNext ==
  ASSUME Core, TypeInv', [Next]_vars
  PROVE  Fresh'
<1>1. CASE QuietStat
  BY <1>1, Steps, FreshOutside, FreshPassing, FreshListing
<1>2. CASE ~ QuietStat
  BY <1>2 DEF Fresh
<1> QED
  BY <1>1, <1>2
-----------------------------------------------------------------------------
(* What keeps a request from ending with uses, or from pruning without a   *)
(* period.                                                                 *)
LEMMA EndedNext ==
  ASSUME Core, TypeInv', [Next]_vars
  PROVE  Ended' /\ Pruning'
<1>t. TypeOK /\ TypeInv /\ Ended /\ Pruning
  BY DEF Core, TypeInv
<1>1. ASSUME UNCHANGED <<pc, used>>  PROVE Ended' /\ Pruning'
  BY <1>t, <1>1 DEF Ended, Pruning
<1>2. ASSUME NEW p \in Proc, OnlyOf(p),
             pc'[p] \in {"idle", "release"} => used'[p] = << >>,
             pc'[p] = "prune" => PrunePeriod # 0
      PROVE  Ended' /\ Pruning'
  BY <1>t, <1>2 DEF Ended, Pruning, OnlyOf
<1>3. CASE Outside
  BY <1>1, <1>3, <1>t, OutsideAside DEF local
<1>4. ASSUME NEW p \in Proc, Passing(p)  PROVE Ended' /\ Pruning'
  <2>o. OnlyOf(p)
    BY <1>t, <1>4, PassingAside
  <2>1. CASE StartRequest(p)
    BY <2>o, <1>2, <1>t, <2>1, AloneGo DEF StartRequest
  <2>2. CASE Crash(p)
    <3>1. pc'[p] = "idle" /\ used'[p] = << >>
      BY <1>t, <2>2, AloneGo, AloneUsed DEF Crash
    <3> QED  BY <1>2, <2>o, <3>1
  <2>3. CASE SetCheckMtime(p)
    BY <1>1, <2>3 DEF SetCheckMtime, local
  <2>4. CASE \E k \in Key : CompileFile(p, k)
    BY <2>o, <1>2, <1>t, <2>4, AloneGo DEF CompileFile
  <2>5. CASE FindMiss(p) \/ KeepStat(p)
    BY <2>o, <1>2, <1>t, <2>5, AloneGo DEF FindMiss, KeepStat
  <2>6. CASE Restore(p)
    BY <2>o, <1>2, <1>t, <2>6, AloneGo DEF Restore, Leave
  <2>7. CASE RestoreRefused(p) \/ Compile(p)
    BY <2>o, <1>2, <1>t, <2>7, AloneGo DEF RestoreRefused, Compile
  <2>8. CASE CompileFails(p)
    BY <2>o, <1>2, <1>t, <2>8, AloneGo DEF CompileFails, Leave
  <2>9. CASE StatAfter(p)
    BY <2>o, <1>2, <1>t, <2>9, AloneGo DEF StatAfter, Leave
  <2>10. CASE MallocFails(p)
    BY <2>o, <1>2, <1>t, <2>10, AloneGo DEF MallocFails, Leave
  <2>11. CASE Malloc2(p)
    <3>1. pc'[p] \in {"prune", "run"} /\ (pc'[p] = "prune" => PrunePeriod > 0)
      BY <1>t, <2>11, AloneGo DEF Malloc2, Leave
    <3>2. PrunePeriod > 0 => PrunePeriod # 0
      BY ConstantsAssumption
    <3> QED  BY <1>2, <2>o, <3>1, <3>2
  <2> QED
    BY <1>4, <2>1, <2>2, <2>3, <2>4, <2>5, <2>6, <2>7, <2>8, <2>9, <2>10, <2>11
       DEF Passing
<1>5. ASSUME NEW p \in Proc, Listing(p)  PROVE Ended' /\ Pruning'
  <2>o. OnlyOf(p)
    BY <1>t, <1>5, ListingOnly
  <2>1. CASE FindHit(p)
    BY <2>o, <1>2, <1>t, <2>1, AloneGo DEF FindHit
  <2>2. CASE FindStale(p)
    BY <2>o, <1>2, <1>t, <2>2, AloneGo DEF FindStale
  <2>3. CASE Malloc(p)
    BY <2>o, <1>2, <1>t, <2>3, AloneGo DEF Malloc
  <2>4. CASE PruneForSpace(p)
    BY <2>o, <1>2, <1>t, <2>4, AloneGo DEF PruneForSpace
  <2>5. CASE Add(p)
    BY <2>o, <1>2, <1>t, <2>5, AloneGo DEF Add, Leave
  <2>6. CASE CleanRequest(p)
    <3>1. pc'[p] \in {"idle", "release"} /\ used'[p] = << >>
      BY <1>t, <2>6, AloneGo, AloneUsed DEF CleanRequest
    <3> QED  BY <1>2, <2>o, <3>1
  <2>7. CASE \E c \in Block : FreeUsed(p, c)
    <3>1. /\ pc[p] = "release" /\ pc'[p] \in {"idle", "release"}
          /\ used' = used
      BY <2>7, FreeUsedNothing
    <3> QED  BY <1>2, <1>t, <2>o, <3>1 DEF Ended
  <2>8. CASE Clean(p) \/ Clear(p) \/ Purge(p)
    BY <1>1, <2>8 DEF Clean, Clear, Purge, local
  <2> QED
    BY <1>5, <2>1, <2>2, <2>3, <2>4, <2>5, <2>6, <2>7, <2>8 DEF Listing
<1> QED
  BY <1>3, <1>4, <1>5, Steps

LEMMA CoreInit == Init => Core
<1> SUFFICES ASSUME Init  PROVE Core
  OBVIOUS
<1>1. TypeInv /\ TypeOK
  BY TypeInit DEF TypeInv
<1>2. Counted
  BY FS_EmptySet DEF Init, Counted
<1>3. Storers /\ Ended /\ Pruning /\ Fresh
  BY DEF Init, Storers, Ended, Pruning, Fresh
<1>4. ASSUME NEW b \in Block  PROVE Sound(b)
  <2>1. ~ InUse(b)
    BY DEF Init, InUse, Pins, RangeOf
  <2>2. Count(b) = 0
    BY <1>1, <2>1, Unused
  <2>3. entry[b].use_cnt = 0
    BY DEF Init, NewEntry
  <2> QED  BY <2>2, <2>3 DEF Init, Sound
<1> QED
  BY <1>1, <1>2, <1>3, <1>4 DEF Core

LEMMA CoreNext ==
  ASSUME PruneIsSafe, PurgeIsSafe
  PROVE  Core /\ [Next]_vars => Core'
<1> SUFFICES ASSUME Core, [Next]_vars  PROVE Core'
  OBVIOUS
<1>1. TypeInv'
  BY TypeNext DEF Core
<1>2. \A b \in Block : Sound(b)'
  BY <1>1, SoundNext
<1>3. Counted' /\ Storers' /\ Fresh' /\ Ended' /\ Pruning'
  BY <1>1, CountedNext, StorersNext, FreshNext, EndedNext
<1> QED
  BY <1>1, <1>2, <1>3 DEF Core

LEMMA CoreCorrect ==
  ASSUME PruneIsSafe, PurgeIsSafe
  PROVE  Spec => []Core
  BY CoreInit, CoreNext, PTL DEF Spec

(* The parts of Core that the runs check.                                  *)
LEMMA CoreLists == Core => ListsConsistent
  BY DEF Core, Counted, Storers, Apart, Sound, TypeInv, TypeOK, HasEntry, ListsConsistent

LEMMA CorePins == Core => NoUseAfterFree
<1> SUFFICES ASSUME Core, NEW p \in Proc, NEW b \in Pins(p)  PROVE b \in hash \cup removed
  BY DEF NoUseAfterFree
<1>1. TypeOK /\ TypeInv
  BY DEF Core, TypeInv
<1>2. b \in Block
  BY <1>1 DEF TypeInv, TypeOK, HasEntry, Pins, RangeOf
<1>3. Count(b) > 0
  BY <1>1, Unused DEF InUse
<1> QED
  BY <1>2, <1>3 DEF Core, Sound

LEMMA CoreCovers == Core => UseCntCovers
  BY DEF Core, Sound, UseCntCovers, Count, TypeInv, TypeOK

(* "key is used by other process/thread. Schedule it for removal": no      *)
(* entry is freed while a request runs it in place, or is about to,        *)
(* whatever processes look up, store, replace, remove and end at the same  *)
(* time, and whoever dies.                                                 *)
THEOREM NeverFreedInUse ==
  ASSUME PruneIsSafe, PurgeIsSafe
  PROVE  Spec => []NoUseAfterFree
  BY CoreCorrect, CorePins, PTL

(* The table, the removed list, their flags and counters agree.            *)
THEOREM ListsStayConsistent ==
  ASSUME PruneIsSafe, PurgeIsSafe
  PROVE  Spec => []ListsConsistent
  BY CoreCorrect, CoreLists, PTL

(* use_cnt is never below the number of uses by live requests.             *)
THEOREM UsesCovered ==
  ASSUME PruneIsSafe, PurgeIsSafe
  PROVE  Spec => []UseCntCovers
  BY CoreCorrect, CoreCovers, PTL
=============================================================================
