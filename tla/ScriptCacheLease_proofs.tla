----------------------- MODULE ScriptCacheLease_proofs -----------------------
(***************************************************************************)
(* What rests on the invariant of ScriptCache_proofs: what an entry holds  *)
(* and for how long, that every use is counted and every block accounted   *)
(* for, that a removed entry only drains, and that the lists and counters  *)
(* keep the promise of module EntryLease.                                  *)
(***************************************************************************)
EXTENDS ScriptCache_proofs
-----------------------------------------------------------------------------
(* What no step does to an entry: its block is filled only before it is    *)
(* handed out, and it enters the table only from there.                    *)
SameContents(b) ==
  /\ entry'[b].key = entry[b].key
  /\ entry'[b].mtime = entry[b].mtime /\ entry'[b].code = entry[b].code

LEMMA ContentsKept ==
  ASSUME Core, TypeInv', [Next]_vars, NEW b \in Block, b \in alloc
  PROVE  SameContents(b)
<1>t. TypeOK /\ TypeInv /\ Ended
  BY DEF Core, TypeInv
<1>1. CASE entry' = entry
  BY <1>1 DEF SameContents
<1>2. ASSUME NEW D \in SUBSET Block, Discard(D), entry' = Flagged(D)
      PROVE  SameContents(b)
  BY <1>2, <1>t, DiscardOne DEF SameContents
<1>3. CASE Outside
  BY <1>1, <1>3, <1>t, OutsideAside DEF Aside, lists
<1>4. ASSUME NEW p \in Proc, Passing(p)  PROVE SameContents(b)
  BY <1>1, <1>4, <1>t, PassingAside DEF Aside, lists
<1>5. ASSUME NEW p \in Proc, Listing(p)  PROVE SameContents(b)
  <2>1. CASE FindHit(p)
    <3>1. PICK c \in hash :
            entry' = [entry EXCEPT ![c].use_cnt = @ + 1, ![c].ttl = Expiry(p)]
      BY <2>1 DEF FindHit, Cached
    <3> QED  BY <1>t, <3>1 DEF SameContents, TypeOK, Entry
  <2>2. CASE FindStale(p)
    <3>1. PICK c \in hash : Discard({c}) /\ entry' = Flagged({c})
      BY <2>2 DEF FindStale, Cached
    <3>2. {c} \in SUBSET Block
      BY <1>t DEF TypeOK
    <3> QED  BY <1>2, <3>1, <3>2
  <2>3. CASE Malloc(p)
    <3>1. PICK c \in Block \ alloc :
            entry' = [entry EXCEPT ![c] =
              NewEntry(frame[p].key, frame[p].buf, frame[p].code, Expiry(p))]
      BY <2>3 DEF Malloc
    <3>2. entry'[b] = entry[b]
      BY <1>t, <3>1 DEF TypeOK
    <3> QED  BY <3>2 DEF SameContents
  <2>4. CASE PruneForSpace(p) \/ Clean(p) \/ Purge(p) \/ \E c \in Block : FreeUsed(p, c)
    BY <1>1, <2>4 DEF PruneForSpace, Clean, Prune, Purge, FreeUsed
  <2>5. CASE Add(p)
    <3>1. PICK old \in Replaced(frame[p].key) : Discard(old) /\ entry' = Flagged(old)
      BY <2>5 DEF Add
    <3>2. old \in SUBSET Block
      BY <1>t DEF Replaced, Cached, TypeOK
    <3> QED  BY <1>2, <3>1, <3>2
  <2>6. CASE CleanRequest(p)
    <3>1. entry' = [c \in Block |-> [entry[c] EXCEPT !.use_cnt = Left(p, c)]]
      BY <2>6 DEF CleanRequest
    <3> QED  BY <1>t, <3>1 DEF SameContents, TypeOK, Entry
  <2>7. CASE Clear(p)
    <3>1. Discard(hash) /\ entry' = Flagged(hash) /\ hash \in SUBSET Block
      BY <1>t, <2>7 DEF Clear, TypeOK
    <3> QED  BY <1>2, <3>1
  <2> QED  BY <1>5, <2>1, <2>2, <2>3, <2>4, <2>5, <2>6, <2>7 DEF Listing
<1> QED
  BY <1>3, <1>4, <1>5, Steps

LEMMA HashGrows ==
  ASSUME Core, TypeInv', [Next]_vars
  PROVE  \/ \A b : b \in hash' => b \in hash
         \/ \E p \in Proc : Add(p)
<1>t. TypeInv /\ Ended
  BY DEF Core
<1>1. ASSUME hash' = hash  PROVE \A b : b \in hash' => b \in hash
  BY <1>1
<1>2. CASE Outside
  BY <1>1, <1>2, <1>t, OutsideAside DEF lists
<1>3. ASSUME NEW p \in Proc, Passing(p)  PROVE \A b : b \in hash' => b \in hash
  BY <1>1, <1>3, <1>t, PassingAside DEF Aside, lists
<1>4. ASSUME NEW p \in Proc, Listing(p), ~ Add(p)
      PROVE  \A b : b \in hash' => b \in hash
  BY <1>4 DEF Listing, FindHit, FindStale, Malloc, PruneForSpace, CleanRequest,
              FreeUsed, Clean, Clear, Purge, Prune
<1> QED
  BY <1>2, <1>3, <1>4, Steps
-----------------------------------------------------------------------------
(* A block a process is about to add holds what the process put there.     *)
Holds(p) ==
  /\ entry[frame[p].ptr].key = frame[p].key
  /\ entry[frame[p].ptr].mtime = frame[p].buf
  /\ entry[frame[p].ptr].code = frame[p].code

Filled == \A p \in Proc : pc[p] = "add" => Holds(p)

(* Nothing but Malloc makes a process add.                                 *)
LEMMA OnlyMallocAdds ==
  ASSUME Core, TypeInv', [Next]_vars, NEW p \in Proc, pc'[p] = "add"
  PROVE  Malloc(p) \/ (pc[p] = "add" /\ frame'[p] = frame[p])
<1>t. TypeOK /\ TypeInv /\ Ended
  BY DEF Core, TypeInv
<1>1. CASE Outside
  BY <1>1, <1>t, OutsideAside DEF Aside
<1>2. ASSUME NEW q \in Proc, Passing(q)  PROVE pc[p] = "add" /\ frame'[p] = frame[p]
  BY <1>2, <1>t, PassingAside DEF Aside
<1>3. ASSUME NEW q \in Proc, Listing(q), ~ Malloc(q)
      PROVE  pc[p] = "add" /\ frame'[p] = frame[p]
  <2>1. CASE q = p
    <3>1. CASE Clean(p) \/ Clear(p) \/ Purge(p)
      BY <3>1 DEF Clean, Clear, Purge, local
    <3>2. CASE \E c \in Block : FreeUsed(p, c)
      <4>1. pc'[p] \in {"idle", "release"}
        BY <3>2, FreeUsedNothing
      <4> QED  BY <4>1
    <3>3. CASE FindHit(p) \/ FindStale(p) \/ PruneForSpace(p)
      BY <1>t, <3>3, AloneGo DEF FindHit, FindStale, PruneForSpace
    <3>4. CASE Add(p) \/ CleanRequest(p)
      <4>1. pc'[p] \in {"run", "idle", "release"}
        BY <1>t, <3>4, AloneGo DEF Add, Leave, CleanRequest
      <4> QED  BY <4>1
    <3> QED  BY <1>3, <2>1, <3>1, <3>2, <3>3, <3>4 DEF Listing
  <2>2. CASE q # p
    BY <1>3, <1>t, <2>2, ListingOnly DEF OnlyOf
  <2> QED  BY <2>1, <2>2
<1>4. ASSUME NEW q \in Proc, Malloc(q), q # p
      PROVE  pc[p] = "add" /\ frame'[p] = frame[p]
  <2>1. OnlyOf(q)
    BY <1>4, <1>t, ListingOnly DEF Listing
  <2>2. pc'[p] = pc[p] /\ frame'[p] = frame[p]
    BY <1>4, <2>1 DEF OnlyOf
  <2> QED  BY <2>2
<1>5. ASSUME NEW q \in Proc, Listing(q)
      PROVE  Malloc(p) \/ (pc[p] = "add" /\ frame'[p] = frame[p])
  BY <1>3, <1>4, <1>5
<1> QED
  BY <1>1, <1>2, <1>5, Steps

LEMMA FilledNext ==
  ASSUME Core, TypeInv', [Next]_vars, Filled
  PROVE  Filled'
<1>t. TypeOK /\ TypeInv
  BY DEF Core, TypeInv
<1> SUFFICES ASSUME NEW p \in Proc, pc'[p] = "add"  PROVE Holds(p)'
  BY DEF Filled
<1>1. CASE Malloc(p)
  <2>1. PICK c \in Block :
          /\ entry' = [entry EXCEPT ![c] =
               NewEntry(frame[p].key, frame[p].buf, frame[p].code, Expiry(p))]
          /\ frame' = [frame EXCEPT ![p].ptr = c]
    BY <1>1 DEF Malloc
  <2>2. /\ frame'[p].ptr = c /\ frame'[p].key = frame[p].key
        /\ frame'[p].buf = frame[p].buf /\ frame'[p].code = frame[p].code
    BY <1>t, <2>1 DEF TypeOK, Frame
  <2>3. entry'[c] = NewEntry(frame[p].key, frame[p].buf, frame[p].code, Expiry(p))
    BY <1>t, <2>1 DEF TypeOK
  <2> QED  BY <2>2, <2>3 DEF Holds, NewEntry
<1>2. CASE pc[p] = "add" /\ frame'[p] = frame[p]
  <2>1. frame[p].ptr \in Block /\ frame[p].ptr \in alloc
    BY <1>2 DEF Core, TypeInv, HasEntry, Storers, Apart
  <2>2. SameContents(frame[p].ptr)
    BY <2>1, ContentsKept
  <2> QED  BY <1>2, <2>2 DEF Filled, Holds, SameContents
<1> QED
  BY <1>1, <1>2, OnlyMallocAdds

LEMMA OneEntryNext ==
  ASSUME Core, TypeInv', [Next]_vars, Filled, OneEntryPerScript
  PROVE  OneEntryPerScript'
<1>t. TypeOK /\ TypeInv
  BY DEF Core, TypeInv
<1>h. \A b \in hash : b \in Block /\ b \in alloc
  BY <1>t DEF Core, Sound, TypeOK
<1>c. \A b \in Block : b \in alloc => entry'[b].key = entry[b].key
  BY ContentsKept DEF SameContents
<1>1. CASE \A b : b \in hash' => b \in hash
  BY <1>1, <1>c, <1>h DEF OneEntryPerScript
<1>2. ASSUME NEW p \in Proc, Add(p)  PROVE OneEntryPerScript'
  <2> DEFINE k == frame[p].key
             n == frame[p].ptr
  <2>1. PICK old \in Replaced(k) : hash' = (hash \ old) \cup {n}
    BY <1>2 DEF Add
  <2>2. n \in Block /\ n \in alloc /\ entry[n].key = k
    BY <1>2 DEF Add, Core, TypeInv, HasEntry, Storers, Apart, Filled, Holds
  <2>3. ASSUME NEW b \in hash, b \notin old  PROVE entry[b].key # k
    <3>1. SUFFICES ASSUME entry[b].key = k  PROVE FALSE
      OBVIOUS
    <3>2. b \in Cached(k)
      BY <3>1 DEF Cached
    <3>3. PICK d \in Cached(k) : old = {d}
      BY <3>2 DEF Replaced
    <3>4. d = b
      BY <3>2, <3>3 DEF Cached, OneEntryPerScript
    <3> QED  BY <2>3, <3>3, <3>4
  <2>4. ASSUME NEW b \in hash', NEW c \in hash', entry'[b].key = entry'[c].key
        PROVE  b = c
    <3>1. ASSUME NEW d \in hash'
          PROVE  /\ d \in Block /\ d \in alloc
                 /\ d = n \/ (d \in hash /\ d \notin old)
      <4>1. d = n \/ (d \in hash /\ d \notin old)
        BY <2>1
      <4>2. d \in Block /\ d \in alloc
        BY <1>h, <2>2, <4>1
      <4> QED  BY <4>1, <4>2
    <3>2. entry[b].key = entry[c].key
      BY <1>c, <2>4, <3>1
    <3>3. CASE b = n \/ c = n
      BY <2>2, <2>3, <3>1, <3>2, <3>3
    <3>4. CASE b # n /\ c # n
      BY <3>1, <3>2, <3>4 DEF OneEntryPerScript
    <3> QED  BY <3>3, <3>4
  <2> QED  BY <2>4 DEF OneEntryPerScript
<1> QED
  BY <1>1, <1>2, HashGrows

(* However many processes miss on the same script and store it one after   *)
(* the other, the table holds it at most once.                             *)
THEOREM OneEntryOnly ==
  ASSUME PruneIsSafe, PurgeIsSafe
  PROVE  Spec => []OneEntryPerScript
<1>1. Init => Filled /\ OneEntryPerScript
  BY DEF Init, Filled, OneEntryPerScript
<1>2. Core /\ Core' /\ Filled /\ OneEntryPerScript /\ [Next]_vars
        => Filled' /\ OneEntryPerScript'
  BY FilledNext, OneEntryNext DEF Core
<1> QED
  BY <1>1, <1>2, CoreCorrect, PTL DEF Spec
-----------------------------------------------------------------------------
(* The checks of modification times stay on.                               *)
AlwaysChecked == CheckMtime /\ "check_mtime" \notin AdminOps

Storing(p) == pc[p] \in {"stat", "malloc", "malloc2", "prune", "malloc3", "add"}

(* A stat is older than what the compiler read later, and so is an entry   *)
(* than the file.                                                          *)
StatOld(p) == Serving(p) => frame[p].buf <= rev[frame[p].key]

CodeNewer(p) ==
  Storing(p) => frame[p].buf <= frame[p].code /\ frame[p].code <= rev[frame[p].key]

EntryDated(b) ==
  entry[b].mtime <= entry[b].code /\ entry[b].code <= rev[entry[b].key]

Dated ==
  AlwaysChecked =>
    /\ check_mtime
    /\ \A p \in Proc : StatOld(p) /\ CodeNewer(p)
    /\ \A b \in hash : EntryDated(b)

(* Files only get newer.                                                   *)
Newer == \A k \in Key : rev[k] \in Nat /\ rev'[k] \in Nat /\ rev[k] <= rev'[k]

LEMMA RevGrows ==
  ASSUME TypeOK, TypeOK', [Next]_vars
  PROVE  Newer
<1>1. CASE rev' = rev
  BY <1>1 DEF TypeOK, Newer
<1>2. ASSUME NEW k \in Key, Edit(k)  PROVE Newer
  BY <1>2 DEF Edit, TypeOK, Newer
<1>3. CASE Outside
  BY <1>1, <1>2, <1>3 DEF Outside, Delete, Tick, vars, files
<1>4. ASSUME NEW p \in Proc, Passing(p)  PROVE rev' = rev
  BY <1>4 DEF Passing, StartRequest, Crash, SetCheckMtime, CompileFile, FindMiss,
              Restore, RestoreRefused, Compile, CompileFails, KeepStat, StatAfter,
              MallocFails, Malloc2, files
<1>5. ASSUME NEW p \in Proc, Listing(p)  PROVE rev' = rev
  BY <1>5 DEF Listing, FindHit, FindStale, Malloc, PruneForSpace, Add, CleanRequest,
              FreeUsed, Clean, Clear, Purge, files
<1> QED
  BY <1>1, <1>3, <1>4, <1>5, Steps

(* A request whose step keeps the script, the stat and the code.           *)
KeepsCode(p) ==
  /\ Serving(p)' => /\ Serving(p) /\ frame'[p].key = frame[p].key
                    /\ frame'[p].buf = frame[p].buf
  /\ Storing(p)' => Storing(p) /\ frame'[p].code = frame[p].code

LEMMA StoringServes ==
  ASSUME NEW p
  PROVE  (Storing(p) => Serving(p)) /\ (Storing(p)' => Serving(p)')
  BY DEF Storing, Serving

LEMMA DatedKept ==
  ASSUME TypeOK, TypeOK', Newer, NEW p \in Proc, KeepsCode(p), StatOld(p), CodeNewer(p)
  PROVE  StatOld(p)' /\ CodeNewer(p)'
<1>1. /\ frame[p].key \in Key /\ frame[p].buf \in Nat /\ frame[p].code \in Nat
  BY DEF TypeOK, Frame
<1>2. ASSUME Serving(p)'
      PROVE  frame'[p].buf <= rev'[frame'[p].key]
  BY <1>1, <1>2 DEF KeepsCode, StatOld, Newer
<1>3. ASSUME Storing(p)'
      PROVE  frame'[p].buf <= frame'[p].code /\ frame'[p].code <= rev'[frame'[p].key]
  BY <1>1, <1>3, StoringServes DEF KeepsCode, CodeNewer, Newer
<1> QED
  BY <1>2, <1>3 DEF StatOld, CodeNewer, Serving, Storing

LEMMA DatedProcess ==
  ASSUME Core, TypeInv', AlwaysChecked, Dated, Newer, NEW p \in Proc,
         Passing(p) \/ Listing(p)
  PROVE  check_mtime' /\ StatOld(p)' /\ CodeNewer(p)'
<1>t. /\ TypeOK /\ TypeOK' /\ TypeInv /\ check_mtime /\ MtimeChecked
      /\ StatOld(p) /\ CodeNewer(p) /\ ~ SetCheckMtime(p)
  BY DEF Core, TypeInv, AlwaysChecked, Dated, MtimeChecked, SetCheckMtime
<1>f. /\ frame[p].key \in Key /\ frame[p].buf \in Nat /\ frame[p].code \in Nat
      /\ \A k \in Key : rev[k] \in Nat
  BY <1>t DEF TypeOK, Frame
<1>m. check_mtime'
  BY <1>t DEF Passing, StartRequest, Crash, CompileFile, FindMiss,
          Restore, RestoreRefused, Compile, CompileFails, KeepStat, StatAfter,
          MallocFails, Malloc2, Listing, FindHit, FindStale, Malloc, PruneForSpace,
          Prune, Add, CleanRequest, FreeUsed, Clean, Clear, Purge, shm
<1> SUFFICES StatOld(p)' /\ CodeNewer(p)'
  BY <1>m
<1>k. ASSUME KeepsCode(p)  PROVE StatOld(p)' /\ CodeNewer(p)'
  BY <1>k, <1>t, DatedKept
<1>0. ASSUME pc'[p] \in {"idle", "run", "release"}  PROVE KeepsCode(p)
  BY <1>0 DEF KeepsCode, Serving, Storing
<1>1. CASE \E k \in Key : CompileFile(p, k)
  <2>1. PICK k \in Key : CompileFile(p, k)
    BY <1>1
  <2>2. PICK r \in 0 .. MaxRev :
          /\ r = rev[k]
          /\ frame' = [frame EXCEPT ![p] = [NoFrame EXCEPT !.key = k, !.buf = r]]
    BY <1>t, <2>1 DEF CompileFile
  <2>3. frame'[p].key = k /\ frame'[p].buf = rev[k] /\ rev' = rev
    <3>1. frame'[p] = [NoFrame EXCEPT !.key = k, !.buf = r]
      BY <1>t, <2>2 DEF TypeOK
    <3> QED  BY <2>1, <2>2, <3>1 DEF NoFrame, CompileFile, files
  <2>4. pc'[p] = "find"
    BY <1>t, <2>1, AloneGo DEF CompileFile
  <2>5. rev[k] <= rev[k]
    BY <1>f
  <2> QED  BY <2>3, <2>4, <2>5 DEF StatOld, CodeNewer, Storing
<1>2. CASE StartRequest(p) \/ Crash(p)
  BY <1>t, <1>k, <1>0, <1>2, AloneGo DEF StartRequest, Crash
<1>3. CASE FindMiss(p)
  BY <1>t, <1>k, <1>3, AloneGo DEF FindMiss, KeepsCode, Serving, Storing, local
<1>4. CASE Restore(p) \/ CompileFails(p)
  BY <1>t, <1>k, <1>0, <1>4, AloneGo DEF Restore, CompileFails, Leave
<1>5. CASE RestoreRefused(p)
  <2>1. frame'[p].key = frame[p].key /\ frame'[p].buf = frame[p].buf
    BY <1>t, <1>5 DEF RestoreRefused, TypeOK, Frame
  <2>2. pc[p] = "restore" /\ pc'[p] = "compile"
    BY <1>t, <1>5, AloneGo DEF RestoreRefused
  <2>k. KeepsCode(p)
    BY <2>1, <2>2 DEF KeepsCode, Serving, Storing
  <2> QED  BY <1>k, <2>k
<1>6. CASE Compile(p)
  <2>1. /\ frame'[p].key = frame[p].key /\ frame'[p].buf = frame[p].buf
        /\ frame'[p].code = rev[frame[p].key] /\ rev' = rev
    BY <1>t, <1>6 DEF Compile, TypeOK, Frame, files
  <2>2. pc[p] = "compile"
    BY <1>6 DEF Compile
  <2>3. frame[p].buf <= rev[frame[p].key] /\ rev[frame[p].key] \in Nat
    BY <1>f, <1>t, <2>2 DEF StatOld, Serving
  <2>4. rev[frame[p].key] <= rev[frame[p].key]
    BY <2>3
  <2> QED  BY <2>1, <2>3, <2>4 DEF StatOld, CodeNewer
<1>7. CASE KeepStat(p)
  <2>1. pc[p] = "stat" /\ pc'[p] = "malloc" /\ frame' = frame
    BY <1>t, <1>7, AloneGo DEF KeepStat, local
  <2>k. KeepsCode(p)
    BY <2>1 DEF KeepsCode, Serving, Storing
  <2> QED  BY <1>k, <2>k
<1>8. CASE StatAfter(p)
  BY <1>t, <1>8 DEF StatAfter
<1>9. CASE MallocFails(p) \/ Malloc2(p)
  <2>1. \/ pc'[p] = "run"
        \/ /\ pc[p] \in {"malloc", "malloc2"} /\ pc'[p] \in {"malloc2", "prune"}
           /\ frame' = frame
    BY <1>t, <1>9, AloneGo DEF MallocFails, Malloc2, Leave
  <2>k. KeepsCode(p)
    BY <1>0, <2>1 DEF KeepsCode, Serving, Storing
  <2> QED  BY <1>k, <2>k
<1>10. CASE FindHit(p)
  <2>1. PICK c : frame' = [frame EXCEPT ![p].ptr = c]
    BY <1>10 DEF FindHit
  <2>2. /\ pc[p] = "find" /\ pc'[p] = "restore"
        /\ frame'[p].key = frame[p].key /\ frame'[p].buf = frame[p].buf
    BY <1>t, <1>10, <2>1, AloneGo DEF FindHit, TypeOK, Frame
  <2>k. KeepsCode(p)
    BY <2>2 DEF KeepsCode, Serving, Storing
  <2> QED  BY <1>k, <2>k
<1>11. CASE FindStale(p)
  <2>1. pc[p] = "find" /\ pc'[p] = "compile" /\ frame' = frame
    BY <1>t, <1>11, AloneGo DEF FindStale, local
  <2>k. KeepsCode(p)
    BY <2>1 DEF KeepsCode, Serving, Storing
  <2> QED  BY <1>k, <2>k
<1>12. CASE Malloc(p)
  <2>1. PICK c : frame' = [frame EXCEPT ![p].ptr = c]
    BY <1>12 DEF Malloc
  <2>2. /\ pc[p] \in {"malloc", "malloc3"} /\ pc'[p] = "add"
        /\ frame'[p].key = frame[p].key /\ frame'[p].buf = frame[p].buf
        /\ frame'[p].code = frame[p].code
    BY <1>t, <1>12, <2>1, AloneGo DEF Malloc, TypeOK, Frame
  <2>k. KeepsCode(p)
    BY <2>2 DEF KeepsCode, Serving, Storing
  <2> QED  BY <1>k, <2>k
<1>13. CASE PruneForSpace(p)
  <2>1. pc[p] = "prune" /\ pc'[p] = "malloc3" /\ frame' = frame
    BY <1>t, <1>13, AloneGo DEF PruneForSpace, local
  <2>k. KeepsCode(p)
    BY <2>1 DEF KeepsCode, Serving, Storing
  <2> QED  BY <1>k, <2>k
<1>14. CASE Add(p) \/ CleanRequest(p)
  <2>1. pc'[p] \in {"idle", "run", "release"}
    BY <1>t, <1>14, AloneGo DEF Add, Leave, CleanRequest
  <2> QED  BY <1>k, <1>0, <2>1
<1>15. CASE \E c \in Block : FreeUsed(p, c)
  <2>1. pc'[p] \in {"idle", "run", "release"}
    BY <1>15, FreeUsedNothing
  <2> QED  BY <1>k, <1>0, <2>1
<1>16. CASE Clean(p) \/ Clear(p) \/ Purge(p)
  <2>1. pc' = pc /\ frame' = frame
    BY <1>16 DEF Clean, Clear, Purge, local
  <2>k. KeepsCode(p)
    BY <2>1 DEF KeepsCode, Serving, Storing
  <2> QED  BY <1>k, <2>k
<1> QED
  BY <1>t, <1>1, <1>2, <1>3, <1>4, <1>5, <1>6, <1>7, <1>8, <1>9, <1>10, <1>11, <1>12,
     <1>13, <1>14, <1>15, <1>16 DEF Passing, Listing

LEMMA DatedEntries ==
  ASSUME Core, TypeInv', [Next]_vars, AlwaysChecked, Dated, Filled, Newer,
         NEW b \in hash'
  PROVE  EntryDated(b)'
<1>t. TypeOK /\ TypeOK' /\ TypeInv /\ b \in Block
  BY DEF Core, TypeInv, TypeOK
<1>1. ASSUME b \in alloc, entry[b].mtime <= entry[b].code,
             entry[b].code <= rev[entry[b].key]
      PROVE  EntryDated(b)'
  <2>1. SameContents(b)
    BY <1>1, <1>t, ContentsKept
  <2>2. entry[b].key \in Key /\ entry[b].code \in Nat
    BY <1>t DEF TypeOK, Entry
  <2>3. entry[b].code <= rev'[entry[b].key]
    BY <1>1, <2>2 DEF Newer
  <2> QED  BY <1>1, <2>1, <2>3 DEF EntryDated, SameContents
<1>2. CASE b \in hash
  BY <1>1, <1>2, <1>t DEF Core, Sound, Dated, EntryDated
<1>3. CASE b \notin hash
  <2>1. PICK p \in Proc : Add(p)
    BY <1>3, HashGrows
  <2>2. b = frame[p].ptr
    BY <1>3, <2>1 DEF Add
  <2>3. pc[p] = "add"
    BY <2>1 DEF Add
  <2>4. b \in alloc /\ Holds(p) /\ CodeNewer(p)
    BY <2>2, <2>3 DEF Core, Storers, Apart, Filled, Dated
  <2> QED  BY <1>1, <2>2, <2>3, <2>4 DEF Holds, CodeNewer, Storing
<1> QED
  BY <1>2, <1>3

LEMMA DatedNext ==
  ASSUME Core, TypeInv', [Next]_vars, Dated, Filled
  PROVE  Dated'
<1> SUFFICES ASSUME AlwaysChecked
             PROVE  /\ check_mtime'
                    /\ \A p \in Proc : StatOld(p)' /\ CodeNewer(p)'
                    /\ \A b \in hash' : EntryDated(b)'
  BY DEF Dated
<1>t. TypeOK /\ TypeOK' /\ TypeInv /\ Newer
  BY RevGrows DEF Core, TypeInv
<1>d. check_mtime /\ \A p \in Proc : StatOld(p) /\ CodeNewer(p)
  BY DEF Dated
<1>1. \A b \in hash' : EntryDated(b)'
  BY <1>t, DatedEntries
<1>2. CASE Outside
  <2>1. UNCHANGED <<check_mtime, pc, frame>>
    BY <1>2, <1>t, OutsideAside DEF local
  <2>2. \A p \in Proc : KeepsCode(p)
    BY <2>1 DEF KeepsCode, Serving, Storing
  <2>3. \A p \in Proc : StatOld(p)' /\ CodeNewer(p)'
    BY <1>d, <1>t, <2>2, DatedKept
  <2> QED  BY <1>1, <1>d, <2>1, <2>3
<1>3. ASSUME NEW p \in Proc, Passing(p) \/ Listing(p)
      PROVE  check_mtime' /\ \A q \in Proc : StatOld(q)' /\ CodeNewer(q)'
  <2>1. check_mtime' /\ StatOld(p)' /\ CodeNewer(p)'
    BY <1>3, <1>t, DatedProcess
  <2>2. OnlyOf(p)
    BY <1>3, <1>t, PassingAside, ListingOnly DEF Core
  <2>3. ASSUME NEW q \in Proc, q # p  PROVE StatOld(q)' /\ CodeNewer(q)'
    <3>1. KeepsCode(q)
      BY <2>2, <2>3 DEF OnlyOf, KeepsCode, Serving, Storing
    <3> QED  BY <1>d, <1>t, <3>1, DatedKept
  <2> QED  BY <2>1, <2>3
<1> QED
  BY <1>1, <1>2, <1>3, Steps

(* "Recompile PHP files after modification": as long as the checks are not *)
(* switched off and on, no order of edits, stats, compilations and stores  *)
(* by any number of processes leaves an entry with the date of the file as *)
(* it is and the code of the file as it was.                               *)
THEOREM ModificationsNoticed ==
  ASSUME PruneIsSafe, PurgeIsSafe, "check_mtime" \notin AdminOps
  PROVE  Spec => []ModificationNoticed
<1>1. Init => Filled /\ Dated
  <2>1. Init => TypeOK
    BY TypeInit DEF TypeInv
  <2> QED  BY <2>1 DEF Init, Filled, Dated, StatOld, CodeNewer, Serving, Storing
<1>2. Core /\ Core' /\ Filled /\ Dated /\ [Next]_vars => Filled' /\ Dated'
  BY FilledNext, DatedNext DEF Core
<1>3. Core /\ Dated => ModificationNoticed
  <2> SUFFICES ASSUME Core, Dated, MtimeChecked, NEW b \in hash,
                      entry[b].mtime = rev[entry[b].key]
               PROVE  entry[b].code = rev[entry[b].key]
    BY DEF ModificationNoticed
  <2>1. entry[b].key \in Key /\ entry[b].code \in Nat /\ rev[entry[b].key] \in Nat
    BY DEF Core, TypeInv, TypeOK, Entry
  <2>2. EntryDated(b)
    BY DEF Dated, AlwaysChecked, MtimeChecked
  <2> QED  BY <2>1, <2>2 DEF EntryDated
<1> QED
  BY <1>1, <1>2, <1>3, CoreCorrect, PTL DEF Spec
-----------------------------------------------------------------------------
(* What a step on the lists does to the uses.                              *)
LEMMA CountListing ==
  ASSUME Core, TypeInv', NEW p \in Proc, Listing(p), ~ FindHit(p), ~ CleanRequest(p)
  PROVE  \A b : Count(b)' = Count(b) /\ Count(b) \in Nat
<1>t. TypeOK /\ TypeOK' /\ TypeInv
  BY DEF Core, TypeInv
<1>o. OnlyOf(p)
  BY <1>t, ListingOnly
<1>q. ASSUME used'[p] = used[p], pc[p] # "restore", pc'[p] # "restore"
      PROVE  \A b : Count(b)' = Count(b) /\ Count(b) \in Nat
  BY <1>o, <1>q, <1>t, CountQuiet
<1>1. CASE FindStale(p) \/ PruneForSpace(p)
  <2>1. /\ used'[p] = used[p] /\ pc[p] \in {"find", "prune"}
        /\ pc'[p] \in {"compile", "malloc3"}
    BY <1>t, <1>1, AloneGo DEF FindStale, PruneForSpace, local
  <2> QED  BY <1>q, <2>1
<1>2. CASE Malloc(p) \/ Add(p)
  <2>1. /\ used'[p] = used[p] /\ pc[p] \in {"malloc", "malloc3", "add"}
        /\ pc'[p] \in {"add", "run"}
    BY <1>t, <1>2, AloneGo DEF Malloc, Add, Leave
  <2> QED  BY <1>q, <2>1
<1>3. CASE \E c \in Block : FreeUsed(p, c)
  <2>1. used' = used /\ pc[p] = "release" /\ pc'[p] \in {"idle", "release"}
    BY <1>3, FreeUsedNothing
  <2> QED  BY <1>q, <2>1
<1>4. CASE Clean(p) \/ Clear(p) \/ Purge(p)
  <2>1. UNCHANGED <<pc, used, frame>>
    BY <1>4 DEF Clean, Clear, Purge, local
  <2> QED  BY <1>t, <2>1, CountSame
<1> QED
  BY <1>1, <1>2, <1>3, <1>4 DEF Listing

LEMMA CountHit ==
  ASSUME Core, TypeInv', NEW p \in Proc, NEW c \in hash,
         FindHit(p), frame' = [frame EXCEPT ![p].ptr = c]
  PROVE  \A b : /\ Count(b)' = Count(b) + (IF b = c THEN 1 ELSE 0)
                /\ Count(b) \in Nat
<1>t. TypeOK /\ TypeOK' /\ TypeInv
  BY DEF Core, TypeInv
<1>1. OnlyOf(p)
  BY <1>t, ListingOnly DEF Listing
<1>2. /\ pc[p] = "find" /\ pc'[p] = "restore" /\ used'[p] = used[p]
      /\ frame'[p].ptr = c
  <2>1. frame'[p].ptr = c
    BY <1>t DEF TypeOK, Frame
  <2> QED  BY <2>1, <1>t, AloneGo DEF FindHit
<1>3. pc[p] # "restore"
  BY <1>2
<1> QED
  BY <1>1, <1>2, <1>3, <1>t, CountFound

LEMMA CountClean ==
  ASSUME Core, TypeInv', NEW p \in Proc, CleanRequest(p)
  PROVE  \A b : /\ Mine(p, b)' = 0 /\ Mine(p, b) \in Nat
                /\ Mine(p, b) = Cardinality(Uses(p, b))
                /\ Count(b)' = Count(b) - Mine(p, b)
                /\ Count(b) \in Nat /\ Count(b)' \in Nat
<1>t. TypeOK /\ TypeOK' /\ TypeInv
  BY DEF Core, TypeInv
<1>1. OnlyOf(p)
  BY <1>t, ListingOnly DEF Listing
<1>2. pc[p] = "run" /\ pc'[p] \in {"idle", "release"} /\ used'[p] = << >>
  BY <1>t, AloneGo, AloneUsed DEF CleanRequest
<1>3. pc'[p] # "restore"
  BY <1>2
<1>4. \A b : Mine(p, b) = Cardinality(Uses(p, b)) /\ Cardinality(Uses(p, b)) \in Nat
  BY <1>2, <1>t, CardUses DEF Mine, Restoring
<1> QED
  BY <1>1, <1>2, <1>3, <1>4, <1>t, CountEnded
-----------------------------------------------------------------------------
(* Nobody died and no script was refused: every use is counted, and none   *)
(* twice.                                                                  *)
Exact == crashes = 0 /\ refused = 0 => \A b \in Block : entry[b].use_cnt = Count(b)

LEMMA ExactListing ==
  ASSUME Core, TypeInv', NEW p \in Proc, Listing(p), NEW b \in Block,
         entry[b].use_cnt = Count(b)
  PROVE  entry'[b].use_cnt = Count(b)'
<1>t. TypeOK /\ TypeInv
  BY DEF Core, TypeInv
<1>e. entry[b] \in Entry /\ entry[b].use_cnt \in Int
  BY <1>t DEF TypeOK, Entry
<1>1. CASE FindHit(p)
  <2>1. PICK c \in hash :
          /\ entry' = [entry EXCEPT ![c].use_cnt = @ + 1, ![c].ttl = Expiry(p)]
          /\ frame' = [frame EXCEPT ![p].ptr = c]
    BY <1>1 DEF FindHit, Cached
  <2>2. Count(b)' = Count(b) + (IF b = c THEN 1 ELSE 0)
    BY <1>1, <2>1, CountHit
  <2>3. entry'[b].use_cnt = entry[b].use_cnt + (IF b = c THEN 1 ELSE 0)
    <3>1. CASE b = c
      BY <1>e, <1>t, <2>1, <3>1 DEF TypeOK, Entry
    <3>2. CASE b # c
      BY <1>e, <1>t, <2>1, <3>2 DEF TypeOK
    <3> QED  BY <3>1, <3>2
  <2> QED  BY <2>2, <2>3
<1>2. CASE CleanRequest(p)
  <2>1. entry' = [c \in Block |-> [entry[c] EXCEPT !.use_cnt = Left(p, c)]]
    BY <1>2 DEF CleanRequest
  <2>2. entry'[b].use_cnt = Left(p, b)
    BY <1>e, <2>1 DEF Entry
  <2>3. Count(b)' = Count(b) - Cardinality(Uses(p, b))
    BY <1>2, CountClean
  <2> QED  BY <2>2, <2>3 DEF Left
<1>3. CASE ~ FindHit(p) /\ ~ CleanRequest(p)
  <2>1. Count(b)' = Count(b)
    BY <1>3, CountListing
  <2>2. ASSUME NEW D \in SUBSET Block, Discard(D), entry' = Flagged(D)
        PROVE  entry'[b].use_cnt = entry[b].use_cnt
    BY <2>2, <1>t, DiscardOne
  <2>3. CASE FindStale(p)
    <3>1. PICK c \in hash : Discard({c}) /\ entry' = Flagged({c})
      BY <2>3 DEF FindStale, Cached
    <3>2. {c} \in SUBSET Block
      BY <1>t DEF TypeOK
    <3> QED  BY <2>1, <2>2, <3>1, <3>2
  <2>4. CASE Malloc(p)
    <3>1. PICK c \in Block \ alloc :
            entry' = [entry EXCEPT ![c] =
              NewEntry(frame[p].key, frame[p].buf, frame[p].code, Expiry(p))]
      BY <2>4 DEF Malloc
    <3>2. CASE b = c
      <4>1. entry'[b].use_cnt = 0
        BY <1>t, <3>1, <3>2 DEF TypeOK, NewEntry
      <4>2. Count(b) \in Nat /\ ~ (Count(b) > 0)
        BY <1>t, <3>1, <3>2, CountNat DEF Core, Sound
      <4> QED  BY <2>1, <4>1, <4>2
    <3>3. CASE b # c
      BY <1>t, <2>1, <3>1, <3>3 DEF TypeOK
    <3> QED  BY <3>2, <3>3
  <2>5. CASE PruneForSpace(p) \/ Clean(p) \/ Purge(p) \/ \E c \in Block : FreeUsed(p, c)
    BY <2>1, <2>5 DEF PruneForSpace, Clean, Prune, Purge, FreeUsed
  <2>6. CASE Add(p)
    <3>1. PICK old \in Replaced(frame[p].key) : Discard(old) /\ entry' = Flagged(old)
      BY <2>6 DEF Add
    <3>2. old \in SUBSET Block
      BY <1>t DEF Replaced, Cached, TypeOK
    <3> QED  BY <2>1, <2>2, <3>1, <3>2
  <2>7. CASE Clear(p)
    <3>1. Discard(hash) /\ entry' = Flagged(hash) /\ hash \in SUBSET Block
      BY <1>t, <2>7 DEF Clear, TypeOK
    <3> QED  BY <2>1, <2>2, <3>1
  <2> QED  BY <1>3, <2>3, <2>4, <2>5, <2>6, <2>7 DEF Listing
<1> QED
  BY <1>1, <1>2, <1>3

LEMMA ExactNext ==
  ASSUME Core, TypeInv', [Next]_vars, Exact
  PROVE  Exact'
<1>t. TypeInv /\ Ended
  BY DEF Core
<1>1. ASSUME Aside  PROVE Exact'
  <2>1. ASSUME crashes' = 0, refused' = 0, NEW b \in Block
        PROVE  entry'[b].use_cnt = Count(b)'
    <3>1. UNCHANGED past /\ UNCHANGED entry
      BY <1>1, <2>1 DEF Aside, lists
    <3>2. Count(b)' = Count(b)
      BY <1>1, <3>1 DEF Aside
    <3>3. entry[b].use_cnt = Count(b)
      BY <2>1, <3>1 DEF Exact, past
    <3> QED  BY <3>1, <3>2, <3>3
  <2> QED  BY <2>1 DEF Exact
<1>2. CASE Outside
  BY <1>1, <1>2, <1>t, OutsideAside
<1>3. ASSUME NEW p \in Proc, Passing(p)  PROVE Exact'
  BY <1>1, <1>3, <1>t, PassingAside
<1>4. ASSUME NEW p \in Proc, Listing(p)  PROVE Exact'
  <2>1. UNCHANGED past
    BY <1>4 DEF Listing, FindHit, FindStale, Malloc, PruneForSpace, Add, CleanRequest,
                FreeUsed, Clean, Clear, Purge, local
  <2>2. ASSUME crashes' = 0, refused' = 0, NEW b \in Block
        PROVE  entry'[b].use_cnt = Count(b)'
    BY <1>4, <2>1, <2>2, ExactListing DEF past, Exact
  <2> QED  BY <2>2 DEF Exact
<1> QED
  BY <1>2, <1>3, <1>4, Steps

(* "how many processes uses the entry": as long as nobody died, and no     *)
(* script was refused once it was found, use_cnt counts exactly the uses   *)
(* of live requests.                                                       *)
THEOREM UsesExact ==
  ASSUME PruneIsSafe, PurgeIsSafe
  PROVE  Spec => []UseCntExact
<1>1. Init => Exact
  <2> SUFFICES ASSUME Init  PROVE Exact
    OBVIOUS
  <2>1. TypeOK
    BY TypeInit DEF TypeInv
  <2>2. ASSUME NEW b \in Block  PROVE entry[b].use_cnt = Count(b)
    <3>1. ~ InUse(b)
      BY DEF Init, InUse, Pins, RangeOf
    <3> QED  BY <2>1, <3>1, Unused DEF Init, NewEntry
  <2> QED  BY <2>2 DEF Exact
<1>2. Core /\ Core' /\ Exact /\ [Next]_vars => Exact'
  BY ExactNext DEF Core
<1>3. Core /\ Exact => UseCntExact
  BY DEF Core, TypeInv, TypeOK, Exact, Count, UseCntExact
<1> QED
  BY <1>1, <1>2, <1>3, CoreCorrect, PTL DEF Spec
-----------------------------------------------------------------------------
(* A block on no list is being filled, as long as nobody died.             *)
Found(b) ==
  b \in hash \/ b \in removed \/ \E q \in Proc : pc[q] = "add" /\ frame[q].ptr = b

Accounted == crashes = 0 => \A b \in alloc : Found(b)

(* A block that stays on a list, or with who is adding it, is found.       *)
LEMMA FoundKept ==
  ASSUME NEW p \in Proc, OnlyOf(p), pc[p] # "add", NEW b, Found(b),
         b \in hash => b \in hash' \/ b \in removed',
         b \in removed => b \in removed'
  PROVE  Found(b)'
<1>1. CASE b \in hash \/ b \in removed
  BY <1>1 DEF Found
<1>2. ASSUME NEW q \in Proc, pc[q] = "add", frame[q].ptr = b  PROVE Found(b)'
  <2>1. pc'[q] = "add" /\ frame'[q].ptr = b
    BY <1>2 DEF OnlyOf
  <2> QED  BY <2>1 DEF Found
<1> QED
  BY <1>1, <1>2 DEF Found

LEMMA FoundDiscard ==
  ASSUME TypeOK, NEW p \in Proc, OnlyOf(p), pc[p] # "add",
         NEW D \in SUBSET hash, hash' = hash \ D, Discard(D), NEW b \in alloc', Found(b)
  PROVE  Found(b)'
<1>1. b \in D => b \in Kept(D)
  BY DEF Discard
<1>2. b \in removed \/ b \in Kept(D) => b \in removed'
  BY DEF Discard
<1> QED
  BY <1>1, <1>2, FoundKept

LEMMA AccountedNext ==
  ASSUME Core, TypeInv', [Next]_vars, Accounted
  PROVE  Accounted'
<1>t. TypeOK /\ TypeInv /\ Ended
  BY DEF Core, TypeInv
<1>1. CASE Outside
  <2>1. UNCHANGED <<alloc, hash, removed, pc, frame, crashes>>
    BY <1>1, <1>t, OutsideAside DEF lists, local, past
  <2> QED  BY <2>1 DEF Accounted, Found
<1>2. ASSUME NEW p \in Proc, Passing(p)  PROVE Accounted'
  <2>1. OnlyOf(p) /\ UNCHANGED <<alloc, hash, removed>>
    BY <1>2, <1>t, PassingAside DEF Aside, lists
  <2>2. CASE Crash(p)
    BY <1>t, <2>2 DEF Crash, Accounted, TypeOK
  <2>3. CASE ~ Crash(p)
    <3>1. UNCHANGED crashes /\ (pc[p] # "add" \/ UNCHANGED <<pc, frame>>)
      BY <1>2, <2>3 DEF Passing, StartRequest, SetCheckMtime, CompileFile, FindMiss,
         Restore, RestoreRefused, Compile, CompileFails, KeepStat, StatAfter,
         MallocFails, Malloc2, local, past
    <3>2. CASE pc[p] # "add"
      <4>1. ASSUME NEW b, Found(b)  PROVE Found(b)'
        BY <2>1, <3>2, <4>1, FoundKept
      <4> QED  BY <2>1, <3>1, <4>1 DEF Accounted
    <3>3. CASE UNCHANGED <<pc, frame>>
      BY <2>1, <3>1, <3>3 DEF Accounted, Found
    <3> QED  BY <3>1, <3>2, <3>3
  <2> QED  BY <2>2, <2>3
<1>3. ASSUME NEW p \in Proc, Listing(p)  PROVE Accounted'
  <2>o. OnlyOf(p)
    BY <1>t, <1>3, ListingOnly
  <2>c. UNCHANGED crashes
    BY <1>3 DEF Listing, FindHit, FindStale, Malloc, PruneForSpace, Add, CleanRequest,
                FreeUsed, Clean, Clear, Purge, local, past
  <2> SUFFICES ASSUME NEW b \in alloc', b \in alloc => Found(b)  PROVE Found(b)'
    BY <2>c DEF Accounted
  <2>1. CASE FindHit(p)
    <3>1. UNCHANGED <<alloc, hash, removed>> /\ pc[p] # "add"
      BY <2>1 DEF FindHit
    <3> QED  BY <2>o, <3>1, FoundKept
  <2>2. CASE FindStale(p)
    <3>1. PICK c \in hash : hash' = hash \ {c} /\ Discard({c})
      BY <2>2 DEF FindStale, Cached
    <3>2. pc[p] # "add" /\ b \in alloc /\ {c} \in SUBSET hash
      BY <2>2, <3>1 DEF FindStale, Discard
    <3> QED  BY <1>t, <2>o, <3>1, <3>2, FoundDiscard
  <2>3. CASE Malloc(p)
    <3>1. PICK c \in Block \ alloc :
            alloc' = alloc \cup {c} /\ frame' = [frame EXCEPT ![p].ptr = c]
      BY <2>3 DEF Malloc
    <3>2. UNCHANGED <<hash, removed>> /\ pc[p] # "add" /\ pc'[p] = "add"
      BY <1>t, <2>3, AloneGo DEF Malloc
    <3>3. frame'[p].ptr = c
      BY <1>t, <3>1 DEF TypeOK, Frame
    <3>4. CASE b = c
      BY <3>2, <3>3, <3>4 DEF Found
    <3>5. CASE b # c
      BY <2>o, <3>1, <3>2, <3>5, FoundKept
    <3> QED  BY <3>4, <3>5
  <2>4. CASE PruneForSpace(p) \/ Clean(p)
    <3>1. PICK t : Prune(t)
      BY <2>4 DEF PruneForSpace, Clean
    <3>2. b \in alloc /\ (b \in hash => b \in hash') /\ UNCHANGED removed /\ pc[p] # "add"
      BY <2>4, <3>1 DEF Prune, PruneForSpace, Clean
    <3> QED  BY <2>o, <3>2, FoundKept
  <2>5. CASE Add(p)
    <3>1. PICK old \in Replaced(frame[p].key) :
            hash' = (hash \ old) \cup {frame[p].ptr} /\ Discard(old)
      BY <2>5 DEF Add
    <3>2. b \in alloc /\ (b \in old => b \in Kept(old))
      BY <3>1 DEF Discard
    <3>3. b \in removed \/ b \in Kept(old) => b \in removed'
      BY <3>1 DEF Discard
    <3>4. CASE b \in hash \/ b \in removed
      BY <3>1, <3>2, <3>3, <3>4 DEF Found
    <3>5. ASSUME NEW q \in Proc, pc[q] = "add", frame[q].ptr = b  PROVE Found(b)'
      <4>1. CASE q = p
        BY <3>1, <3>5, <4>1 DEF Found
      <4>2. CASE q # p
        <5>1. pc'[q] = "add" /\ frame'[q].ptr = b
          BY <2>o, <3>5, <4>2 DEF OnlyOf
        <5> QED  BY <5>1 DEF Found
      <4> QED  BY <4>1, <4>2
    <3> QED  BY <3>2, <3>4, <3>5 DEF Found
  <2>6. CASE CleanRequest(p)
    <3>1. /\ pc[p] # "add" /\ b \in alloc /\ hash' = hash
          /\ b \in removed => b \in removed'
      BY <2>6 DEF CleanRequest
    <3> QED  BY <2>o, <3>1, FoundKept
  <2>7. CASE \E c \in Block : FreeUsed(p, c)
    <3>1. UNCHANGED lists /\ pc[p] = "release"
      BY <2>7, FreeUsedNothing
    <3>2. UNCHANGED <<alloc, hash, removed>> /\ pc[p] # "add"
      BY <3>1 DEF lists
    <3> QED  BY <2>o, <3>2, FoundKept
  <2>8. CASE Clear(p)
    <3>1. /\ hash' = hash \ hash /\ Discard(hash) /\ pc[p] # "add" /\ b \in alloc
          /\ hash \in SUBSET hash
      BY <2>8 DEF Clear, Discard
    <3> QED  BY <1>t, <2>o, <3>1, FoundDiscard
  <2>9. CASE Purge(p)
    <3>1. pc[p] # "add" /\ b \in alloc /\ b \notin removed /\ hash' = hash
      BY <2>9 DEF Purge
    <3> QED  BY <2>o, <3>1, FoundKept
  <2> QED
    BY <1>3, <2>1, <2>2, <2>3, <2>4, <2>5, <2>6, <2>7, <2>8, <2>9 DEF Listing
<1> QED
  BY <1>1, <1>2, <1>3, Steps

LEMMA CoreAccounted == Core /\ Accounted => NothingLeaked
<1> SUFFICES ASSUME Core, Accounted, crashes = 0, NEW b
             PROVE  b \in alloc <=>
                      b \in hash \cup removed
                              \cup {frame[p].ptr : p \in {q \in Proc : pc[q] = "add"}}
  BY DEF NothingLeaked
<1>1. b \in alloc => Found(b)
  BY DEF Accounted
<1>2. b \in hash \/ b \in removed => b \in alloc
  BY DEF Core, Sound, TypeInv, TypeOK
<1>3. \A q \in Proc : pc[q] = "add" => frame[q].ptr \in alloc
  BY DEF Core, Storers, Apart
<1> QED
  BY <1>1, <1>2, <1>3 DEF Found

(* As long as no process dies, every block handed out is in the table, on  *)
(* the removed list or being filled by a process that will add it: no      *)
(* order of look-ups, stores, removals and shutdowns loses memory.         *)
THEOREM NoBlockLost ==
  ASSUME PruneIsSafe, PurgeIsSafe
  PROVE  Spec => []NothingLeaked
<1>1. Init => Accounted
  BY DEF Init, Accounted
<1>2. Core /\ Core' /\ Accounted /\ [Next]_vars => Accounted'
  BY AccountedNext DEF Core
<1> QED
  BY <1>1, <1>2, CoreAccounted, CoreCorrect, PTL DEF Spec
-----------------------------------------------------------------------------
(* An entry that has left the table never comes back to it, and only from  *)
(* the table does one reach the removed list.                              *)
LEMMA NoReturn ==
  ASSUME Core, TypeInv', [Next]_vars, NEW b \in removed
  PROVE  b \notin hash'
<1>1. b \in Block /\ b \notin hash
  BY DEF Core, TypeInv, TypeOK, Sound
<1>2. ASSUME NEW p \in Proc, Add(p)  PROVE b \notin hash'
  <2>1. pc[p] = "add" /\ \A c \in hash' : c \in hash \/ c = frame[p].ptr
    BY <1>2 DEF Add
  <2>2. b # frame[p].ptr
    BY <2>1 DEF Core, Storers, Apart
  <2> QED  BY <1>1, <2>1, <2>2
<1> QED
  BY <1>1, <1>2, HashGrows

LEMMA RemovedFromTable ==
  ASSUME Core, TypeInv', [Next]_vars
  PROVE  \A b \in removed' : b \in hash \/ b \in removed
<1>t. TypeInv /\ Ended
  BY DEF Core
<1>1. ASSUME removed' = removed \/ \E D \in SUBSET hash : Discard(D)
      PROVE  \A b \in removed' : b \in hash \/ b \in removed
  BY <1>1 DEF Discard, Kept
<1>2. CASE Outside
  BY <1>2, <1>t, OutsideAside DEF lists
<1>3. ASSUME NEW p \in Proc, Passing(p)
      PROVE  \A b \in removed' : b \in hash \/ b \in removed
  BY <1>3, <1>t, PassingAside DEF Aside, lists
<1>4. ASSUME NEW p \in Proc, Listing(p)
      PROVE  \A b \in removed' : b \in hash \/ b \in removed
  <2>1. CASE FindStale(p)
    <3>1. PICK c \in hash : Discard({c})
      BY <2>1 DEF FindStale, Cached
    <3>2. {c} \in SUBSET hash
      OBVIOUS
    <3> QED  BY <1>1, <3>1, <3>2
  <2>2. CASE Add(p)
    <3>1. PICK old \in Replaced(frame[p].key) : Discard(old)
      BY <2>2 DEF Add
    <3>2. old \in SUBSET hash
      BY DEF Replaced, Cached
    <3> QED  BY <1>1, <3>1, <3>2
  <2>3. CASE Clear(p)
    <3>1. Discard(hash) /\ hash \in SUBSET hash
      BY <2>3 DEF Clear
    <3> QED  BY <1>1, <3>1
  <2>4. CASE CleanRequest(p) \/ Purge(p)
    BY <2>4 DEF CleanRequest, Purge
  <2> QED
    BY <1>1, <1>4, <2>1, <2>2, <2>3, <2>4
       DEF Listing, FindHit, Malloc, PruneForSpace, FreeUsed, Clean, Prune
<1> QED
  BY <1>2, <1>3, <1>4, Steps

(* An entry outside the table gets no new use.                             *)
LEMMA NoNewUse ==
  ASSUME Core, TypeInv', [Next]_vars, NEW b, b \notin hash
  PROVE  Count(b)' <= Count(b)
<1>t. TypeInv /\ Ended
  BY DEF Core
<1>1. CASE Outside
  BY <1>1, <1>t, OutsideAside DEF Aside
<1>2. ASSUME NEW p \in Proc, Passing(p)  PROVE Count(b)' <= Count(b)
  BY <1>2, <1>t, PassingAside DEF Aside
<1>3. ASSUME NEW p \in Proc, Listing(p)  PROVE Count(b)' <= Count(b)
  <2>1. CASE FindHit(p)
    <3>1. PICK c \in hash : frame' = [frame EXCEPT ![p].ptr = c]
      BY <2>1 DEF FindHit, Cached
    <3>2. Count(b)' = Count(b) + (IF b = c THEN 1 ELSE 0) /\ Count(b) \in Nat
      BY <2>1, <3>1, CountHit
    <3> QED  BY <3>2
  <2>2. CASE CleanRequest(p)
    <3>1. /\ Mine(p, b) \in Nat /\ Count(b) \in Nat /\ Count(b)' \in Nat
          /\ Count(b)' = Count(b) - Mine(p, b)
      BY <2>2, CountClean
    <3> QED  BY <3>1
  <2>3. CASE ~ FindHit(p) /\ ~ CleanRequest(p)
    <3>1. Count(b)' = Count(b) /\ Count(b) \in Nat
      BY <1>3, <2>3, CountListing
    <3> QED  BY <3>1
  <2> QED  BY <2>1, <2>2, <2>3
<1> QED
  BY <1>1, <1>2, <1>3, Steps

(* A block on no list has no uses.                                         *)
Unlisted == \A b \in Block : b \notin hash \cup removed => Count(b) = 0 /\ Users(b) = {}

LEMMA UnlistedNow == Core => Unlisted
<1> SUFFICES ASSUME Core, NEW b \in Block, b \notin hash \cup removed
             PROVE  Count(b) = 0 /\ Users(b) = {}
  BY DEF Unlisted
<1>1. TypeOK
  BY DEF Core, TypeInv
<1>2. Count(b) \in Nat /\ ~ (Count(b) > 0)
  BY <1>1, Unused DEF Core, Sound
<1> QED
  BY <1>1, <1>2, Unused

LEMMA UnlistedNext == Core' => Unlisted'
  BY UnlistedNow, PTL

LEMMA RemovedStep ==
  ASSUME Core, Core', [Next]_vars, NEW b \in removed
  PROVE  /\ Cardinality(Users(b)') <= Cardinality(Users(b))
         /\ b \notin removed' => Users(b)' = {}
         /\ b \notin hash'
<1>1. b \in Block /\ b \notin hash /\ TypeInv'
  BY DEF Core, TypeInv, TypeOK, Sound
<1>2. b \notin hash'
  BY <1>1, NoReturn
<1>3. Cardinality(Users(b)') <= Cardinality(Users(b))
  BY <1>1, NoNewUse DEF Count
<1>4. b \notin removed' => Users(b)' = {}
  BY <1>1, <1>2, UnlistedNext DEF Unlisted
<1> QED
  BY <1>2, <1>3, <1>4

(* A removed entry only loses users, nobody takes it off the list while it *)
(* has any, and it never returns to the table.                             *)
THEOREM RemovedOnlyLoses ==
  ASSUME PruneIsSafe, PurgeIsSafe
  PROVE  Spec => RemovedOnlyDrains
<1>1. Core /\ Core' /\ [Next]_vars =>
        [\A b \in removed :
           /\ Cardinality(Users(b)') <= Cardinality(Users(b))
           /\ b \notin removed' => Users(b)' = {}
           /\ b \notin hash']_vars
  BY RemovedStep
<1> QED
  BY <1>1, CoreCorrect, PTL DEF Spec, RemovedOnlyDrains
-----------------------------------------------------------------------------
(* The leases of a request are its uses.                                   *)
HeldMine ==
  /\ Held \in [Proc -> [Block -> Nat]]
  /\ \A p \in Proc, b \in Block : Held[p][b] = Mine(p, b)

LEMMA HeldNow == TypeOK => HeldMine
<1> SUFFICES ASSUME TypeOK  PROVE HeldMine
  OBVIOUS
<1>1. Held = [p \in Proc |-> [b \in Block |-> Mine(p, b)]]
  BY DEF Held, Mine, Restoring
<1>2. \A p \in Proc : \A b \in Block : Mine(p, b) \in Nat
  BY SplitsNow DEF Splits
<1> QED
  BY <1>1, <1>2 DEF HeldMine

LEMMA HeldNext == TypeOK' => HeldMine'
  BY HeldNow, PTL

(* An entry without uses is on lease to nobody.                            *)
Unleased == \A b \in Block : Count(b) = 0 => L!Unheld(b)

LEMMA UnleasedNow == TypeOK => Unleased
<1> SUFFICES ASSUME TypeOK, NEW b \in Block, Count(b) = 0, NEW p \in Proc
             PROVE  Held[p][b] = 0
  BY DEF Unleased, L!Unheld
<1>1. /\ Mine(p, b) \in Nat /\ Cardinality(Others(p, b)) \in Nat
      /\ 0 = Cardinality(Others(p, b)) + Mine(p, b)
  BY SplitsNow DEF Splits
<1> QED
  BY <1>1, HeldNow DEF HeldMine

LEMMA UnleasedNext == TypeOK' => Unleased'
  BY UnleasedNow, PTL

(* What a step of process p does to its leases is what it does to the      *)
(* uses.                                                                   *)
LEMMA HeldStep ==
  ASSUME TypeOK, TypeOK', NEW p \in Proc, OnlyOf(p)
  PROVE  /\ Held \in [Proc -> [Block -> Nat]] /\ Held' \in [Proc -> [Block -> Nat]]
         /\ \A q \in Proc \ {p}, b \in Block : Held'[q][b] = Held[q][b]
         /\ \A b \in Block : /\ Held[p][b] = Mine(p, b) /\ Held'[p][b] = Mine(p, b)'
                             /\ Held'[p][b] - Held[p][b] = Count(b)' - Count(b)
                             /\ Count(b) \in Nat /\ Count(b)' \in Nat
<1>1. /\ Held \in [Proc -> [Block -> Nat]] /\ Held' \in [Proc -> [Block -> Nat]]
      /\ \A q \in Proc, b \in Block : Held[q][b] = Mine(q, b)
      /\ \A q \in Proc, b \in Block : Held'[q][b] = Mine(q, b)'
  BY HeldNow, HeldNext DEF HeldMine
<1>2. ASSUME NEW q \in Proc \ {p}, NEW b \in Block  PROVE Mine(q, b)' = Mine(q, b)
  BY DEF OnlyOf, Mine, Uses, Restoring
<1>3. ASSUME NEW b \in Block
      PROVE  /\ Mine(p, b)' - Mine(p, b) = Count(b)' - Count(b)
             /\ Count(b) \in Nat /\ Count(b)' \in Nat
  BY CountStep
<1> QED
  BY <1>1, <1>2, <1>3

LEMMA HeldSame ==
  ASSUME TypeOK, TypeOK', NEW p \in Proc, OnlyOf(p), \A b : Count(b)' = Count(b)
  PROVE  Held' = Held
<1>1. \A q \in Proc : \A b \in Block : Held'[q][b] = Held[q][b]
  BY HeldStep
<1>2. \A q \in Proc : Held'[q] = Held[q]
  BY <1>1, HeldStep
<1> QED
  BY <1>2, HeldStep

(* One lease more or less.                                                 *)
LEMMA HeldChange ==
  ASSUME NEW h \in [Proc -> [Block -> Nat]], NEW g \in [Proc -> [Block -> Nat]],
         NEW p \in Proc, NEW c \in Block, NEW x,
         \A q \in Proc, b \in Block :
           g[q][b] = IF q = p /\ b = c THEN x ELSE h[q][b]
  PROVE  g = [h EXCEPT ![p][c] = x]
<1>1. g[p] = [h[p] EXCEPT ![c] = x]
  OBVIOUS
<1>2. ASSUME NEW q \in Proc \ {p}  PROVE g[q] = h[q]
  OBVIOUS
<1> QED
  BY <1>1, <1>2

Leases == <<hash \cup removed, hash, Held>>

LEMMA LeaseStutter ==
  ASSUME Core, TypeInv', NEW p \in Proc, Passing(p), UNCHANGED past
  PROVE  UNCHANGED Leases
<1>1. TypeOK /\ TypeOK' /\ TypeInv /\ Ended
  BY DEF Core, TypeInv
<1>2. OnlyOf(p) /\ UNCHANGED <<hash, removed>> /\ \A b : Count(b)' = Count(b)
  BY <1>1, PassingAside DEF Aside, lists
<1>3. Held' = Held
  BY <1>1, <1>2, HeldSame
<1> QED
  BY <1>2, <1>3 DEF Leases

LEMMA LeaseCrash ==
  ASSUME Core, TypeInv', NEW p \in Proc, Crash(p)
  PROVE  L!Finish(p)
<1>1. TypeOK /\ TypeOK' /\ TypeInv /\ Ended
  BY DEF Core, TypeInv
<1>2. OnlyOf(p) /\ UNCHANGED <<hash, removed>>
  BY <1>1, PassingAside DEF Aside, lists, Passing
<1>3. pc'[p] = "idle" /\ used'[p] = << >>
  BY <1>1, AloneGo, AloneUsed DEF Crash
<1>4. \A b \in Block : Held'[p][b] = 0
  BY <1>1, <1>2, <1>3, CountEnded, HeldStep
<1>5. Held' = [Held EXCEPT ![p] = [b \in Block |-> 0]]
  <2>1. Held'[p] = [b \in Block |-> 0]
    BY <1>1, <1>2, <1>4, HeldStep
  <2>2. ASSUME NEW q \in Proc \ {p}  PROVE Held'[q] = Held[q]
    BY <1>1, <1>2, HeldStep
  <2> QED  BY <1>1, <1>2, <2>1, <2>2, HeldStep
<1> QED
  BY <1>2, <1>5 DEF L!Finish
-----------------------------------------------------------------------------
LEMMA LeaseRefused ==
  ASSUME Core, TypeInv', NEW p \in Proc, RestoreRefused(p)
  PROVE  L!Release(p, frame[p].ptr)
<1> DEFINE c == frame[p].ptr
<1>1. TypeOK /\ TypeOK' /\ TypeInv /\ Ended
  BY DEF Core, TypeInv
<1>2. OnlyOf(p) /\ UNCHANGED <<hash, removed>>
  BY <1>1, PassingAside DEF Aside, lists, Passing
<1>3. pc[p] = "restore" /\ pc'[p] = "compile" /\ used'[p] = used[p]
  BY <1>1, AloneGo DEF RestoreRefused
<1>4. c \in Block
  BY <1>1, <1>3 DEF TypeInv, HasEntry
<1>5. \A b : Count(b)' = Count(b) - (IF b = c THEN 1 ELSE 0)
  <2>1. pc'[p] # "restore"
    BY <1>3
  <2> QED  BY <1>1, <1>2, <1>3, <2>1, CountRefused
<1>6. Held[p][c] > 0
  <2>1. Mine(p, c) = Cardinality(Uses(p, c)) + 1
    BY <1>3 DEF Mine, Restoring
  <2> QED  BY <1>1, <1>2, <1>4, <2>1, CardUses, HeldStep
<1> HIDE DEF c
<1>7. ASSUME NEW q \in Proc, NEW b \in Block
      PROVE  Held'[q][b] = IF q = p /\ b = c THEN Held[p][c] - 1 ELSE Held[q][b]
  <2>1. CASE q = p
    <3>1. /\ Held'[p][b] - Held[p][b] = Count(b)' - Count(b)
          /\ Held'[p][b] \in Nat /\ Held[p][b] \in Nat
          /\ Count(b) \in Nat /\ Count(b)' \in Nat
      BY <1>1, <1>2, HeldStep
    <3> QED  BY <1>5, <2>1, <3>1
  <2>2. CASE q # p
    BY <1>1, <1>2, <2>2, HeldStep
  <2> QED  BY <2>1, <2>2
<1>8. Held' = [Held EXCEPT ![p][c] = Held[p][c] - 1]
  BY <1>1, <1>2, <1>4, <1>7, HeldStep, HeldChange
<1> QED
  BY <1>2, <1>6, <1>8 DEF L!Release, c

LEMMA LeaseFound ==
  ASSUME Core, TypeInv', NEW p \in Proc, FindHit(p)
  PROVE  \E c \in Block : L!Acquire(p, c)
<1>1. TypeOK /\ TypeOK' /\ TypeInv
  BY DEF Core, TypeInv
<1>2. PICK c \in hash : frame' = [frame EXCEPT ![p].ptr = c]
  BY DEF FindHit, Cached
<1>3. OnlyOf(p) /\ UNCHANGED <<hash, removed>> /\ c \in Block
  <2>1. OnlyOf(p)
    BY <1>1, ListingOnly DEF Listing
  <2> QED  BY <1>1, <2>1 DEF FindHit, TypeOK
<1>4. \A b : Count(b)' = Count(b) + (IF b = c THEN 1 ELSE 0)
  BY <1>2, CountHit
<1>5. ASSUME NEW q \in Proc, NEW b \in Block
      PROVE  Held'[q][b] = IF q = p /\ b = c THEN Held[p][c] + 1 ELSE Held[q][b]
  <2>1. CASE q = p
    <3>1. /\ Held'[p][b] - Held[p][b] = Count(b)' - Count(b)
          /\ Held'[p][b] \in Nat /\ Held[p][b] \in Nat
          /\ Count(b) \in Nat /\ Count(b)' \in Nat
      BY <1>1, <1>3, HeldStep
    <3>2. Count(b)' = Count(b) + (IF b = c THEN 1 ELSE 0)
      BY <1>4
    <3>3. Held'[p][b] = IF b = c THEN Held[p][b] + 1 ELSE Held[p][b]
      BY <3>1, <3>2
    <3> QED  BY <2>1, <3>3
  <2>2. CASE q # p
    BY <1>1, <1>3, <2>2, HeldStep
  <2> QED  BY <2>1, <2>2
<1>6. Held' = [Held EXCEPT ![p][c] = Held[p][c] + 1]
  <2>1. c \in Block /\ OnlyOf(p)
    BY <1>3
  <2>2. Held \in [Proc -> [Block -> Nat]] /\ Held' \in [Proc -> [Block -> Nat]]
    BY <1>1, <2>1, HeldStep
  <2> QED  BY <1>5, <2>1, <2>2, HeldChange
<1>7. L!Acquire(p, c)
  BY <1>2, <1>3, <1>6 DEF L!Acquire
<1> QED
  BY <1>3, <1>7

LEMMA LeaseEnded ==
  ASSUME Core, Core', NEW p \in Proc, CleanRequest(p)
  PROVE  L!Finish(p)
<1>1. TypeOK /\ TypeOK' /\ TypeInv /\ TypeInv'
  BY DEF Core, TypeInv
<1>2. OnlyOf(p) /\ hash' = hash /\ \A b \in removed' : b \in removed
  <2>1. OnlyOf(p)
    BY <1>1, ListingOnly DEF Listing
  <2> QED  BY <2>1 DEF CleanRequest
<1>3. \A b \in Block : Held'[p][b] = 0
  BY <1>1, <1>2, CountClean, HeldStep
<1>4. Held' = [Held EXCEPT ![p] = [b \in Block |-> 0]]
  <2>1. Held'[p] = [b \in Block |-> 0]
    BY <1>1, <1>2, <1>3, HeldStep
  <2>2. ASSUME NEW q \in Proc \ {p}  PROVE Held'[q] = Held[q]
    BY <1>1, <1>2, HeldStep
  <2> QED  BY <1>1, <1>2, <2>1, <2>2, HeldStep
<1>5. ASSUME NEW b \in (hash \cup removed) \ (hash' \cup removed')
      PROVE  b \notin hash /\ L!Unheld(b)'
  <2>1. b \in Block /\ b \notin hash' \cup removed' /\ b \notin hash
    BY <1>1, <1>2 DEF TypeOK
  <2>2. Count(b)' = 0
    BY <2>1, UnlistedNext DEF Unlisted
  <2> QED  BY <1>1, <2>1, <2>2, UnleasedNext DEF Unleased
<1> QED
  BY <1>2, <1>4, <1>5 DEF L!Finish

LEMMA LeaseListing ==
  ASSUME Core, Core', [Next]_vars, NEW p \in Proc, Listing(p),
         ~ FindHit(p), ~ CleanRequest(p)
  PROVE  L!Change
<1>1. TypeOK /\ TypeOK' /\ TypeInv /\ TypeInv'
  BY DEF Core, TypeInv
<1>2. OnlyOf(p) /\ \A b : Count(b)' = Count(b)
  BY <1>1, ListingOnly, CountListing
<1>3. Held' = Held
  BY <1>1, <1>2, HeldSame
<1>4. \A b \in removed : b \notin hash'
  BY <1>1, NoReturn
<1>5. \A b \in removed' : b \in hash \/ b \in removed
  BY <1>1, RemovedFromTable
<1>6. hash' \cup removed' \subseteq Block
  BY <1>1 DEF TypeOK
<1>7. ASSUME NEW b \in (hash \cup removed) \ (hash' \cup removed')
      PROVE  L!Unheld(b)
  <2>1. b \in Block /\ b \notin hash' \cup removed'
    BY <1>1 DEF TypeOK
  <2>2. Count(b)' = 0
    BY <2>1, UnlistedNext DEF Unlisted
  <2> QED  BY <1>1, <1>2, <2>1, <2>2, UnleasedNow DEF Unleased
<1> QED
  BY <1>3, <1>4, <1>5, <1>6, <1>7 DEF L!Change

LEMMA LeaseStep == Core /\ Core' /\ [Next]_vars => [L!LeaseNext]_Leases
<1> SUFFICES ASSUME Core, Core', [Next]_vars  PROVE L!LeaseNext \/ UNCHANGED Leases
  OBVIOUS
<1>1. TypeOK /\ TypeOK' /\ TypeInv /\ TypeInv'
  BY DEF Core, TypeInv
<1>2. CASE Outside
  <2>1. UNCHANGED <<hash, removed, pc, used, frame>>
    BY <1>1, <1>2, OutsideAside DEF lists, local
  <2>2. Held' = Held
    BY <2>1 DEF Held, Uses
  <2> QED  BY <2>1, <2>2 DEF Leases
<1>3. ASSUME NEW p \in Proc, Passing(p)  PROVE L!LeaseNext \/ UNCHANGED Leases
  <2>1. UNCHANGED past \/ Crash(p) \/ RestoreRefused(p)
    BY <1>3 DEF Passing, StartRequest, SetCheckMtime, CompileFile, FindMiss, Restore,
       Compile, CompileFails, KeepStat, StatAfter, MallocFails, Malloc2, local
  <2>2. CASE Crash(p)
    BY <1>1, <2>2, LeaseCrash DEF L!LeaseNext
  <2>3. CASE RestoreRefused(p)
    <3>1. frame[p].ptr \in Block
      BY <1>1, <2>3 DEF RestoreRefused, TypeInv, HasEntry
    <3> QED  BY <1>1, <2>3, <3>1, LeaseRefused DEF L!LeaseNext
  <2> QED  BY <1>1, <1>3, <2>1, <2>2, <2>3, LeaseStutter
<1>4. ASSUME NEW p \in Proc, Listing(p)  PROVE L!LeaseNext
  <2>1. CASE FindHit(p)
    BY <1>1, <2>1, LeaseFound DEF L!LeaseNext
  <2>2. CASE CleanRequest(p)
    BY <2>2, LeaseEnded DEF L!LeaseNext
  <2>3. CASE ~ FindHit(p) /\ ~ CleanRequest(p)
    BY <1>4, <2>3, LeaseListing DEF L!LeaseNext
  <2> QED  BY <2>1, <2>2, <2>3
<1> QED
  BY <1>2, <1>3, <1>4, Steps

LEMMA LeaseStart == Init => L!LeaseInit
<1> SUFFICES ASSUME Init  PROVE L!LeaseInit
  OBVIOUS
<1>1. ASSUME NEW p \in Proc, NEW b \in Block
      PROVE  /\ Cardinality(Uses(p, b)) = 0
             /\ ~ (pc[p] = "restore" /\ frame[p].ptr = b)
  BY FS_EmptySet DEF Init, Uses
<1>2. Held = [p \in Proc |-> [b \in Block |-> 0]]
  BY <1>1 DEF Held
<1> QED
  BY <1>2 DEF L!LeaseInit, Init

(* The lists and the counters keep the promise of module EntryLease: a     *)
(* request gets hold of an entry only while it is on offer, and an entry   *)
(* ceases to exist only when no request holds it.                          *)
THEOREM LeaseKept ==
  ASSUME PruneIsSafe, PurgeIsSafe
  PROVE  Spec => ImplementsLease
<1>1. Init => L!LeaseInit
  BY LeaseStart
<1>2. Core /\ Core' /\ [Next]_vars => [L!LeaseNext]_<<hash \cup removed, hash, Held>>
  BY LeaseStep DEF Leases
<1> QED
  BY <1>1, <1>2, CoreCorrect, PTL DEF Spec, ImplementsLease, L!LeaseSpec
=============================================================================
