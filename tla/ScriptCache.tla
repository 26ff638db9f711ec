----------------------------- MODULE ScriptCache -----------------------------
(***************************************************************************)
(* The shared-memory script cache of eaccelerator.c and ea_info.c, in its  *)
(* shm_only mode: the table of cached scripts and the list of removed ones *)
(* in shared memory, and the requests of several PHP processes that look   *)
(* scripts up, run them in place, compile and store what is missing and    *)
(* let go of what they used, while scripts are edited, memory is pruned    *)
(* and an administrator empties the cache.                                 *)
(*                                                                         *)
(* A section of code under EACCELERATOR_LOCK_RW is one step; what a        *)
(* process does between two such sections is not, so the steps of          *)
(* processes interleave everywhere the code lets them.  A hash chain or    *)
(* the removed list is the set of its entries: every walk in the code ends *)
(* at the entry with the key, or the address, it looks for.  Every cache   *)
(* entry occupies one block of memory, and blocks are all of one size.     *)
(* The modification time and the size of a script file, which are only     *)
(* ever compared together, are one revision number.                        *)
(***************************************************************************)
EXTENDS Integers, Sequences, FiniteSets

CONSTANTS
  Proc,          (* PHP processes (or threads)                                  *)
  Block,         (* blocks of shared memory                                     *)
  Key,           (* scripts, by real path                                       *)
  ShmTtl,        (* ea_shm_ttl                                                  *)
  PrunePeriod,   (* ea_shm_prune_period                                         *)
  CheckMtime,    (* EAG(check_mtime_enabled), from php.ini                      *)
  AdminOps,      (* administration functions that are called                    *)
  QuietEdits,    (* scripts are edited only while no request deals with them    *)
  QuietPurge,    (* eaccelerator_purge is called only while no request uses a
                    removed script                                              *)
  NoBlock,       (* the null pointer                                            *)
  MaxRev,        (* bound: revisions of a script                                *)
  MaxTime,       (* bound: the clock                                            *)
  MaxUsed,       (* bound: scripts restored in one request                      *)
  MaxCrash,      (* bound: processes that die in the middle of a request        *)
  MaxRefused     (* bound: cached scripts that open_basedir refuses a request   *)

ASSUME ConstantsAssumption ==
  /\ IsFiniteSet(Proc) /\ IsFiniteSet(Block)
  /\ NoBlock \notin Block
  /\ {ShmTtl, PrunePeriod} \subseteq Nat
  /\ {MaxRev, MaxTime, MaxUsed, MaxCrash, MaxRefused} \subseteq Nat
  /\ {CheckMtime, QuietEdits, QuietPurge} \subseteq BOOLEAN
  /\ Key # {}
  /\ AdminOps \subseteq {"clean", "clear", "purge", "check_mtime"}

VARIABLES
  (* shared memory: ea_mm_instance                                              *)
  alloc,         (* blocks mm_malloc handed out and mm_free has not got back    *)
  entry,         (* what each block holds (or held, once it is freed)           *)
  hash,          (* entries on the chains of ea_mm_instance->hash               *)
  removed,       (* entries on ea_mm_instance->removed                          *)
  hash_cnt, rem_cnt, last_prune,
  check_mtime,   (* ea_mm_instance->check_mtime_enabled                         *)
  (* the file system and the clock                                              *)
  rev,           (* latest revision of each script                              *)
  present,       (* scripts that exist                                          *)
  now,
  (* one request at a time in each process                                      *)
  pc,
  req_start,     (* EAG(req_start)                                              *)
  used,          (* EAG(used_entries), latest last                              *)
  frame,         (* locals of eaccelerator_compile_file and the functions below
                    it: the script, its stat (as a revision), the revision the
                    compiler read, the entry found or the block to be filled    *)
  stale,         (* pointers left in used_entries after its entries are let go  *)
  (* what has happened so far                                                   *)
  crashes,       (* processes that died                                         *)
  refused        (* cached scripts that open_basedir refused                    *)

lists == <<alloc, entry, hash, removed, hash_cnt, rem_cnt, last_prune>>
shm   == <<lists, check_mtime>>
files == <<rev, present, now>>
past  == <<crashes, refused>>
local == <<req_start, used, frame, stale, past>>
vars  == <<shm, files, pc, local>>

Entry == [key : Key, mtime : Nat, code : Nat, ttl : Nat,
          use_cnt : Int, removed : BOOLEAN]

(* What eaccelerator_store writes over the zeroes of a new block.          *)
NewEntry(k, m, c, t) == [key |-> k, mtime |-> m, code |-> c, ttl |-> t,
                         use_cnt |-> 0, removed |-> FALSE]

SomeKey == CHOOSE k \in Key : TRUE

Frame == [key : Key, buf : Nat, code : Nat, ptr : Block \cup {NoBlock}]

NoFrame == [key |-> SomeKey, buf |-> 0, code |-> 0, ptr |-> NoBlock]

(* The switch every use of a stat looks at anew, without the lock.         *)
MtimeChecked == CheckMtime /\ check_mtime

Labels == {"idle", "run", "find", "restore", "compile", "stat",
           "malloc", "malloc2", "prune", "malloc3", "add", "release"}

Go(p, label) == pc' = [pc EXCEPT ![p] = label]

(* eaccelerator_compile_file returns to the request.                       *)
Leave(p) ==
  /\ Go(p, "run")
  /\ frame' = [frame EXCEPT ![p] = NoFrame]

RangeOf(s) == {s[i] : i \in DOMAIN s}

(* Entries process p runs, or is about to run, in place.                   *)
Pins(p) ==
  RangeOf(used[p]) \cup (IF pc[p] = "restore" THEN {frame[p].ptr} ELSE {})

InUse(b) == \E p \in Proc : b \in Pins(p)

(* Script k is being looked up, compiled or run by some request.           *)
Busy(k) ==
  \/ \E p \in Proc : pc[p] \notin {"idle", "run", "release"} /\ frame[p].key = k
  \/ \E b \in hash \cup removed : entry[b].key = k /\ InUse(b)

Init ==
  /\ alloc = {} /\ hash = {} /\ removed = {}
  /\ entry = [b \in Block |-> NewEntry(SomeKey, 0, 0, 0)]
  /\ hash_cnt = 0 /\ rem_cnt = 0 /\ last_prune = 0 /\ check_mtime = TRUE
  /\ rev = [k \in Key |-> 1] /\ present = Key /\ now = 0
  /\ pc = [p \in Proc |-> "idle"]
  /\ req_start = [p \in Proc |-> 0]
  /\ used = [p \in Proc |-> << >>]
  /\ frame = [p \in Proc |-> NoFrame]
  /\ stale = [p \in Proc |-> {}]
  /\ crashes = 0 /\ refused = 0
-----------------------------------------------------------------------------
(* An entry that has left the hash table is freed, or, when it is in use,  *)
(* flagged and put on the removed list, where its last user finds it.      *)
(*                                                                         *)
(* A definition whose name ends in Bug stands before the one it would      *)
(* replace and is what a plausible mistake in the code would make of it:   *)
(* the properties are checked to notice.  Nothing else uses it.            *)
KeptBug(D) == {b \in D : entry[b].use_cnt > 1}

Kept(D) == {b \in D : entry[b].use_cnt > 0}

FlaggedBug(D) == entry

Flagged(D) ==
  [b \in Block |-> IF b \in Kept(D) THEN [entry[b] EXCEPT !.removed = TRUE]
                                    ELSE entry[b]]

DiscardBug(D) ==
  /\ alloc' = alloc
  /\ removed' = removed \cup Kept(D)
  /\ rem_cnt' = rem_cnt + Cardinality(Kept(D))

Discard(D) ==
  /\ alloc' = alloc \ (D \ Kept(D))
  /\ removed' = removed \cup Kept(D)
  /\ rem_cnt' = rem_cnt + Cardinality(Kept(D))
-----------------------------------------------------------------------------
(* RINIT                                                                   *)
StartRequest(p) ==
  /\ pc[p] = "idle"
  /\ Go(p, "run")
  /\ used' = [used EXCEPT ![p] = << >>]
  /\ req_start' = [req_start EXCEPT ![p] = now]
  /\ UNCHANGED <<shm, files, frame, stale, past>>

(* eaccelerator_compile_file, up to the stat of the script.  A script that *)
(* cannot be stat'ed is compiled without the cache, which changes nothing; *)
(* a stat that is not done leaves the buffer as it is, uninitialised, and  *)
(* the path PHP has opened or remembers may no longer exist.               *)
CompileFile(p, k) ==
  /\ pc[p] = "run"
  /\ Len(used[p]) < MaxUsed
  /\ MtimeChecked => k \in present
  /\ \E r \in 0 .. MaxRev :
       /\ MtimeChecked => r = rev[k]
       /\ frame' = [frame EXCEPT ![p] = [NoFrame EXCEPT !.key = k, !.buf = r]]
  /\ Go(p, "find")
  /\ UNCHANGED <<shm, files, req_start, used, stale, past>>
-----------------------------------------------------------------------------
(* hash_find_mm                                                            *)
Cached(k) == {b \in hash : entry[b].key = k}

Valid(p, b) == MtimeChecked => entry[b].mtime = frame[p].buf

Expiry(p) == IF ShmTtl > 0 THEN req_start[p] + ShmTtl ELSE 0

FindHitBug(p) ==
  /\ pc[p] = "find"
  /\ \E b \in Cached(frame[p].key) :
       /\ Valid(p, b)
       /\ entry' = [entry EXCEPT ![b].ttl = Expiry(p)]
       /\ frame' = [frame EXCEPT ![p].ptr = b]
  /\ Go(p, "restore")
  /\ UNCHANGED <<alloc, hash, removed, hash_cnt, rem_cnt, last_prune,
                 check_mtime, files, req_start, used, stale, past>>

FindHit(p) ==
  /\ pc[p] = "find"
  /\ \E b \in Cached(frame[p].key) :
       /\ Valid(p, b)
       /\ entry' = [entry EXCEPT ![b].use_cnt = @ + 1, ![b].ttl = Expiry(p)]
       /\ frame' = [frame EXCEPT ![p].ptr = b]
  /\ Go(p, "restore")
  /\ UNCHANGED <<alloc, hash, removed, hash_cnt, rem_cnt, last_prune,
                 check_mtime, files, req_start, used, stale, past>>

FindStale(p) ==
  /\ pc[p] = "find"
  /\ \E b \in Cached(frame[p].key) :
       /\ ~ Valid(p, b)
       /\ hash' = hash \ {b}
       /\ Discard({b})
       /\ entry' = Flagged({b})
  /\ hash_cnt' = hash_cnt - 1
  /\ Go(p, "compile")
  /\ UNCHANGED <<last_prune, check_mtime, files, local>>

FindMiss(p) ==
  /\ pc[p] = "find"
  /\ Cached(frame[p].key) = {}
  /\ Go(p, "compile")
  /\ UNCHANGED <<shm, files, local>>

(* eaccelerator_restore: the entry joins the request's list of used        *)
(* entries once its op_array has been restored; a script open_basedir      *)
(* forbids is left as it was found, and goes to the compiler.              *)
Restore(p) ==
  /\ pc[p] = "restore"
  /\ used' = [used EXCEPT ![p] = Append(@, frame[p].ptr)]
  /\ Leave(p)
  /\ UNCHANGED <<shm, files, req_start, stale, past>>

RestoreRefused(p) ==
  /\ pc[p] = "restore"
  /\ refused < MaxRefused
  /\ refused' = refused + 1
  /\ frame' = [frame EXCEPT ![p].ptr = NoBlock]
  /\ Go(p, "compile")
  /\ UNCHANGED <<shm, files, req_start, used, stale, crashes>>
-----------------------------------------------------------------------------
(* The Zend compiler reads the script, some time after its stat; it fails  *)
(* when the script is gone, or has an error.                               *)
Compile(p) ==
  /\ pc[p] = "compile"
  /\ frame[p].key \in present
  /\ frame' = [frame EXCEPT ![p].code = rev[frame[p].key]]
  /\ Go(p, "stat")
  /\ UNCHANGED <<shm, files, req_start, used, stale, past>>

CompileFails(p) ==
  /\ pc[p] = "compile"
  /\ Leave(p)
  /\ UNCHANGED <<shm, files, req_start, used, stale, past>>

(* With the checks on, the stat from before the compilation will label the *)
(* entry; with the checks off, the script is stat'ed now.                  *)
KeepStat(p) ==
  /\ pc[p] = "stat"
  /\ MtimeChecked
  /\ Go(p, "malloc")
  /\ UNCHANGED <<shm, files, local>>

StatAfterBug(p) ==
  /\ pc[p] = "stat"
  /\ frame[p].key \in present
  /\ frame' = [frame EXCEPT ![p].buf = rev[frame[p].key]]
  /\ Go(p, "malloc")
  /\ UNCHANGED <<shm, files, req_start, used, stale, past>>

StatAfter(p) ==
  /\ pc[p] = "stat"
  /\ ~ MtimeChecked
  /\ IF frame[p].key \in present
       THEN /\ frame' = [frame EXCEPT ![p].buf = rev[frame[p].key]]
            /\ Go(p, "malloc")
       ELSE Leave(p)
  /\ UNCHANGED <<shm, files, req_start, used, stale, past>>
-----------------------------------------------------------------------------
(* eaccelerator_store: a block from mm_malloc, filled at once; when there  *)
(* is none, one more try after a prune if the last one is long enough ago, *)
(* or the script is not cached.                                            *)
Malloc(p) ==
  /\ pc[p] \in {"malloc", "malloc3"}
  /\ \E b \in Block \ alloc :
       /\ alloc' = alloc \cup {b}
       /\ entry' = [entry EXCEPT ![b] =
            NewEntry(frame[p].key, frame[p].buf, frame[p].code, Expiry(p))]
       /\ frame' = [frame EXCEPT ![p].ptr = b]
  /\ Go(p, "add")
  /\ UNCHANGED <<hash, removed, hash_cnt, rem_cnt, last_prune, check_mtime,
                 files, req_start, used, stale, past>>

MallocFails(p) ==
  /\ alloc = Block
  /\ \/ pc[p] = "malloc" /\ Go(p, "malloc2") /\ UNCHANGED frame
     \/ pc[p] = "malloc3" /\ Leave(p)
  /\ UNCHANGED <<shm, files, req_start, used, stale, past>>

(* eaccelerator_malloc2 looks at last_prune without the lock.              *)
Malloc2(p) ==
  /\ pc[p] = "malloc2"
  /\ IF PrunePeriod > 0 /\ req_start[p] - last_prune > PrunePeriod
       THEN Go(p, "prune") /\ UNCHANGED frame
       ELSE Leave(p)
  /\ UNCHANGED <<shm, files, req_start, used, stale, past>>

(* eaccelerator_prune                                                      *)
ExpiredBug(b, t) == entry[b].ttl # 0 /\ entry[b].ttl < t

Expired(b, t) == entry[b].ttl # 0 /\ entry[b].ttl < t /\ entry[b].use_cnt <= 0

Changed(b) == entry[b].key \notin present \/ entry[b].mtime # rev[entry[b].key]

Prune(t) ==
  LET gone == {b \in hash : Expired(b, t) \/ Changed(b)}
  IN  /\ last_prune' = t
      /\ hash' = hash \ gone
      /\ hash_cnt' = hash_cnt - Cardinality(gone)
      /\ alloc' = alloc \ gone
      /\ UNCHANGED <<entry, removed, rem_cnt, check_mtime>>

PruneForSpace(p) ==
  /\ pc[p] = "prune"
  /\ Prune(req_start[p])
  /\ Go(p, "malloc3")
  /\ UNCHANGED <<files, local>>

(* hash_add_mm puts the entry at the head of its chain and takes out the   *)
(* next entry for the same script, if there is one.                        *)
ReplacedBug(k) == {{}}

Replaced(k) ==
  IF Cached(k) = {} THEN {{}} ELSE {{b} : b \in Cached(k)}

Add(p) ==
  /\ pc[p] = "add"
  /\ \E old \in Replaced(frame[p].key) :
       /\ hash' = (hash \ old) \cup {frame[p].ptr}
       /\ hash_cnt' = hash_cnt + 1 - Cardinality(old)
       /\ Discard(old)
       /\ entry' = Flagged(old)
  /\ Leave(p)
  /\ UNCHANGED <<last_prune, check_mtime, files, req_start, used, stale, past>>
-----------------------------------------------------------------------------
(* eaccelerator_clean_request.  Under the lock, every use is given back,   *)
(* and the last user of a removed entry takes it off the removed list and  *)
(* frees it, clearing the one pointer to it through which it got there.    *)
Uses(p, b) == {i \in DOMAIN used[p] : used[p][i] = b}

LeftBug(p, b) == entry[b].use_cnt

Left(p, b) == entry[b].use_cnt - Cardinality(Uses(p, b))

LastUseBug(p) ==
  {b \in RangeOf(used[p]) \cap removed : entry[b].removed /\ Left(p, b) <= 1}

LastUseLateBug(p) ==
  {b \in RangeOf(used[p]) \cap removed : entry[b].removed /\ Left(p, b) < 0}

LastUse(p) ==
  {b \in RangeOf(used[p]) \cap removed : entry[b].removed /\ Left(p, b) <= 0}

CleanRequest(p) ==
  LET gone == LastUse(p)
      kept == {b \in RangeOf(used[p]) : b \in gone => Cardinality(Uses(p, b)) > 1}
  IN  /\ pc[p] = "run"
      /\ entry' = [b \in Block |-> [entry[b] EXCEPT !.use_cnt = Left(p, b)]]
      /\ removed' = removed \ gone
      /\ rem_cnt' = rem_cnt - Cardinality(gone)
      /\ alloc' = alloc \ gone
      /\ used' = [used EXCEPT ![p] = << >>]
      /\ stale' = [stale EXCEPT ![p] = kept]
      /\ Go(p, IF kept = {} THEN "idle" ELSE "release")
      /\ UNCHANGED <<hash, hash_cnt, last_prune, check_mtime, files, req_start,
                     frame, past>>

(* Without the lock, the pointers that are left are read once more.        *)
FreeUsed(p, b) ==
  /\ pc[p] = "release"
  /\ b \in stale[p]
  /\ stale' = [stale EXCEPT ![p] = @ \ {b}]
  /\ alloc' = IF entry[b].use_cnt < 0 THEN alloc \ {b} ELSE alloc
  /\ Go(p, IF stale[p] = {b} THEN "idle" ELSE "release")
  /\ UNCHANGED <<entry, hash, removed, hash_cnt, rem_cnt, last_prune,
                 check_mtime, files, req_start, used, frame, past>>

(* A process dies outside the locked sections and another takes its place: *)
(* nothing of what it held in shared memory is given back.                 *)
Crash(p) ==
  /\ pc[p] # "idle"
  /\ crashes < MaxCrash
  /\ crashes' = crashes + 1
  /\ used' = [used EXCEPT ![p] = << >>]
  /\ frame' = [frame EXCEPT ![p] = NoFrame]
  /\ stale' = [stale EXCEPT ![p] = {}]
  /\ Go(p, "idle")
  /\ UNCHANGED <<shm, files, req_start, refused>>
-----------------------------------------------------------------------------
(* The administration functions of ea_info.c, called by a script.          *)
Clean(p) ==
  /\ pc[p] = "run" /\ "clean" \in AdminOps
  /\ Prune(now)
  /\ UNCHANGED <<files, pc, local>>

ClearBug(p) ==
  /\ pc[p] = "run" /\ "clear" \in AdminOps
  /\ hash' = {}
  /\ hash_cnt' = hash_cnt - Cardinality(hash)
  /\ alloc' = alloc \ hash
  /\ UNCHANGED <<entry, removed, rem_cnt, last_prune, check_mtime,
                 files, pc, local>>

Clear(p) ==
  /\ pc[p] = "run" /\ "clear" \in AdminOps
  /\ hash' = {}
  /\ hash_cnt' = hash_cnt - Cardinality(hash)
  /\ Discard(hash)
  /\ entry' = Flagged(hash)
  /\ UNCHANGED <<last_prune, check_mtime, files, pc, local>>

Purge(p) ==
  /\ pc[p] = "run" /\ "purge" \in AdminOps
  /\ QuietPurge => \A b \in removed : ~ InUse(b)
  /\ removed' = {}
  /\ rem_cnt' = 0
  /\ alloc' = alloc \ removed
  /\ UNCHANGED <<entry, hash, hash_cnt, last_prune, check_mtime,
                 files, pc, local>>

(* eaccelerator_check_mtime turns the checks on or off, without the lock.  *)
SetCheckMtime(p) ==
  /\ pc[p] = "run" /\ "check_mtime" \in AdminOps
  /\ check_mtime' = ~ check_mtime
  /\ UNCHANGED <<lists, files, pc, local>>
-----------------------------------------------------------------------------
(* The world outside: scripts are edited (and made anew) or deleted, and   *)
(* time passes.                                                            *)
Edit(k) ==
  /\ rev[k] < MaxRev
  /\ QuietEdits => ~ Busy(k)
  /\ rev' = [rev EXCEPT ![k] = @ + 1]
  /\ present' = present \cup {k}
  /\ UNCHANGED <<shm, now, pc, local>>

Delete(k) ==
  /\ k \in present
  /\ QuietEdits => ~ Busy(k)
  /\ present' = present \ {k}
  /\ UNCHANGED <<shm, rev, now, pc, local>>

Tick ==
  /\ now < MaxTime
  /\ now' = now + 1
  /\ UNCHANGED <<shm, rev, present, pc, local>>
-----------------------------------------------------------------------------
(* What a request does on its own once it has begun to serve a script or   *)
(* to shut down.                                                           *)
Serve(p) ==
  \/ FindHit(p) \/ FindStale(p) \/ FindMiss(p)
  \/ Restore(p) \/ RestoreRefused(p)
  \/ Compile(p) \/ CompileFails(p) \/ KeepStat(p) \/ StatAfter(p)
  \/ Malloc(p) \/ MallocFails(p) \/ Malloc2(p) \/ PruneForSpace(p) \/ Add(p)
  \/ CleanRequest(p)
  \/ \E b \in Block : FreeUsed(p, b)

Next ==
  \/ \E p \in Proc : \/ StartRequest(p)
                      \/ \E k \in Key : CompileFile(p, k)
                      \/ Serve(p)
                      \/ Crash(p)
                      \/ Clean(p) \/ Clear(p) \/ Purge(p) \/ SetCheckMtime(p)
  \/ \E k \in Key : Edit(k) \/ Delete(k)
  \/ Tick

Spec == Init /\ [][Next]_vars
-----------------------------------------------------------------------------
(* Type invariant.                                                         *)
TypeOK ==
  /\ alloc \subseteq Block /\ hash \subseteq Block /\ removed \subseteq Block
  /\ entry \in [Block -> Entry]
  /\ hash_cnt \in Int /\ rem_cnt \in Int
  /\ last_prune \in Nat /\ check_mtime \in BOOLEAN
  /\ now \in Nat /\ crashes \in Nat /\ refused \in Nat
  /\ rev \in [Key -> Nat] /\ present \subseteq Key
  /\ pc \in [Proc -> Labels]
  /\ req_start \in [Proc -> Nat]
  /\ used \in [Proc -> Seq(Block)]
  /\ frame \in [Proc -> Frame]
  /\ stale \in [Proc -> SUBSET Block]

(* The uses of entry b by live requests, one for each time it was restored *)
(* and one (numbered 0) for a restore under way.                           *)
Users(b) ==
  (UNION {{<<p, i>> : i \in Uses(p, b)} : p \in Proc})
    \cup {<<p, 0>> : p \in {q \in Proc : pc[q] = "restore" /\ frame[q].ptr = b}}

(* "key is used by other process/thread. Schedule it for removal": an      *)
(* entry a request runs in place, or is about to, is never freed under it. *)
(* Every free in the code has to respect this: hash_find_mm, hash_add_mm,  *)
(* eaccelerator_clear and clean_request look at use_cnt, prune and purge   *)
(* rely on the circumstances they are called in.                           *)
NoUseAfterFree ==
  \A p \in Proc : Pins(p) \subseteq hash \cup removed

(* The lists stay apart, hold only allocated blocks, agree with the        *)
(* removed flag and are counted by hash_cnt and rem_cnt; a block being     *)
(* filled is on neither and belongs to one process.                        *)
ListsConsistent ==
  /\ hash_cnt = Cardinality(hash) /\ rem_cnt = Cardinality(removed)
  /\ hash \cap removed = {}
  /\ hash \cup removed \subseteq alloc
  /\ \A b \in hash : ~ entry[b].removed
  /\ \A b \in removed : entry[b].removed
  /\ \A p \in Proc : pc[p] = "add" => frame[p].ptr \in alloc \ (hash \cup removed)
  /\ \A p, q \in Proc :
       pc[p] = "add" /\ pc[q] = "add" /\ p # q => frame[p].ptr # frame[q].ptr

(* However many processes miss on the same script at the same time and     *)
(* store it one after the other, it is in the table at most once.          *)
OneEntryPerScript ==
  \A b, c \in hash : entry[b].key = entry[c].key => b = c

(* use_cnt never falls below the uses of live requests: a zero means that  *)
(* nobody runs the entry.                                                  *)
UseCntCovers ==
  \A b \in hash \cup removed : entry[b].use_cnt >= Cardinality(Users(b))

(* "how many processes uses the entry": as long as nobody died, and no     *)
(* script was refused once it was found, use_cnt is the number of uses by  *)
(* live requests, so a removed entry is freed by its last user.            *)
UseCntExact ==
  crashes = 0 /\ refused = 0 =>
    \A b \in hash \cup removed : entry[b].use_cnt = Cardinality(Users(b))

(* As long as nobody died, memory is in a list or being filled: no order   *)
(* of look-ups, stores, removals and shutdowns loses a block.              *)
NothingLeaked ==
  crashes = 0 =>
    alloc = hash \cup removed
              \cup {frame[p].ptr : p \in {q \in Proc : pc[q] = "add"}}

(* "Recompile PHP files after modification": with the checks on, an entry  *)
(* a look-up would accept for the file as it is now holds the code of the  *)
(* file as it is now, although files change between the stat, the          *)
(* compilation and the store, and processes store one over the other.      *)
ModificationNoticed ==
  MtimeChecked =>
    \A b \in hash :
      entry[b].mtime = rev[entry[b].key] => entry[b].code = rev[entry[b].key]

(* A pointer that clean_request reads after it has given the uses back     *)
(* still points at an entry: "Linked list of ea_cache_entry which are used *)
(* by process/thread".                                                     *)
UsedListLive ==
  \A p \in Proc : stale[p] \subseteq alloc

(* A removed entry only ever loses users, and nobody but its last user     *)
(* takes it off the list, unless the administrator purges.                 *)
RemovedOnlyDrains ==
  [][\A b \in removed :
       /\ Cardinality(Users(b)') <= Cardinality(Users(b))
       /\ b \notin removed' => Users(b)' = {}
       /\ b \notin hash']_vars

(* A removed entry is freed in the end, when no request dies or runs on    *)
(* for ever.                                                               *)
RemovedDrains == \A b \in Block : (b \in removed) ~> (b \notin removed)

(* Requests make progress, and every one of them ends (PHP limits their    *)
(* execution time); nothing else needs to happen.                          *)
FairSpec ==
  /\ Spec
  /\ \A p \in Proc : WF_vars(Serve(p)) /\ SF_vars(CleanRequest(p))

(* The lists and counters implement the promise of module EntryLease.      *)
Held == [p \in Proc |-> [b \in Block |->
           Cardinality(Uses(p, b))
             + IF pc[p] = "restore" /\ frame[p].ptr = b THEN 1 ELSE 0]]

L == INSTANCE EntryLease
       WITH live <- hash \cup removed, offered <- hash, held <- Held

ImplementsLease == L!LeaseSpec
=============================================================================
