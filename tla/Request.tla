------------------------------ MODULE Request ------------------------------
(***************************************************************************)
(* What eaccelerator.c does to a process around a request: RINIT, with the *)
(* making of the user's cache directory (init_cache_dir), RSHUTDOWN, and   *)
(* the crash handler that stands guard in between.                         *)
(*                                                                         *)
(* A process has one umask and one handler for each signal; the five       *)
(* signals are treated alike, and one stands for them.  Several servers,   *)
(* and the processes of one server under several users, share the cache    *)
(* directory: it holds a directory for each user, and that the hashed ones *)
(* (two levels of them, of which only the lower are named here).  The name *)
(* of a cache file is made with cache_dir_uid, which is in shared memory.  *)
(* eaccelerator.shm_only is off.                                           *)
(***************************************************************************)
EXTENDS Integers, FiniteSets

CONSTANTS
  Thread,    (* threads that run requests                                    *)
  Process,   (* the processes they belong to                                 *)
  Layout,    (* ways to spread the threads over processes                    *)
  Server,    (* servers, each with its segment                               *)
  Uid,       (* users                                                        *)
  Root,      (* the user number 0                                            *)
  None,
  Dirs,      (* hashed directories of a user                                 *)
  MaxFault   (* bound: crashes, and removals of the directories              *)

ASSUME RequestAssumption ==
  /\ Layout \subseteq [Thread -> Process]
  /\ None \notin Thread /\ Dirs \in Nat /\ MaxFault \in Nat

VARIABLES
  proc,      (* the process of each thread                                   *)
  server,    (* the server, and                                              *)
  uid,       (* the user, of each process                                    *)
  dir_uid,   (* cache_dir_uid, in the segment of each server                 *)
  lock,      (* the thread that has locked that segment                      *)
  base,      (* check_cache_dir has found or made the cache directory        *)
  alien,     (* names in it that stand for something else than a directory   *)
  top,       (* users whose directory is there                               *)
  hashed,    (* the hashed directories in each of them                       *)
  mask,      (* the umask, and                                               *)
  handler,   (* the signal handler, of each process                          *)
  pc,
  old_umask,
  original,  (* EAG(original_sigsegv_handler) and the like                   *)
  next,      (* the hashed directory to be made next                         *)
  gave_up,   (* threads whose init_cache_dir failed in this request          *)
  spoilt,    (* processes that have had such a thread                        *)
  wiped,     (* somebody has removed directories                             *)
  lost,      (* some request died, and its use of entries is still counted   *)
  faults

world   == <<proc, server, uid, base, alien>>
tree    == <<top, hashed>>
history == <<gave_up, spoilt, wiped>>
vars    == <<world, tree, dir_uid, lock, mask, handler, pc, old_umask, original,
             next, history, lost, faults>>

Making == {"lstat", "mkdir", "hash"}
Mask   == {"given", "077"}
Signal == {"server", "default", "crash"}

Siblings(t) == {s \in Thread \ {t} : proc[s] = proc[t]}
Lock(t) == lock[server[proc[t]]]
User(t) == uid[proc[t]]
DirUid(t) == dir_uid[server[proc[t]]]

Go(t, label) == pc' = [pc EXCEPT ![t] = label]

(* init_mm clears the segment: cache_dir_uid is 0.                         *)
Init ==
  /\ proc \in Layout
  /\ server \in [Process -> Server] /\ uid \in [Process -> Uid]
  /\ base \in BOOLEAN /\ alien \in SUBSET Uid
  /\ top = {} /\ hashed = [u \in Uid |-> {}]
  /\ dir_uid = [s \in Server |-> Root] /\ lock = [s \in Server |-> None]
  /\ mask = [p \in Process |-> "given"]
  /\ handler = [p \in Process |-> "server"]
  /\ pc = [t \in Thread |-> "idle"]
  /\ old_umask = [t \in Thread |-> "given"]
  /\ original = [t \in Thread |-> "default"]
  /\ next = [t \in Thread |-> 1]
  /\ gave_up = {} /\ spoilt = {} /\ wiped = FALSE
  /\ lost = FALSE /\ faults = 0

(* RINIT: the handler, and the test that is made without the lock.         *)
RInitBug(t) ==
  /\ pc[t] = "idle"
  /\ original' = [original EXCEPT ![t] = handler[proc[t]]]
  /\ handler' = [handler EXCEPT ![proc[t]] =
                   IF DirUid(t) = User(t) THEN @ ELSE "crash"]
  /\ gave_up' = gave_up \ {t}
  /\ Go(t, IF DirUid(t) = User(t) THEN "run" ELSE "lock")
  /\ UNCHANGED <<world, tree, dir_uid, lock, mask, old_umask, next, spoilt,
                 wiped, lost, faults>>

RInit(t) ==
  /\ pc[t] = "idle"
  /\ original' = [original EXCEPT ![t] = handler[proc[t]]]
  /\ handler' = [handler EXCEPT ![proc[t]] = "crash"]
  /\ gave_up' = gave_up \ {t}
  /\ Go(t, IF DirUid(t) = User(t) THEN "run" ELSE "lock")
  /\ UNCHANGED <<world, tree, dir_uid, lock, mask, old_umask, next, spoilt,
                 wiped, lost, faults>>

(* EACCELERATOR_LOCK_RW, the test again; umask(077).                       *)
DirMade(t) ==
  /\ pc[t] = "lock" /\ Lock(t) = None /\ DirUid(t) = User(t)
  /\ Go(t, "run")
  /\ UNCHANGED <<world, tree, dir_uid, lock, mask, handler, old_umask, original,
                 next, history, lost, faults>>

InitCacheDir(t) ==
  /\ pc[t] = "lock" /\ Lock(t) = None /\ DirUid(t) # User(t)
  /\ lock' = [lock EXCEPT ![server[proc[t]]] = t]
  /\ old_umask' = [old_umask EXCEPT ![t] = mask[proc[t]]]
  /\ mask' = [mask EXCEPT ![proc[t]] = "077"]
  /\ next' = [next EXCEPT ![t] = 1]
  /\ Go(t, "lstat")
  /\ UNCHANGED <<world, tree, dir_uid, handler, original, history, lost,
                 faults>>

Unlock(t) == lock' = [lock EXCEPT ![server[proc[t]]] = None] /\ Go(t, "run")

(* init_cache_dir returns early: the umask stays.                          *)
GiveUp(t) ==
  /\ Unlock(t)
  /\ gave_up' = gave_up \cup {t} /\ spoilt' = spoilt \cup {proc[t]}
  /\ UNCHANGED <<mask, wiped>>

Lstat(t) ==
  /\ pc[t] = "lstat"
  /\ \/ /\ base /\ User(t) \in alien
        /\ GiveUp(t)
     \/ /\ User(t) \notin alien \/ ~ base
        /\ Go(t, IF User(t) \in top THEN "hash" ELSE "mkdir")
        /\ UNCHANGED <<lock, mask, history>>
  /\ UNCHANGED <<world, tree, dir_uid, handler, old_umask, original, next, lost,
                 faults>>

(* mkdir fails where there is no cache directory, and where another server *)
(* has made the user's in the meantime.                                    *)
Mkdir(t) ==
  /\ pc[t] = "mkdir"
  /\ \/ /\ base /\ User(t) \notin top
        /\ top' = top \cup {User(t)}
        /\ Go(t, "hash")
        /\ UNCHANGED <<lock, mask, history>>
     \/ /\ ~ base \/ User(t) \in top
        /\ GiveUp(t)
        /\ UNCHANGED top
  /\ UNCHANGED <<world, hashed, dir_uid, handler, old_umask, original, next,
                 lost, faults>>

(* make_hash_dirs does not look at what mkdir returns.                     *)
MakeHashDir(t) ==
  /\ pc[t] = "hash" /\ next[t] <= Dirs
  /\ next' = [next EXCEPT ![t] = @ + 1]
  /\ hashed' = IF User(t) \in top
                 THEN [hashed EXCEPT ![User(t)] = @ \cup {next[t]}] ELSE hashed
  /\ UNCHANGED <<world, top, dir_uid, lock, mask, handler, pc, old_umask,
                 original, history, lost, faults>>

(* umask(old_umask), and the directory is announced.                       *)
AnnounceBug(t) ==
  /\ pc[t] = "hash" /\ next[t] >= Dirs
  /\ mask' = [mask EXCEPT ![proc[t]] = old_umask[t]]
  /\ dir_uid' = [dir_uid EXCEPT ![server[proc[t]]] = User(t)]
  /\ Unlock(t)
  /\ UNCHANGED <<world, tree, handler, old_umask, original, next, history, lost,
                 faults>>

AnnounceMaskBug(t) ==
  /\ pc[t] = "hash" /\ next[t] > Dirs
  /\ dir_uid' = [dir_uid EXCEPT ![server[proc[t]]] = User(t)]
  /\ Unlock(t)
  /\ UNCHANGED <<world, tree, mask, handler, old_umask, original, next, history,
                 lost, faults>>

Announce(t) ==
  /\ pc[t] = "hash" /\ next[t] > Dirs
  /\ mask' = [mask EXCEPT ![proc[t]] = old_umask[t]]
  /\ dir_uid' = [dir_uid EXCEPT ![server[proc[t]]] = User(t)]
  /\ Unlock(t)
  /\ UNCHANGED <<world, tree, handler, old_umask, original, next, history, lost,
                 faults>>

(* RSHUTDOWN up to the clean-up (module ScriptCache has that).             *)
RShutdown(t) ==
  /\ pc[t] = "run"
  /\ handler' = [handler EXCEPT ![proc[t]] =
                   IF original[t] # "crash" THEN original[t] ELSE "default"]
  /\ Go(t, "idle")
  /\ UNCHANGED <<world, tree, dir_uid, lock, mask, old_umask, original, next,
                 history, lost, faults>>

(* The script makes the process crash.  The crash handler, where it is in  *)
(* place, gives back what this request uses, and sends the signal again;   *)
(* the server starts another process.  Module ShmLock has what becomes of  *)
(* a lock that a sibling holds.                                            *)
Crash(t) ==
  LET dead == {t} \cup Siblings(t)
      p == proc[t] IN
  /\ pc[t] = "run" /\ faults < MaxFault
  /\ \A s \in Siblings(t) : pc[s] \notin Making
  /\ faults' = faults + 1
  /\ lost' = (lost \/ handler[p] # "crash" \/
              \E s \in Siblings(t) : pc[s] = "run")
  /\ handler' = [handler EXCEPT ![p] = "server"]
  /\ mask' = [mask EXCEPT ![p] = "given"]
  /\ spoilt' = spoilt \ {p} /\ gave_up' = gave_up \ dead
  /\ pc' = [s \in Thread |-> IF s \in dead THEN "idle" ELSE pc[s]]
  /\ UNCHANGED <<world, tree, dir_uid, lock, old_umask, original, next, wiped>>

(* Somebody removes what is in the cache directory.                        *)
Wipe ==
  /\ base /\ faults < MaxFault
  /\ faults' = faults + 1
  /\ top' = {} /\ hashed' = [u \in Uid |-> {}] /\ wiped' = TRUE
  /\ UNCHANGED <<world, dir_uid, lock, mask, handler, pc, old_umask, original,
                 next, gave_up, spoilt, lost>>

Next ==
  \/ \E t \in Thread :
       \/ RInit(t) \/ DirMade(t) \/ InitCacheDir(t) \/ Lstat(t) \/ Mkdir(t)
       \/ MakeHashDir(t) \/ Announce(t) \/ RShutdown(t) \/ Crash(t)
  \/ Wipe

Spec == Init /\ [][Next]_vars
-----------------------------------------------------------------------------
(* Types; and the segment is locked by the thread that makes directories.  *)
TypeOK ==
  /\ proc \in Layout
  /\ server \in [Process -> Server] /\ uid \in [Process -> Uid]
  /\ base \in BOOLEAN /\ alien \subseteq Uid
  /\ top \subseteq Uid /\ hashed \in [Uid -> SUBSET (1 .. Dirs)]
  /\ dir_uid \in [Server -> Uid \cup {Root}]
  /\ lock \in [Server -> Thread \cup {None}]
  /\ mask \in [Process -> Mask] /\ handler \in [Process -> Signal]
  /\ pc \in [Thread -> {"idle", "lock", "run"} \cup Making]
  /\ old_umask \in [Thread -> Mask] /\ original \in [Thread -> Signal]
  /\ next \in [Thread -> 1 .. Dirs + 1]
  /\ gave_up \subseteq Thread /\ spoilt \subseteq Process
  /\ wiped \in BOOLEAN /\ lost \in BOOLEAN /\ faults \in 0 .. MaxFault
  /\ \A t \in Thread : pc[t] \in Making <=> Lock(t) = t

(* A file can be written under the name that eaccelerator_md5 makes.       *)
Usable(t) ==
  /\ DirUid(t) = User(t)
  /\ User(t) \in top /\ hashed[User(t)] = 1 .. Dirs

(* With shm_only off a request finds the disk cache, unless its directory  *)
(* cannot be made or somebody has removed it; whatever other servers make  *)
(* in the same directory, and although who finds cache_dir_uid right takes *)
(* no lock.  But for root, whose number is what init_mm clears             *)
(* cache_dir_uid to, and where another user shares the segment.            *)
OneUserUsable ==
  \A t \in Thread :
    pc[t] = "run" =>
      \/ Usable(t) \/ t \in gave_up \/ wiped \/ User(t) = Root
      \/ \E q \in Process : server[q] = server[proc[t]] /\ uid[q] # User(t)

(* No script runs with the umask of init_cache_dir, but while another      *)
(* thread of the process is there, and once it has given up.               *)
UmaskKept ==
  \A t \in Thread :
    pc[t] \in {"idle", "run"} =>
      \/ mask[proc[t]] = "given" \/ proc[t] \in spoilt
      \/ \E s \in Siblings(t) : pc[s] \in Making

(* In a build without threads a script that crashes leaves no entry in     *)
(* use, and between requests the server has its handlers back.             *)
CrashReleases ==
  /\ lost => \E t \in Thread : Siblings(t) # {}
  /\ \A t \in Thread :
       pc[t] = "idle" /\ Siblings(t) = {} => handler[proc[t]] = "server"

=============================================================================
