------------------------------ MODULE DiskCache ------------------------------
(***************************************************************************)
(* The disk cache of eaccelerator.c: hash_find_file and hash_add_file, as  *)
(* eaccelerator_restore and eaccelerator_store call them for one script,   *)
(* and clear_filecache of ea_info.c.                                       *)
(*                                                                         *)
(* A cache file has one name, which the md5 of the script's path gives.    *)
(* Names and contents part company: unlink and open work on the name, a    *)
(* process that has a file open reads, writes and locks the inode it got.  *)
(* Every system call is a step.  A file is written in two writes, header   *)
(* and entry, each of which may stop short; flock is released when its     *)
(* file is closed, a process that dies included.  Servers of different     *)
(* builds of eAccelerator or PHP may share the directory.  Requests whose  *)
(* look-up in shared memory succeeds never come here: module ScriptCache   *)
(* has them, and all that happens to an entry in shared memory.            *)
(***************************************************************************)
EXTENDS Integers, FiniteSets, Version

CONSTANTS
  Proc,      (* PHP processes                                                *)
  Server,    (* builds of eAccelerator and PHP, one running server of each   *)
  VersionOf, (* the three versions that each of them goes by                 *)
  Deployment,(* who runs the processes: a set of functions [Proc -> Server]  *)
  Inode,     (* files: one more than processes, so that creat never fails    *)
  None,      (* no file, no entry                                            *)
  MaxRev,    (* bound: revisions of the script                               *)
  MaxFault   (* bound: dead processes, short writes and machine crashes      *)

ASSUME DiskAssumption ==
  /\ IsFiniteSet(Proc) /\ IsFiniteSet(Inode)
  /\ Cardinality(Inode) > Cardinality(Proc)
  /\ None \notin Inode /\ MaxRev \in Nat /\ MaxFault \in Nat
  /\ Deployment \subseteq [Proc -> Server]
  /\ \A s \in Server : \A part \in DOMAIN VersionOf[s] :
       IsVersion(VersionOf[s][part])

VARIABLES
  server,    (* the server each process belongs to                           *)
  rev,       (* the script's revision: its mtime and size, and its code      *)
  dir,       (* the inode the cache file's name stands for, or None          *)
  file,      (* what each inode holds                                        *)
  ex, sh,    (* LOCK_EX and LOCK_SH holders of each inode                    *)
  pc,
  fd,        (* the inode a process has open                                 *)
  stat,      (* buf: the revision the request's stat saw                     *)
  img,       (* the entry it reads from a file, builds, or runs              *)
  shared,    (* that entry is, or will be, in shared memory                  *)
  linked,    (* that entry is in the table there: others use it              *)
  faults

locks == <<ex, sh>>
disk  == <<dir, file, locks>>
own   == <<stat, img, shared, linked>>
world == <<server, rev>>
vars  == <<world, disk, pc, fd, own, faults>>

(* A cache entry: who compiled it, the modification time it is labelled    *)
(* with, the code it holds, its counters (nhits, use_cnt, ttl, next, as    *)
(* one bit that every use of an entry in shared memory flips) and, which   *)
(* the code cannot see, whether it is as its author wrote it.              *)
Entry == [server : Server, mtime : Nat, code : Nat, counters : {0, 1},
          whole : BOOLEAN]

(* A file: how much of it has been written (of the header a part, or all;  *)
(* of the entry a part, or all), the entry the header's crc32 was computed *)
(* from, the entry that follows it, and what a machine crash lost.         *)
File == [len : 0 .. 4, crc : Entry \cup {None}, body : Entry \cup {None},
         lost : {"nothing", "header", "body"}]

EmptyFile == [len |-> 0, crc |-> None, body |-> None, lost |-> "nothing"]

(* What a crash of the machine may make of a file: its length stays, the   *)
(* data of the one or the other write is zeroes.                           *)
Damaged(f) ==
  {f} \cup (IF f.len < 2 THEN {} ELSE {[f EXCEPT !.lost = "header"]})
      \cup (IF f.len < 4 THEN {}
                 ELSE {[f EXCEPT !.lost = "body", !.body.whole = FALSE]})

Reading == {"lock_sh", "header", "body"}
Writing == {"lock_ex", "write_header", "write_body"}
Labels  == Reading \cup Writing
             \cup {"idle", "open", "close", "spoilt", "stale", "compile",
                   "store", "create", "add_mm", "served"}

Go(p, label) == pc' = [pc EXCEPT ![p] = label]

(* The entry for a request's script: what it is, and where it is kept.     *)
Holds(p, e, shm) ==
  /\ img' = [img EXCEPT ![p] = e]
  /\ shared' = [shared EXCEPT ![p] = shm]

(* hash_add_mm, for an entry in shared memory (module ScriptCache has it). *)
Add(p) == linked' = [linked EXCEPT ![p] = shared[p]]

(* The request is over.                                                    *)
Finish(p) ==
  /\ Go(p, "idle")
  /\ Holds(p, None, FALSE)
  /\ stat' = [stat EXCEPT ![p] = 0]
  /\ linked' = [linked EXCEPT ![p] = FALSE]

(* The files f, after the file system has freed what neither the name d    *)
(* stands for nor anybody (the processes of Q) has open.                   *)
Kept(d, f, Q) ==
  [i \in Inode |-> IF i = d \/ \E q \in Q : fd[q] = i THEN f[i] ELSE EmptyFile]

(* EACCELERATOR_FLOCK(f, LOCK_UN); close(f)                                *)
UnlockClose(p, f) ==
  /\ ex' = [i \in Inode |-> ex[i] \ {p}]
  /\ sh' = [i \in Inode |-> sh[i] \ {p}]
  /\ fd' = [fd EXCEPT ![p] = None]
  /\ file' = Kept(dir, f, Proc \ {p})

(* unlink(s)                                                               *)
UnlinkName ==
  /\ dir' = None
  /\ file' = Kept(None, file, Proc)

(* No request is being served, and the cache directory is empty.           *)
Init ==
  /\ server \in Deployment
  /\ rev = 1 /\ faults = 0
  /\ dir = None /\ file = [i \in Inode |-> EmptyFile]
  /\ ex = [i \in Inode |-> {}] /\ sh = [i \in Inode |-> {}]
  /\ pc = [p \in Proc |-> "idle"] /\ fd = [p \in Proc |-> None]
  /\ stat = [p \in Proc |-> 0] /\ img = [p \in Proc |-> None]
  /\ shared = [p \in Proc |-> FALSE] /\ linked = [p \in Proc |-> FALSE]
-----------------------------------------------------------------------------
(* eaccelerator_compile_file stats the script; shared memory does not have *)
(* it, or not as it is now, and eaccelerator_restore turns to the file.    *)
Stat(p) ==
  /\ pc[p] = "idle"
  /\ stat' = [stat EXCEPT ![p] = rev]
  /\ Go(p, "open")
  /\ UNCHANGED <<world, disk, fd, img, shared, linked, faults>>

-----------------------------------------------------------------------------
(* hash_find_file                                                          *)
Open(p) ==
  /\ pc[p] = "open"
  /\ fd' = [fd EXCEPT ![p] = dir]
  /\ Go(p, IF dir = None THEN "compile" ELSE "lock_sh")
  /\ UNCHANGED <<world, disk, own, faults>>

LockShared(p) ==
  /\ pc[p] = "lock_sh"
  /\ ex[fd[p]] = {}
  /\ sh' = [sh EXCEPT ![fd[p]] = @ \cup {p}]
  /\ Go(p, "header")
  /\ UNCHANGED <<world, dir, file, ex, fd, own, faults>>

(* A header that is not complete may be that of a file being written: the  *)
(* file is left alone.                                                     *)
ShortHeaderBug(p) ==
  /\ pc[p] = "header" /\ file[fd[p]].len < 2
  /\ fd' = [fd EXCEPT ![p] = None]
  /\ Go(p, "compile")
  /\ UNCHANGED <<world, disk, own, faults>>

ShortHeader(p) ==
  /\ pc[p] = "header" /\ file[fd[p]].len < 2
  /\ UnlockClose(p, file)
  /\ Go(p, "compile")
  /\ UNCHANGED <<world, dir, own, faults>>

(* init_header writes what encode_version has made of the three versions   *)
(* at start-up.  Nothing else of a build is there: not its options, its    *)
(* word size or what its vendor changed.                                   *)
Part == {"eaccelerator", "zend", "php"}

Header == [s \in Server |-> [part \in Part |-> EncodeVersion(VersionOf[s][part])]]

(* check_header, on a header that init_header wrote (what a crash of the   *)
(* machine leaves in its place has no magic).                              *)
CheckHeaderBug(p, f) == f.lost # "header"

CheckHeader(p, f) ==
  f.lost # "header" /\ Header[f.crc.server] = Header[server[p]]

ForeignHeader(p) ==
  /\ pc[p] = "header" /\ file[fd[p]].len >= 2
  /\ ~ CheckHeader(p, file[fd[p]])
  /\ UnlockClose(p, file)
  /\ Go(p, "spoilt")
  /\ UNCHANGED <<world, dir, own, faults>>

(* Memory for the entry: shared, or else the process's own, or none.       *)
ReadHeader(p) ==
  /\ pc[p] = "header" /\ file[fd[p]].len >= 2
  /\ CheckHeader(p, file[fd[p]])
  /\ \E shm \in BOOLEAN : Holds(p, None, shm)
  /\ Go(p, "body")
  /\ UNCHANGED <<world, disk, fd, stat, linked, faults>>

NoMemory(p) ==
  /\ pc[p] = "header" /\ file[fd[p]].len >= 2
  /\ CheckHeader(p, file[fd[p]])
  /\ UnlockClose(p, file)
  /\ Go(p, "compile")
  /\ UNCHANGED <<world, dir, own, faults>>

(* The entry is read in one go: too short, of another size than the header *)
(* says, or with another crc32, it is corrupted.                           *)
IntactBug(f) == f.len = 4

Intact(f) == f.len = 4 /\ f.body = f.crc

ReadBody(p) ==
  LET f == file[fd[p]] IN
  /\ pc[p] = "body"
  /\ IF Intact(f)
       THEN /\ Holds(p, f.body, shared[p])
            /\ Go(p, "close")
       ELSE /\ Holds(p, None, FALSE)
            /\ Go(p, "spoilt")
  /\ UnlockClose(p, file)
  /\ UNCHANGED <<world, dir, stat, linked, faults>>

(* The file is closed: the entry has to be for the script as it is, is     *)
(* relocated and, in shared memory, added to the table.                    *)
EntryStale(p) ==
  /\ pc[p] = "close"
  /\ img[p].mtime # stat[p]
  /\ Holds(p, None, FALSE)
  /\ Go(p, "stale")
  /\ UNCHANGED <<world, disk, fd, stat, linked, faults>>

EntryGoodBug(p) ==
  /\ pc[p] = "close"
  /\ Add(p)
  /\ Go(p, "served")
  /\ UNCHANGED <<world, disk, fd, stat, img, shared, faults>>

EntryGood(p) ==
  /\ pc[p] = "close"
  /\ img[p].mtime = stat[p]
  /\ Add(p)
  /\ Go(p, "served")
  /\ UNCHANGED <<world, disk, fd, stat, img, shared, faults>>

(* unlink(s), after the file has been unlocked and closed: by now the name *)
(* may stand for another file.                                             *)
Unlink(p) ==
  /\ pc[p] \in {"spoilt", "stale"}
  /\ UnlinkName
  /\ Go(p, "compile")
  /\ UNCHANGED <<world, locks, fd, own, faults>>
-----------------------------------------------------------------------------
(* The compiler reads the script now; the stat that labels the entry is    *)
(* the one from before.  eaccelerator_store then builds the entry in       *)
(* shared memory, or else in the process's own, or gives up.               *)
Compiled(p) == [server |-> server[p], mtime |-> stat[p], code |-> rev,
                counters |-> 0, whole |-> TRUE]

CompileBug(p) ==
  /\ pc[p] = "compile"
  /\ Holds(p, Compiled(p), TRUE)
  /\ linked' = [linked EXCEPT ![p] = TRUE]
  /\ Go(p, "store")
  /\ UNCHANGED <<world, disk, fd, stat, faults>>

Compile(p) ==
  /\ pc[p] = "compile"
  /\ \E shm \in BOOLEAN : Holds(p, Compiled(p), shm)
  /\ Go(p, "store")
  /\ UNCHANGED <<world, disk, fd, stat, linked, faults>>

CompileOnly(p) ==
  /\ pc[p] = "compile"
  /\ Finish(p)
  /\ UNCHANGED <<world, disk, fd, faults>>

(* hash_add_file: unlink(s)                                                *)
StoreFile(p) ==
  /\ pc[p] = "store"
  /\ UnlinkName
  /\ Go(p, "create")
  /\ UNCHANGED <<world, locks, fd, own, faults>>

(* open(s, O_CREAT | O_WRONLY | O_EXCL): fails when another process has    *)
(* created the file in the meantime, and the script is not written out.    *)
(* The inode is some free one; which one makes no difference.              *)
Free == {i \in Inode : \A q \in Proc : fd[q] # i}

Create(p) ==
  /\ pc[p] = "create"
  /\ IF dir # None
       THEN Go(p, "add_mm") /\ UNCHANGED <<dir, fd>>
       ELSE LET i == CHOOSE j \in Free : TRUE
            IN  /\ dir' = i
                /\ fd' = [fd EXCEPT ![p] = i]
                /\ Go(p, "lock_ex")
  /\ UNCHANGED <<world, file, locks, own, faults>>

LockExclusiveBug(p) ==
  /\ pc[p] = "lock_ex"
  /\ Go(p, "write_header")
  /\ UNCHANGED <<world, disk, fd, own, faults>>

LockExclusive(p) ==
  /\ pc[p] = "lock_ex"
  /\ ex[fd[p]] = {} /\ sh[fd[p]] = {}
  /\ ex' = [ex EXCEPT ![fd[p]] = {p}]
  /\ Go(p, "write_header")
  /\ UNCHANGED <<world, dir, file, sh, fd, own, faults>>

(* init_header and the crc32, and the first write: a disk that fills up    *)
(* cuts it short, and the rest is not attempted.                           *)
WriteHeader(p) ==
  /\ pc[p] = "write_header"
  /\ file' = [file EXCEPT ![fd[p]].len = 2, ![fd[p]].crc = img[p]]
  /\ Go(p, "write_body")
  /\ UNCHANGED <<world, dir, locks, fd, own, faults>>

HeaderCutShort(p) ==
  /\ pc[p] = "write_header" /\ faults < MaxFault
  /\ faults' = faults + 1
  /\ UnlockClose(p, [file EXCEPT ![fd[p]].len = 1])
  /\ Go(p, "add_mm")
  /\ UNCHANGED <<world, dir, own>>

WriteBody(p) ==
  /\ pc[p] = "write_body"
  /\ UnlockClose(p, [file EXCEPT ![fd[p]].len = 4, ![fd[p]].body = img[p]])
  /\ Go(p, "add_mm")
  /\ UNCHANGED <<world, dir, own, faults>>

BodyCutShort(p) ==
  /\ pc[p] = "write_body" /\ faults < MaxFault
  /\ faults' = faults + 1
  /\ UnlockClose(p, [file EXCEPT ![fd[p]].len = 3])
  /\ Go(p, "add_mm")
  /\ UNCHANGED <<world, dir, own>>

(* hash_add_mm, or efree; the script runs.                                 *)
AddMem(p) ==
  /\ pc[p] = "add_mm"
  /\ Add(p)
  /\ Go(p, "served")
  /\ UNCHANGED <<world, disk, fd, stat, img, shared, faults>>

(* Another process uses the entry: hash_find_mm, clean_request.            *)
Touch(p) ==
  /\ linked[p]
  /\ img' = [img EXCEPT ![p].counters = 1 - @]
  /\ UNCHANGED <<world, disk, pc, fd, stat, shared, linked, faults>>

(* The script has run, and the request ends.                               *)
EndRequest(p) ==
  /\ pc[p] = "served"
  /\ Finish(p)
  /\ UNCHANGED <<world, disk, fd, faults>>
-----------------------------------------------------------------------------
(* eaccelerator_clear: clear_filecache unlinks what carries the name of a  *)
(* cache file.                                                             *)
Clear(p) ==
  /\ pc[p] = "served"
  /\ UnlinkName
  /\ UNCHANGED <<world, locks, pc, fd, own, faults>>

Edit ==
  /\ rev < MaxRev
  /\ rev' = rev + 1
  /\ UNCHANGED <<server, disk, pc, fd, own, faults>>

(* A process is killed: its file is closed and unlocked.                   *)
Die(p) ==
  /\ pc[p] # "idle" /\ faults < MaxFault
  /\ faults' = faults + 1
  /\ UnlockClose(p, file)
  /\ Finish(p)
  /\ UNCHANGED <<world, dir>>

(* The machine goes down, and with it what is in memory.                   *)
MachineCrash ==
  /\ faults < MaxFault
  /\ faults' = faults + 1
  /\ ex' = [i \in Inode |-> {}] /\ sh' = [i \in Inode |-> {}]
  /\ pc' = [p \in Proc |-> "idle"] /\ fd' = [p \in Proc |-> None]
  /\ stat' = [p \in Proc |-> 0] /\ img' = [p \in Proc |-> None]
  /\ shared' = [p \in Proc |-> FALSE] /\ linked' = [p \in Proc |-> FALSE]
  /\ IF dir = None
       THEN file' = Kept(None, file, {})
       ELSE \E f \in Damaged(file[dir]) :
              file' = Kept(dir, [file EXCEPT ![dir] = f], {})
  /\ UNCHANGED <<world, dir>>

(* What a process does on its own until the request is over.               *)
Serve(p) ==
  \/ Open(p) \/ LockShared(p) \/ ShortHeader(p)
  \/ ForeignHeader(p) \/ ReadHeader(p) \/ NoMemory(p) \/ ReadBody(p)
  \/ EntryStale(p) \/ EntryGood(p) \/ Unlink(p)
  \/ Compile(p) \/ CompileOnly(p) \/ StoreFile(p) \/ Create(p)
  \/ LockExclusive(p) \/ WriteHeader(p) \/ HeaderCutShort(p)
  \/ WriteBody(p) \/ BodyCutShort(p) \/ AddMem(p) \/ EndRequest(p)

Next ==
  \/ \E p \in Proc : Stat(p) \/ Serve(p) \/ Touch(p) \/ Clear(p) \/ Die(p)
  \/ Edit \/ MachineCrash

Spec == Init /\ [][Next]_vars

(* flock wakes the processes that wait for a lock whenever it is released, *)
(* and a process that could take it again and again takes it in the end;   *)
(* the other steps are a process's own.                                    *)
FairSpec ==
  /\ Spec
  /\ \A p \in Proc : WF_vars(Serve(p)) /\ SF_vars(LockExclusive(p))
-----------------------------------------------------------------------------
(* Types; and a process has a file open where its place in the code says   *)
(* so, and nowhere else.                                                   *)
TypeOK ==
  /\ server \in [Proc -> Server] /\ rev \in Nat /\ faults \in Nat
  /\ dir \in Inode \cup {None} /\ file \in [Inode -> File]
  /\ ex \in [Inode -> SUBSET Proc] /\ sh \in [Inode -> SUBSET Proc]
  /\ pc \in [Proc -> Labels] /\ fd \in [Proc -> Inode \cup {None}]
  /\ stat \in [Proc -> Nat] /\ img \in [Proc -> Entry \cup {None}]
  /\ shared \in [Proc -> BOOLEAN] /\ linked \in [Proc -> BOOLEAN]
  /\ \A p \in Proc : fd[p] # None <=> pc[p] \in Reading \cup Writing

(* "cache file is corrupted": what a request is served is what one process *)
(* stored, to the last byte, although writers die in mid-file, run out of  *)
(* disk or are overtaken by a crash of the machine, and entries change in  *)
(* shared memory all the time.                                             *)
ServedWhole == \A p \in Proc : pc[p] = "served" => img[p].whole

(* hash_add_file takes the crc32 of an entry and then writes it out: a file *)
(* written to the end passes the check, whatever other processes do to     *)
(* entries meanwhile.                                                      *)
WrittenFileIntact ==
  \A i \in Inode : file[i].len = 4 /\ file[i].lost = "nothing" => Intact(file[i])

(* A server never runs an entry that a server with other version numbers   *)
(* left in the directory they share, however they overwrite and remove     *)
(* each other's files.  Builds whose numbers encode alike do: that is what *)
(* the header can tell.                                                    *)
ServedOwnVersion ==
  \A p \in Proc :
    pc[p] = "served" => Header[img[p].server] = Header[server[p]]

(* The modification check holds across the disk: a request gets code at    *)
(* least as new as the script was when it began, whoever compiled it, and  *)
(* whenever the script changed between that process's stat and compile.    *)
ServedFresh == \A p \in Proc : pc[p] = "served" => img[p].code >= stat[p]

(* A file is taken for corrupted only once its writer has finished with    *)
(* it: a request that reads while a live writer is at work must not throw  *)
(* the file away.                                                          *)
YoungFileSpared ==
  [][\A p, q \in Proc :
       pc[p] # "spoilt" /\ pc'[p] = "spoilt" /\ fd[q] = fd[p] =>
         pc[q] \notin Writing]_vars

(* No request waits for ever for a lock on a cache file, whoever holds it  *)
(* and however that process ends.                                          *)
Answered == \A p \in Proc : (pc[p] # "idle") ~> (pc[p] = "idle")
=============================================================================
