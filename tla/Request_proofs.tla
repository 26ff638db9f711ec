-------------------------- MODULE Request_proofs --------------------------
(***************************************************************************)
(* Proofs about module Request, for any threads, processes, servers and    *)
(* users.                                                                  *)
(***************************************************************************)
EXTENDS Request, TLAPS

-----------------------------------------------------------------------------
(* While directories are not removed, what has been announced is there,    *)
(* and what is being made is there as far as it has got.                   *)
Announced ==
  ~ wiped =>
    /\ \A s \in Server : dir_uid[s] # Root =>
         dir_uid[s] \in top /\ \A i \in 1 .. Dirs : i \in hashed[dir_uid[s]]
    /\ \A t \in Thread : pc[t] \in {"lstat", "mkdir"} => next[t] = 1
    /\ \A t \in Thread : pc[t] = "hash" =>
         /\ User(t) \in top
         /\ \A i \in 1 .. Dirs : i < next[t] => i \in hashed[User(t)]

(* Who runs a script has found its directory announced, has given up, or   *)
(* may find another user's.                                                *)
Shared(t) == \E q \in Process : server[q] = server[proc[t]] /\ uid[q] # User(t)

Found ==
  \A t \in Thread : pc[t] = "run" =>
    DirUid(t) = User(t) \/ t \in gave_up \/ Shared(t)

(* The umask of init_cache_dir is that of a thread that is in it, or that  *)
(* has returned early; what it keeps to put back is the one given.         *)
MaskOf ==
  /\ \A p \in Process :
       mask[p] = "given" \/ p \in spoilt \/
         \E t \in Thread : proc[t] = p /\ pc[t] \in Making
  /\ \A t \in Thread : pc[t] \in Making =>
       old_umask[t] = "given" \/ proc[t] \in spoilt

(* A thread that is alone has the handlers to itself.                      *)
HandlerOf ==
  /\ \A t \in Thread : Siblings(t) = {} =>
       IF pc[t] = "idle" THEN handler[proc[t]] = "server"
                         ELSE /\ handler[proc[t]] = "crash"
                              /\ original[t] = "server"
  /\ lost => \E t \in Thread : Siblings(t) # {}

Inv == TypeOK /\ Announced /\ Found /\ MaskOf /\ HandlerOf

-----------------------------------------------------------------------------
(* Where a thread is.                                                      *)
LEMMA Places ==
  ASSUME TypeOK
  PROVE  \A t \in Thread :
           proc[t] \in Process /\ server[proc[t]] \in Server /\ User(t) \in Uid
  BY RequestAssumption DEF TypeOK, User

(* The segment has one lock: the threads of a process make directories one *)
(* at a time.                                                              *)
LEMMA OneMakes ==
  ASSUME TypeOK, NEW t \in Thread, NEW s \in Thread,
         pc[t] \in Making, pc[s] \in Making,
         server[proc[s]] = server[proc[t]]
  PROVE  s = t
  BY DEF TypeOK, Lock

(* Before the first request.                                               *)
LEMMA InvInit == Init => Inv
<1> SUFFICES ASSUME Init  PROVE Inv
  OBVIOUS
<1>1. TypeOK
  <2>1. \A t \in Thread : server[proc[t]] \in Server
    BY RequestAssumption DEF Init
  <2>2. \A t \in Thread : pc[t] \in Making <=> Lock(t) = t
    BY <2>1, RequestAssumption DEF Init, Making, Lock
  <2>3. next \in [Thread -> 1 .. Dirs + 1] /\ faults \in 0 .. MaxFault
    BY RequestAssumption DEF Init
  <2> QED
    BY <2>2, <2>3, RequestAssumption DEF Init, TypeOK, Making, Mask, Signal
<1>2. Announced /\ Found
  BY DEF Init, Announced, Found, Making
<1>3. MaskOf /\ HandlerOf
  BY RequestAssumption DEF Init, MaskOf, HandlerOf, Making
<1> QED
  BY <1>1, <1>2, <1>3 DEF Inv

(* Types.                                                                  *)
LEMMA TypeOKNext ==
  ASSUME Inv, [Next]_vars
  PROVE  TypeOK'
<1> USE RequestAssumption, Places
    DEF Inv, TypeOK, Making, Mask, Signal, Lock, world, tree,
        history, Go
<1>1. ASSUME NEW t \in Thread, RInit(t)  PROVE TypeOK'
  BY <1>1 DEF RInit
<1>2. ASSUME NEW t \in Thread, DirMade(t)  PROVE TypeOK'
  BY <1>2 DEF DirMade
<1>3. ASSUME NEW t \in Thread, InitCacheDir(t)  PROVE TypeOK'
  BY <1>3 DEF InitCacheDir
<1>4. ASSUME NEW t \in Thread, Lstat(t)  PROVE TypeOK'
  BY <1>4 DEF Lstat, GiveUp, Unlock
<1>5. ASSUME NEW t \in Thread, Mkdir(t)  PROVE TypeOK'
  BY <1>5 DEF Mkdir, GiveUp, Unlock
<1>6. ASSUME NEW t \in Thread, MakeHashDir(t)  PROVE TypeOK'
  BY <1>6 DEF MakeHashDir
<1>7. ASSUME NEW t \in Thread, Announce(t)  PROVE TypeOK'
  BY <1>7 DEF Announce, Unlock
<1>8. ASSUME NEW t \in Thread, RShutdown(t)  PROVE TypeOK'
  BY <1>8 DEF RShutdown
<1>9. ASSUME NEW t \in Thread, Crash(t)  PROVE TypeOK'
  BY <1>9 DEF Crash
<1>10. ASSUME Wipe  PROVE TypeOK'
  BY <1>10 DEF Wipe
<1>11. CASE UNCHANGED vars
  BY <1>11 DEF vars
<1> QED
  BY <1>1, <1>2, <1>3, <1>4, <1>5, <1>6, <1>7, <1>8,
     <1>9, <1>10, <1>11 DEF Next

(* Directories are made before they are announced.                         *)
LEMMA AnnouncedNext ==
  ASSUME Inv, [Next]_vars
  PROVE  Announced'
<1> USE RequestAssumption, Places
    DEF Inv, TypeOK, Announced, User, world, tree, history, Go
<1>1. ASSUME NEW t \in Thread, RInit(t)  PROVE Announced'
  BY <1>1 DEF RInit
<1>2. ASSUME NEW t \in Thread, DirMade(t)  PROVE Announced'
  BY <1>2 DEF DirMade
<1>3. ASSUME NEW t \in Thread, InitCacheDir(t)  PROVE Announced'
  BY <1>3 DEF InitCacheDir
<1>4. ASSUME NEW t \in Thread, Lstat(t)  PROVE Announced'
  <2> USE <1>4 DEF Lstat, GiveUp, Unlock
  <2> SUFFICES ASSUME ~ wiped'  PROVE  Announced'
    BY DEF Announced
  <2>1. ASSUME NEW s \in Server, dir_uid'[s] # Root
        PROVE  /\ dir_uid'[s] \in top'
               /\ \A i \in 1 .. Dirs : i \in hashed'[dir_uid'[s]]
    BY <2>1
  <2>2. ASSUME NEW o \in Thread, pc'[o] = "hash"
        PROVE  /\ User(o)' \in top'
               /\ \A i \in 1 .. Dirs : i < next'[o] => i \in hashed'[User(o)']
    <3>1. CASE o = t
      BY <2>2, <3>1
    <3>2. CASE o # t
      BY <2>2, <3>2
    <3> QED  BY <3>1, <3>2
  <2>3. ASSUME NEW o \in Thread, pc'[o] \in {"lstat", "mkdir"}
        PROVE  next'[o] = 1
    BY <2>3
  <2> QED  BY <2>1, <2>2, <2>3
<1>5. ASSUME NEW t \in Thread, Mkdir(t)  PROVE Announced'
  <2> USE <1>5 DEF Mkdir, GiveUp, Unlock
  <2> SUFFICES ASSUME ~ wiped'  PROVE  Announced'
    BY DEF Announced
  <2>1. ASSUME NEW s \in Server, dir_uid'[s] # Root
        PROVE  /\ dir_uid'[s] \in top'
               /\ \A i \in 1 .. Dirs : i \in hashed'[dir_uid'[s]]
    BY <2>1
  <2>2. ASSUME NEW o \in Thread, pc'[o] = "hash"
        PROVE  /\ User(o)' \in top'
               /\ \A i \in 1 .. Dirs : i < next'[o] => i \in hashed'[User(o)']
    <3>1. CASE o = t
      BY <2>2, <3>1
    <3>2. CASE o # t
      BY <2>2, <3>2
    <3> QED  BY <3>1, <3>2
  <2>3. ASSUME NEW o \in Thread, pc'[o] \in {"lstat", "mkdir"}
        PROVE  next'[o] = 1
    BY <2>3
  <2> QED  BY <2>1, <2>2, <2>3
<1>6. ASSUME NEW t \in Thread, MakeHashDir(t)  PROVE Announced'
  <2> USE <1>6 DEF MakeHashDir
  <2> SUFFICES ASSUME ~ wiped'  PROVE  Announced'
    BY DEF Announced
  <2>1. ASSUME NEW s \in Server, dir_uid'[s] # Root
        PROVE  /\ dir_uid'[s] \in top'
               /\ \A i \in 1 .. Dirs : i \in hashed'[dir_uid'[s]]
    BY <2>1
  <2>2. ASSUME NEW o \in Thread, pc'[o] = "hash"
        PROVE  /\ User(o)' \in top'
               /\ \A i \in 1 .. Dirs : i < next'[o] => i \in hashed'[User(o)']
    <3>1. CASE o = t
      BY <2>2, <3>1
    <3>2. CASE o # t
      BY <2>2, <3>2
    <3> QED  BY <3>1, <3>2
  <2>3. ASSUME NEW o \in Thread, pc'[o] \in {"lstat", "mkdir"}
        PROVE  next'[o] = 1
    BY <2>3
  <2> QED  BY <2>1, <2>2, <2>3
<1>7. ASSUME NEW t \in Thread, Announce(t)  PROVE Announced'
  <2> USE <1>7 DEF Announce, Unlock
  <2> SUFFICES ASSUME ~ wiped'  PROVE  Announced'
    BY DEF Announced
  <2>1. ASSUME NEW s \in Server, dir_uid'[s] # Root
        PROVE  /\ dir_uid'[s] \in top'
               /\ \A i \in 1 .. Dirs : i \in hashed'[dir_uid'[s]]
    <3>1. CASE s = server[proc[t]]
      BY <2>1, <3>1
    <3>2. CASE s # server[proc[t]]
      BY <2>1, <3>2
    <3> QED  BY <3>1, <3>2
  <2>2. ASSUME NEW o \in Thread, pc'[o] = "hash"
        PROVE  /\ User(o)' \in top'
               /\ \A i \in 1 .. Dirs : i < next'[o] => i \in hashed'[User(o)']
    <3>1. CASE o = t
      BY <2>2, <3>1
    <3>2. CASE o # t
      BY <2>2, <3>2
    <3> QED  BY <3>1, <3>2
  <2>3. ASSUME NEW o \in Thread, pc'[o] \in {"lstat", "mkdir"}
        PROVE  next'[o] = 1
    BY <2>3
  <2> QED  BY <2>1, <2>2, <2>3
<1>8. ASSUME NEW t \in Thread, RShutdown(t)  PROVE Announced'
  BY <1>8 DEF RShutdown
<1>9. ASSUME NEW t \in Thread, Crash(t)  PROVE Announced'
  BY <1>9 DEF Crash
<1>10. ASSUME Wipe  PROVE Announced'
  BY <1>10 DEF Wipe
<1>11. CASE UNCHANGED vars
  BY <1>11 DEF vars
<1> QED
  BY <1>1, <1>2, <1>3, <1>4, <1>5, <1>6, <1>7, <1>8,
     <1>9, <1>10, <1>11 DEF Next

(* Who shares no segment with another user finds its own.                  *)
LEMMA FoundNext ==
  ASSUME Inv, [Next]_vars
  PROVE  Found'
<1> USE RequestAssumption, Places
    DEF Inv, TypeOK, Found, Shared, User, DirUid, world, tree, history,
        Go
<1>1. ASSUME NEW t \in Thread, RInit(t)  PROVE Found'
  BY <1>1 DEF RInit
<1>2. ASSUME NEW t \in Thread, DirMade(t)  PROVE Found'
  BY <1>2 DEF DirMade
<1>3. ASSUME NEW t \in Thread, InitCacheDir(t)  PROVE Found'
  BY <1>3 DEF InitCacheDir
<1>4. ASSUME NEW t \in Thread, Lstat(t)  PROVE Found'
  BY <1>4 DEF Lstat, GiveUp, Unlock
<1>5. ASSUME NEW t \in Thread, Mkdir(t)  PROVE Found'
  BY <1>5 DEF Mkdir, GiveUp, Unlock
<1>6. ASSUME NEW t \in Thread, MakeHashDir(t)  PROVE Found'
  BY <1>6 DEF MakeHashDir
<1>7. ASSUME NEW t \in Thread, Announce(t)  PROVE Found'
  BY <1>7 DEF Announce, Unlock
<1>8. ASSUME NEW t \in Thread, RShutdown(t)  PROVE Found'
  BY <1>8 DEF RShutdown
<1>9. ASSUME NEW t \in Thread, Crash(t)  PROVE Found'
  BY <1>9 DEF Crash
<1>10. ASSUME Wipe  PROVE Found'
  BY <1>10 DEF Wipe
<1>11. CASE UNCHANGED vars
  BY <1>11 DEF vars
<1> QED
  BY <1>1, <1>2, <1>3, <1>4, <1>5, <1>6, <1>7, <1>8,
     <1>9, <1>10, <1>11 DEF Next

(* The umask comes and goes with the lock.                                 *)
LEMMA MaskOfNext ==
  ASSUME Inv, [Next]_vars
  PROVE  MaskOf'
<1> USE RequestAssumption, Places, OneMakes
    DEF Inv, TypeOK, MaskOf, Making, Mask, Siblings, world, tree,
        history, Go
<1>1. ASSUME NEW t \in Thread, RInit(t)  PROVE MaskOf'
  BY <1>1 DEF RInit
<1>2. ASSUME NEW t \in Thread, DirMade(t)  PROVE MaskOf'
  BY <1>2 DEF DirMade
<1>3. ASSUME NEW t \in Thread, InitCacheDir(t)  PROVE MaskOf'
  <2> USE <1>3 DEF InitCacheDir
  <2>1. ASSUME NEW p \in Process, mask'[p] # "given", p \notin spoilt'
        PROVE  \E s \in Thread : proc'[s] = p /\ pc'[s] \in Making
    <3>1. CASE p = proc[t]
      <4>1. proc'[t] = p /\ pc'[t] \in Making
        BY <3>1
      <4> QED  BY <4>1
    <3>2. CASE p # proc[t]
      <4>1. PICK s \in Thread : proc[s] = p /\ pc[s] \in Making
        BY <2>1, <3>2
      <4>2. proc'[s] = p /\ pc'[s] \in Making
        BY <4>1, <3>2
      <4> QED  BY <4>2
    <3> QED  BY <3>1, <3>2
  <2>2. ASSUME NEW s \in Thread, pc'[s] \in Making
        PROVE  old_umask'[s] = "given" \/ proc'[s] \in spoilt'
    <3>1. CASE s = t
      <4>1. \A o \in Thread : proc[o] = proc[t] => pc[o] \notin Making
        <5> SUFFICES ASSUME NEW o \in Thread, proc[o] = proc[t],
                            pc[o] \in Making
                     PROVE  FALSE
          OBVIOUS
        <5>1. Lock(o) = o /\ Lock(o) = None
          BY DEF Lock
        <5> QED  BY <5>1
      <4> QED  BY <3>1, <4>1
    <3>2. CASE s # t
      BY <2>2, <3>2
    <3> QED  BY <3>1, <3>2
  <2> QED  BY <2>1, <2>2
<1>4. ASSUME NEW t \in Thread, Lstat(t)  PROVE MaskOf'
  BY <1>4 DEF Lstat, GiveUp, Unlock
<1>5. ASSUME NEW t \in Thread, Mkdir(t)  PROVE MaskOf'
  <2> USE <1>5 DEF Mkdir, GiveUp, Unlock
  <2>1. ASSUME NEW p \in Process, mask'[p] # "given", p \notin spoilt'
        PROVE  \E s \in Thread : proc'[s] = p /\ pc'[s] \in Making
    <3>1. PICK s \in Thread : proc[s] = p /\ pc[s] \in Making
      BY <2>1
    <3>2. CASE s = t
      BY <2>1, <3>1, <3>2
    <3>3. CASE s # t
      BY <2>1, <3>1, <3>3
    <3> QED  BY <3>2, <3>3
  <2>2. ASSUME NEW s \in Thread, pc'[s] \in Making
        PROVE  old_umask'[s] = "given" \/ proc'[s] \in spoilt'
    BY <2>2
  <2>3. mask' \in [Process -> Mask]
    BY TypeOKNext DEF TypeOK
  <2> QED  BY <2>1, <2>2
<1>6. ASSUME NEW t \in Thread, MakeHashDir(t)  PROVE MaskOf'
  BY <1>6 DEF MakeHashDir
<1>7. ASSUME NEW t \in Thread, Announce(t)  PROVE MaskOf'
  BY <1>7 DEF Announce, Unlock
<1>8. ASSUME NEW t \in Thread, RShutdown(t)  PROVE MaskOf'
  <2> USE <1>8 DEF RShutdown
  <2>1. ASSUME NEW p \in Process, mask'[p] # "given", p \notin spoilt'
        PROVE  \E s \in Thread : proc'[s] = p /\ pc'[s] \in Making
    <3>1. PICK s \in Thread : proc[s] = p /\ pc[s] \in Making
      BY <2>1
    <3>2. CASE s = t
      BY <2>1, <3>1, <3>2
    <3>3. CASE s # t
      BY <2>1, <3>1, <3>3
    <3> QED  BY <3>2, <3>3
  <2>2. ASSUME NEW s \in Thread, pc'[s] \in Making
        PROVE  old_umask'[s] = "given" \/ proc'[s] \in spoilt'
    BY <2>2
  <2>3. mask' \in [Process -> Mask]
    BY TypeOKNext DEF TypeOK
  <2> QED  BY <2>1, <2>2
<1>9. ASSUME NEW t \in Thread, Crash(t)  PROVE MaskOf'
  BY <1>9 DEF Crash
<1>10. ASSUME Wipe  PROVE MaskOf'
  BY <1>10 DEF Wipe
<1>11. CASE UNCHANGED vars
  BY <1>11 DEF vars
<1> QED
  BY <1>1, <1>2, <1>3, <1>4, <1>5, <1>6, <1>7, <1>8,
     <1>9, <1>10, <1>11 DEF Next

(* Handlers are set and put back by one thread.                            *)
LEMMA HandlerOfNext ==
  ASSUME Inv, [Next]_vars
  PROVE  HandlerOf'
<1> USE RequestAssumption, Places
    DEF Inv, TypeOK, HandlerOf, Siblings, world, tree, history, Go
<1>1. ASSUME NEW t \in Thread, RInit(t)  PROVE HandlerOf'
  BY <1>1 DEF RInit
<1>2. ASSUME NEW t \in Thread, DirMade(t)  PROVE HandlerOf'
  BY <1>2 DEF DirMade
<1>3. ASSUME NEW t \in Thread, InitCacheDir(t)  PROVE HandlerOf'
  BY <1>3 DEF InitCacheDir
<1>4. ASSUME NEW t \in Thread, Lstat(t)  PROVE HandlerOf'
  <2> USE <1>4 DEF Lstat, GiveUp, Unlock
  <2>1. UNCHANGED <<proc, handler, original, lost>>
    OBVIOUS
  <2>2. \A s \in Thread : pc'[s] = "idle" <=> pc[s] = "idle"
    OBVIOUS
  <2> QED  BY <2>1, <2>2
<1>5. ASSUME NEW t \in Thread, Mkdir(t)  PROVE HandlerOf'
  BY <1>5 DEF Mkdir, GiveUp, Unlock
<1>6. ASSUME NEW t \in Thread, MakeHashDir(t)  PROVE HandlerOf'
  BY <1>6 DEF MakeHashDir
<1>7. ASSUME NEW t \in Thread, Announce(t)  PROVE HandlerOf'
  BY <1>7 DEF Announce, Unlock
<1>8. ASSUME NEW t \in Thread, RShutdown(t)  PROVE HandlerOf'
  BY <1>8 DEF RShutdown
<1>9. ASSUME NEW t \in Thread, Crash(t)  PROVE HandlerOf'
  <2> USE <1>9 DEF Crash
  <2>1. lost' => \E s \in Thread : Siblings(s) # {}
    BY DEF Siblings
  <2>2. ASSUME NEW s \in Thread, Siblings(s) = {}
        PROVE  IF pc'[s] = "idle"
                 THEN handler'[proc[s]] = "server"
                 ELSE handler'[proc[s]] = "crash" /\ original'[s] = "server"
    <3>1. CASE s = t
      BY <2>2, <3>1
    <3>2. CASE s # t
      <4>1. proc[s] # proc[t]
        BY <2>2, <3>2
      <4> QED  BY <2>2, <3>2, <4>1
    <3> QED  BY <3>1, <3>2
  <2> QED  BY <2>1, <2>2
<1>10. ASSUME Wipe  PROVE HandlerOf'
  BY <1>10 DEF Wipe
<1>11. CASE UNCHANGED vars
  BY <1>11 DEF vars
<1> QED
  BY <1>1, <1>2, <1>3, <1>4, <1>5, <1>6, <1>7, <1>8,
     <1>9, <1>10, <1>11 DEF Next

(* The parts hold together.                                                *)
LEMMA Invariance == Spec => []Inv
<1>1. Inv /\ [Next]_vars => Inv'
  BY TypeOKNext, AnnouncedNext, FoundNext, MaskOfNext, HandlerOfNext DEF Inv
<1> QED
  BY <1>1, InvInit, PTL DEF Spec
-----------------------------------------------------------------------------
(* Types, and that the segment is locked by the thread that is between     *)
(* lstat and the end of init_cache_dir, by nobody else.                    *)
THEOREM TypeCorrect == Spec => []TypeOK
  BY Invariance, PTL DEF Inv

(* A request finds its cache directory made, whatever the other servers    *)
(* and processes do between RINIT's test without the lock and the next.    *)
THEOREM DirectoryReady == Spec => []OneUserUsable
<1>1. Inv => OneUserUsable
  <2> SUFFICES ASSUME Inv, NEW t \in Thread, pc[t] = "run",
                      t \notin gave_up, ~ wiped, User(t) # Root, ~ Shared(t)
               PROVE  Usable(t)
    BY DEF OneUserUsable, Shared
  <2>1. DirUid(t) = User(t)
    BY DEF Inv, Found
  <2>2. server[proc[t]] \in Server
    BY Places DEF Inv
  <2>3. User(t) \in top /\ \A i \in 1 .. Dirs : i \in hashed[User(t)]
    BY <2>1, <2>2 DEF Inv, Announced, DirUid
  <2>4. hashed[User(t)] \subseteq 1 .. Dirs
    BY Places DEF Inv, TypeOK
  <2> QED
    BY <2>1, <2>3, <2>4 DEF Usable
<1> QED
  BY <1>1, Invariance, PTL

(* init_cache_dir puts back the umask before the script runs, except where *)
(* it returns early or another thread of the process is in it.             *)
THEOREM UmaskPutBack == Spec => []UmaskKept
<1>1. Inv => UmaskKept
  <2> SUFFICES ASSUME Inv, NEW t \in Thread, pc[t] \in {"idle", "run"},
                      mask[proc[t]] # "given", proc[t] \notin spoilt
               PROVE  \E s \in Siblings(t) : pc[s] \in Making
    BY DEF UmaskKept
  <2>1. PICK s \in Thread : proc[s] = proc[t] /\ pc[s] \in Making
    BY Places DEF Inv, MaskOf
  <2> QED
    BY <2>1 DEF Siblings, Making
<1> QED
  BY <1>1, Invariance, PTL

(* Without threads, the crash handler is there whenever a script runs, and *)
(* the server's whenever none does.                                        *)
THEOREM HandlerInPlace == Spec => []CrashReleases
<1>1. Inv => CrashReleases
  BY DEF Inv, HandlerOf, CrashReleases
<1> QED
  BY <1>1, Invariance, PTL

=============================================================================
