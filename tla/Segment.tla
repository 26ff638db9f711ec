------------------------------ MODULE Segment ------------------------------
(***************************************************************************)
(* The life of the shared memory segment and of its lock: MINIT and        *)
(* init_mm, mm_create and mm_init_lock, the processes a server forks and   *)
(* what they inherit, mm_do_lock as far as that matters to it, MSHUTDOWN,  *)
(* shutdown_mm and mm_destroy.                                             *)
(*                                                                         *)
(* The memory goes with the last process that has it mapped.  The lock may *)
(* be more than memory: a semaphore and the file that flock locks stay     *)
(* until they are removed, and are gone for everybody then.  flock's locks *)
(* belong to an open file description, which a fork shares; fcntl's to a   *)
(* process.  Sections are those of writers; module ShmLock has readers,    *)
(* threads, and what becomes of a section that is torn.                    *)
(***************************************************************************)
EXTENDS Integers, FiniteSets

CONSTANTS
  Proc,      (* processes, of which                                          *)
  Master,    (* one starts and stops the module                              *)
  MaxSeg     (* bound: segments made, one for each start                     *)

ASSUME SegmentAssumption == Master \in Proc /\ MaxSeg \in Nat

VARIABLES
  kind,      (* MM_SEM_...: the lock that was built in                       *)
  apache,    (* sapi_module.name is "apache"                                 *)
  alive,
  foreign,   (* processes of a user whom the lock does not admit             *)
  leader,    (* processes that lead their group: getpgrp() == getpid()       *)
  up,        (* the master has run MINIT, and not MSHUTDOWN since            *)
  instance,  (* ea_mm_instance: a segment, or 0                              *)
  made,      (* segments made so far                                         *)
  sem,       (* the lock of each: "none", "there" or "removed"               *)
  held,      (* who holds it, in the eyes of the system                      *)
  flock_fd,  (* mm_flock_fd: an open file description                        *)
  flock_pid, (* mm_flock_pid                                                 *)
  fds,       (* open file descriptions a process has a descriptor of         *)
  inside,    (* who is in a section: "no", "locked"; without the lock, since *)
             (* it was removed ("unlocked") or refused to open ("denied")    *)
  orderly,   (* the module was stopped only when no other process used the   *)
             (* segment, and no other process has become a leader            *)
  untidy     (* segments with whose lock the master has done                 *)

build == <<kind, apache>>
flock == <<flock_fd, flock_pid, fds>>
lock  == <<sem, held, flock>>
who   == <<alive, foreign, leader>>
vars  == <<build, who, up, instance, made, lock, inside, orderly, untidy>>

Seg   == 1 .. MaxSeg
Kinds == {"spinlock", "pthread", "sysvipc", "fcntl", "flock"}

(* An open file description: the segment whose lock file is open, and the  *)
(* process that has opened it.                                             *)
Desc   == [seg : 0 .. MaxSeg, by : Proc]
NoDesc == [seg |-> 0, by |-> Master]

Workers  == Proc \ {Master}
Users(g) == {p \in alive : instance[p] = g}

(* Requests are run while the module is there.                             *)
Serves(p) == p \in alive /\ instance[p] # 0 /\ (p = Master => up)

Init ==
  /\ kind \in Kinds /\ apache \in BOOLEAN
  /\ alive = {Master} /\ foreign = {} /\ leader \in SUBSET {Master}
  /\ up = FALSE
  /\ instance = [p \in Proc |-> 0]
  /\ made = 0 /\ sem = [g \in Seg |-> "none"] /\ held = [g \in Seg |-> {}]
  /\ flock_fd = [p \in Proc |-> NoDesc] /\ flock_pid = [p \in Proc |-> Master]
  /\ fds = [p \in Proc |-> {}]
  /\ inside = [p \in Proc |-> "no"] /\ orderly = TRUE /\ untidy = {}

(* The descriptor that was in mm_flock_fd is not closed.                   *)
OpenDesc(p, g) ==
  LET d == [seg |-> g, by |-> p] IN
  /\ flock_fd' = [flock_fd EXCEPT ![p] = d]
  /\ flock_pid' = [flock_pid EXCEPT ![p] = p]
  /\ fds' = [fds EXCEPT ![p] = @ \cup {d}]

(* mm_create: a segment and its lock; an Apache waits until it has         *)
(* detached itself, and is started again.                                  *)
Create(g) ==
  /\ Master \in alive /\ ~ up /\ g \in Seg /\ g = made + 1
  /\ ~ apache \/ Master \in leader
  /\ up' = TRUE /\ made' = g
  /\ sem' = [sem EXCEPT ![g] = "there"]
  /\ IF kind = "flock"
       THEN OpenDesc(Master, g)
       ELSE UNCHANGED flock
  /\ UNCHANGED <<build, who, held, inside, orderly>>

InitMM(g) ==
  /\ Create(g)
  /\ instance' = [instance EXCEPT ![Master] = g]
  /\ UNCHANGED untidy

(* The segment has no room for ea_mm_instance, or cannot be locked; nobody *)
(* destroys what was created.                                              *)
InitMMFails(g) ==
  /\ Create(g)
  /\ instance' = [instance EXCEPT ![Master] = 0]
  /\ untidy' = untidy \cup {g}

(* A child has what its parent has, the descriptors included, unless the   *)
(* server makes it another user's: the semaphore is for its creator and    *)
(* for EA_USERID, the file that mkstemp makes for its creator alone.  (The *)
(* name of a process is not used again while somebody has what it has      *)
(* opened.)                                                                *)
Admits == kind \notin {"sysvipc", "flock"}

Fork(q, p) ==
  /\ p \in Workers \ alive /\ Serves(q) /\ inside[q] = "no"
  /\ \A o \in alive : \A d \in fds[o] : d.by # p
  /\ alive' = alive \cup {p} /\ leader' = leader \ {p}
  /\ foreign' \in {foreign \ {p}, foreign \cup {p}}
  /\ p \in foreign' => ~ Admits /\ (q = Master \/ q \in foreign)
  /\ q \in foreign => p \in foreign'
  /\ instance' = [instance EXCEPT ![p] = instance[q]]
  /\ flock_fd' = [flock_fd EXCEPT ![p] = flock_fd[q]]
  /\ flock_pid' = [flock_pid EXCEPT ![p] = flock_pid[q]]
  /\ fds' = [fds EXCEPT ![p] = fds[q]]
  /\ UNCHANGED <<build, up, made, sem, held, inside, orderly, untidy>>

(* A server detaches itself (setsid); a script may do the same.            *)
Lead(p) ==
  /\ p \in alive \ leader
  /\ leader' = leader \cup {p}
  /\ orderly' = (orderly /\ p = Master)
  /\ UNCHANGED <<build, alive, foreign, up, instance, made, lock, inside,
                 untidy>>

(* flock: whoever has no description of its own opens one, if it may.      *)
NeedsFdBug(p) == kind = "flock" /\ flock_fd[p] = NoDesc

NeedsFd(p) == kind = "flock" /\ (flock_fd[p] = NoDesc \/ flock_pid[p] # p)

OpenLock(p) ==
  /\ Serves(p) /\ inside[p] = "no" /\ NeedsFd(p)
  /\ sem[instance[p]] = "there" /\ p \notin foreign
  /\ OpenDesc(p, instance[p])
  /\ UNCHANGED <<build, who, up, instance, made, sem, held, inside, orderly,
                 untidy>>

Holder(p) ==
  IF kind = "flock" THEN flock_fd[p] ELSE [seg |-> instance[p], by |-> p]

(* EACCELERATOR_LOCK_RW: a description that holds the lock gets it again.  *)
DoLock(p) ==
  /\ Serves(p) /\ inside[p] = "no" /\ ~ NeedsFd(p)
  /\ kind = "sysvipc" => sem[instance[p]] = "there" /\ p \notin foreign
  /\ held[instance[p]] \subseteq (IF kind = "flock" THEN {Holder(p)} ELSE {})
  /\ held' = [held EXCEPT ![instance[p]] = {Holder(p)}]
  /\ inside' = [inside EXCEPT ![p] = "locked"]
  /\ UNCHANGED <<build, who, up, instance, made, sem, flock, orderly, untidy>>

(* Of a lock that was removed, mm_do_lock gets an error, unless flock has  *)
(* the file open; a mutex that was destroyed may also do as before.  Of a  *)
(* lock that is there, semop gives an error to other users, and open does, *)
(* or to a process that may not open any more files.  EACCELERATOR_LOCK_RW *)
(* does not listen: the section is run regardless.                         *)
LockFails(p) ==
  /\ Serves(p) /\ inside[p] = "no"
  /\ \/ /\ sem[instance[p]] = "removed"
        /\ kind \in {"sysvipc", "pthread"} \/ NeedsFd(p)
        /\ inside' = [inside EXCEPT ![p] = "unlocked"]
     \/ /\ sem[instance[p]] = "there"
        /\ (kind = "sysvipc" /\ p \in foreign) \/ NeedsFd(p)
        /\ inside' = [inside EXCEPT ![p] = "denied"]
  /\ IF kind = "flock" THEN flock_fd' = [flock_fd EXCEPT ![p] = NoDesc]
                       ELSE UNCHANGED flock_fd
  /\ UNCHANGED <<build, who, up, instance, made, sem, held, flock_pid, fds,
                 orderly, untidy>>

(* Who was refused the lock is refused its release.  (mm_do_unlock opens   *)
(* flock's file once more when mm_flock_fd is -1.  That description holds  *)
(* nothing and, as mm_flock_pid stays, the next mm_do_lock opens another   *)
(* one: it is left out here.)                                              *)
DoUnlock(p) ==
  /\ p \in alive /\ inside[p] # "no"
  /\ held' = [held EXCEPT ![instance[p]] =
                IF inside[p] = "locked" THEN {} ELSE @]
  /\ inside' = [inside EXCEPT ![p] = "no"]
  /\ UNCHANGED <<build, who, up, instance, made, sem, flock, orderly, untidy>>

(* shutdown_mm: whoever leads its group destroys the lock, if it may.      *)
Removed(p) ==
  {left \in {"removed", sem[instance[p]]} :
     /\ p \notin foreign => left = "removed"
     /\ p \in foreign /\ kind = "sysvipc" => left = sem[instance[p]]}

ShutdownMMBug(p) ==
  /\ sem' = [sem EXCEPT ![instance[p]] = "removed"]
  /\ fds' = [fds EXCEPT ![p] = @ \ {flock_fd[p]}]
  /\ flock_fd' = [flock_fd EXCEPT ![p] = NoDesc]
  /\ instance' = [instance EXCEPT ![p] = 0]

ShutdownMMNullBug(p) ==
  IF p \in leader
    THEN /\ UNCHANGED <<sem, flock_fd, fds>>
         /\ instance' = [instance EXCEPT ![p] = 0]
    ELSE UNCHANGED <<sem, flock_fd, fds, instance>>

ShutdownMM(p) ==
  IF p \in leader
    THEN /\ \E left \in Removed(p) : sem' = [sem EXCEPT ![instance[p]] = left]
         /\ fds' = [fds EXCEPT ![p] = @ \ {flock_fd[p]}]
         /\ flock_fd' = [flock_fd EXCEPT ![p] = NoDesc]
         /\ instance' = [instance EXCEPT ![p] = 0]
    ELSE UNCHANGED <<sem, flock_fd, fds, instance>>

MShutdown(p) ==
  IF instance[p] # 0 THEN ShutdownMM(p)
                     ELSE UNCHANGED <<sem, flock_fd, fds, instance>>

(* When p is gone, the system gives back what only p held: a flock stays   *)
(* while another process has the description.                              *)
Left(g, p) ==
  CASE kind = "flock" ->
         {h \in held[g] : \E q \in alive \ {p} : h \in fds[q]}
    [] kind \in {"sysvipc", "fcntl"} -> {h \in held[g] : h.by # p}
    [] OTHER -> held[g]

(* The master stops the module, and ends or starts it again; what it has   *)
(* not destroyed by then it does not destroy later.                        *)
Stop ==
  /\ Master \in alive /\ up /\ inside[Master] = "no"
  /\ MShutdown(Master)
  /\ up' = FALSE
  /\ orderly' = (orderly /\ (instance[Master] = 0 \/
                              Users(instance[Master]) \subseteq {Master}))
  /\ untidy' = IF Master \in leader THEN untidy
                                    ELSE untidy \cup ({instance[Master]} \ {0})
  /\ UNCHANGED <<build, who, made, held, flock_pid, inside>>

Quit ==
  /\ Master \in alive /\ ~ up /\ made > 0
  /\ alive' = alive \ {Master}
  /\ held' = [g \in Seg |-> Left(g, Master)]
  /\ UNCHANGED <<build, foreign, leader, up, instance, made, sem, flock, inside,
                 orderly, untidy>>

(* A worker ends; MSHUTDOWN runs there as well.                            *)
End(p) ==
  /\ p \in Workers \cap alive /\ inside[p] = "no"
  /\ MShutdown(p)
  /\ alive' = alive \ {p}
  /\ held' = [g \in Seg |-> Left(g, p)]
  /\ UNCHANGED <<build, foreign, leader, up, made, flock_pid, inside, orderly,
                 untidy>>

Kill(p) ==
  /\ p \in alive
  /\ alive' = alive \ {p} /\ inside' = [inside EXCEPT ![p] = "no"]
  /\ held' = [g \in Seg |-> Left(g, p)]
  /\ untidy' = IF p # Master THEN untidy
                             ELSE untidy \cup ({instance[Master]} \ {0})
  /\ UNCHANGED <<build, foreign, leader, up, instance, made, sem, flock,
                 orderly>>

Next ==
  \/ \E g \in Seg : InitMM(g) \/ InitMMFails(g)
  \/ Stop \/ Quit
  \/ \E p, q \in Proc : Fork(q, p)
  \/ \E p \in Proc :
       \/ Lead(p) \/ OpenLock(p) \/ DoLock(p) \/ LockFails(p)
       \/ DoUnlock(p) \/ End(p) \/ Kill(p)

Spec == Init /\ [][Next]_vars
-----------------------------------------------------------------------------
TypeOK ==
  /\ kind \in Kinds /\ apache \in BOOLEAN /\ up \in BOOLEAN
  /\ alive \subseteq Proc /\ foreign \subseteq Workers /\ leader \subseteq Proc
  /\ instance \in [Proc -> 0 .. made] /\ made \in 0 .. MaxSeg
  /\ sem \in [Seg -> {"none", "there", "removed"}]
  /\ held \in [Seg -> SUBSET Desc]
  /\ flock_fd \in [Proc -> Desc] /\ flock_pid \in [Proc -> Proc]
  /\ fds \in [Proc -> SUBSET Desc]
  /\ inside \in [Proc -> {"no", "locked", "unlocked", "denied"}]
  /\ orderly \in BOOLEAN /\ untidy \subseteq Seg
  /\ \A p \in Proc : inside[p] # "no" => p \in alive /\ instance[p] # 0

(* A lock that the system gives back is held by who is in a section, or,   *)
(* flock's, by what a dead process has left to its children: nobody waits  *)
(* for anything else.                                                      *)
Accounted ==
  kind \notin {"spinlock", "pthread"} =>
    \A g \in Seg : \A h \in held[g] :
      \/ /\ inside[h.by] = "locked" /\ instance[h.by] = g
         /\ Holder(h.by) = h
      \/ /\ kind = "flock" /\ h.by \notin alive
         /\ \E q \in alive : h \in fds[q]

(* What two processes are let into at once are sections of two segments:   *)
(* locks work across fork, and across a restart with processes of the old  *)
(* server still there.                                                     *)
ExclusiveOverFork ==
  \A p, q \in Proc :
    p # q /\ inside[p] = "locked" /\ inside[q] = "locked" =>
      instance[p] # instance[q]

(* No process runs a section unlocked, whichever way the others end, while *)
(* the server stops the module last and leads the only group; but for who  *)
(* is refused the semaphore as another user, or has yet to open the file   *)
(* that flock locks: once a process has had the lock, it is not denied.    *)
AlwaysLocked ==
  \A p \in Proc :
    /\ inside[p] = "unlocked" => ~ orderly /\ kind \notin {"spinlock", "fcntl"}
    /\ inside[p] = "denied" =>
         \/ kind = "sysvipc" /\ p \in foreign
         \/ kind = "flock" /\ p # Master /\ flock_pid[p] # p

(* When the last process is gone, no semaphore and no lock file remains,   *)
(* unless the master was killed, did not lead its group when it stopped    *)
(* the module, or failed in the middle of init_mm.                         *)
NothingLeft ==
  alive = {} /\ kind \in {"sysvipc", "flock"} =>
    \A g \in Seg : sem[g] = "there" => g \in untidy
=============================================================================
