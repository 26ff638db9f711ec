------------------------------ MODULE ShmLock ------------------------------
(***************************************************************************)
(* The lock of the shared memory segment: mm_do_lock and mm_do_unlock of   *)
(* mm.c in the builds that configure chooses from, whether they are for    *)
(* threads or not, the mutex that a build for threads takes first, the     *)
(* sections of code that run under them, and what becomes of them when a   *)
(* process dies or a request is torn out of a section: by a signal         *)
(* (eaccelerator_crash_handler), by the time limit or by a client that     *)
(* went away (PHP's bailout; nothing blocks it, and the module information *)
(* page prints while it holds the lock).  A lock that is there can be had: *)
(* module Segment has those that fail for other reasons.                   *)
(***************************************************************************)
EXTENDS Integers, FiniteSets

CONSTANTS
  Thread,    (* threads that run requests                                    *)
  Process,   (* the processes they belong to: one each, unless built for ZTS *)
  Layout,    (* ways to spread the threads over processes: [Thread -> Process] *)
  None,
  Runs,      (* bound: the sections each thread runs, [Thread -> SUBSET Section] *)
  MaxFault   (* bound: deaths and torn requests                              *)

ASSUME LockAssumption ==
  /\ None \notin Thread /\ MaxFault \in Nat
  /\ Layout \subseteq [Thread -> Process]

VARIABLES
  kind,      (* MM_SEM_...: the implementation that configure chose          *)
  proc,      (* the process of each thread                                   *)
  mutex,     (* ea_mutex: the thread that holds it, for each process         *)
  held,      (* the lock: who holds it, for reading or for writing           *)
  fd,        (* mm_flock_fd of each process, by the thread that opened it;   *)
             (* None: not opened yet (it may be the parent's)                *)
  via,       (* in whose name a thread waits for the lock, or has got it     *)
  data,      (* what it protects: "whole", "half" changed, left "broken"     *)
  pc,
  section,   (* the section a thread runs, or is to run                      *)
  torn,      (* it cleans up after a request that was torn: see TearOut      *)
  left,      (* where the system gives locks back: the processes that have   *)
             (* one still, which a torn request did not release              *)
  faults

build == <<kind, proc>>
vars  == <<build, mutex, held, fd, via, data, pc, section, torn, left, faults>>

(* Sections: of the tables (EACCELERATOR_LOCK_RW, EACCELERATOR_LOCK_RD)    *)
(* which take ea_mutex in a build for threads (ZTS_LOCK), and of mm.c's    *)
(* own (mm_malloc_lock, mm_free_lock; mm_available, mm_maxsize), which     *)
(* take no mutex.                                                          *)
Section == [mutex : BOOLEAN, mode : {"RD", "RW"}]
NoSection == [mutex |-> FALSE, mode |-> "RD"]

(* A word and mutexes know neither readers nor owners; the system knows    *)
(* which process holds a semaphore, or a lock on a file.                   *)
WordKinds == {"spinlock", "pthread"}
FileKinds == {"fcntl", "flock"}
Kinds     == WordKinds \cup {"sysvipc"} \cup FileKinds

(* configure does not look at ZTS when it chooses.                         *)
ZTS == \E a, b \in Thread : a # b /\ proc[a] = proc[b]

Inside  == {"in", "half", "done"}
Waiting == {"mutex", "lock", "open", "wait"}

(* Whom the lock belongs to, in the eyes of the system: a thread; for      *)
(* flock, who has opened the file that the process has in mm_flock_fd; or  *)
(* the process.                                                            *)
Owner(a) == CASE kind \in WordKinds -> a
              [] kind = "flock"     -> fd[proc[a]]
              [] OTHER              -> proc[a]

Init ==
  /\ proc \in Layout /\ kind \in Kinds
  /\ mutex = [p \in Process |-> None]
  /\ held = {} /\ fd = [p \in Process |-> None]
  /\ via = [a \in Thread |-> None]
  /\ data = "whole" /\ faults = 0
  /\ pc = [a \in Thread |-> "idle"]
  /\ section = [a \in Thread |-> NoSection]
  /\ torn = [a \in Thread |-> FALSE] /\ left = {}

Go(a, label) == pc' = [pc EXCEPT ![a] = label]

Start(a, label, s) ==
  /\ Go(a, label)
  /\ section' = [section EXCEPT ![a] = s]
  /\ via' = [via EXCEPT ![a] = None]

Leave(a) == Start(a, "idle", NoSection)

(* mm_do_lock of flock: a process opens the file when it first needs it.   *)
(* Two threads may find that it has not, and both do; what the first has   *)
(* opened is not closed.                                                   *)
First(a) == IF kind = "flock" /\ fd[proc[a]] = None THEN "open" ELSE "lock"

Enter(a, s) == Start(a, IF s.mutex THEN "mutex" ELSE First(a), s)

Begin(a) ==
  /\ pc[a] = "idle"
  /\ \E s \in Section \cap Runs[a] : (s.mutex => ZTS) /\ Enter(a, s)
  /\ UNCHANGED <<build, mutex, held, fd, data, torn, left, faults>>

(* tsrm_mutex_lock: not recursive.                                         *)
ZtsLock(a) ==
  /\ pc[a] = "mutex" /\ mutex[proc[a]] = None
  /\ mutex' = [mutex EXCEPT ![proc[a]] = a]
  /\ Go(a, First(a))
  /\ UNCHANGED <<build, held, fd, via, data, section, torn, left, faults>>

OpenFile(a) ==
  /\ pc[a] = "open"
  /\ fd' = [fd EXCEPT ![proc[a]] = a]
  /\ Go(a, "lock")
  /\ UNCHANGED <<build, mutex, held, via, data, section, torn, left, faults>>

(* mm_do_lock.  A word, a mutex and a semaphore are waited for by whoever  *)
(* finds them taken, by their holder as well.  Locks on a file are shared  *)
(* by readers, and who has one already, be it for another thread, has it   *)
(* converted.                                                              *)
Asks(a) == IF pc[a] = "wait" THEN via[a] ELSE Owner(a)

Others(a) == {h \in held : h.who # Asks(a)}

GrantableBug(a) ==
  IF kind \in FileKinds THEN \A h \in Others(a) : h.mode = "RD"
                        ELSE held = {}

Grantable(a) ==
  IF kind \in FileKinds
    THEN \A h \in Others(a) : section[a].mode = "RD" /\ h.mode = "RD"
    ELSE held = {}

DoLock(a) ==
  /\ pc[a] \in {"lock", "wait"}
  /\ Grantable(a)
  /\ held' = Others(a) \cup {[who |-> Asks(a), mode |-> section[a].mode]}
  /\ via' = [via EXCEPT ![a] = Asks(a)]
  /\ Go(a, "in")
  /\ UNCHANGED <<build, mutex, fd, data, section, torn, left, faults>>

(* flock lets go of the lock it cannot convert, and waits for the file it  *)
(* was called with.                                                        *)
LetGo(a) ==
  /\ pc[a] = "lock" /\ ~ Grantable(a) /\ kind = "flock"
  /\ held' = Others(a)
  /\ via' = [via EXCEPT ![a] = Asks(a)]
  /\ Go(a, "wait")
  /\ UNCHANGED <<build, mutex, fd, data, section, torn, left, faults>>

(* fcntl keeps it, and fails when two processes wait to convert theirs     *)
(* (EDEADLK).  mm_lock says so, EACCELERATOR_LOCK_RW does not listen: the  *)
(* section is run regardless.                                              *)
Refuse(a) ==
  /\ pc[a] = "lock" /\ ~ Grantable(a)
  /\ kind = "fcntl" /\ held # Others(a)
  /\ \E b \in Thread : /\ pc[b] = "lock" /\ section[b].mode = "RW"
                       /\ \E h \in Others(a) : h.who = Owner(b)
  /\ via' = [via EXCEPT ![a] = Asks(a)]
  /\ Go(a, "in")
  /\ UNCHANGED <<build, mutex, held, fd, data, section, torn, left, faults>>

Refused(a) ==
  /\ kind = "fcntl" /\ section[a].mode = "RW" /\ pc[a] \in Inside
  /\ [who |-> Owner(a), mode |-> "RD"] \in held

(* A section that writes leaves the lists half changed for a while; two at *)
(* once spoil them.                                                        *)
Write(a) ==
  /\ pc[a] = "in" /\ section[a].mode = "RW"
  /\ data' = IF data = "whole" THEN "half" ELSE "broken"
  /\ Go(a, "half")
  /\ UNCHANGED <<build, mutex, held, fd, via, section, torn, left, faults>>

Complete(a) ==
  /\ pc[a] = "half"
  /\ data' = IF data = "half" THEN "whole" ELSE data
  /\ Go(a, "done")
  /\ UNCHANGED <<build, mutex, held, fd, via, section, torn, left, faults>>

(* The process is gone: what it waits for, or does, with it, and its       *)
(* mutex.  A word and a mutex in shared memory stay as they are; SEM_UNDO  *)
(* and the closing of files release the others.                            *)
UndoneBug(p) ==
  IF kind \in FileKinds THEN {h \in held : h.who # p} ELSE held

Undone(p) ==
  CASE kind \in WordKinds -> held
    [] kind = "flock"     -> {h \in held : proc[h.who] # p}
    [] OTHER              -> {h \in held : h.who # p}

Broken(Q) ==
  IF \E b \in Q : pc[b] = "half" /\ data = "half" THEN "broken" ELSE data

Gone(p, h) ==
  LET Q == {b \in Thread : proc[b] = p} IN
  /\ held' = h
  /\ data' = Broken(Q)
  /\ mutex' = [mutex EXCEPT ![p] = None]
  /\ fd' = [fd EXCEPT ![p] = None]
  /\ via' = [b \in Thread |-> IF b \in Q THEN None ELSE via[b]]
  /\ pc' = [b \in Thread |-> IF b \in Q THEN "idle" ELSE pc[b]]
  /\ section' = [b \in Thread |-> IF b \in Q THEN NoSection ELSE section[b]]
  /\ torn' = [b \in Thread |-> b \notin Q /\ torn[b]]
  /\ left' = left \ {p}

(* The process a lock is held by.                                          *)
Keeper(h) == IF h.who \in Thread THEN proc[h.who] ELSE h.who

(* mm_do_unlock, and tsrm_mutex_unlock after it.  The spinlock is cleared  *)
(* whoever has it; a lock on a file is released for every thread that has  *)
(* it.  The crash handler ends with the death of the process.              *)
Released(a) ==
  IF kind = "spinlock" THEN {} ELSE {h \in held : h.who # Owner(a)}

LastBug(a) == IF section[a].mode = "RD" THEN "in" ELSE "half"

Last(a) == IF section[a].mode = "RD" THEN "in" ELSE "done"

Unlock(a) ==
  /\ pc[a] = Last(a)
  /\ \/ torn[a] /\ Gone(proc[a], Released(a) \cap Undone(proc[a]))
     \/ /\ held' = Released(a)
        /\ torn' = [torn EXCEPT ![a] = FALSE]
        /\ mutex' = IF section[a].mutex
                      THEN [mutex EXCEPT ![proc[a]] = None] ELSE mutex
        /\ Leave(a)
        /\ left' = {p \in left : \E h \in Released(a) : Keeper(h) = p}
        /\ UNCHANGED <<fd, data>>
  /\ UNCHANGED <<build, faults>>

(* The request is torn out of a section, as little unlocked as finished.   *)
(* eaccelerator_clean_request, in the crash handler or when PHP ends the   *)
(* request, takes the lock if the request has used entries; if not, the    *)
(* process dies (Kill) or goes on to its next request.                     *)
TearOut(a) ==
  /\ pc[a] \in Inside /\ ~ torn[a] /\ faults < MaxFault
  /\ faults' = faults + 1
  /\ left' = IF kind \in WordKinds THEN {} ELSE left \cup {proc[a]}
  /\ data' = Broken({a})
  /\ \/ /\ torn' = [torn EXCEPT ![a] = TRUE]
        /\ Enter(a, [mutex |-> ZTS, mode |-> "RW"])
     \/ Leave(a) /\ UNCHANGED torn
  /\ UNCHANGED <<build, mutex, held, fd>>

(* A process is killed.                                                    *)
Kill(p) ==
  /\ faults < MaxFault
  /\ \E b \in Thread :
       /\ proc[b] = p
       /\ pc[b] # "idle" \/ mutex[p] = b \/ \E h \in held : h.who = Owner(b)
  /\ faults' = faults + 1
  /\ Gone(p, Undone(p))
  /\ UNCHANGED build

Work(a) ==
  \/ OpenFile(a) \/ LetGo(a) \/ Refuse(a)
  \/ Write(a) \/ Complete(a) \/ Unlock(a)

Acquire(a) == ZtsLock(a) \/ DoLock(a)

Next ==
  \/ \E a \in Thread :
       Begin(a) \/ Acquire(a) \/ Work(a) \/ TearOut(a)
  \/ \E p \in Process : Kill(p)

Spec == Init /\ [][Next]_vars

(* The scheduler runs who can run; who waits for a lock that is free again *)
(* and again (a spinlock sleeps and tries, the kernel wakes) gets it.      *)
FairSpec ==
  /\ Spec
  /\ \A a \in Thread : WF_vars(Work(a)) /\ SF_vars(Acquire(a))
-----------------------------------------------------------------------------
(* Who does not hold the lock in whose name it entered.                    *)
Bare(a) ==
  /\ pc[a] \in Inside
  /\ [who |-> via[a], mode |-> section[a].mode] \notin held

(* A file lock does not know the threads of a process from each other.     *)
HasSiblings(a) == \E b \in Thread \ {a} : proc[b] = proc[a]

(* Types; and whoever is in a section holds what it is to hold there: the  *)
(* lock, unless fcntl refused it or a thread of the same process has let   *)
(* go of the file, and ea_mutex in a build for threads.                    *)
TypeOK ==
  /\ kind \in Kinds /\ proc \in [Thread -> Process]
  /\ mutex \in [Process -> Thread \cup {None}]
  /\ held \in SUBSET [who : Thread \cup Process, mode : {"RD", "RW"}]
  /\ fd \in [Process -> Thread \cup {None}]
  /\ via \in [Thread -> Thread \cup Process \cup {None}]
  /\ data \in {"whole", "half", "broken"} /\ faults \in Nat
  /\ pc \in [Thread -> Inside \cup Waiting \cup {"idle"}]
  /\ section \in [Thread -> Section]
  /\ torn \in [Thread -> BOOLEAN] /\ left \subseteq Process
  /\ \A a \in Thread : pc[a] \in Inside =>
       /\ Bare(a) => Refused(a) \/ (kind \in FileKinds /\ HasSiblings(a))
       /\ section[a].mutex => ZTS /\ mutex[proc[a]] = a

(* Threads that a lock on a file lets in together: of one process, and not *)
(* both behind its mutex.                                                  *)
Together(a, b) ==
  /\ kind \in FileKinds /\ proc[a] = proc[b]
  /\ ~ (section[a].mutex /\ section[b].mutex)

(* MM_LOCK_RW excludes everybody, whichever implementation was built in,   *)
(* with or without the mutex, after any number of deaths and torn requests. *)
(* Who is not excluded runs Together with the other or is Bare; the word,  *)
(* the mutex and the semaphore let nobody be either.                       *)
Exclusive ==
  \A a, b \in Thread :
    a # b /\ pc[a] \in Inside /\ pc[b] \in Inside =>
      \/ section[a].mode = "RD" /\ section[b].mode = "RD"
      \/ Bare(a) \/ Bare(b) \/ Together(a, b)

(* Nobody enters a section while the data are being changed, but by who is *)
(* Bare or is to run Together with it.  Broken data are behind the lock    *)
(* for ever where the lock is a word or a mutex, and in the way of the     *)
(* next process elsewhere; it takes a fault, or writers of the kind that   *)
(* are not excluded, to break them.                                        *)
WholeOnEntry ==
  [][\A a \in Thread :
       pc[a] \in {"lock", "wait"} /\ pc'[a] = "in" =>
         \/ data = "whole"
         \/ /\ data = "half"
            /\ \E b \in Thread : pc[b] = "half" /\ (Bare(b) \/ Together(a, b))
         \/ /\ data = "broken" /\ kind \notin WordKinds
            /\ faults > 0 \/ kind = "fcntl" \/ (kind = "flock" /\ ZTS)]_vars

(* Why a thread may wait in vain.  The lock is taken, and nobody will      *)
(* release it: who had the spinlock or the pthread mutex has died or was   *)
(* torn out; was torn out with the semaphore, and waits for itself; was    *)
(* torn out with a file locked and has nothing to do, or waits, for        *)
(* ea_mutex or for a file that was opened twice; or has locked the file in *)
(* a name that went when another thread opened it anew.  Who was torn out  *)
(* with ea_mutex will not leave it again.  Or readers of a file, for which *)
(* writers do not matter, take turns.  Nobody waits for a semaphore or a   *)
(* file because of a death.                                                *)
Orphaned(h) ==
  \/ kind \in WordKinds \/ Keeper(h) \in left
  \/ kind = "flock" /\ HasSiblings(h.who)

Abandoned(h) ==
  /\ Orphaned(h)
  /\ \A b \in Thread : Owner(b) = h.who =>
       IF kind \in FileKinds
         THEN pc[b] \in {"idle", "mutex"} \/ (pc[b] = "wait" /\ via[b] # h.who)
         ELSE pc[b] \notin Inside

Stuck(a) ==
  \/ \E h \in held : Abandoned(h)
  \/ \E b \in Thread :
       /\ mutex[proc[a]] = b
       /\ pc[b] \in {"idle", "mutex"} \/ ~ section[b].mutex
  \/ /\ kind \in FileKinds
     /\ \E b \in {a, mutex[proc[a]]} \ {None} : section[b].mode = "RW"
     /\ \E b \in Thread : pc[b] = "in" /\ section[b].mode = "RD"

(* Whoever waits gets in, or is Stuck: where the lock is a semaphore or a  *)
(* file, however many processes are killed while they hold it.             *)
WaitersGetIn ==
  \A a \in Thread :
    (pc[a] \in Waiting) ~> (pc[a] \notin Waiting \/ Stuck(a))
=============================================================================
