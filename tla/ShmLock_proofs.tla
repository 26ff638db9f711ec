--------------------------- MODULE ShmLock_proofs ---------------------------
(***************************************************************************)
(* Proofs about module ShmLock, for any number of threads and processes,   *)
(* spread in any way, and any number of faults.                            *)
(***************************************************************************)
EXTENDS ShmLock, TLAPS

-----------------------------------------------------------------------------
(* What a is to hold in a section.                                         *)
Grip(a) == [who |-> via[a], mode |-> section[a].mode]

(* A process that has asked for the lock of a file has opened the file,    *)
(* itself.                                                                 *)
OpenedOwn ==
  /\ \A p \in Process : fd[p] # None => proc[fd[p]] = p
  /\ kind = "flock" =>
       \A a \in Thread : pc[a] \in {"lock", "wait"} => fd[proc[a]] # None

(* A thread waits, and has entered, in its own name or that of its process. *)
InName ==
  \A a \in Thread :
    /\ pc[a] = "wait" => kind = "flock"
    /\ pc[a] \in Inside \cup {"wait"} =>
         IF kind = "flock" THEN via[a] \in Thread /\ proc[via[a]] = proc[a]
                           ELSE via[a] = Owner(a)

(* The locks that are not on files are for one thread at a time, whoever   *)
(* has left them taken.                                                    *)
OneInside ==
  kind \notin FileKinds =>
    \A a \in Thread : pc[a] \in Inside =>
      /\ held = {Grip(a)}
      /\ \A b \in Thread : pc[b] \in Inside => a = b

(* A file is locked for one writer, or for readers.                        *)
WriterAlone ==
  kind \in FileKinds => \A h \in held : h.mode = "RW" => held = {h}

(* ea_mutex is held from before the lock is asked for.                     *)
MutexHeld ==
  \A a \in Thread :
    pc[a] \in Inside \cup {"open", "lock", "wait"} /\ section[a].mutex =>
      mutex[proc[a]] = a

(* ... which there is in a build for threads.                              *)
OnlyZTS == \A a \in Thread : section[a].mutex => ZTS

(* Data are half changed while somebody is at it.                          *)
HalfWritten ==
  /\ \A a \in Thread : pc[a] \in {"half", "done"} => section[a].mode = "RW"
  /\ data = "half" => \E a \in Thread : pc[a] = "half"

(* Where the system gives nothing back, broken data are locked up.         *)
LockedUp ==
  data = "broken" /\ kind \in WordKinds =>
    held # {} /\ \A a \in Thread : pc[a] \notin Inside

(* What it takes to break the data, and to clean up.                       *)
Reasons ==
  /\ data = "broken" =>
       faults > 0 \/ kind = "fcntl" \/ (kind = "flock" /\ ZTS)
  /\ \A a \in Thread : torn[a] => faults > 0

Inv == /\ TypeOK /\ OpenedOwn /\ InName /\ OneInside /\ WriterAlone
       /\ MutexHeld /\ OnlyZTS /\ HalfWritten /\ LockedUp /\ Reasons

-----------------------------------------------------------------------------
LEMMA InvInit == Init => Inv
<1> SUFFICES ASSUME Init PROVE Inv
  OBVIOUS
<1> USE LockAssumption DEF Init
<1>1. NoSection \in Section
  BY DEF NoSection, Section
<1>2. TypeOK
  BY <1>1 DEF TypeOK, Inside
<1> QED
  BY <1>2 DEF Inv, OpenedOwn, InName, OneInside, WriterAlone, MutexHeld,
     OnlyZTS, HalfWritten, LockedUp, Reasons, Inside, NoSection

(* Whoever opens the file does so for its own process.                     *)
LEMMA OpenedNext ==
  ASSUME Inv, [Next]_vars
  PROVE  OpenedOwn'
<1> USE DEF Inv, TypeOK, Inside, Section, NoSection, build, OpenedOwn
<1>1. ASSUME NEW a \in Thread, Begin(a)  PROVE OpenedOwn'
  BY <1>1 DEF Begin, Enter, First, Start, Go
<1>2. ASSUME NEW a \in Thread, ZtsLock(a)  PROVE OpenedOwn'
  BY <1>2 DEF ZtsLock, First, Go
<1>3. ASSUME NEW a \in Thread, OpenFile(a)  PROVE OpenedOwn'
  BY <1>3, LockAssumption DEF OpenFile, Go
<1>4. ASSUME NEW a \in Thread, DoLock(a)  PROVE OpenedOwn'
  BY <1>4 DEF DoLock, Grantable, Others, Asks, Owner, Go
<1>5. ASSUME NEW a \in Thread, LetGo(a)  PROVE OpenedOwn'
  BY <1>5 DEF LetGo, Grantable, Others, Asks, Owner, Go
<1>6. ASSUME NEW a \in Thread, Refuse(a)  PROVE OpenedOwn'
  BY <1>6 DEF Refuse, Grantable, Others, Asks, Owner, Go
<1>7. ASSUME NEW a \in Thread, Write(a)  PROVE OpenedOwn'
  BY <1>7 DEF Write, Go
<1>8. ASSUME NEW a \in Thread, Complete(a)  PROVE OpenedOwn'
  BY <1>8 DEF Complete, Go
<1>9. ASSUME NEW a \in Thread, Unlock(a)  PROVE OpenedOwn'
  BY <1>9 DEF Unlock, Last, Released, Owner, Undone, Gone,
     Broken, Leave, Start, Go
<1>10. ASSUME NEW a \in Thread, TearOut(a)  PROVE OpenedOwn'
  BY <1>10 DEF TearOut, Broken, Enter, First, Leave, Start, Go
<1>11. ASSUME NEW p \in Process, Kill(p)  PROVE OpenedOwn'
  BY <1>11 DEF Kill, Gone, Undone, Broken, Owner
<1>12. CASE UNCHANGED vars
  BY <1>12 DEF vars
<1> QED
  BY <1>1, <1>2, <1>3, <1>4, <1>5, <1>6, <1>7, <1>8, <1>9, <1>10, <1>11, <1>12
     DEF Next, Acquire, Work

(* The name in which a thread asks is one of its own process.              *)
LEMMA NameNext ==
  ASSUME Inv, [Next]_vars
  PROVE  InName'
<1> USE DEF Inv, TypeOK, Inside, Section, NoSection, build, OpenedOwn, InName,
     Owner
<1>1. ASSUME NEW a \in Thread, Begin(a)  PROVE InName'
  BY <1>1 DEF Begin, Enter, First, Start, Go
<1>2. ASSUME NEW a \in Thread, ZtsLock(a)  PROVE InName'
  BY <1>2 DEF ZtsLock, First, Go
<1>3. ASSUME NEW a \in Thread, OpenFile(a)  PROVE InName'
  BY <1>3 DEF OpenFile, Go
<1>4. ASSUME NEW a \in Thread, DoLock(a)  PROVE InName'
  BY <1>4 DEF DoLock, Grantable, Others, Asks, Owner, Go
<1>5. ASSUME NEW a \in Thread, LetGo(a)  PROVE InName'
  BY <1>5 DEF LetGo, Grantable, Others, Asks, Owner, Go
<1>6. ASSUME NEW a \in Thread, Refuse(a)  PROVE InName'
  BY <1>6 DEF Refuse, Grantable, Others, Asks, Owner, Go
<1>7. ASSUME NEW a \in Thread, Write(a)  PROVE InName'
  BY <1>7 DEF Write, Go
<1>8. ASSUME NEW a \in Thread, Complete(a)  PROVE InName'
  BY <1>8 DEF Complete, Go
<1>9. ASSUME NEW a \in Thread, Unlock(a)  PROVE InName'
  BY <1>9 DEF Unlock, Last, Released, Owner, Undone, Gone,
     Broken, Leave, Start, Go
<1>10. ASSUME NEW a \in Thread, TearOut(a)  PROVE InName'
  BY <1>10 DEF TearOut, Broken, Enter, First, Leave, Start, Go
<1>11. ASSUME NEW p \in Process, Kill(p)  PROVE InName'
  BY <1>11 DEF Kill, Gone, Undone, Broken, Owner
<1>12. CASE UNCHANGED vars
  BY <1>12 DEF vars
<1> QED
  BY <1>1, <1>2, <1>3, <1>4, <1>5, <1>6, <1>7, <1>8, <1>9, <1>10, <1>11, <1>12
     DEF Next, Acquire, Work

(* Nobody enters while the lock is taken.                                  *)
LEMMA InsideNext ==
  ASSUME Inv, [Next]_vars
  PROVE  OneInside'
<1> USE DEF Inv, TypeOK, Inside, Section, NoSection, build, InName, OneInside,
     Grip, WordKinds, FileKinds, Kinds
<1>1. ASSUME NEW a \in Thread, Begin(a)  PROVE OneInside'
  BY <1>1 DEF Begin, Enter, First, Start, Go
<1>2. ASSUME NEW a \in Thread, ZtsLock(a)  PROVE OneInside'
  BY <1>2 DEF ZtsLock, First, Go
<1>3. ASSUME NEW a \in Thread, OpenFile(a)  PROVE OneInside'
  BY <1>3 DEF OpenFile, Go
<1>4. ASSUME NEW a \in Thread, DoLock(a)  PROVE OneInside'
  <2>1. CASE kind \in FileKinds
    BY <1>4, <2>1 DEF DoLock
  <2>2. CASE kind \notin FileKinds
    <3>1. held = {}
      BY <1>4, <2>2 DEF DoLock, Grantable
    <3>2. \A b \in Thread : pc[b] \notin Inside
      BY <2>2, <3>1
    <3>3. /\ held' = {[who |-> Asks(a), mode |-> section[a].mode]}
          /\ via' = [via EXCEPT ![a] = Asks(a)] /\ section' = section
          /\ pc' = [pc EXCEPT ![a] = "in"]
      BY <1>4, <3>1 DEF DoLock, Others, Go
    <3> QED
      BY <3>2, <3>3
  <2> QED
    BY <2>1, <2>2
<1>5. ASSUME NEW a \in Thread, LetGo(a)  PROVE OneInside'
  BY <1>5 DEF LetGo, Grantable, Others, Asks, Owner, Go
<1>6. ASSUME NEW a \in Thread, Refuse(a)  PROVE OneInside'
  BY <1>6 DEF Refuse, Grantable, Others, Asks, Owner, Go
<1>7. ASSUME NEW a \in Thread, Write(a)  PROVE OneInside'
  BY <1>7 DEF Write, Go
<1>8. ASSUME NEW a \in Thread, Complete(a)  PROVE OneInside'
  BY <1>8 DEF Complete, Go
<1>9. ASSUME NEW a \in Thread, Unlock(a)  PROVE OneInside'
  <2>1. CASE kind \in FileKinds
    BY <1>9, <2>1 DEF Unlock
  <2>2. CASE kind \notin FileKinds
    <3>1. \A b \in Thread : pc[b] \in Inside => b = a
      BY <1>9, <2>2 DEF Unlock, Last
    <3>2. pc'[a] = "idle" /\ \A b \in Thread : pc'[b] \in {"idle", pc[b]}
      BY <1>9 DEF Unlock, Gone, Leave, Start, Go
    <3> QED
      BY <3>1, <3>2
  <2> QED
    BY <2>1, <2>2
<1>10. ASSUME NEW a \in Thread, TearOut(a)  PROVE OneInside'
  BY <1>10 DEF TearOut, Broken, Enter, First, Leave, Start, Go
<1>11. ASSUME NEW p \in Process, Kill(p)  PROVE OneInside'
  BY <1>11 DEF Kill, Gone, Undone, Broken, Owner
<1>12. CASE UNCHANGED vars
  BY <1>12 DEF vars
<1> QED
  BY <1>1, <1>2, <1>3, <1>4, <1>5, <1>6, <1>7, <1>8, <1>9, <1>10, <1>11, <1>12
     DEF Next, Acquire, Work

(* A writer is let in when nobody else has the file locked.                *)
LEMMA AloneNext ==
  ASSUME Inv, [Next]_vars
  PROVE  WriterAlone'
<1> USE DEF Inv, TypeOK, Inside, Section, NoSection, build, WriterAlone,
     WordKinds, FileKinds, Kinds
<1>1. ASSUME NEW a \in Thread, Begin(a)  PROVE WriterAlone'
  BY <1>1 DEF Begin, Enter, First, Start, Go
<1>2. ASSUME NEW a \in Thread, ZtsLock(a)  PROVE WriterAlone'
  BY <1>2 DEF ZtsLock, First, Go
<1>3. ASSUME NEW a \in Thread, OpenFile(a)  PROVE WriterAlone'
  BY <1>3 DEF OpenFile, Go
<1>4. ASSUME NEW a \in Thread, DoLock(a)  PROVE WriterAlone'
  BY <1>4 DEF DoLock, Grantable, Others, Asks, Owner, Go
<1>5. ASSUME NEW a \in Thread, LetGo(a)  PROVE WriterAlone'
  BY <1>5 DEF LetGo, Grantable, Others, Asks, Owner, Go
<1>6. ASSUME NEW a \in Thread, Refuse(a)  PROVE WriterAlone'
  BY <1>6 DEF Refuse, Grantable, Others, Asks, Owner, Go
<1>7. ASSUME NEW a \in Thread, Write(a)  PROVE WriterAlone'
  BY <1>7 DEF Write, Go
<1>8. ASSUME NEW a \in Thread, Complete(a)  PROVE WriterAlone'
  BY <1>8 DEF Complete, Go
<1>9. ASSUME NEW a \in Thread, Unlock(a)  PROVE WriterAlone'
  BY <1>9 DEF Unlock, Last, Released, Owner, Undone, Gone,
     Broken, Leave, Start, Go
<1>10. ASSUME NEW a \in Thread, TearOut(a)  PROVE WriterAlone'
  BY <1>10 DEF TearOut, Broken, Enter, First, Leave, Start, Go
<1>11. ASSUME NEW p \in Process, Kill(p)  PROVE WriterAlone'
  BY <1>11 DEF Kill, Gone, Undone, Broken, Owner
<1>12. CASE UNCHANGED vars
  BY <1>12 DEF vars
<1> QED
  BY <1>1, <1>2, <1>3, <1>4, <1>5, <1>6, <1>7, <1>8, <1>9, <1>10, <1>11, <1>12
     DEF Next, Acquire, Work

(* ea_mutex is given up by its holder.                                     *)
LEMMA MutexNext ==
  ASSUME Inv, [Next]_vars
  PROVE  MutexHeld'
<1> USE DEF Inv, TypeOK, Inside, Section, NoSection, build, MutexHeld
<1>1. ASSUME NEW a \in Thread, Begin(a)  PROVE MutexHeld'
  BY <1>1 DEF Begin, Enter, First, Start, Go
<1>2. ASSUME NEW a \in Thread, ZtsLock(a)  PROVE MutexHeld'
  BY <1>2, LockAssumption DEF ZtsLock, First, Go
<1>3. ASSUME NEW a \in Thread, OpenFile(a)  PROVE MutexHeld'
  BY <1>3 DEF OpenFile, Go
<1>4. ASSUME NEW a \in Thread, DoLock(a)  PROVE MutexHeld'
  BY <1>4 DEF DoLock, Grantable, Others, Asks, Owner, Go
<1>5. ASSUME NEW a \in Thread, LetGo(a)  PROVE MutexHeld'
  BY <1>5 DEF LetGo, Grantable, Others, Asks, Owner, Go
<1>6. ASSUME NEW a \in Thread, Refuse(a)  PROVE MutexHeld'
  BY <1>6 DEF Refuse, Grantable, Others, Asks, Owner, Go
<1>7. ASSUME NEW a \in Thread, Write(a)  PROVE MutexHeld'
  BY <1>7 DEF Write, Go
<1>8. ASSUME NEW a \in Thread, Complete(a)  PROVE MutexHeld'
  BY <1>8 DEF Complete, Go
<1>9. ASSUME NEW a \in Thread, Unlock(a)  PROVE MutexHeld'
  <2>1. pc[a] \in Inside /\ proc' = proc
    BY <1>9 DEF Unlock, Last
  <2>2. CASE Gone(proc[a], Released(a) \cap Undone(proc[a]))
    BY <2>1, <2>2 DEF Gone
  <2>3. CASE /\ mutex' = IF section[a].mutex
                          THEN [mutex EXCEPT ![proc[a]] = None] ELSE mutex
             /\ Leave(a)
    BY <2>1, <2>3 DEF Leave, Start, Go
  <2> QED
    BY <1>9, <2>2, <2>3 DEF Unlock
<1>10. ASSUME NEW a \in Thread, TearOut(a)  PROVE MutexHeld'
  <2>1. CASE Leave(a)
    BY <1>10, <2>1 DEF TearOut, Leave, Start, Go
  <2>2. CASE Enter(a, [mutex |-> ZTS, mode |-> "RW"])
    BY <1>10, <2>2 DEF TearOut, Enter, First, Start, Go
  <2> QED
    BY <1>10, <2>1, <2>2 DEF TearOut
<1>11. ASSUME NEW p \in Process, Kill(p)  PROVE MutexHeld'
  BY <1>11 DEF Kill, Gone, Undone, Broken, Owner
<1>12. CASE UNCHANGED vars
  BY <1>12 DEF vars
<1> QED
  BY <1>1, <1>2, <1>3, <1>4, <1>5, <1>6, <1>7, <1>8, <1>9, <1>10, <1>11, <1>12
     DEF Next, Acquire, Work

(* A build is what it is.                                                  *)
LEMMA ZtsNext ==
  ASSUME Inv, [Next]_vars
  PROVE  OnlyZTS'
<1> USE DEF Inv, TypeOK, OnlyZTS, ZTS, Section, NoSection, build
<1>1. ASSUME NEW a \in Thread, Begin(a)  PROVE OnlyZTS'
  BY <1>1 DEF Begin, Enter, First, Start, Go
<1>2. ASSUME NEW a \in Thread, ZtsLock(a)  PROVE OnlyZTS'
  BY <1>2 DEF ZtsLock, First, Go
<1>3. ASSUME NEW a \in Thread, OpenFile(a)  PROVE OnlyZTS'
  BY <1>3 DEF OpenFile, Go
<1>4. ASSUME NEW a \in Thread, DoLock(a)  PROVE OnlyZTS'
  BY <1>4 DEF DoLock, Grantable, Others, Asks, Owner, Go
<1>5. ASSUME NEW a \in Thread, LetGo(a)  PROVE OnlyZTS'
  BY <1>5 DEF LetGo, Grantable, Others, Asks, Owner, Go
<1>6. ASSUME NEW a \in Thread, Refuse(a)  PROVE OnlyZTS'
  BY <1>6 DEF Refuse, Grantable, Others, Asks, Owner, Go
<1>7. ASSUME NEW a \in Thread, Write(a)  PROVE OnlyZTS'
  BY <1>7 DEF Write, Go
<1>8. ASSUME NEW a \in Thread, Complete(a)  PROVE OnlyZTS'
  BY <1>8 DEF Complete, Go
<1>9. ASSUME NEW a \in Thread, Unlock(a)  PROVE OnlyZTS'
  BY <1>9 DEF Unlock, Last, Released, Owner, Undone, Gone,
     Broken, Leave, Start, Go
<1>10. ASSUME NEW a \in Thread, TearOut(a)  PROVE OnlyZTS'
  BY <1>10 DEF TearOut, Broken, Enter, First, Leave, Start, Go
<1>11. ASSUME NEW p \in Process, Kill(p)  PROVE OnlyZTS'
  BY <1>11 DEF Kill, Gone, Undone, Broken, Owner
<1>12. CASE UNCHANGED vars
  BY <1>12 DEF vars
<1> QED
  BY <1>1, <1>2, <1>3, <1>4, <1>5, <1>6, <1>7, <1>8, <1>9, <1>10, <1>11, <1>12
     DEF Next, Acquire, Work

(* Who stops half-way leaves the data broken.                              *)
LEMMA HalfNext ==
  ASSUME Inv, [Next]_vars
  PROVE  HalfWritten'
<1> USE DEF Inv, TypeOK, Inside, Section, NoSection, build, HalfWritten
<1>1. ASSUME NEW a \in Thread, Begin(a)  PROVE HalfWritten'
  BY <1>1 DEF Begin, Enter, First, Start, Go
<1>2. ASSUME NEW a \in Thread, ZtsLock(a)  PROVE HalfWritten'
  BY <1>2 DEF ZtsLock, First, Go
<1>3. ASSUME NEW a \in Thread, OpenFile(a)  PROVE HalfWritten'
  BY <1>3 DEF OpenFile, Go
<1>4. ASSUME NEW a \in Thread, DoLock(a)  PROVE HalfWritten'
  BY <1>4 DEF DoLock, Grantable, Others, Asks, Owner, Go
<1>5. ASSUME NEW a \in Thread, LetGo(a)  PROVE HalfWritten'
  BY <1>5 DEF LetGo, Grantable, Others, Asks, Owner, Go
<1>6. ASSUME NEW a \in Thread, Refuse(a)  PROVE HalfWritten'
  BY <1>6 DEF Refuse, Grantable, Others, Asks, Owner, Go
<1>7. ASSUME NEW a \in Thread, Write(a)  PROVE HalfWritten'
  BY <1>7 DEF Write, Go
<1>8. ASSUME NEW a \in Thread, Complete(a)  PROVE HalfWritten'
  BY <1>8 DEF Complete, Go
<1>9. ASSUME NEW a \in Thread, Unlock(a)  PROVE HalfWritten'
  <2>1. CASE Gone(proc[a], Released(a) \cap Undone(proc[a]))
    BY <2>1 DEF Gone, Broken
  <2>2. CASE Leave(a) /\ UNCHANGED data
    <3>1. pc[a] # "half"
      BY <1>9 DEF Unlock, Last
    <3> QED
      BY <2>2, <3>1 DEF Leave, Start, Go
  <2> QED
    BY <1>9, <2>1, <2>2 DEF Unlock
<1>10. ASSUME NEW a \in Thread, TearOut(a)  PROVE HalfWritten'
  BY <1>10 DEF TearOut, Broken, Enter, First, Leave, Start, Go
<1>11. ASSUME NEW p \in Process, Kill(p)  PROVE HalfWritten'
  BY <1>11 DEF Kill, Gone, Undone, Broken, Owner
<1>12. CASE UNCHANGED vars
  BY <1>12 DEF vars
<1> QED
  BY <1>1, <1>2, <1>3, <1>4, <1>5, <1>6, <1>7, <1>8, <1>9, <1>10, <1>11, <1>12
     DEF Next, Acquire, Work

(* ... and the lock taken.                                                 *)
LEMMA UpNext ==
  ASSUME Inv, [Next]_vars
  PROVE  LockedUp'
<1> USE DEF Inv, TypeOK, Inside, Section, NoSection, build, OneInside,
     HalfWritten, LockedUp, WordKinds, FileKinds, Kinds, Grip
<1>1. ASSUME NEW a \in Thread, Begin(a)  PROVE LockedUp'
  BY <1>1 DEF Begin, Enter, First, Start, Go
<1>2. ASSUME NEW a \in Thread, ZtsLock(a)  PROVE LockedUp'
  BY <1>2 DEF ZtsLock, First, Go
<1>3. ASSUME NEW a \in Thread, OpenFile(a)  PROVE LockedUp'
  BY <1>3 DEF OpenFile, Go
<1>4. ASSUME NEW a \in Thread, DoLock(a)  PROVE LockedUp'
  BY <1>4 DEF DoLock, Grantable, Others, Asks, Owner, Go
<1>5. ASSUME NEW a \in Thread, LetGo(a)  PROVE LockedUp'
  BY <1>5 DEF LetGo, Grantable, Others, Asks, Owner, Go
<1>6. ASSUME NEW a \in Thread, Refuse(a)  PROVE LockedUp'
  BY <1>6 DEF Refuse, Grantable, Others, Asks, Owner, Go
<1>7. ASSUME NEW a \in Thread, Write(a)  PROVE LockedUp'
  BY <1>7 DEF Write, Go
<1>8. ASSUME NEW a \in Thread, Complete(a)  PROVE LockedUp'
  BY <1>8 DEF Complete, Go
<1>9. ASSUME NEW a \in Thread, Unlock(a)  PROVE LockedUp'
  <2>1. /\ pc[a] \in Inside /\ pc[a] # "half"
        /\ kind' = kind
        /\ kind \in WordKinds => data # "broken"
    BY <1>9 DEF Unlock, Last
  <2>2. CASE Gone(proc[a], Released(a) \cap Undone(proc[a]))
    <3>1. kind \in WordKinds => \A b \in Thread : pc[b] # "half"
      BY <2>1
    <3>2. kind \in WordKinds => data' = data
      BY <2>2, <3>1 DEF Gone, Broken
    <3> QED
      BY ONLY <2>1, <3>2 DEF LockedUp
  <2>3. CASE data' = data
    BY ONLY <2>1, <2>3 DEF LockedUp
  <2> QED
    BY <1>9, <2>2, <2>3 DEF Unlock
<1>10. ASSUME NEW a \in Thread, TearOut(a)  PROVE LockedUp'
  <2>1. /\ pc[a] \in Inside /\ kind' = kind /\ held' = held
        /\ \A b \in Thread : b # a => pc'[b] = pc[b]
        /\ pc'[a] \notin Inside
    BY <1>10 DEF TearOut, Enter, First, Leave, Start, Go
  <2>2. kind \in WordKinds =>
          held # {} /\ \A b \in Thread : b # a => pc[b] \notin Inside
    BY <2>1
  <2> QED
    BY ONLY <2>1, <2>2 DEF LockedUp
<1>11. ASSUME NEW p \in Process, Kill(p)  PROVE LockedUp'
  BY <1>11 DEF Kill, Gone, Undone, Broken, Owner
<1>12. CASE UNCHANGED vars
  BY <1>12 DEF vars
<1> QED
  BY <1>1, <1>2, <1>3, <1>4, <1>5, <1>6, <1>7, <1>8, <1>9, <1>10, <1>11, <1>12
     DEF Next, Acquire, Work

(* Two of whom one writes are together for a reason.                       *)
LEMMA Excluded == Inv => Exclusive
<1>1. ASSUME Inv, NEW a \in Thread, NEW b \in Thread,
             a # b, pc[a] \in Inside, pc[b] \in Inside,
             ~ Bare(a), ~ Bare(b), ~ Together(a, b)
      PROVE  section[a].mode = "RD"
  <2> USE <1>1 DEF Inv
  <2>1. Grip(a) \in held /\ Grip(b) \in held
    BY <1>1 DEF Bare, Grip
  <2>2. kind \in FileKinds
    BY <1>1 DEF OneInside
  <2>3. section[a] \in Section
    BY DEF TypeOK
  <2>4. ASSUME section[a].mode = "RW"  PROVE FALSE
    <3>1. held = {Grip(a)}
      BY <2>1, <2>2, <2>4 DEF WriterAlone, Grip
    <3>2. via[a] = via[b]
      BY <2>1, <3>1 DEF Grip
    <3>3. proc[a] = proc[b]
      BY <1>1, <2>2, <3>2 DEF InName, Owner, WordKinds, FileKinds
    <3>4. section[a].mutex /\ section[b].mutex
      BY <1>1, <2>2, <3>3 DEF Together
    <3> QED
      BY <1>1, <3>3, <3>4 DEF MutexHeld
  <2> QED
    BY <2>3, <2>4 DEF Section
<1>2. ASSUME Inv, NEW a \in Thread  PROVE section[a].mode \in {"RD", "RW"}
  BY <1>2 DEF Inv, TypeOK, Section
<1>3. \A a, b \in Thread : Together(a, b) => Together(b, a)
  BY DEF Together
<1> QED
  BY <1>1, <1>3 DEF Exclusive

(* It takes a file to be Bare, or to write Together with another.          *)
LEMMA Company ==
  ASSUME Inv, NEW a \in Thread, NEW b \in Thread, a # b,
         Bare(a) \/ Bare(b) \/ Together(a, b)
  PROVE  kind = "fcntl" \/ (kind = "flock" /\ ZTS)
<1>1. kind \in FileKinds
  BY DEF Inv, OneInside, Bare, Grip, Together
<1>2. CASE Together(a, b)
  BY <1>1, <1>2 DEF Together, ZTS, FileKinds
<1>3. ASSUME NEW c \in Thread, Bare(c)
      PROVE  kind = "fcntl" \/ HasSiblings(c)
  BY <1>3 DEF Inv, TypeOK, Bare, Refused
<1>4. \A c \in Thread : HasSiblings(c) => ZTS
  BY DEF HasSiblings, ZTS
<1> QED
  BY <1>1, <1>2, <1>3, <1>4 DEF FileKinds

(* It takes faults, or such writers, to break the data.                    *)
LEMMA ReasonsNext ==
  ASSUME Inv, [Next]_vars
  PROVE  Reasons'
<1> USE DEF Inv, Reasons, TypeOK, ZTS, build
<1>1. ASSUME NEW a \in Thread, Begin(a)  PROVE Reasons'
  BY <1>1 DEF Begin
<1>2. ASSUME NEW a \in Thread, ZtsLock(a)  PROVE Reasons'
  BY <1>2 DEF ZtsLock
<1>3. ASSUME NEW a \in Thread, OpenFile(a)  PROVE Reasons'
  BY <1>3 DEF OpenFile
<1>4. ASSUME NEW a \in Thread, DoLock(a)  PROVE Reasons'
  BY <1>4 DEF DoLock
<1>5. ASSUME NEW a \in Thread, LetGo(a)  PROVE Reasons'
  BY <1>5 DEF LetGo
<1>6. ASSUME NEW a \in Thread, Refuse(a)  PROVE Reasons'
  BY <1>6 DEF Refuse
<1>7. ASSUME NEW a \in Thread, Write(a)  PROVE Reasons'
  <2>1. CASE data = "whole"
    BY <1>7, <2>1 DEF Write
  <2>2. CASE data = "broken"
    BY <1>7, <2>2 DEF Write
  <2>3. CASE data = "half"
    <3>1. PICK b \in Thread : pc[b] = "half"
      BY <2>3 DEF HalfWritten
    <3>2. /\ a # b /\ pc[a] \in Inside /\ pc[b] \in Inside
          /\ section[a].mode # "RD"
      BY <1>7, <3>1 DEF Write, Inside
    <3>3. Bare(a) \/ Bare(b) \/ Together(a, b)
      BY <3>2, Excluded DEF Exclusive
    <3>4. kind = "fcntl" \/ (kind = "flock" /\ ZTS)
      BY <3>2, <3>3, Company
    <3> QED
      BY <1>7, <3>4 DEF Write
  <2> QED
    BY <2>1, <2>2, <2>3 DEF TypeOK
<1>8. ASSUME NEW a \in Thread, Complete(a)  PROVE Reasons'
  BY <1>8 DEF Complete
<1>9. ASSUME NEW a \in Thread, Unlock(a)  PROVE Reasons'
  <2>1. CASE torn[a]
    BY <1>9, <2>1 DEF Unlock, Gone, Broken
  <2>2. CASE ~ torn[a]
    BY <1>9, <2>2 DEF Unlock
  <2> QED
    BY <2>1, <2>2
<1>10. ASSUME NEW a \in Thread, TearOut(a)  PROVE Reasons'
  BY <1>10 DEF TearOut, Broken
<1>11. ASSUME NEW p \in Process, Kill(p)  PROVE Reasons'
  BY <1>11 DEF Kill, Gone, Undone, Broken, Owner
<1>12. CASE UNCHANGED vars
  BY <1>12 DEF vars
<1> QED
  BY <1>1, <1>2, <1>3, <1>4, <1>5, <1>6, <1>7, <1>8, <1>9, <1>10, <1>11, <1>12
     DEF Next, Acquire, Work

-----------------------------------------------------------------------------
(* TypeOK but for what is held.                                            *)
Types ==
  /\ kind \in Kinds /\ proc \in [Thread -> Process]
  /\ mutex \in [Process -> Thread \cup {None}]
  /\ held \in SUBSET [who : Thread \cup Process, mode : {"RD", "RW"}]
  /\ fd \in [Process -> Thread \cup {None}]
  /\ via \in [Thread -> Thread \cup Process \cup {None}]
  /\ data \in {"whole", "half", "broken"} /\ faults \in Nat
  /\ pc \in [Thread -> Inside \cup Waiting \cup {"idle"}]
  /\ section \in [Thread -> Section]
  /\ torn \in [Thread -> BOOLEAN] /\ left \subseteq Process

(* Every step keeps the types.                                             *)
LEMMA TypesNext ==
  ASSUME Inv, [Next]_vars
  PROVE  Types'
<1> USE DEF Inv, TypeOK, Types, OpenedOwn, InName, build, Inside, Waiting
<1>1. ASSUME NEW a \in Thread, Begin(a)  PROVE Types'
  BY <1>1 DEF Begin, Enter, First, Start, Go
<1>2. ASSUME NEW a \in Thread, ZtsLock(a)  PROVE Types'
  BY <1>2 DEF ZtsLock, First, Go
<1>3. ASSUME NEW a \in Thread, OpenFile(a)  PROVE Types'
  BY <1>3 DEF OpenFile, Go
<1>4. ASSUME NEW a \in Thread, DoLock(a)  PROVE Types'
  BY <1>4 DEF DoLock, Others, Asks, Owner, Go, Section,
     WordKinds
<1>5. ASSUME NEW a \in Thread, LetGo(a)  PROVE Types'
  BY <1>5 DEF LetGo, Others, Asks, Owner, Go, WordKinds
<1>6. ASSUME NEW a \in Thread, Refuse(a)  PROVE Types'
  BY <1>6 DEF Refuse, Asks, Owner, Go, WordKinds
<1>7. ASSUME NEW a \in Thread, Write(a)  PROVE Types'
  BY <1>7 DEF Write, Go
<1>8. ASSUME NEW a \in Thread, Complete(a)  PROVE Types'
  BY <1>8 DEF Complete, Go
<1>9. ASSUME NEW a \in Thread, Unlock(a)  PROVE Types'
  <2>1. pc[a] \in Inside /\ [mutex |-> FALSE, mode |-> "RD"] \in Section
    BY <1>9 DEF Unlock, Last, Section
  <2>2. CASE /\ Gone(proc[a], Released(a) \cap Undone(proc[a]))
             /\ UNCHANGED <<build, faults>>
    BY <2>1, <2>2 DEF Released, Gone, Broken, NoSection
  <2>3. CASE /\ held' = Released(a) /\ torn' = [torn EXCEPT ![a] = FALSE]
             /\ mutex' = IF section[a].mutex
                          THEN [mutex EXCEPT ![proc[a]] = None] ELSE mutex
             /\ left' = {p \in left : \E h \in Released(a) : Keeper(h) = p}
             /\ Leave(a) /\ UNCHANGED <<fd, data, build, faults>>
    BY <2>1, <2>3 DEF Released, Leave, Start, Go, NoSection
  <2> QED
    BY <1>9, <2>2, <2>3 DEF Unlock
<1>10. ASSUME NEW a \in Thread, TearOut(a)  PROVE Types'
  <2>1. /\ [mutex |-> FALSE, mode |-> "RD"] \in Section
        /\ [mutex |-> ZTS, mode |-> "RW"] \in Section
    BY DEF Section, ZTS
  <2>2. \E s \in Section, label \in Waiting \cup {"idle"} : Start(a, label, s)
    <3>1. CASE Enter(a, [mutex |-> ZTS, mode |-> "RW"])
      BY <2>1, <3>1 DEF Enter, First
    <3>2. CASE Leave(a)
      BY <2>1, <3>2 DEF Leave, NoSection
    <3> QED
      BY <1>10, <3>1, <3>2 DEF TearOut
  <2>3. /\ pc' \in [Thread -> Inside \cup Waiting \cup {"idle"}]
        /\ section' \in [Thread -> Section]
        /\ via' \in [Thread -> Thread \cup Process \cup {None}]
    BY <2>2 DEF Start, Go
  <2>4. data' \in {"whole", "half", "broken"} /\ faults' \in Nat
    BY <1>10 DEF TearOut, Broken
  <2>5. torn' \in [Thread -> BOOLEAN]
    BY <1>10 DEF TearOut
  <2>6. left' \subseteq Process
    <3>1. left \subseteq Process /\ proc[a] \in Process
      OBVIOUS
    <3>2. left' = IF kind \in WordKinds THEN {} ELSE left \cup {proc[a]}
      BY <1>10 DEF TearOut
    <3> QED
      BY <3>1, <3>2
  <2> QED
    BY <1>10, <2>3, <2>4, <2>5, <2>6 DEF TearOut
<1>11. ASSUME NEW p \in Process, Kill(p)  PROVE Types'
  <2>1. [mutex |-> FALSE, mode |-> "RD"] \in Section
    BY DEF Section
  <2> QED
    BY <1>11, <2>1 DEF Kill, Gone, Undone, Broken, NoSection, WordKinds
<1>12. CASE UNCHANGED vars
  BY <1>12 DEF vars
<1> QED
  BY <1>1, <1>2, <1>3, <1>4, <1>5, <1>6, <1>7, <1>8, <1>9, <1>10, <1>11, <1>12
     DEF Next, Acquire, Work

(* What a step does to a thread b that is, and stays, in a section, and    *)
(* was alone in its process.                                               *)
Stays(b) ==
  /\ kind' = kind /\ proc' = proc /\ pc[b] \in Inside
  /\ section'[b] = section[b] /\ via'[b] = via[b]
  /\ \A h \in held : h.who = via[b] => h \in held'

LEMMA StaysHolding ==
  ASSUME Inv, NEW b \in Thread, kind \in FileKinds, ~ HasSiblings(b), Stays(b),
         pc'[b] \in Inside, Bare(b)'
  PROVE  Refused(b)'
<1>1. Bare(b)
  BY DEF Stays, Bare
<1>2. Refused(b)
  BY <1>1 DEF Inv, TypeOK, Stays
<1>3. via[b] = Owner(b) /\ Owner(b)' = Owner(b)
  BY <1>2 DEF Refused, Inv, InName, Stays, Owner
<1>4. [who |-> Owner(b), mode |-> "RD"] \in held'
  BY <1>2, <1>3 DEF Refused, Stays
<1> QED
  BY <1>2, <1>3, <1>4 DEF Refused, Stays

(* Who is let in holds the lock from then on.                              *)
LEMMA DoLockHolding ==
  ASSUME Inv, NEW a \in Thread, DoLock(a)
  PROVE  ~ Bare(a)'
BY DEF DoLock, Bare, Go, Inv, TypeOK

(* A section that fcntl refuses a lock keeps the one for reading.          *)
LEMMA RefuseHolding ==
  ASSUME Inv, NEW a \in Thread, Refuse(a)
  PROVE  Refused(a)'
<1> USE DEF Inv
<1>1. /\ kind = "fcntl" /\ pc[a] = "lock" /\ ~ Grantable(a)
      /\ held # Others(a) /\ held' = held /\ Asks(a) = Owner(a)
  BY DEF Refuse, Asks
<1>2. PICK h \in held : h.who = Owner(a)
  BY <1>1 DEF Others
<1>3. h.mode = "RD"
  <2>1. h.mode \in {"RD", "RW"}
    BY DEF TypeOK
  <2>2. CASE h.mode = "RW"
    <3>1. Others(a) = {}
      BY <1>1, <1>2, <2>2 DEF WriterAlone, FileKinds, Others
    <3> QED
      BY <1>1, <3>1 DEF Grantable, FileKinds
  <2> QED
    BY <2>1, <2>2
<1>4. \A g \in held : g.mode = "RD"
  BY <1>1, <1>2, <1>3 DEF WriterAlone, FileKinds, TypeOK
<1>5. section[a].mode = "RW"
  <2>1. section[a] \in Section
    BY DEF TypeOK
  <2>2. section[a].mode # "RD"
    BY <1>1, <1>4 DEF Grantable, Others, FileKinds
  <2> QED
    BY <2>1, <2>2 DEF Section
<1>6. h = [who |-> Owner(a), mode |-> "RD"]
  BY <1>2, <1>3 DEF TypeOK
<1>7. /\ kind' = kind /\ section' = section /\ Owner(a)' = Owner(a)
      /\ pc'[a] \in Inside
  BY DEF Refuse, Go, Inside, TypeOK, Owner, build
<1> QED
  BY <1>1, <1>2, <1>5, <1>6, <1>7 DEF Refused

(* Nobody takes a lock from a thread that is alone in its process.         *)
LEMMA AloneHolding ==
  ASSUME Inv, [Next]_vars, NEW b \in Thread, kind \in FileKinds,
         ~ HasSiblings(b), pc'[b] \in Inside, Bare(b)'
  PROVE  Refused(b)'
<1> USE DEF Inv, TypeOK, OpenedOwn, InName, HasSiblings, Inside, build
<1>0. /\ kind \in FileKinds /\ ~ HasSiblings(b)
      /\ pc'[b] \in Inside /\ Bare(b)'
  OBVIOUS
<1>1. ASSUME NEW a \in Thread, Begin(a)  PROVE Refused(b)'
  <2>1. Stays(b)
    BY <1>1, <1>0 DEF Begin, Enter, First, Start, Go, Stays
  <2> QED
    BY <1>0, <2>1, StaysHolding
<1>2. ASSUME NEW a \in Thread, ZtsLock(a)  PROVE Refused(b)'
  <2>1. Stays(b)
    BY <1>2, <1>0 DEF ZtsLock, First, Go, Stays
  <2> QED
    BY <1>0, <2>1, StaysHolding
<1>3. ASSUME NEW a \in Thread, OpenFile(a)  PROVE Refused(b)'
  <2>1. Stays(b)
    BY <1>3, <1>0 DEF OpenFile, Go, Stays
  <2> QED
    BY <1>0, <2>1, StaysHolding
<1>4. ASSUME NEW a \in Thread, DoLock(a)  PROVE Refused(b)'
  <2>1. CASE b = a
    BY <1>4, <2>1, DoLockHolding, <1>0
  <2>2. CASE b # a
    <3>1. Stays(b)
      BY <1>4, <1>0, <2>2 DEF DoLock, Stays, Others, Asks, Owner, HasSiblings,
         Go, FileKinds
    <3> QED
      BY <1>0, <3>1, StaysHolding
  <2> QED
    BY <2>1, <2>2
<1>5. ASSUME NEW a \in Thread, LetGo(a)  PROVE Refused(b)'
  <2>1. CASE b = a
    BY <1>5, <2>1, <1>0 DEF LetGo, Go
  <2>2. CASE b # a
    <3>1. Stays(b)
      BY <1>5, <1>0, <2>2 DEF LetGo, Stays, Others, Asks, Owner, HasSiblings,
         Go, FileKinds
    <3> QED
      BY <1>0, <3>1, StaysHolding
  <2> QED
    BY <2>1, <2>2
<1>6. ASSUME NEW a \in Thread, Refuse(a)  PROVE Refused(b)'
  <2>1. CASE b = a
    BY <1>6, <2>1, RefuseHolding
  <2>2. CASE b # a
    <3>1. Stays(b)
      BY <1>6, <1>0, <2>2 DEF Refuse, Stays, Others, Asks, Owner, HasSiblings,
         Go, FileKinds
    <3> QED
      BY <1>0, <3>1, StaysHolding
  <2> QED
    BY <2>1, <2>2
<1>7. ASSUME NEW a \in Thread, Write(a)  PROVE Refused(b)'
  <2>1. Stays(b)
    BY <1>7, <1>0 DEF Write, Go, Stays
  <2> QED
    BY <1>0, <2>1, StaysHolding
<1>8. ASSUME NEW a \in Thread, Complete(a)  PROVE Refused(b)'
  <2>1. Stays(b)
    BY <1>8, <1>0 DEF Complete, Go, Stays
  <2> QED
    BY <1>0, <2>1, StaysHolding
<1>9. ASSUME NEW a \in Thread, Unlock(a)  PROVE Refused(b)'
  <2>1. Stays(b)
    <3>1. b # a /\ proc[b] # proc[a]
      BY <1>9, <1>0 DEF Unlock, Gone, Leave, Start, Go, HasSiblings
    <3>2. /\ kind' = kind /\ proc' = proc /\ pc[b] \in Inside
          /\ section'[b] = section[b] /\ via'[b] = via[b]
      BY <1>9, <1>0, <3>1 DEF Unlock, Gone, Leave, Start, Go
    <3>3. /\ via[b] # Owner(a)
          /\ IF kind = "flock" THEN proc[via[b]] # proc[a] ELSE via[b] # proc[a]
      <4>1. CASE kind = "flock"
        BY <3>1, <3>2, <4>1, LockAssumption DEF Owner, WordKinds
      <4>2. CASE kind = "fcntl"
        BY <3>1, <3>2, <4>2 DEF Owner, WordKinds
      <4> QED
        BY <1>0, <4>1, <4>2 DEF FileKinds
    <3>5. \A h \in held : h.who = via[b] =>
            h \in Released(a) /\ h \in Undone(proc[a])
      BY <1>0, <3>3 DEF Released, Undone, FileKinds, WordKinds
    <3>4. \/ held' = Released(a) \cap Undone(proc[a])
          \/ held' = Released(a)
      BY <1>9 DEF Unlock, Gone
    <3> QED
      BY <3>2, <3>4, <3>5 DEF Stays
  <2> QED
    BY <1>0, <2>1, StaysHolding
<1>10. ASSUME NEW a \in Thread, TearOut(a)  PROVE Refused(b)'
  <2>1. Stays(b)
    BY <1>10, <1>0 DEF TearOut, Enter, First, Leave, Start, Go, Stays
  <2> QED
    BY <1>0, <2>1, StaysHolding
<1>11. ASSUME NEW p \in Process, Kill(p)  PROVE Refused(b)'
  <2>1. Stays(b)
    BY <1>11, <1>0 DEF Kill, Gone, Undone, Stays, FileKinds, WordKinds, Owner
  <2> QED
    BY <1>0, <2>1, StaysHolding
<1>12. CASE UNCHANGED vars
  <2>1. Stays(b)
    BY <1>12, <1>0 DEF vars, Stays
  <2> QED
    BY <1>0, <2>1, StaysHolding
<1> QED
  BY <1>1, <1>2, <1>3, <1>4, <1>5, <1>6, <1>7, <1>8, <1>9, <1>10, <1>11, <1>12
     DEF Next, Acquire, Work

LEMMA TypeNext ==
  ASSUME Inv, [Next]_vars
  PROVE  TypeOK'
<1>1. kind' = kind /\ proc' = proc
  BY DEF Next, Acquire, Work, Begin, ZtsLock, OpenFile, DoLock, LetGo, Refuse,
     Write, Complete, Unlock, TearOut, Kill, Gone, build, vars
<1>2. Types' /\ MutexHeld' /\ OnlyZTS' /\ OneInside'
  BY TypesNext, MutexNext, ZtsNext, InsideNext
<1>3. ASSUME NEW a \in Thread, pc'[a] \in Inside, Bare(a)'
      PROVE  Refused(a)' \/ (kind' \in FileKinds /\ HasSiblings(a)')
  <2>1. kind \in FileKinds
    BY <1>1, <1>2, <1>3 DEF OneInside, Bare, Grip
  <2>2. CASE ~ HasSiblings(a)
    BY <1>3, <2>1, <2>2, AloneHolding
  <2>3. CASE HasSiblings(a)
    BY <1>1, <2>1, <2>3 DEF HasSiblings
  <2> QED
    BY <2>2, <2>3
<1>4. ASSUME NEW a \in Thread, pc'[a] \in Inside, section'[a].mutex
      PROVE  ZTS' /\ mutex'[proc'[a]] = a
  BY <1>2, <1>4 DEF OnlyZTS, MutexHeld
<1> QED
  BY <1>2, <1>3, <1>4 DEF TypeOK, Types

-----------------------------------------------------------------------------
LEMMA InvNext == Inv /\ [Next]_vars => Inv'
  BY TypeNext, OpenedNext, NameNext, InsideNext, AloneNext, MutexNext, ZtsNext,
     HalfNext, UpNext, ReasonsNext DEF Inv

LEMMA Invariance == Spec => []Inv
  BY InvInit, InvNext, PTL DEF Spec

(* Types; and whoever is in a section holds the lock, and ea_mutex in a    *)
(* build for threads: no death, no torn request and no unlocking by        *)
(* another process takes them away.                                        *)
THEOREM HoldersHold == Spec => []TypeOK
<1>1. Inv => TypeOK
  BY DEF Inv
<1> QED
  BY <1>1, Invariance, PTL

(* MM_LOCK_RW excludes everybody in every build of mm_do_lock, threaded or *)
(* not, but for a section that fcntl refused a lock and that is run all    *)
(* the same, and for threads of one process on a file without the mutex.   *)
THEOREM MutualExclusion == Spec => []Exclusive
  BY Excluded, Invariance, PTL

(* Nobody begins a section (hash_find_mm, hash_add_mm, prune) on data that *)
(* another changes at the time, or that were left broken, but where the    *)
(* lock is on a file, and they are threads of one process or fcntl refused *)
(* one of them; or where the system gave the lock of the dead back.        *)
THEOREM EntryIsWhole == Spec => WholeOnEntry
<1>1. ASSUME Inv, [Next]_vars, NEW a \in Thread,
             pc[a] \in {"lock", "wait"}, pc'[a] = "in"
      PROVE  DoLock(a) \/ Refuse(a)
  <2> USE <1>1 DEF Inv, TypeOK
  <2>1. ASSUME NEW b \in Thread,
               Begin(b) \/ ZtsLock(b) \/ OpenFile(b) \/ LetGo(b) \/ Write(b)
                 \/ Complete(b) \/ Unlock(b) \/ TearOut(b)
        PROVE  FALSE
    BY <2>1 DEF Go, Start, Leave, Enter, First, Gone, Begin, ZtsLock,
       OpenFile, LetGo, Write, Complete, Unlock, TearOut
  <2>2. ASSUME NEW b \in Thread, DoLock(b) \/ Refuse(b)
        PROVE  b = a
    BY <2>2 DEF Go, DoLock, Refuse
  <2>3. ASSUME NEW p \in Process, Kill(p)  PROVE FALSE
    BY <2>3 DEF Kill, Gone
  <2>4. ~ UNCHANGED vars
    BY DEF vars
  <2> QED
    BY <2>1, <2>2, <2>3, <2>4 DEF Next, Acquire, Work
<1>2. ASSUME Inv, NEW a \in Thread, NEW b \in Thread,
             DoLock(a) \/ Refuse(a), pc[b] = "half", ~ Bare(b)
      PROVE  Together(a, b)
  <2> USE <1>2 DEF Inv
  <2>1. /\ a # b /\ pc[a] \in {"lock", "wait"}
        /\ section[b].mode = "RW" /\ pc[b] \in Inside
    BY DEF DoLock, Refuse, HalfWritten, Inside
  <2>2. Grip(b) \in held /\ Grip(b).mode = "RW"
    BY <2>1 DEF Bare, Grip
  <2>3. kind \in FileKinds
    BY <2>2 DEF DoLock, Refuse, Grantable, FileKinds
  <2>4. held = {Grip(b)}
    BY <2>2, <2>3 DEF WriterAlone
  <2>5. Grip(b).who = Asks(a)
    <3>1. CASE Grip(b).who # Asks(a)
      <4>1. Others(a) = held
        BY <2>4, <3>1 DEF Others
      <4>2. ~ Grantable(a)
        BY <2>2, <2>3, <4>1 DEF Grantable
      <4> QED
        BY <4>1, <4>2 DEF DoLock, Refuse
    <3> QED
      BY <3>1
  <2>6. proc[a] = proc[b]
    <3>1. via[b] = Asks(a)
      BY <2>5 DEF Grip
    <3>2. CASE kind = "flock"
      <4>1. proc[via[b]] = proc[b]
        BY <2>1, <3>2 DEF InName
      <4>2. proc[Asks(a)] = proc[a]
        BY <2>1, <3>2 DEF Asks, Owner, InName, OpenedOwn, TypeOK, WordKinds
      <4> QED
        BY <3>1, <4>1, <4>2
    <3>3. CASE kind = "fcntl"
      BY <2>1, <3>1, <3>3 DEF Asks, Owner, InName, WordKinds
    <3> QED
      BY <2>3, <3>2, <3>3 DEF FileKinds
  <2>7. ~ (section[a].mutex /\ section[b].mutex)
    BY <2>1, <2>6 DEF MutexHeld
  <2> QED
    BY <2>3, <2>6, <2>7 DEF Together
<1>3. ASSUME Inv, NEW a \in Thread, DoLock(a) \/ Refuse(a), data = "broken"
      PROVE  /\ kind \notin WordKinds
             /\ faults > 0 \/ kind = "fcntl" \/ (kind = "flock" /\ ZTS)
  <2>1. kind \in WordKinds => held # {}
    BY <1>3 DEF Inv, LockedUp
  <2>2. kind \notin WordKinds
    BY <1>3, <2>1 DEF DoLock, Refuse, Grantable, WordKinds, FileKinds
  <2> QED
    BY <1>3, <2>2 DEF Inv, Reasons
<1>4. ASSUME Inv, [Next]_vars, NEW a \in Thread,
             pc[a] \in {"lock", "wait"}, pc'[a] = "in"
      PROVE  \/ data = "whole"
             \/ /\ data = "half"
                /\ \E b \in Thread :
                     pc[b] = "half" /\ (Bare(b) \/ Together(a, b))
             \/ /\ data = "broken" /\ kind \notin WordKinds
                /\ faults > 0 \/ kind = "fcntl" \/ (kind = "flock" /\ ZTS)
  <2>1. DoLock(a) \/ Refuse(a)
    BY <1>1, <1>4
  <2>2. data = "half" => \E b \in Thread : pc[b] = "half"
    BY <1>4 DEF Inv, HalfWritten
  <2>3. data \in {"whole", "half", "broken"}
    BY <1>4 DEF Inv, TypeOK
  <2> QED
    BY <1>2, <1>3, <1>4, <2>1, <2>2, <2>3
<1>5. Inv /\ [Next]_vars =>
        [\A a \in Thread :
           pc[a] \in {"lock", "wait"} /\ pc'[a] = "in" =>
             \/ data = "whole"
             \/ /\ data = "half"
                /\ \E b \in Thread :
                     pc[b] = "half" /\ (Bare(b) \/ Together(a, b))
             \/ /\ data = "broken" /\ kind \notin WordKinds
                /\ faults > 0 \/ kind = "fcntl" \/ (kind = "flock" /\ ZTS)]_vars
  BY <1>4
<1> QED
  BY <1>5, Invariance, PTL DEF Spec, WholeOnEntry
=============================================================================
