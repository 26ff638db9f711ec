-------------------------- MODULE Segment_proofs --------------------------
(***************************************************************************)
(* Proofs about module Segment, for any number of processes and of starts. *)
(***************************************************************************)
EXTENDS Segment, TLAPS

-----------------------------------------------------------------------------
(* Who has a description of its own has it for its segment; what is in     *)
(* mm_flock_fd was opened by mm_flock_pid, and is open; mm_flock_pid is    *)
(* the process's own only where it has opened the file, and still has it.  *)
OwnDesc ==
  /\ flock_pid[Master] = Master
  /\ kind = "flock" =>
       \A p \in alive : flock_fd[p] # NoDesc =>
         /\ flock_fd[p] \in fds[p] /\ flock_fd[p].by = flock_pid[p]
         /\ flock_pid[p] = p /\ instance[p] # 0 =>
              flock_fd[p].seg = instance[p]
  /\ kind = "flock" =>
       \A p \in alive : instance[p] # 0 =>
         /\ \E d \in fds[p] : d.by = flock_pid[p]
         /\ flock_pid[p] = p => flock_fd[p] # NoDesc

(* The master is in sections of a module that is up.                       *)
MasterIn == inside[Master] # "no" => up

(* Who is in a section has the lock, alone.                                *)
Grip(p) == [seg |-> instance[p], by |-> p]

HoldersIn ==
  \A p \in Proc : inside[p] = "locked" =>
    held[instance[p]] = {Grip(p)} /\ Holder(p) = Grip(p)

(* As long as all is orderly, what is in use has not been removed.         *)
InOrder ==
  orderly =>
    /\ leader \subseteq {Master}
    /\ \A p \in alive : instance[p] # 0 => sem[instance[p]] = "there"

(* A lock is the business of the master that is up, or of nobody.          *)
Owned ==
  \A g \in Seg : sem[g] = "there" =>
    g \in untidy \/ (Master \in alive /\ up /\ instance[Master] = g)

Inv ==
  /\ TypeOK /\ Accounted
  /\ OwnDesc /\ MasterIn /\ HoldersIn /\ InOrder /\ AlwaysLocked /\ Owned

-----------------------------------------------------------------------------
(* What an open file description is.                                       *)
LEMMA DescFacts ==
  /\ NoDesc \in Desc
  /\ \A g \in 0 .. MaxSeg, p \in Proc : [seg |-> g, by |-> p] \in Desc
  /\ \A h \in Desc : h.by \in Proc /\ h = [seg |-> h.seg, by |-> h.by]
  BY SegmentAssumption DEF NoDesc, Desc

(* What the system gives back leaves what it was.                          *)
LEMMA LeftTyped ==
  ASSUME TypeOK, NEW p
  PROVE  [g \in Seg |-> Left(g, p)] \in [Seg -> SUBSET Desc]
  BY DEF TypeOK, Left

(* A file that is opened gives a description.                              *)
LEMMA OpenDescTyped ==
  ASSUME TypeOK, NEW p \in Proc, NEW g \in 0 .. MaxSeg, OpenDesc(p, g)
  PROVE  /\ flock_fd' \in [Proc -> Desc] /\ flock_pid' \in [Proc -> Proc]
         /\ fds' \in [Proc -> SUBSET Desc]
<1> DEFINE d == [seg |-> g, by |-> p]
<1>1. d \in Desc
  BY DescFacts
<1> HIDE DEF d
<1>2. /\ flock_fd' = [flock_fd EXCEPT ![p] = d]
      /\ flock_pid' = [flock_pid EXCEPT ![p] = p]
      /\ fds' = [fds EXCEPT ![p] = @ \cup {d}]
  BY DEF OpenDesc, d
<1> QED
  BY <1>1, <1>2 DEF TypeOK

(* A descriptor that is closed leaves the others.                          *)
LEMMA CloseDescTyped ==
  ASSUME TypeOK, NEW p \in Proc, UNCHANGED flock_pid,
         fds' = [fds EXCEPT ![p] = @ \ {flock_fd[p]}],
         flock_fd' = [flock_fd EXCEPT ![p] = NoDesc]
  PROVE  /\ flock_fd' \in [Proc -> Desc] /\ flock_pid' \in [Proc -> Proc]
         /\ fds' \in [Proc -> SUBSET Desc]
<1>1. NoDesc \in Desc
  BY DescFacts
<1>2. fds[p] \ {flock_fd[p]} \in SUBSET Desc
  BY DEF TypeOK
<1> QED
  BY <1>1, <1>2 DEF TypeOK

(* mm_destroy removes a lock or, for another user, may fail to; it does    *)
(* nothing else to one.                                                    *)
LEMMA ShutSem ==
  ASSUME TypeOK, NEW p \in Proc, MShutdown(p)
  PROVE  /\ sem' \in [Seg -> {"none", "there", "removed"}]
         /\ \A g \in Seg : sem'[g] = sem[g] \/ sem'[g] = "removed"
         /\ p = Master /\ instance[p] # 0 /\ p \in leader =>
              sem' = [sem EXCEPT ![instance[p]] = "removed"]
         /\ ~ (instance[p] # 0 /\ p \in leader) => sem' = sem
<1>1. CASE instance[p] # 0 /\ p \in leader
  <2>1. PICK left \in Removed(p) : sem' = [sem EXCEPT ![instance[p]] = left]
    BY <1>1 DEF MShutdown, ShutdownMM
  <2>2. instance[p] \in Seg
    BY <1>1, SegmentAssumption DEF TypeOK, Seg
  <2>3. left \in {"removed", sem[instance[p]]}
    BY <2>1 DEF Removed
  <2>4. p = Master => left = "removed"
    <3>1. p = Master => p \notin foreign
      BY DEF TypeOK, Workers
    <3>2. p = Master => Removed(p) = {"removed"}
      BY <3>1 DEF Removed
    <3> QED
      BY <2>1, <3>2
  <2> QED
    BY <1>1, <2>1, <2>2, <2>3, <2>4 DEF TypeOK
<1>2. CASE ~ (instance[p] # 0 /\ p \in leader)
  BY <1>2 DEF MShutdown, ShutdownMM, TypeOK
<1> QED
  BY <1>1, <1>2

(* Before the module starts.                                               *)
LEMMA InvInit == Init => Inv
<1> SUFFICES ASSUME Init  PROVE Inv
  OBVIOUS
<1>1. TypeOK
  <2>1. instance \in [Proc -> 0 .. made] /\ made \in 0 .. MaxSeg
    BY SegmentAssumption DEF Init
  <2>2. /\ held \in [Seg -> SUBSET Desc] /\ flock_fd \in [Proc -> Desc]
        /\ fds \in [Proc -> SUBSET Desc]
    BY DescFacts DEF Init
  <2>3. /\ alive \subseteq Proc /\ foreign \subseteq Workers /\ leader \subseteq Proc
        /\ flock_pid \in [Proc -> Proc]
        /\ sem \in [Seg -> {"none", "there", "removed"}]
    BY SegmentAssumption DEF Init
  <2> QED
    BY <2>1, <2>2, <2>3 DEF Init, TypeOK
<1>2. OwnDesc /\ MasterIn /\ HoldersIn /\ AlwaysLocked /\ Accounted
  BY SegmentAssumption DEF Init, Accounted, OwnDesc, MasterIn, HoldersIn,
                           AlwaysLocked
<1>3. InOrder /\ Owned
  BY SegmentAssumption DEF Init, InOrder, Owned
<1> QED
  BY <1>1, <1>2, <1>3 DEF Inv

(* Two that hold one lock are one.                                         *)
LEMMA InvExclusive == Inv => ExclusiveOverFork
<1> SUFFICES ASSUME Inv, NEW p \in Proc, NEW q \in Proc, p # q,
                    inside[p] = "locked", inside[q] = "locked",
                    instance[p] = instance[q]
             PROVE  FALSE
  BY DEF ExclusiveOverFork
<1>1. {Grip(p)} = {Grip(q)}
  BY DEF Inv, HoldersIn
<1>2. Grip(p).by = p /\ Grip(q).by = q
  BY DEF Grip
<1> QED
  BY <1>1, <1>2

(* A description is inherited under the name of who opened it.             *)
LEMMA OwnDescNext ==
  ASSUME Inv, [Next]_vars
  PROVE  OwnDesc'
<1> USE SegmentAssumption DEF Inv, TypeOK, build, who, OwnDesc
<1>1. ASSUME NEW g \in Seg, InitMM(g)  PROVE OwnDesc'
  <2> USE <1>1 DEF InitMM, Create, flock, Seg
  <2>1. CASE kind = "flock"
    <3> DEFINE d == [seg |-> g, by |-> Master]
    <3>1. /\ flock_fd' = [flock_fd EXCEPT ![Master] = d]
          /\ flock_pid' = [flock_pid EXCEPT ![Master] = Master]
          /\ fds' = [fds EXCEPT ![Master] = @ \cup {d}]
      BY <2>1 DEF OpenDesc
    <3>2. d # NoDesc /\ d.by = Master /\ d.seg = g
      BY DEF NoDesc
    <3> HIDE DEF d
    <3> QED
      BY <2>1, <3>1, <3>2
  <2>2. CASE kind # "flock"
    BY <2>2
  <2> QED  BY <2>1, <2>2
<1>2. ASSUME NEW g \in Seg, InitMMFails(g)  PROVE OwnDesc'
  <2> USE <1>2 DEF InitMMFails, Create, flock, Seg
  <2>1. CASE kind = "flock"
    <3> DEFINE d == [seg |-> g, by |-> Master]
    <3>1. /\ flock_fd' = [flock_fd EXCEPT ![Master] = d]
          /\ flock_pid' = [flock_pid EXCEPT ![Master] = Master]
          /\ fds' = [fds EXCEPT ![Master] = @ \cup {d}]
      BY <2>1 DEF OpenDesc
    <3>2. d # NoDesc /\ d.by = Master /\ d.seg = g
      BY DEF NoDesc
    <3> HIDE DEF d
    <3> QED
      BY <2>1, <3>1, <3>2
  <2>2. CASE kind # "flock"
    BY <2>2
  <2> QED  BY <2>1, <2>2
<1>3. ASSUME Stop  PROVE OwnDesc'
  BY <1>3 DEF Stop, MShutdown, ShutdownMM, Users
<1>4. ASSUME Quit  PROVE OwnDesc'
  BY <1>4 DEF Quit, Left, flock
<1>5. ASSUME NEW p \in Proc, NEW q \in Proc, Fork(q, p)  PROVE OwnDesc'
  BY <1>5 DEF Fork, Admits, Workers, Serves
<1>6. ASSUME NEW p \in Proc, Lead(p)  PROVE OwnDesc'
  BY <1>6 DEF Lead, lock, flock
<1>7. ASSUME NEW p \in Proc, OpenLock(p)  PROVE OwnDesc'
  <2> USE <1>7 DEF OpenLock, NeedsFd, Serves
  <2> DEFINE d == [seg |-> instance[p], by |-> p]
  <2>1. /\ flock_fd' = [flock_fd EXCEPT ![p] = d]
        /\ flock_pid' = [flock_pid EXCEPT ![p] = p]
        /\ fds' = [fds EXCEPT ![p] = @ \cup {d}]
    BY DEF OpenDesc
  <2>2. d # NoDesc /\ d.by = p /\ d.seg = instance[p]
    BY DEF NoDesc
  <2> HIDE DEF d
  <2> QED
    BY <2>1, <2>2
<1>8. ASSUME NEW p \in Proc, DoLock(p)  PROVE OwnDesc'
  BY <1>8 DEF DoLock, NeedsFd, Serves, flock
<1>9. ASSUME NEW p \in Proc, LockFails(p)  PROVE OwnDesc'
  BY <1>9 DEF LockFails, NeedsFd, Serves
<1>10. ASSUME NEW p \in Proc, DoUnlock(p)  PROVE OwnDesc'
  BY <1>10 DEF DoUnlock, flock
<1>11. ASSUME NEW p \in Proc, End(p)  PROVE OwnDesc'
  BY <1>11 DEF End, Workers, MShutdown, ShutdownMM, Left
<1>12. ASSUME NEW p \in Proc, Kill(p)  PROVE OwnDesc'
  BY <1>12 DEF Kill, flock, Left
<1>13. CASE UNCHANGED vars
  BY <1>13 DEF vars, lock, flock
<1> QED
  BY <1>1, <1>2, <1>3, <1>4, <1>5, <1>6, <1>7, <1>8, <1>9, <1>10, <1>11, <1>12,
     <1>13 DEF Next

(* Nobody stops the module from within.                                    *)
LEMMA MasterInNext ==
  ASSUME Inv, [Next]_vars
  PROVE  MasterIn'
<1> USE SegmentAssumption DEF Inv, TypeOK, build, who, MasterIn
<1>1. ASSUME NEW g \in Seg, InitMM(g)  PROVE MasterIn'
  BY <1>1 DEF InitMM, Create, OpenDesc, flock
<1>2. ASSUME NEW g \in Seg, InitMMFails(g)  PROVE MasterIn'
  BY <1>2 DEF InitMMFails, Create, OpenDesc, flock
<1>3. ASSUME Stop  PROVE MasterIn'
  BY <1>3 DEF Stop, MShutdown, ShutdownMM, Users
<1>4. ASSUME Quit  PROVE MasterIn'
  BY <1>4 DEF Quit, Left, flock
<1>5. ASSUME NEW p \in Proc, NEW q \in Proc, Fork(q, p)  PROVE MasterIn'
  BY <1>5 DEF Fork, Admits, Workers, Serves
<1>6. ASSUME NEW p \in Proc, Lead(p)  PROVE MasterIn'
  BY <1>6 DEF Lead, lock, flock
<1>7. ASSUME NEW p \in Proc, OpenLock(p)  PROVE MasterIn'
  BY <1>7 DEF OpenLock, OpenDesc, NeedsFd, Serves
<1>8. ASSUME NEW p \in Proc, DoLock(p)  PROVE MasterIn'
  BY <1>8 DEF DoLock, NeedsFd, Serves, flock
<1>9. ASSUME NEW p \in Proc, LockFails(p)  PROVE MasterIn'
  BY <1>9 DEF LockFails, NeedsFd, Serves
<1>10. ASSUME NEW p \in Proc, DoUnlock(p)  PROVE MasterIn'
  BY <1>10 DEF DoUnlock, flock
<1>11. ASSUME NEW p \in Proc, End(p)  PROVE MasterIn'
  BY <1>11 DEF End, Workers, MShutdown, ShutdownMM, Left
<1>12. ASSUME NEW p \in Proc, Kill(p)  PROVE MasterIn'
  BY <1>12 DEF Kill, flock, Left
<1>13. CASE UNCHANGED vars
  BY <1>13 DEF vars, lock, flock
<1> QED
  BY <1>1, <1>2, <1>3, <1>4, <1>5, <1>6, <1>7, <1>8, <1>9, <1>10, <1>11, <1>12,
     <1>13 DEF Next

(* A lock that is held is given to nobody else.                            *)
LEMMA HoldersInNext ==
  ASSUME Inv, [Next]_vars
  PROVE  HoldersIn'
<1> USE SegmentAssumption DEF Inv, TypeOK, build, who, OwnDesc, MasterIn, HoldersIn,
        Grip, Holder, Seg, NoDesc
<1>1. ASSUME NEW g \in Seg, InitMM(g)  PROVE HoldersIn'
  BY <1>1 DEF InitMM, Create, OpenDesc, flock
<1>2. ASSUME NEW g \in Seg, InitMMFails(g)  PROVE HoldersIn'
  BY <1>2 DEF InitMMFails, Create, OpenDesc, flock
<1>3. ASSUME Stop  PROVE HoldersIn'
  BY <1>3 DEF Stop, MShutdown, ShutdownMM, Users
<1>4. ASSUME Quit  PROVE HoldersIn'
  BY <1>4 DEF Quit, Left, flock
<1>5. ASSUME NEW p \in Proc, NEW q \in Proc, Fork(q, p)  PROVE HoldersIn'
  BY <1>5 DEF Fork, Admits, Workers, Serves
<1>6. ASSUME NEW p \in Proc, Lead(p)  PROVE HoldersIn'
  BY <1>6 DEF Lead, lock, flock
<1>7. ASSUME NEW p \in Proc, OpenLock(p)  PROVE HoldersIn'
  BY <1>7 DEF OpenLock, OpenDesc, NeedsFd, Serves
<1>8. ASSUME NEW p \in Proc, DoLock(p)  PROVE HoldersIn'
  <2> USE <1>8 DEF DoLock, NeedsFd, Serves, flock
  <2>1. Holder(p) = Grip(p)
    <3>1. CASE kind = "flock"
      <4>1. flock_fd[p] \in Desc /\ flock_fd[p] # NoDesc /\ flock_pid[p] = p
        BY <3>1
      <4>2. flock_fd[p].by = p /\ flock_fd[p].seg = instance[p]
        BY <3>1, <4>1
      <4>3. flock_fd[p] = [seg |-> instance[p], by |-> p]
        BY <4>1, <4>2, DescFacts
      <4> QED
        BY <3>1, <4>3
    <3>2. CASE kind # "flock"
      BY <3>2
    <3> QED  BY <3>1, <3>2
  <2>2. ASSUME NEW q \in Proc, q # p, inside[q] = "locked"
        PROVE  instance[q] # instance[p]
    <3>1. held[instance[q]] = {Grip(q)} /\ Grip(q).by = q /\ Grip(p).by = p
      BY <2>2
    <3>2. held[instance[p]] \subseteq {Grip(p)}
      BY <2>1
    <3> HIDE DEF Grip, Holder
    <3>3. instance[q] = instance[p] => Grip(q) = Grip(p)
      BY <3>1, <3>2
    <3> QED  BY <3>1, <3>3, <2>2
  <2>3. instance[p] \in Seg
    OBVIOUS
  <2> HIDE DEF Holder, Grip
  <2>4. \A q \in Proc : Grip(q)' = Grip(q) /\ Holder(q)' = Holder(q)
    BY DEF Holder, Grip
  <2> QED  BY <2>1, <2>2, <2>3, <2>4
<1>9. ASSUME NEW p \in Proc, LockFails(p)  PROVE HoldersIn'
  BY <1>9 DEF LockFails, NeedsFd, Serves
<1>10. ASSUME NEW p \in Proc, DoUnlock(p)  PROVE HoldersIn'
  <2> USE <1>10 DEF DoUnlock, flock
  <2>1. ASSUME NEW q \in Proc, inside'[q] = "locked"
        PROVE  held'[instance[q]] = held[instance[q]] /\ inside[q] = "locked"
    <3>1. CASE inside[p] = "locked"
      BY <3>1, <2>1, InvExclusive DEF ExclusiveOverFork
    <3>2. CASE inside[p] # "locked"
      BY <3>2, <2>1
    <3> QED  BY <3>1, <3>2
  <2> QED  BY <2>1
<1>11. ASSUME NEW p \in Proc, End(p)  PROVE HoldersIn'
  BY <1>11 DEF End, Workers, MShutdown, ShutdownMM, Left
<1>12. ASSUME NEW p \in Proc, Kill(p)  PROVE HoldersIn'
  BY <1>12 DEF Kill, flock, Left
<1>13. CASE UNCHANGED vars
  BY <1>13 DEF vars, lock, flock
<1> QED
  BY <1>1, <1>2, <1>3, <1>4, <1>5, <1>6, <1>7, <1>8, <1>9, <1>10, <1>11, <1>12,
     <1>13 DEF Next

(* Only leaders remove locks.                                              *)
LEMMA InOrderNext ==
  ASSUME Inv, [Next]_vars
  PROVE  InOrder'
<1> USE SegmentAssumption DEF Inv, TypeOK, build, who, InOrder, Seg
<1>1. ASSUME NEW g \in Seg, InitMM(g)  PROVE InOrder'
  BY <1>1 DEF InitMM, Create, OpenDesc, flock
<1>2. ASSUME NEW g \in Seg, InitMMFails(g)  PROVE InOrder'
  BY <1>2 DEF InitMMFails, Create, OpenDesc, flock
<1>3. ASSUME Stop  PROVE InOrder'
  <2>0. MShutdown(Master)
    BY <1>3 DEF Stop
  <2> USE <1>3 DEF Stop, MShutdown, ShutdownMM, Users
  <2>1. CASE instance[Master] # 0 /\ Master \in leader
    <3> SUFFICES ASSUME orderly', NEW q \in alive, instance'[q] # 0
                 PROVE  sem'[instance'[q]] = "there"
      BY <2>1
    <3>1. q # Master /\ instance[q] # instance[Master]
      BY <2>1
    <3>2. instance'[q] = instance[q] /\ instance[q] \in Seg
      BY <3>1, <2>1
    <3>3. sem' = [sem EXCEPT ![instance[Master]] = "removed"]
      BY <2>0, <2>1, ShutSem
    <3> QED  BY <2>1, <3>1, <3>2, <3>3
  <2>2. CASE ~ (instance[Master] # 0 /\ Master \in leader)
    BY <2>2
  <2> QED  BY <2>1, <2>2
<1>4. ASSUME Quit  PROVE InOrder'
  BY <1>4 DEF Quit, Left, flock
<1>5. ASSUME NEW p \in Proc, NEW q \in Proc, Fork(q, p)  PROVE InOrder'
  BY <1>5 DEF Fork, Admits, Workers, Serves
<1>6. ASSUME NEW p \in Proc, Lead(p)  PROVE InOrder'
  BY <1>6 DEF Lead, lock, flock
<1>7. ASSUME NEW p \in Proc, OpenLock(p)  PROVE InOrder'
  BY <1>7 DEF OpenLock, OpenDesc, NeedsFd, Serves
<1>8. ASSUME NEW p \in Proc, DoLock(p)  PROVE InOrder'
  BY <1>8 DEF DoLock, NeedsFd, Serves, flock
<1>9. ASSUME NEW p \in Proc, LockFails(p)  PROVE InOrder'
  BY <1>9 DEF LockFails, NeedsFd, Serves
<1>10. ASSUME NEW p \in Proc, DoUnlock(p)  PROVE InOrder'
  BY <1>10 DEF DoUnlock, flock
<1>11. ASSUME NEW p \in Proc, End(p)  PROVE InOrder'
  <2>1. MShutdown(p)
    BY <1>11 DEF End
  <2> QED
    BY <1>11, <2>1, ShutSem DEF End, Workers, MShutdown, ShutdownMM, Left
<1>12. ASSUME NEW p \in Proc, Kill(p)  PROVE InOrder'
  BY <1>12 DEF Kill, flock, Left
<1>13. CASE UNCHANGED vars
  BY <1>13 DEF vars, lock, flock
<1> QED
  BY <1>1, <1>2, <1>3, <1>4, <1>5, <1>6, <1>7, <1>8, <1>9, <1>10, <1>11, <1>12,
     <1>13 DEF Next

(* A lock fails that was removed, or is not open to who asks for it.       *)
LEMMA AlwaysLockedNext ==
  ASSUME Inv, [Next]_vars
  PROVE  AlwaysLocked'
<1> USE SegmentAssumption DEF Inv, TypeOK, build, who, InOrder, AlwaysLocked
<1>1. ASSUME NEW g \in Seg, InitMM(g)  PROVE AlwaysLocked'
  BY <1>1 DEF InitMM, Create, OpenDesc, flock
<1>2. ASSUME NEW g \in Seg, InitMMFails(g)  PROVE AlwaysLocked'
  BY <1>2 DEF InitMMFails, Create, OpenDesc, flock
<1>3. ASSUME Stop  PROVE AlwaysLocked'
  BY <1>3 DEF Stop, MShutdown, ShutdownMM, Users
<1>4. ASSUME Quit  PROVE AlwaysLocked'
  BY <1>4 DEF Quit, Left, flock
<1>5. ASSUME NEW p \in Proc, NEW q \in Proc, Fork(q, p)  PROVE AlwaysLocked'
  BY <1>5 DEF Fork, Admits, Workers, Serves
<1>6. ASSUME NEW p \in Proc, Lead(p)  PROVE AlwaysLocked'
  BY <1>6 DEF Lead, lock, flock
<1>7. ASSUME NEW p \in Proc, OpenLock(p)  PROVE AlwaysLocked'
  BY <1>7 DEF OpenLock, OpenDesc, NeedsFd, Serves
<1>8. ASSUME NEW p \in Proc, DoLock(p)  PROVE AlwaysLocked'
  BY <1>8 DEF DoLock, NeedsFd, Serves, flock
<1>9. ASSUME NEW p \in Proc, LockFails(p)  PROVE AlwaysLocked'
  <2>1. p = Master /\ kind = "flock" => ~ NeedsFd(p) /\ flock_pid[p] = p
    BY <1>9 DEF LockFails, NeedsFd, Serves, OwnDesc
  <2>2. NeedsFd(p) => kind = "flock" /\ flock_pid[p] # p
    BY <1>9 DEF LockFails, NeedsFd, Serves, OwnDesc
  <2>3. p # Master \/ p \notin foreign
    BY DEF Workers
  <2> QED
    BY <1>9, <2>1, <2>2, <2>3 DEF LockFails, Serves
<1>10. ASSUME NEW p \in Proc, DoUnlock(p)  PROVE AlwaysLocked'
  BY <1>10 DEF DoUnlock, flock
<1>11. ASSUME NEW p \in Proc, End(p)  PROVE AlwaysLocked'
  BY <1>11 DEF End, Workers, MShutdown, ShutdownMM, Left
<1>12. ASSUME NEW p \in Proc, Kill(p)  PROVE AlwaysLocked'
  BY <1>12 DEF Kill, flock, Left
<1>13. CASE UNCHANGED vars
  BY <1>13 DEF vars, lock, flock
<1> QED
  BY <1>1, <1>2, <1>3, <1>4, <1>5, <1>6, <1>7, <1>8, <1>9, <1>10, <1>11, <1>12,
     <1>13 DEF Next

(* The master removes its lock, or will not.                               *)
LEMMA OwnedNext ==
  ASSUME Inv, [Next]_vars
  PROVE  Owned'
<1> USE SegmentAssumption DEF Inv, TypeOK, build, who, Owned, Seg
<1>1. ASSUME NEW g \in Seg, InitMM(g)  PROVE Owned'
  BY <1>1 DEF InitMM, Create, OpenDesc, flock
<1>2. ASSUME NEW g \in Seg, InitMMFails(g)  PROVE Owned'
  BY <1>2 DEF InitMMFails, Create, OpenDesc, flock
<1>3. ASSUME Stop  PROVE Owned'
  <2>1. MShutdown(Master)
    BY <1>3 DEF Stop
  <2>2. CASE instance[Master] # 0 /\ Master \in leader
    <3>1. sem' = [sem EXCEPT ![instance[Master]] = "removed"]
      BY <2>1, <2>2, ShutSem
    <3> QED
      BY <1>3, <2>2, <3>1 DEF Stop
  <2>3. CASE ~ (instance[Master] # 0 /\ Master \in leader)
    <3>1. sem' = sem
      BY <2>1, <2>3, ShutSem
    <3> QED
      BY <1>3, <2>3, <3>1 DEF Stop
  <2> QED
    BY <2>2, <2>3
<1>4. ASSUME Quit  PROVE Owned'
  BY <1>4 DEF Quit, Left, flock
<1>5. ASSUME NEW p \in Proc, NEW q \in Proc, Fork(q, p)  PROVE Owned'
  BY <1>5 DEF Fork, Admits, Workers, Serves
<1>6. ASSUME NEW p \in Proc, Lead(p)  PROVE Owned'
  BY <1>6 DEF Lead, lock, flock
<1>7. ASSUME NEW p \in Proc, OpenLock(p)  PROVE Owned'
  BY <1>7 DEF OpenLock, OpenDesc, NeedsFd, Serves
<1>8. ASSUME NEW p \in Proc, DoLock(p)  PROVE Owned'
  BY <1>8 DEF DoLock, NeedsFd, Serves, flock
<1>9. ASSUME NEW p \in Proc, LockFails(p)  PROVE Owned'
  BY <1>9 DEF LockFails, NeedsFd, Serves
<1>10. ASSUME NEW p \in Proc, DoUnlock(p)  PROVE Owned'
  BY <1>10 DEF DoUnlock, flock
<1>11. ASSUME NEW p \in Proc, End(p)  PROVE Owned'
  <2>1. MShutdown(p)
    BY <1>11 DEF End
  <2> QED
    BY <1>11, <2>1, ShutSem DEF End, Workers, MShutdown, ShutdownMM, Left
<1>12. ASSUME NEW p \in Proc, Kill(p)  PROVE Owned'
  BY <1>12 DEF Kill, flock, Left
<1>13. CASE UNCHANGED vars
  BY <1>13 DEF vars, lock, flock
<1> QED
  BY <1>1, <1>2, <1>3, <1>4, <1>5, <1>6, <1>7, <1>8, <1>9, <1>10, <1>11, <1>12,
     <1>13 DEF Next

(* Types.                                                                  *)
LEMMA TypedNext ==
  ASSUME Inv, [Next]_vars
  PROVE  TypeOK'
<1> USE SegmentAssumption, DescFacts DEF Inv, TypeOK, build, who, MasterIn, Seg
<1>1. ASSUME NEW g \in Seg, InitMM(g)  PROVE TypeOK'
  <2> USE <1>1 DEF InitMM, Create
  <2>1. instance' \in [Proc -> 0 .. made'] /\ made' \in 0 .. MaxSeg
    BY SegmentAssumption
  <2>2. /\ flock_fd' \in [Proc -> Desc] /\ flock_pid' \in [Proc -> Proc]
        /\ fds' \in [Proc -> SUBSET Desc]
    <3>1. CASE kind = "flock"
      <4>1. OpenDesc(Master, g) /\ g \in 0 .. MaxSeg
        BY <3>1
      <4> QED
        BY <4>1, OpenDescTyped, SegmentAssumption
    <3>2. CASE kind # "flock"
      BY <3>2 DEF flock
    <3> QED  BY <3>1, <3>2
  <2>3. held' \in [Seg -> SUBSET Desc]
    OBVIOUS
  <2>9. /\ alive' \subseteq Proc /\ foreign' \subseteq Workers /\ leader' \subseteq Proc
        /\ sem' \in [Seg -> {"none", "there", "removed"}]
        /\ inside' \in [Proc -> {"no", "locked", "unlocked", "denied"}]
        /\ orderly' \in BOOLEAN /\ untidy' \subseteq Seg
        /\ kind' \in Kinds /\ apache' \in BOOLEAN /\ up' \in BOOLEAN
    OBVIOUS
  <2>10. \A o \in Proc : inside'[o] # "no" => o \in alive' /\ instance'[o] # 0
    OBVIOUS
  <2> QED
    BY <2>1, <2>2, <2>3, <2>9, <2>10
<1>2. ASSUME NEW g \in Seg, InitMMFails(g)  PROVE TypeOK'
  <2> USE <1>2 DEF InitMMFails, Create
  <2>1. instance' \in [Proc -> 0 .. made'] /\ made' \in 0 .. MaxSeg
    BY SegmentAssumption
  <2>2. /\ flock_fd' \in [Proc -> Desc] /\ flock_pid' \in [Proc -> Proc]
        /\ fds' \in [Proc -> SUBSET Desc]
    <3>1. CASE kind = "flock"
      <4>1. OpenDesc(Master, g) /\ g \in 0 .. MaxSeg
        BY <3>1
      <4> QED
        BY <4>1, OpenDescTyped, SegmentAssumption
    <3>2. CASE kind # "flock"
      BY <3>2 DEF flock
    <3> QED  BY <3>1, <3>2
  <2>3. held' \in [Seg -> SUBSET Desc]
    OBVIOUS
  <2>9. /\ alive' \subseteq Proc /\ foreign' \subseteq Workers /\ leader' \subseteq Proc
        /\ sem' \in [Seg -> {"none", "there", "removed"}]
        /\ inside' \in [Proc -> {"no", "locked", "unlocked", "denied"}]
        /\ orderly' \in BOOLEAN /\ untidy' \subseteq Seg
        /\ kind' \in Kinds /\ apache' \in BOOLEAN /\ up' \in BOOLEAN
    OBVIOUS
  <2>10. \A o \in Proc : inside'[o] # "no" => o \in alive' /\ instance'[o] # 0
    OBVIOUS
  <2> QED
    BY <2>1, <2>2, <2>3, <2>9, <2>10
<1>3. ASSUME Stop  PROVE TypeOK'
  <2> USE <1>3, ShutSem DEF Stop, MShutdown, ShutdownMM
  <2>1. instance' \in [Proc -> 0 .. made'] /\ made' \in 0 .. MaxSeg
    <3>1. CASE instance[Master] # 0 /\ Master \in leader
      BY <3>1
    <3>2. CASE ~ (instance[Master] # 0 /\ Master \in leader)
      BY <3>2
    <3> QED  BY <3>1, <3>2
  <2>2. /\ flock_fd' \in [Proc -> Desc] /\ flock_pid' \in [Proc -> Proc]
        /\ fds' \in [Proc -> SUBSET Desc]
    <3>1. CASE instance[Master] # 0 /\ Master \in leader
      <4>1. /\ UNCHANGED flock_pid
            /\ fds' = [fds EXCEPT ![Master] = @ \ {flock_fd[Master]}]
            /\ flock_fd' = [flock_fd EXCEPT ![Master] = NoDesc]
        BY <3>1
      <4> QED
        BY <4>1, CloseDescTyped, SegmentAssumption
    <3>2. CASE ~ (instance[Master] # 0 /\ Master \in leader)
      BY <3>2
    <3> QED  BY <3>1, <3>2
  <2>3. held' \in [Seg -> SUBSET Desc]
    OBVIOUS
  <2>9. /\ alive' \subseteq Proc /\ foreign' \subseteq Workers /\ leader' \subseteq Proc
        /\ sem' \in [Seg -> {"none", "there", "removed"}]
        /\ inside' \in [Proc -> {"no", "locked", "unlocked", "denied"}]
        /\ orderly' \in BOOLEAN /\ untidy' \subseteq Seg
        /\ kind' \in Kinds /\ apache' \in BOOLEAN /\ up' \in BOOLEAN
    <3>1. sem' \in [Seg -> {"none", "there", "removed"}]
      OBVIOUS
    <3>2. untidy' \subseteq Seg
      <4>1. {instance[Master]} \ {0} \subseteq Seg
        OBVIOUS
      <4> QED  BY <4>1
    <3> QED  BY <3>1, <3>2
  <2>10. \A o \in Proc : inside'[o] # "no" => o \in alive' /\ instance'[o] # 0
    OBVIOUS
  <2> QED
    BY <2>1, <2>2, <2>3, <2>9, <2>10
<1>4. ASSUME Quit  PROVE TypeOK'
  <2> USE <1>4 DEF Quit, flock
  <2>1. instance' \in [Proc -> 0 .. made'] /\ made' \in 0 .. MaxSeg
    OBVIOUS
  <2>2. /\ flock_fd' \in [Proc -> Desc] /\ flock_pid' \in [Proc -> Proc]
        /\ fds' \in [Proc -> SUBSET Desc]
    OBVIOUS
  <2>3. held' \in [Seg -> SUBSET Desc]
    BY LeftTyped
  <2>9. /\ alive' \subseteq Proc /\ foreign' \subseteq Workers /\ leader' \subseteq Proc
        /\ sem' \in [Seg -> {"none", "there", "removed"}]
        /\ inside' \in [Proc -> {"no", "locked", "unlocked", "denied"}]
        /\ orderly' \in BOOLEAN /\ untidy' \subseteq Seg
        /\ kind' \in Kinds /\ apache' \in BOOLEAN /\ up' \in BOOLEAN
    OBVIOUS
  <2>10. \A o \in Proc : inside'[o] # "no" => o \in alive' /\ instance'[o] # 0
    OBVIOUS
  <2> QED
    BY <2>1, <2>2, <2>3, <2>9, <2>10
<1>5. ASSUME NEW p \in Proc, NEW q \in Proc, Fork(q, p)  PROVE TypeOK'
  BY <1>5 DEF Fork, Admits, Workers, Serves
<1>6. ASSUME NEW p \in Proc, Lead(p)  PROVE TypeOK'
  BY <1>6 DEF Lead, lock, flock
<1>7. ASSUME NEW p \in Proc, OpenLock(p)  PROVE TypeOK'
  <2> USE <1>7 DEF OpenLock, Serves
  <2>1. instance' \in [Proc -> 0 .. made'] /\ made' \in 0 .. MaxSeg
    OBVIOUS
  <2>2. /\ flock_fd' \in [Proc -> Desc] /\ flock_pid' \in [Proc -> Proc]
        /\ fds' \in [Proc -> SUBSET Desc]
    <3>1. OpenDesc(p, instance[p]) /\ instance[p] \in 0 .. MaxSeg
      OBVIOUS
    <3> QED  BY <3>1, OpenDescTyped
  <2>3. held' \in [Seg -> SUBSET Desc]
    OBVIOUS
  <2>9. /\ alive' \subseteq Proc /\ foreign' \subseteq Workers /\ leader' \subseteq Proc
        /\ sem' \in [Seg -> {"none", "there", "removed"}]
        /\ inside' \in [Proc -> {"no", "locked", "unlocked", "denied"}]
        /\ orderly' \in BOOLEAN /\ untidy' \subseteq Seg
        /\ kind' \in Kinds /\ apache' \in BOOLEAN /\ up' \in BOOLEAN
    OBVIOUS
  <2>10. \A o \in Proc : inside'[o] # "no" => o \in alive' /\ instance'[o] # 0
    OBVIOUS
  <2> QED
    BY <2>1, <2>2, <2>3, <2>9, <2>10
<1>8. ASSUME NEW p \in Proc, DoLock(p)  PROVE TypeOK'
  <2> USE <1>8 DEF DoLock, Serves, flock
  <2>1. instance' \in [Proc -> 0 .. made'] /\ made' \in 0 .. MaxSeg
    OBVIOUS
  <2>2. /\ flock_fd' \in [Proc -> Desc] /\ flock_pid' \in [Proc -> Proc]
        /\ fds' \in [Proc -> SUBSET Desc]
    OBVIOUS
  <2>3. held' \in [Seg -> SUBSET Desc]
    <3>1. Holder(p) \in Desc
      BY DescFacts DEF Holder
    <3> QED  BY <3>1
  <2>9. /\ alive' \subseteq Proc /\ foreign' \subseteq Workers /\ leader' \subseteq Proc
        /\ sem' \in [Seg -> {"none", "there", "removed"}]
        /\ inside' \in [Proc -> {"no", "locked", "unlocked", "denied"}]
        /\ orderly' \in BOOLEAN /\ untidy' \subseteq Seg
        /\ kind' \in Kinds /\ apache' \in BOOLEAN /\ up' \in BOOLEAN
    OBVIOUS
  <2>10. \A o \in Proc : inside'[o] # "no" => o \in alive' /\ instance'[o] # 0
    OBVIOUS
  <2> QED
    BY <2>1, <2>2, <2>3, <2>9, <2>10
<1>9. ASSUME NEW p \in Proc, LockFails(p)  PROVE TypeOK'
  <2> USE <1>9 DEF LockFails, Serves
  <2>1. instance' \in [Proc -> 0 .. made'] /\ made' \in 0 .. MaxSeg
    OBVIOUS
  <2>2. /\ flock_fd' \in [Proc -> Desc] /\ flock_pid' \in [Proc -> Proc]
        /\ fds' \in [Proc -> SUBSET Desc]
    <3>1. NoDesc \in Desc
      BY DescFacts
    <3>2. UNCHANGED <<flock_pid, fds>>
      OBVIOUS
    <3>3. flock_fd' = [flock_fd EXCEPT ![p] = NoDesc] \/ flock_fd' = flock_fd
      OBVIOUS
    <3>4. /\ flock_fd \in [Proc -> Desc] /\ flock_pid \in [Proc -> Proc]
          /\ fds \in [Proc -> SUBSET Desc]
      OBVIOUS
    <3> QED
      BY ONLY <3>1, <3>2, <3>3, <3>4
  <2>3. held' \in [Seg -> SUBSET Desc]
    OBVIOUS
  <2>9. /\ alive' \subseteq Proc /\ foreign' \subseteq Workers /\ leader' \subseteq Proc
        /\ sem' \in [Seg -> {"none", "there", "removed"}]
        /\ inside' \in [Proc -> {"no", "locked", "unlocked", "denied"}]
        /\ orderly' \in BOOLEAN /\ untidy' \subseteq Seg
        /\ kind' \in Kinds /\ apache' \in BOOLEAN /\ up' \in BOOLEAN
    OBVIOUS
  <2>10. \A o \in Proc : inside'[o] # "no" => o \in alive' /\ instance'[o] # 0
    OBVIOUS
  <2> QED
    BY <2>1, <2>2, <2>3, <2>9, <2>10
<1>10. ASSUME NEW p \in Proc, DoUnlock(p)  PROVE TypeOK'
  BY <1>10 DEF DoUnlock, flock
<1>11. ASSUME NEW p \in Proc, End(p)  PROVE TypeOK'
  <2> USE <1>11, ShutSem DEF End, Workers, MShutdown, ShutdownMM
  <2>1. instance' \in [Proc -> 0 .. made'] /\ made' \in 0 .. MaxSeg
    <3>1. CASE instance[p] # 0 /\ p \in leader
      BY <3>1
    <3>2. CASE ~ (instance[p] # 0 /\ p \in leader)
      BY <3>2
    <3> QED  BY <3>1, <3>2
  <2>2. /\ flock_fd' \in [Proc -> Desc] /\ flock_pid' \in [Proc -> Proc]
        /\ fds' \in [Proc -> SUBSET Desc]
    <3>1. CASE instance[p] # 0 /\ p \in leader
      <4>1. /\ UNCHANGED flock_pid
            /\ fds' = [fds EXCEPT ![p] = @ \ {flock_fd[p]}]
            /\ flock_fd' = [flock_fd EXCEPT ![p] = NoDesc]
        BY <3>1
      <4> QED
        BY <4>1, CloseDescTyped, SegmentAssumption
    <3>2. CASE ~ (instance[p] # 0 /\ p \in leader)
      BY <3>2
    <3> QED  BY <3>1, <3>2
  <2>3. held' \in [Seg -> SUBSET Desc]
    BY LeftTyped
  <2>9. /\ alive' \subseteq Proc /\ foreign' \subseteq Workers /\ leader' \subseteq Proc
        /\ sem' \in [Seg -> {"none", "there", "removed"}]
        /\ inside' \in [Proc -> {"no", "locked", "unlocked", "denied"}]
        /\ orderly' \in BOOLEAN /\ untidy' \subseteq Seg
        /\ kind' \in Kinds /\ apache' \in BOOLEAN /\ up' \in BOOLEAN
    OBVIOUS
  <2>10. \A o \in Proc : inside'[o] # "no" => o \in alive' /\ instance'[o] # 0
    OBVIOUS
  <2> QED
    BY <2>1, <2>2, <2>3, <2>9, <2>10
<1>12. ASSUME NEW p \in Proc, Kill(p)  PROVE TypeOK'
  <2> USE <1>12 DEF Kill, flock
  <2>1. instance' \in [Proc -> 0 .. made'] /\ made' \in 0 .. MaxSeg
    OBVIOUS
  <2>2. /\ flock_fd' \in [Proc -> Desc] /\ flock_pid' \in [Proc -> Proc]
        /\ fds' \in [Proc -> SUBSET Desc]
    OBVIOUS
  <2>3. held' \in [Seg -> SUBSET Desc]
    BY LeftTyped
  <2>9. /\ alive' \subseteq Proc /\ foreign' \subseteq Workers /\ leader' \subseteq Proc
        /\ sem' \in [Seg -> {"none", "there", "removed"}]
        /\ inside' \in [Proc -> {"no", "locked", "unlocked", "denied"}]
        /\ orderly' \in BOOLEAN /\ untidy' \subseteq Seg
        /\ kind' \in Kinds /\ apache' \in BOOLEAN /\ up' \in BOOLEAN
    OBVIOUS
  <2>10. \A o \in Proc : inside'[o] # "no" => o \in alive' /\ instance'[o] # 0
    OBVIOUS
  <2> QED
    BY <2>1, <2>2, <2>3, <2>9, <2>10
<1>13. CASE UNCHANGED vars
  BY <1>13 DEF vars, lock, flock
<1> QED
  BY <1>1, <1>2, <1>3, <1>4, <1>5, <1>6, <1>7, <1>8, <1>9, <1>10, <1>11, <1>12,
     <1>13 DEF Next

(* What a dead process holds is open somewhere.                            *)
LEMMA AccountedNext ==
  ASSUME Inv, [Next]_vars
  PROVE  Accounted'
<1> USE DescFacts DEF Inv, TypeOK, build, who, Accounted, OwnDesc, MasterIn, Holder,
        Kinds
<1>1. ASSUME NEW g \in Seg, InitMM(g)  PROVE Accounted'
  <2> USE <1>1 DEF InitMM, Create, OpenDesc, flock
  <2> SUFFICES ASSUME kind \notin {"spinlock", "pthread"}, NEW k \in Seg,
                      NEW h \in held'[k]
               PROVE  \/ /\ inside'[h.by] = "locked" /\ instance'[h.by] = k
                         /\ Holder(h.by)' = h
                      \/ /\ kind = "flock" /\ h.by \notin alive'
                         /\ \E o \in alive' : h \in fds'[o]
    OBVIOUS
  <2>1. h \in held[k] /\ h.by \in Proc
    OBVIOUS
  <2>2. CASE inside[h.by] = "locked" /\ instance[h.by] = k /\ Holder(h.by) = h
    BY <2>1, <2>2
  <2>3. CASE /\ kind = "flock" /\ h.by \notin alive
             /\ \E o \in alive : h \in fds[o]
    <3>1. PICK o \in alive : h \in fds[o]
      BY <2>3
    <3>2. h \in fds'[o]
      <4>1. CASE o = Master
        BY <2>3, <3>1, <4>1
      <4>2. CASE o # Master
        BY <2>3, <3>1, <4>2
      <4> QED  BY <4>1, <4>2
    <3> QED
      BY <2>3, <3>1, <3>2
  <2> QED  BY <2>1, <2>2, <2>3
<1>2. ASSUME NEW g \in Seg, InitMMFails(g)  PROVE Accounted'
  <2> USE <1>2 DEF InitMMFails, Create, OpenDesc, flock
  <2> SUFFICES ASSUME kind \notin {"spinlock", "pthread"}, NEW k \in Seg,
                      NEW h \in held'[k]
               PROVE  \/ /\ inside'[h.by] = "locked" /\ instance'[h.by] = k
                         /\ Holder(h.by)' = h
                      \/ /\ kind = "flock" /\ h.by \notin alive'
                         /\ \E o \in alive' : h \in fds'[o]
    OBVIOUS
  <2>1. h \in held[k] /\ h.by \in Proc
    OBVIOUS
  <2>2. CASE inside[h.by] = "locked" /\ instance[h.by] = k /\ Holder(h.by) = h
    BY <2>1, <2>2
  <2>3. CASE /\ kind = "flock" /\ h.by \notin alive
             /\ \E o \in alive : h \in fds[o]
    <3>1. PICK o \in alive : h \in fds[o]
      BY <2>3
    <3>2. h \in fds'[o]
      <4>1. CASE o = Master
        BY <2>3, <3>1, <4>1
      <4>2. CASE o # Master
        BY <2>3, <3>1, <4>2
      <4> QED  BY <4>1, <4>2
    <3> QED
      BY <2>3, <3>1, <3>2
  <2> QED  BY <2>1, <2>2, <2>3
<1>3. ASSUME Stop  PROVE Accounted'
  <2> USE <1>3 DEF Stop, MShutdown, ShutdownMM, Users
  <2> SUFFICES ASSUME kind \notin {"spinlock", "pthread"}, NEW k \in Seg,
                      NEW h \in held'[k]
               PROVE  \/ /\ inside'[h.by] = "locked" /\ instance'[h.by] = k
                         /\ Holder(h.by)' = h
                      \/ /\ kind = "flock" /\ h.by \notin alive'
                         /\ \E o \in alive' : h \in fds'[o]
    OBVIOUS
  <2>1. h \in held[k] /\ h.by \in Proc
    OBVIOUS
  <2>2. CASE inside[h.by] = "locked" /\ instance[h.by] = k /\ Holder(h.by) = h
    BY <2>1, <2>2
  <2>3. CASE /\ kind = "flock" /\ h.by \notin alive
             /\ \E o \in alive : h \in fds[o]
    <3>1. PICK o \in alive : h \in fds[o]
      BY <2>3
    <3>2. h \in fds'[o]
      <4>1. h # flock_fd[Master]
        BY <2>3, SegmentAssumption DEF NoDesc
      <4>2. CASE instance[Master] # 0 /\ Master \in leader
        <5>1. fds' = [fds EXCEPT ![Master] = @ \ {flock_fd[Master]}]
          BY <4>2
        <5> QED  BY <3>1, <4>1, <5>1
      <4>3. CASE ~ (instance[Master] # 0 /\ Master \in leader)
        BY <3>1, <4>3
      <4> QED  BY <4>2, <4>3
    <3> QED
      BY <2>3, <3>1, <3>2
  <2> QED  BY <2>1, <2>2, <2>3
<1>4. ASSUME Quit  PROVE Accounted'
  BY <1>4 DEF Quit, Left, flock
<1>5. ASSUME NEW p \in Proc, NEW q \in Proc, Fork(q, p)  PROVE Accounted'
  BY <1>5 DEF Fork, Admits, Workers, Serves
<1>6. ASSUME NEW p \in Proc, Lead(p)  PROVE Accounted'
  BY <1>6 DEF Lead, lock, flock
<1>7. ASSUME NEW p \in Proc, OpenLock(p)  PROVE Accounted'
  BY <1>7 DEF OpenLock, OpenDesc, NeedsFd, Serves
<1>8. ASSUME NEW p \in Proc, DoLock(p)  PROVE Accounted'
  BY <1>8 DEF DoLock, NeedsFd, Serves, flock
<1>9. ASSUME NEW p \in Proc, LockFails(p)  PROVE Accounted'
  <2> USE <1>9 DEF LockFails, NeedsFd, Serves
  <2> SUFFICES ASSUME kind \notin {"spinlock", "pthread"}, NEW k \in Seg,
                      NEW h \in held'[k]
               PROVE  \/ /\ inside'[h.by] = "locked" /\ instance'[h.by] = k
                         /\ Holder(h.by)' = h
                      \/ /\ kind = "flock" /\ h.by \notin alive'
                         /\ \E o \in alive' : h \in fds'[o]
    OBVIOUS
  <2>1. h \in held[k] /\ h.by \in Proc
    OBVIOUS
  <2>2. CASE inside[h.by] = "locked" /\ instance[h.by] = k /\ Holder(h.by) = h
    BY <2>1, <2>2
  <2>3. CASE /\ kind = "flock" /\ h.by \notin alive
             /\ \E o \in alive : h \in fds[o]
    BY <2>1, <2>3
  <2> QED  BY <2>1, <2>2, <2>3
<1>10. ASSUME NEW p \in Proc, DoUnlock(p)  PROVE Accounted'
  BY <1>10 DEF DoUnlock, flock
<1>11. ASSUME NEW p \in Proc, End(p)  PROVE Accounted'
  <2> USE <1>11 DEF End, Workers, MShutdown, ShutdownMM, Left
  <2> SUFFICES ASSUME kind \notin {"spinlock", "pthread"}, NEW k \in Seg,
                      NEW h \in held'[k]
               PROVE  \/ /\ inside'[h.by] = "locked" /\ instance'[h.by] = k
                         /\ Holder(h.by)' = h
                      \/ /\ kind = "flock" /\ h.by \notin alive'
                         /\ \E o \in alive' : h \in fds'[o]
    OBVIOUS
  <2>1. h \in held[k] /\ h.by \in Proc
    OBVIOUS
  <2>2. CASE inside[h.by] = "locked" /\ instance[h.by] = k /\ Holder(h.by) = h
    BY <2>1, <2>2
  <2>3. CASE /\ kind = "flock" /\ h.by \notin alive
             /\ \E o \in alive : h \in fds[o]
    BY <2>1, <2>3
  <2> QED  BY <2>1, <2>2, <2>3
<1>12. ASSUME NEW p \in Proc, Kill(p)  PROVE Accounted'
  <2> USE <1>12 DEF Kill, flock, Left
  <2> SUFFICES ASSUME kind \notin {"spinlock", "pthread"}, NEW k \in Seg,
                      NEW h \in held'[k]
               PROVE  \/ /\ inside'[h.by] = "locked" /\ instance'[h.by] = k
                         /\ Holder(h.by)' = h
                      \/ /\ kind = "flock" /\ h.by \notin alive'
                         /\ \E o \in alive' : h \in fds'[o]
    OBVIOUS
  <2>1. h \in held[k] /\ h.by \in Proc
    OBVIOUS
  <2>2. CASE inside[h.by] = "locked" /\ instance[h.by] = k /\ Holder(h.by) = h
    BY <2>1, <2>2
  <2>3. CASE /\ kind = "flock" /\ h.by \notin alive
             /\ \E o \in alive : h \in fds[o]
    BY <2>1, <2>3
  <2> QED  BY <2>1, <2>2, <2>3
<1>13. CASE UNCHANGED vars
  BY <1>13 DEF vars, lock, flock
<1> QED
  BY <1>1, <1>2, <1>3, <1>4, <1>5, <1>6, <1>7, <1>8, <1>9, <1>10, <1>11, <1>12,
     <1>13 DEF Next

(* The parts hold together.                                                *)
LEMMA Invariance == Spec => []Inv
<1>1. Inv /\ [Next]_vars => Inv'
  <2> QED
    BY OwnDescNext, MasterInNext, HoldersInNext, InOrderNext,
       AlwaysLockedNext, OwnedNext, TypedNext, AccountedNext DEF Inv
<1> QED
  BY <1>1, InvInit, PTL DEF Spec

-----------------------------------------------------------------------------
(* Types, and that whoever is in a section lives and has a segment, at     *)
(* every fork, stop, failure and kill.                                     *)
THEOREM TypeCorrect == Spec => []TypeOK
  BY Invariance, PTL DEF Inv

(* A semaphore, a record lock or a flock is held for somebody's section,   *)
(* or, flock's alone, by what a dead process has left to its children: the *)
(* system gives back all the rest.                                         *)
THEOREM NobodyWaitsForNothing == Spec => []Accounted
  BY Invariance, PTL DEF Inv

(* mm_do_lock lets two processes into one segment's sections at no time,   *)
(* though a child inherits the segment, the lock and the open files.       *)
THEOREM LockWorksOverFork == Spec => []ExclusiveOverFork
  BY Invariance, InvExclusive, PTL

(* While the module is stopped last, by the only leader, no mm_do_lock of  *)
(* a process that still runs meets a lock that was removed; one that is    *)
(* there is refused to another user, if it is a semaphore, or to a process *)
(* that has yet to open its file, and to nobody else.                      *)
THEOREM StopsInOrder == Spec => []AlwaysLocked
  BY Invariance, PTL DEF Inv

(* What mm_init_lock has made is removed, or is what the master never came *)
(* to remove.                                                              *)
THEOREM LeavesNothing == Spec => []NothingLeft
<1>1. Inv => NothingLeft
  BY DEF Inv, Owned, NothingLeft
<1> QED
  BY <1>1, Invariance, PTL

=============================================================================
