-------------------------- MODULE DiskCache_proofs --------------------------
(***************************************************************************)
(* Proofs about module DiskCache, for any number of processes, servers,    *)
(* revisions of the script and faults.                                     *)
(***************************************************************************)
EXTENDS DiskCache, FiniteSetTheorems, TLAPS

-----------------------------------------------------------------------------
(* Where a process has an entry for the script.                            *)
Holding == {"close", "store", "create", "lock_ex", "write_header", "write_body",
            "add_mm", "served"}

(* An entry as its author wrote it, its code no older than its label says: *)
(* the stat comes before the compilation.                                  *)
Sound(e) == e \in Entry /\ e.whole /\ e.code >= e.mtime

(* Such is every entry a process holds; once it is accepted, it is also    *)
(* for the script as the request saw it.                                   *)
HoldsSound ==
  \A p \in Proc : pc[p] \in Holding =>
    /\ Sound(img[p]) /\ Header[img[p].server] = Header[server[p]]
    /\ pc[p] # "close" => img[p].code >= stat[p]

(* An entry gets into the table, where others change its counters, only    *)
(* when it has been written out.                                           *)
LinkedServed == \A p \in Proc : linked[p] => pc[p] = "served"

StatPast == \A p \in Proc : stat[p] <= rev

(* A header that is there is that of such an entry.                        *)
FilesSound ==
  \A i \in Inode :
    /\ file[i].len >= 2 => Sound(file[i].crc)
    /\ file[i].len = 4 => file[i].body \in Entry

(* flock: readers and writers exclude each other, between open and close.  *)
LocksHeld ==
  /\ \A i \in Inode : ex[i] = {} \/ sh[i] = {}
  /\ \A p \in Proc :
       /\ pc[p] \in {"header", "body"} => p \in sh[fd[p]]
       /\ pc[p] \in {"write_header", "write_body"} => ex[fd[p]] = {p}

(* What a process has seen of, or written to, the file it has locked is    *)
(* still there at its next step.                                           *)
HeaderKnown ==
  \A p \in Proc :
    LET f == file[fd[p]] IN
    /\ pc[p] = "body" => f.len >= 2 /\ CheckHeader(p, f)
    /\ pc[p] = "write_body" => f.len >= 2 /\ f.crc = img[p]

(* A file is created for one writer, and empty until that one has locked   *)
(* it: a file with neither name nor user is free.                          *)
OneWriter ==
  \A p, q \in Proc :
    pc[p] \in Writing /\ pc[q] \in Writing /\ fd[p] = fd[q] => p = q

NewFile ==
  \A p \in Proc :
    pc[p] \in {"lock_ex", "write_header"} => file[fd[p]].len = 0

FreeEmpty == \A i \in Inode : i \in Free /\ i # dir => file[i] = EmptyFile

Inv == /\ TypeOK /\ HoldsSound /\ LinkedServed /\ StatPast /\ FilesSound
       /\ WrittenFileIntact /\ LocksHeld /\ HeaderKnown
       /\ OneWriter /\ NewFile /\ FreeEmpty

-----------------------------------------------------------------------------
(* open with O_CREAT finds a file nobody has open: there are more files    *)
(* than processes.                                                         *)
LEMMA FreeInode ==
  ASSUME TypeOK
  PROVE  Free # {}
<1> SUFFICES ASSUME Free = {}  PROVE FALSE
  OBVIOUS
<1> DEFINE user == [i \in Inode |-> CHOOSE q \in Proc : fd[q] = i]
<1>1. \A i \in Inode : user[i] \in Proc /\ fd[user[i]] = i
  BY DEF Free
<1>2. user \in [Inode -> Proc]
  BY <1>1
<1>3. \E i, j \in Inode : i # j /\ user[i] = user[j]
  <2> HIDE DEF user
  <2>1. Cardinality(Proc) < Cardinality(Inode)
    BY DiskAssumption, FS_CardinalityType
  <2> QED
    BY <1>2, <2>1, DiskAssumption, FS_PigeonHole
<1> QED
  BY <1>1, <1>3

(* A process works on the file it has open.                                *)
LEMMA OpenFile ==
  ASSUME TypeOK, NEW p \in Proc, pc[p] \in Reading \cup Writing
  PROVE  fd[p] \in Inode
  BY DEF TypeOK

LEMMA EmptyType == EmptyFile \in File
  BY DEF EmptyFile, File

(* What a crash of the machine leaves is a file.                           *)
LEMMA DamagedType ==
  ASSUME NEW f \in File, f.len = 4 => f.body \in Entry, NEW h \in Damaged(f)
  PROVE  /\ h \in File /\ h.len = f.len /\ h.crc = f.crc
         /\ h.len = 4 => h.body \in Entry
         /\ h.lost = "nothing" => h = f
<1>1. CASE h = f
  BY <1>1
<1>2. CASE h = [f EXCEPT !.lost = "header"]
  BY <1>2 DEF File
<1>3. CASE f.len = 4 /\ h = [f EXCEPT !.lost = "body", !.body.whole = FALSE]
  <2>1. [f.body EXCEPT !.whole = FALSE] \in Entry
    BY <1>3 DEF Entry
  <2> QED
    BY <1>3, <2>1 DEF File
<1> QED
  BY <1>1, <1>2, <1>3 DEF Damaged, File

(* The machine has gone down: the files are as they were but for the named *)
(* one, which is damaged, and those nobody had a name for.                 *)
LEMMA CrashedFiles ==
  ASSUME Inv, MachineCrash, NEW i \in Inode
  PROVE  file'[i] = EmptyFile \/ file'[i] \in Damaged(file[i])
<1>1. CASE dir = None
  BY <1>1, DiskAssumption DEF MachineCrash, Kept
<1>2. CASE dir # None
  <2>1. PICK f \in Damaged(file[dir]) :
          file' = Kept(dir, [file EXCEPT ![dir] = f], {})
    BY <1>2 DEF MachineCrash
  <2> QED
    BY <1>2, <2>1 DEF Kept, Inv, TypeOK
<1> QED
  BY <1>1, <1>2

(* The writes, as changes of one file.                                     *)
LEMMA ShortTypes ==
  ASSUME NEW f \in File
  PROVE  [f EXCEPT !.len = 1] \in File /\ [f EXCEPT !.len = 3] \in File
<1>1. [f EXCEPT !.len = 1] \in File
  BY DEF File
<1>2. [f EXCEPT !.len = 3] \in File
  BY DEF File
<1> QED
  BY <1>1, <1>2

LEMMA WriteTypes ==
  ASSUME NEW f \in File, NEW e \in Entry
  PROVE  /\ [f EXCEPT !.len = 2, !.crc = e] \in File
         /\ [f EXCEPT !.len = 4, !.body = e] \in File
<1> DEFINE g(n) == [f EXCEPT !.len = n]
<1>1. g(2) \in File /\ g(4) \in File
  BY DEF File
<1>2. [g(2) EXCEPT !.crc = e] \in File
  <2> HIDE DEF g
  <2> QED
    BY <1>1 DEF File
<1>3. [g(4) EXCEPT !.body = e] \in File
  <2> HIDE DEF g
  <2> QED
    BY <1>1 DEF File
<1> QED
  BY <1>2, <1>3

LEMMA KeptType ==
  ASSUME NEW f \in [Inode -> File], NEW d, NEW Q
  PROVE  Kept(d, f, Q) \in [Inode -> File]
  BY EmptyType DEF Kept

LEMMA CloseType ==
  ASSUME TypeOK, NEW p \in Proc, NEW f \in [Inode -> File], UnlockClose(p, f)
  PROVE  /\ ex' \in [Inode -> SUBSET Proc] /\ sh' \in [Inode -> SUBSET Proc]
         /\ fd' = [fd EXCEPT ![p] = None] /\ fd' \in [Proc -> Inode \cup {None}]
         /\ file' \in [Inode -> File]
  BY KeptType DEF TypeOK, UnlockClose

-----------------------------------------------------------------------------
LEMMA InvInit == Init => Inv
<1>1. Init => server \in [Proc -> Server]
  BY DiskAssumption DEF Init
<1> QED
  BY <1>1 DEF Init, Inv, TypeOK, HoldsSound, LinkedServed, StatPast, FilesSound,
         WrittenFileIntact, LocksHeld, HeaderKnown, OneWriter, NewFile, FreeEmpty,
         Holding, Reading, Writing,
         Labels, File, EmptyFile

(* Only hash_add_mm puts an entry into the table.                          *)
LEMMA LinkedNext ==
  ASSUME Inv, [Next]_vars
  PROVE  LinkedServed'
<1> USE DEF Inv, TypeOK, LinkedServed, world, disk, locks, own, Go
<1>1. ASSUME NEW p \in Proc, Stat(p)  PROVE LinkedServed'
  BY <1>1 DEF Stat
<1>2. ASSUME NEW p \in Proc, Open(p)  PROVE LinkedServed'
  BY <1>2 DEF Open
<1>3. ASSUME NEW p \in Proc, LockShared(p)  PROVE LinkedServed'
  BY <1>3 DEF LockShared
<1>4. ASSUME NEW p \in Proc, ShortHeader(p)  PROVE LinkedServed'
  BY <1>4 DEF ShortHeader, UnlockClose
<1>5. ASSUME NEW p \in Proc, ForeignHeader(p)  PROVE LinkedServed'
  BY <1>5 DEF ForeignHeader, UnlockClose
<1>6. ASSUME NEW p \in Proc, ReadHeader(p)  PROVE LinkedServed'
  BY <1>6 DEF ReadHeader, Holds
<1>7. ASSUME NEW p \in Proc, NoMemory(p)  PROVE LinkedServed'
  BY <1>7 DEF NoMemory, UnlockClose
<1>8. ASSUME NEW p \in Proc, ReadBody(p)  PROVE LinkedServed'
  BY <1>8 DEF ReadBody, Holds, UnlockClose
<1>9. ASSUME NEW p \in Proc, EntryStale(p)  PROVE LinkedServed'
  BY <1>9 DEF EntryStale, Holds
<1>10. ASSUME NEW p \in Proc, EntryGood(p)  PROVE LinkedServed'
  BY <1>10 DEF EntryGood, Add
<1>11. ASSUME NEW p \in Proc, Unlink(p)  PROVE LinkedServed'
  BY <1>11 DEF Unlink, UnlinkName
<1>12. ASSUME NEW p \in Proc, Compile(p)  PROVE LinkedServed'
  BY <1>12 DEF Compile, Holds, Compiled
<1>13. ASSUME NEW p \in Proc, CompileOnly(p)  PROVE LinkedServed'
  BY <1>13 DEF CompileOnly, Finish, Holds
<1>14. ASSUME NEW p \in Proc, StoreFile(p)  PROVE LinkedServed'
  BY <1>14 DEF StoreFile, UnlinkName
<1>15. ASSUME NEW p \in Proc, Create(p)  PROVE LinkedServed'
  BY <1>15 DEF Create, Free
<1>16. ASSUME NEW p \in Proc, LockExclusive(p)  PROVE LinkedServed'
  BY <1>16 DEF LockExclusive
<1>17. ASSUME NEW p \in Proc, WriteHeader(p)  PROVE LinkedServed'
  BY <1>17 DEF WriteHeader
<1>18. ASSUME NEW p \in Proc, HeaderCutShort(p)  PROVE LinkedServed'
  BY <1>18 DEF HeaderCutShort, UnlockClose
<1>19. ASSUME NEW p \in Proc, WriteBody(p)  PROVE LinkedServed'
  BY <1>19 DEF WriteBody, UnlockClose
<1>20. ASSUME NEW p \in Proc, BodyCutShort(p)  PROVE LinkedServed'
  BY <1>20 DEF BodyCutShort, UnlockClose
<1>21. ASSUME NEW p \in Proc, AddMem(p)  PROVE LinkedServed'
  BY <1>21 DEF AddMem, Add
<1>22. ASSUME NEW p \in Proc, EndRequest(p)  PROVE LinkedServed'
  BY <1>22 DEF EndRequest, Finish, Holds
<1>23. ASSUME NEW p \in Proc, Touch(p)  PROVE LinkedServed'
  BY <1>23 DEF Touch
<1>24. ASSUME NEW p \in Proc, Clear(p)  PROVE LinkedServed'
  BY <1>24 DEF Clear, UnlinkName
<1>25. ASSUME NEW p \in Proc, Die(p)  PROVE LinkedServed'
  BY <1>25 DEF Die, UnlockClose, Finish, Holds
<1>26. CASE Edit
  BY <1>26 DEF Edit
<1>27. CASE MachineCrash
  BY <1>27 DEF MachineCrash
<1>28. CASE UNCHANGED vars
  BY <1>28 DEF vars
<1> QED
  BY <1>1, <1>2, <1>3, <1>4, <1>5, <1>6, <1>7, <1>8, <1>9, <1>10, <1>11, <1>12,
     <1>13, <1>14, <1>15, <1>16, <1>17, <1>18, <1>19, <1>20, <1>21, <1>22,
     <1>23, <1>24, <1>25, <1>26, <1>27, <1>28 DEF Next, Serve

(* Scripts only get newer.                                                 *)
LEMMA StatNext ==
  ASSUME Inv, [Next]_vars
  PROVE  StatPast'
<1> USE DEF Inv, TypeOK, StatPast, world, disk, locks, own, Go
<1>1. CASE UNCHANGED <<stat, rev>>
  BY <1>1
<1>2. ASSUME NEW p \in Proc, Stat(p)  PROVE StatPast'
  BY <1>2 DEF Stat
<1>3. ASSUME NEW p \in Proc, CompileOnly(p)  PROVE StatPast'
  BY <1>3 DEF CompileOnly, Finish, Holds
<1>4. ASSUME NEW p \in Proc, EndRequest(p)  PROVE StatPast'
  BY <1>4 DEF EndRequest, Finish, Holds
<1>5. ASSUME NEW p \in Proc, Die(p)  PROVE StatPast'
  BY <1>5 DEF Die, UnlockClose, Finish, Holds
<1>6. CASE Edit
  BY <1>6 DEF Edit
<1>7. CASE MachineCrash
  BY <1>7 DEF MachineCrash
<1> QED
  BY <1>1, <1>2, <1>3, <1>4, <1>5, <1>6, <1>7 DEF Next, Serve, vars, Open,
     LockShared, ShortHeader, ForeignHeader, ReadHeader, NoMemory, ReadBody,
     EntryStale, EntryGood, Unlink, Compile, StoreFile, Create, LockExclusive,
     WriteHeader, HeaderCutShort, WriteBody, BodyCutShort, AddMem, Touch, Clear

(* A process comes by an entry when it compiles, and when it reads one     *)
(* that has the crc32 in the header, and the header is that of a sound     *)
(* entry.  From then on only counters change.                              *)
LEMMA HoldsNext ==
  ASSUME Inv, [Next]_vars
  PROVE  HoldsSound'
<1> USE DEF Inv, TypeOK, HoldsSound, LinkedServed, Holding, Sound, world, disk,
     locks, own, Go
<1>1. ASSUME NEW p \in Proc, Stat(p)  PROVE HoldsSound'
  BY <1>1 DEF Stat
<1>2. ASSUME NEW p \in Proc, Open(p)  PROVE HoldsSound'
  BY <1>2 DEF Open
<1>3. ASSUME NEW p \in Proc, LockShared(p)  PROVE HoldsSound'
  BY <1>3 DEF LockShared
<1>4. ASSUME NEW p \in Proc, ShortHeader(p)  PROVE HoldsSound'
  BY <1>4 DEF ShortHeader, UnlockClose
<1>5. ASSUME NEW p \in Proc, ForeignHeader(p)  PROVE HoldsSound'
  BY <1>5 DEF ForeignHeader, UnlockClose
<1>6. ASSUME NEW p \in Proc, ReadHeader(p)  PROVE HoldsSound'
  BY <1>6 DEF ReadHeader, Holds
<1>7. ASSUME NEW p \in Proc, NoMemory(p)  PROVE HoldsSound'
  BY <1>7 DEF NoMemory, UnlockClose
<1>8. ASSUME NEW p \in Proc, ReadBody(p)  PROVE HoldsSound'
  <2>1. fd[p] \in Inode
    BY <1>8, OpenFile DEF ReadBody, Reading
  <2>2. CASE Intact(file[fd[p]])
    <3>1. /\ Sound(file[fd[p]].body)
             /\ Header[file[fd[p]].body.server] = Header[server[p]]
      BY <1>8, <2>1, <2>2 DEF ReadBody, FilesSound, HeaderKnown, Intact,
         CheckHeader
    <3>2. /\ img' = [img EXCEPT ![p] = file[fd[p]].body]
          /\ pc' = [pc EXCEPT ![p] = "close"] /\ UNCHANGED <<server, stat>>
      BY <1>8, <2>2 DEF ReadBody, Holds
    <3> QED
      BY <3>1, <3>2
  <2>3. CASE ~ Intact(file[fd[p]])
    BY <1>8, <2>3 DEF ReadBody, Holds
  <2> QED
    BY <2>2, <2>3
<1>9. ASSUME NEW p \in Proc, EntryStale(p)  PROVE HoldsSound'
  BY <1>9 DEF EntryStale, Holds
<1>10. ASSUME NEW p \in Proc, EntryGood(p)  PROVE HoldsSound'
  BY <1>10 DEF EntryGood, Add
<1>11. ASSUME NEW p \in Proc, Unlink(p)  PROVE HoldsSound'
  BY <1>11 DEF Unlink, UnlinkName
<1>12. ASSUME NEW p \in Proc, Compile(p)  PROVE HoldsSound'
  BY <1>12 DEF Compile, Holds, Compiled, StatPast, Entry
<1>13. ASSUME NEW p \in Proc, CompileOnly(p)  PROVE HoldsSound'
  BY <1>13 DEF CompileOnly, Finish, Holds
<1>14. ASSUME NEW p \in Proc, StoreFile(p)  PROVE HoldsSound'
  BY <1>14 DEF StoreFile, UnlinkName
<1>15. ASSUME NEW p \in Proc, Create(p)  PROVE HoldsSound'
  BY <1>15 DEF Create, Free
<1>16. ASSUME NEW p \in Proc, LockExclusive(p)  PROVE HoldsSound'
  BY <1>16 DEF LockExclusive
<1>17. ASSUME NEW p \in Proc, WriteHeader(p)  PROVE HoldsSound'
  BY <1>17 DEF WriteHeader
<1>18. ASSUME NEW p \in Proc, HeaderCutShort(p)  PROVE HoldsSound'
  BY <1>18 DEF HeaderCutShort, UnlockClose
<1>19. ASSUME NEW p \in Proc, WriteBody(p)  PROVE HoldsSound'
  BY <1>19 DEF WriteBody, UnlockClose
<1>20. ASSUME NEW p \in Proc, BodyCutShort(p)  PROVE HoldsSound'
  BY <1>20 DEF BodyCutShort, UnlockClose
<1>21. ASSUME NEW p \in Proc, AddMem(p)  PROVE HoldsSound'
  BY <1>21 DEF AddMem, Add
<1>22. ASSUME NEW p \in Proc, EndRequest(p)  PROVE HoldsSound'
  BY <1>22 DEF EndRequest, Finish, Holds
<1>23. ASSUME NEW p \in Proc, Touch(p)  PROVE HoldsSound'
  BY <1>23 DEF Touch, Entry
<1>24. ASSUME NEW p \in Proc, Clear(p)  PROVE HoldsSound'
  BY <1>24 DEF Clear, UnlinkName
<1>25. ASSUME NEW p \in Proc, Die(p)  PROVE HoldsSound'
  BY <1>25 DEF Die, UnlockClose, Finish, Holds
<1>26. CASE Edit
  BY <1>26 DEF Edit
<1>27. CASE MachineCrash
  BY <1>27 DEF MachineCrash
<1>28. CASE UNCHANGED vars
  BY <1>28 DEF vars
<1> QED
  BY <1>1, <1>2, <1>3, <1>4, <1>5, <1>6, <1>7, <1>8, <1>9, <1>10, <1>11, <1>12,
     <1>13, <1>14, <1>15, <1>16, <1>17, <1>18, <1>19, <1>20, <1>21, <1>22,
     <1>23, <1>24, <1>25, <1>26, <1>27, <1>28 DEF Next, Serve

(* What is written is the entry of the writer, which is sound.             *)
LEMMA FilesNext ==
  ASSUME Inv, [Next]_vars
  PROVE  FilesSound'
<1> USE DEF Inv, TypeOK, FilesSound, world, disk, locks, own, Go
<1>1. CASE UNCHANGED file
  BY <1>1
<1>2. ASSUME NEW p \in Proc, ShortHeader(p)  PROVE FilesSound'
  BY <1>2 DEF ShortHeader, UnlockClose, Kept, File, EmptyFile
<1>3. ASSUME NEW p \in Proc, ForeignHeader(p)  PROVE FilesSound'
  BY <1>3 DEF ForeignHeader, UnlockClose, Kept, File, EmptyFile
<1>4. ASSUME NEW p \in Proc, NoMemory(p)  PROVE FilesSound'
  BY <1>4 DEF NoMemory, UnlockClose, Kept, File, EmptyFile
<1>5. ASSUME NEW p \in Proc, ReadBody(p)  PROVE FilesSound'
  BY <1>5 DEF ReadBody, Holds, UnlockClose, Kept, File, EmptyFile
<1>6. ASSUME NEW p \in Proc, Unlink(p)  PROVE FilesSound'
  BY <1>6 DEF Unlink, UnlinkName, Kept, File, EmptyFile
<1>7. ASSUME NEW p \in Proc, StoreFile(p)  PROVE FilesSound'
  BY <1>7 DEF StoreFile, UnlinkName, Kept, File, EmptyFile
<1>8. ASSUME NEW p \in Proc, WriteHeader(p)  PROVE FilesSound'
  BY <1>8 DEF WriteHeader, Kept, File, EmptyFile, HoldsSound, Holding, Sound
<1>9. ASSUME NEW p \in Proc, HeaderCutShort(p)  PROVE FilesSound'
  BY <1>9 DEF HeaderCutShort, UnlockClose, Kept, File, EmptyFile
<1>10. ASSUME NEW p \in Proc, WriteBody(p)  PROVE FilesSound'
  BY <1>10 DEF WriteBody, UnlockClose, Kept, File, EmptyFile, HoldsSound,
     HeaderKnown, Holding, Sound
<1>11. ASSUME NEW p \in Proc, BodyCutShort(p)  PROVE FilesSound'
  BY <1>11 DEF BodyCutShort, UnlockClose, Kept, File, EmptyFile, HeaderKnown
<1>12. ASSUME NEW p \in Proc, Clear(p)  PROVE FilesSound'
  BY <1>12 DEF Clear, UnlinkName, Kept, File, EmptyFile
<1>13. ASSUME NEW p \in Proc, Die(p)  PROVE FilesSound'
  BY <1>13 DEF Die, UnlockClose, Finish, Holds, Kept, File, EmptyFile
<1>14. CASE MachineCrash
  <2>1. ASSUME NEW i \in Inode  PROVE FilesSound!(i)'
    <3>1. CASE file'[i] = EmptyFile
      BY <3>1 DEF EmptyFile
    <3>2. CASE file'[i] \in Damaged(file[i])
      BY <3>2, DamagedType
    <3> QED
      BY <1>14, <3>1, <3>2, CrashedFiles
  <2> QED
    BY <2>1
<1> QED
  BY <1>1, <1>2, <1>3, <1>4, <1>5, <1>6, <1>7, <1>8, <1>9, <1>10, <1>11, <1>12,
     <1>13, <1>14 DEF Next, Serve, vars, Stat, Open, LockShared, ReadHeader,
     EntryStale, EntryGood, Compile, CompileOnly, Create, LockExclusive, AddMem,
     EndRequest, Touch, Edit

(* Nobody changes the entry between the two writes, nor the file.          *)
LEMMA WrittenNext ==
  ASSUME Inv, [Next]_vars
  PROVE  WrittenFileIntact'
<1> USE DEF Inv, TypeOK, WrittenFileIntact, Intact, world, disk, locks, own, Go
<1>1. CASE UNCHANGED file
  BY <1>1
<1>2. ASSUME NEW p \in Proc, ShortHeader(p)  PROVE WrittenFileIntact'
  BY <1>2 DEF ShortHeader, UnlockClose, Kept, File, EmptyFile
<1>3. ASSUME NEW p \in Proc, ForeignHeader(p)  PROVE WrittenFileIntact'
  BY <1>3 DEF ForeignHeader, UnlockClose, Kept, File, EmptyFile
<1>4. ASSUME NEW p \in Proc, NoMemory(p)  PROVE WrittenFileIntact'
  BY <1>4 DEF NoMemory, UnlockClose, Kept, File, EmptyFile
<1>5. ASSUME NEW p \in Proc, ReadBody(p)  PROVE WrittenFileIntact'
  BY <1>5 DEF ReadBody, Holds, UnlockClose, Kept, File, EmptyFile
<1>6. ASSUME NEW p \in Proc, Unlink(p)  PROVE WrittenFileIntact'
  BY <1>6 DEF Unlink, UnlinkName, Kept, File, EmptyFile
<1>7. ASSUME NEW p \in Proc, StoreFile(p)  PROVE WrittenFileIntact'
  BY <1>7 DEF StoreFile, UnlinkName, Kept, File, EmptyFile
<1>8. ASSUME NEW p \in Proc, WriteHeader(p)  PROVE WrittenFileIntact'
  BY <1>8 DEF WriteHeader, Kept, File, EmptyFile
<1>9. ASSUME NEW p \in Proc, HeaderCutShort(p)  PROVE WrittenFileIntact'
  BY <1>9 DEF HeaderCutShort, UnlockClose, Kept, File, EmptyFile
<1>10. ASSUME NEW p \in Proc, WriteBody(p)  PROVE WrittenFileIntact'
  BY <1>10 DEF WriteBody, UnlockClose, Kept, File, EmptyFile, HeaderKnown
<1>11. ASSUME NEW p \in Proc, BodyCutShort(p)  PROVE WrittenFileIntact'
  BY <1>11 DEF BodyCutShort, UnlockClose, Kept, File, EmptyFile
<1>12. ASSUME NEW p \in Proc, Clear(p)  PROVE WrittenFileIntact'
  BY <1>12 DEF Clear, UnlinkName, Kept, File, EmptyFile
<1>13. ASSUME NEW p \in Proc, Die(p)  PROVE WrittenFileIntact'
  BY <1>13 DEF Die, UnlockClose, Finish, Holds, Kept, File, EmptyFile
<1>14. CASE MachineCrash
  <2>1. ASSUME NEW i \in Inode  PROVE WrittenFileIntact!(i)'
    <3>1. CASE file'[i] = EmptyFile
      BY <3>1 DEF EmptyFile
    <3>2. CASE file'[i] \in Damaged(file[i])
      BY <3>2, DamagedType DEF FilesSound
    <3> QED
      BY <1>14, <3>1, <3>2, CrashedFiles
  <2> QED
    BY <2>1
<1> QED
  BY <1>1, <1>2, <1>3, <1>4, <1>5, <1>6, <1>7, <1>8, <1>9, <1>10, <1>11, <1>12,
     <1>13, <1>14 DEF Next, Serve, vars, Stat, Open, LockShared, ReadHeader,
     EntryStale, EntryGood, Compile, CompileOnly, Create, LockExclusive, AddMem,
     EndRequest, Touch, Edit

(* A lock is given up with the file, by its holder.                        *)
LEMMA LocksNext ==
  ASSUME Inv, [Next]_vars
  PROVE  LocksHeld'
<1> USE DEF Inv, TypeOK, LocksHeld, Labels, Reading, Writing, world, disk,
     locks, own, Go
<1>1. ASSUME NEW p \in Proc, Stat(p)  PROVE LocksHeld'
  BY <1>1 DEF Stat
<1>2. ASSUME NEW p \in Proc, Open(p)  PROVE LocksHeld'
  BY <1>2 DEF Open
<1>3. ASSUME NEW p \in Proc, LockShared(p)  PROVE LocksHeld'
  BY <1>3 DEF LockShared
<1>4. ASSUME NEW p \in Proc, ShortHeader(p)  PROVE LocksHeld'
  BY <1>4 DEF ShortHeader, UnlockClose
<1>5. ASSUME NEW p \in Proc, ForeignHeader(p)  PROVE LocksHeld'
  BY <1>5 DEF ForeignHeader, UnlockClose
<1>6. ASSUME NEW p \in Proc, ReadHeader(p)  PROVE LocksHeld'
  BY <1>6 DEF ReadHeader, Holds
<1>7. ASSUME NEW p \in Proc, NoMemory(p)  PROVE LocksHeld'
  BY <1>7 DEF NoMemory, UnlockClose
<1>8. ASSUME NEW p \in Proc, ReadBody(p)  PROVE LocksHeld'
  BY <1>8 DEF ReadBody, Holds, UnlockClose
<1>9. ASSUME NEW p \in Proc, EntryStale(p)  PROVE LocksHeld'
  BY <1>9 DEF EntryStale, Holds
<1>10. ASSUME NEW p \in Proc, EntryGood(p)  PROVE LocksHeld'
  BY <1>10 DEF EntryGood, Add
<1>11. ASSUME NEW p \in Proc, Unlink(p)  PROVE LocksHeld'
  BY <1>11 DEF Unlink, UnlinkName
<1>12. ASSUME NEW p \in Proc, Compile(p)  PROVE LocksHeld'
  BY <1>12 DEF Compile, Holds, Compiled
<1>13. ASSUME NEW p \in Proc, CompileOnly(p)  PROVE LocksHeld'
  BY <1>13 DEF CompileOnly, Finish, Holds
<1>14. ASSUME NEW p \in Proc, StoreFile(p)  PROVE LocksHeld'
  BY <1>14 DEF StoreFile, UnlinkName
<1>15. ASSUME NEW p \in Proc, Create(p)  PROVE LocksHeld'
  BY <1>15 DEF Create, Free
<1>16. ASSUME NEW p \in Proc, LockExclusive(p)  PROVE LocksHeld'
  <2>1. fd[p] \in Inode
    BY <1>16, OpenFile DEF LockExclusive, Writing
  <2>2. /\ ex' = [ex EXCEPT ![fd[p]] = {p}] /\ sh' = sh /\ fd' = fd
        /\ sh[fd[p]] = {} /\ ex[fd[p]] = {}
        /\ pc' = [pc EXCEPT ![p] = "write_header"]
    BY <1>16 DEF LockExclusive
  <2>3. \A i \in Inode : ex'[i] = {} \/ sh'[i] = {}
    BY <2>1, <2>2
  <2>4. ASSUME NEW q \in Proc, q # p
        PROVE  /\ pc[q] \in {"header", "body"} => q \in sh'[fd[q]]
               /\ pc[q] \in {"write_header", "write_body"} => ex'[fd[q]] = {q}
    BY <2>1, <2>2
  <2> QED
    BY <2>1, <2>2, <2>3, <2>4
<1>17. ASSUME NEW p \in Proc, WriteHeader(p)  PROVE LocksHeld'
  BY <1>17 DEF WriteHeader
<1>18. ASSUME NEW p \in Proc, HeaderCutShort(p)  PROVE LocksHeld'
  BY <1>18 DEF HeaderCutShort, UnlockClose
<1>19. ASSUME NEW p \in Proc, WriteBody(p)  PROVE LocksHeld'
  BY <1>19 DEF WriteBody, UnlockClose
<1>20. ASSUME NEW p \in Proc, BodyCutShort(p)  PROVE LocksHeld'
  BY <1>20 DEF BodyCutShort, UnlockClose
<1>21. ASSUME NEW p \in Proc, AddMem(p)  PROVE LocksHeld'
  BY <1>21 DEF AddMem, Add
<1>22. ASSUME NEW p \in Proc, EndRequest(p)  PROVE LocksHeld'
  BY <1>22 DEF EndRequest, Finish, Holds
<1>23. ASSUME NEW p \in Proc, Touch(p)  PROVE LocksHeld'
  BY <1>23 DEF Touch
<1>24. ASSUME NEW p \in Proc, Clear(p)  PROVE LocksHeld'
  BY <1>24 DEF Clear, UnlinkName
<1>25. ASSUME NEW p \in Proc, Die(p)  PROVE LocksHeld'
  BY <1>25 DEF Die, UnlockClose, Finish, Holds
<1>26. CASE Edit
  BY <1>26 DEF Edit
<1>27. CASE MachineCrash
  BY <1>27 DEF MachineCrash
<1>28. CASE UNCHANGED vars
  BY <1>28 DEF vars
<1> QED
  BY <1>1, <1>2, <1>3, <1>4, <1>5, <1>6, <1>7, <1>8, <1>9, <1>10, <1>11, <1>12,
     <1>13, <1>14, <1>15, <1>16, <1>17, <1>18, <1>19, <1>20, <1>21, <1>22,
     <1>23, <1>24, <1>25, <1>26, <1>27, <1>28 DEF Next, Serve

(* A file that is locked is changed by its writer alone, and stays as long *)
(* as it is open.                                                          *)
LEMMA HeaderNext ==
  ASSUME Inv, [Next]_vars
  PROVE  HeaderKnown'
<1> USE DEF Inv, TypeOK, LocksHeld, HeaderKnown, CheckHeader, Labels, Reading,
     Writing, world, disk, locks, own, Go
<1>1. ASSUME NEW p \in Proc, Stat(p)  PROVE HeaderKnown'
  BY <1>1 DEF Stat
<1>2. ASSUME NEW p \in Proc, Open(p)  PROVE HeaderKnown'
  BY <1>2 DEF Open
<1>3. ASSUME NEW p \in Proc, LockShared(p)  PROVE HeaderKnown'
  BY <1>3 DEF LockShared
<1>4. ASSUME NEW p \in Proc, ShortHeader(p)  PROVE HeaderKnown'
  BY <1>4 DEF ShortHeader, UnlockClose, Kept, File, EmptyFile
<1>5. ASSUME NEW p \in Proc, ForeignHeader(p)  PROVE HeaderKnown'
  BY <1>5 DEF ForeignHeader, UnlockClose, Kept, File, EmptyFile
<1>6. ASSUME NEW p \in Proc, ReadHeader(p)  PROVE HeaderKnown'
  BY <1>6 DEF ReadHeader, Holds
<1>7. ASSUME NEW p \in Proc, NoMemory(p)  PROVE HeaderKnown'
  BY <1>7 DEF NoMemory, UnlockClose, Kept, File, EmptyFile
<1>8. ASSUME NEW p \in Proc, ReadBody(p)  PROVE HeaderKnown'
  BY <1>8 DEF ReadBody, Holds, UnlockClose, Kept, File, EmptyFile
<1>9. ASSUME NEW p \in Proc, EntryStale(p)  PROVE HeaderKnown'
  BY <1>9 DEF EntryStale, Holds
<1>10. ASSUME NEW p \in Proc, EntryGood(p)  PROVE HeaderKnown'
  BY <1>10 DEF EntryGood, Add
<1>11. ASSUME NEW p \in Proc, Unlink(p)  PROVE HeaderKnown'
  BY <1>11 DEF Unlink, UnlinkName, Kept, File, EmptyFile
<1>12. ASSUME NEW p \in Proc, Compile(p)  PROVE HeaderKnown'
  BY <1>12 DEF Compile, Holds, Compiled
<1>13. ASSUME NEW p \in Proc, CompileOnly(p)  PROVE HeaderKnown'
  BY <1>13 DEF CompileOnly, Finish, Holds
<1>14. ASSUME NEW p \in Proc, StoreFile(p)  PROVE HeaderKnown'
  BY <1>14 DEF StoreFile, UnlinkName, Kept, File, EmptyFile
<1>15. ASSUME NEW p \in Proc, Create(p)  PROVE HeaderKnown'
  BY <1>15 DEF Create, Free
<1>16. ASSUME NEW p \in Proc, LockExclusive(p)  PROVE HeaderKnown'
  BY <1>16 DEF LockExclusive
<1>17. ASSUME NEW p \in Proc, WriteHeader(p)  PROVE HeaderKnown'
  BY <1>17 DEF WriteHeader, Kept, File, EmptyFile
<1>18. ASSUME NEW p \in Proc, HeaderCutShort(p)  PROVE HeaderKnown'
  <2> DEFINE written == [file EXCEPT ![fd[p]].len = 1]
  <2>1. fd[p] \in Inode /\ ex[fd[p]] = {p}
    BY <1>18, OpenFile DEF HeaderCutShort
  <2>2. ASSUME NEW q \in Proc, pc'[q] \in {"body", "write_body"}
        PROVE  /\ q # p /\ pc'[q] = pc[q] /\ fd'[q] = fd[q]
               /\ img'[q] = img[q] /\ server'[q] = server[q]
    BY <1>18, <2>2 DEF HeaderCutShort, UnlockClose
  <2>3. ASSUME NEW q \in Proc, pc'[q] \in {"body", "write_body"}
        PROVE  fd[q] \in Inode /\ fd[q] # fd[p]
    <3>1. fd[q] \in Inode
      BY <2>2, <2>3, OpenFile
    <3>2. CASE pc[q] = "body"
      <4>1. q \in sh[fd[q]]
        BY <3>2
      <4>2. sh[fd[p]] = {}
        BY <2>1
      <4> QED
        BY <3>1, <4>1, <4>2
    <3>3. CASE pc[q] = "write_body"
      <4>1. ex[fd[q]] = {q}
        BY <3>3
      <4>2. q # p
        BY <2>2, <2>3, Zenon
      <4>3. p \in ex[fd[p]] /\ p \notin ex[fd[q]]
        BY <2>1, <4>1, <4>2
      <4>4. fd[q] # fd[p]
        BY <4>3, Zenon
      <4> QED
        BY <3>1, <4>4, Zenon
    <3> QED
      BY <2>2, <2>3, <3>2, <3>3
  <2>4. ASSUME NEW q \in Proc, pc'[q] \in {"body", "write_body"}
        PROVE  file'[fd[q]] = file[fd[q]]
    BY <1>18, <2>1, <2>2, <2>3, <2>4 DEF HeaderCutShort, UnlockClose, Kept
  <2> QED
    BY <2>2, <2>3, <2>4
<1>19. ASSUME NEW p \in Proc, WriteBody(p)  PROVE HeaderKnown'
  BY <1>19 DEF WriteBody, UnlockClose, Kept, File, EmptyFile
<1>20. ASSUME NEW p \in Proc, BodyCutShort(p)  PROVE HeaderKnown'
  BY <1>20 DEF BodyCutShort, UnlockClose, Kept, File, EmptyFile
<1>21. ASSUME NEW p \in Proc, AddMem(p)  PROVE HeaderKnown'
  BY <1>21 DEF AddMem, Add
<1>22. ASSUME NEW p \in Proc, EndRequest(p)  PROVE HeaderKnown'
  BY <1>22 DEF EndRequest, Finish, Holds
<1>23. ASSUME NEW p \in Proc, Touch(p)  PROVE HeaderKnown'
  BY <1>23 DEF Touch, LinkedServed
<1>24. ASSUME NEW p \in Proc, Clear(p)  PROVE HeaderKnown'
  BY <1>24 DEF Clear, UnlinkName, Kept, File, EmptyFile
<1>25. ASSUME NEW p \in Proc, Die(p)  PROVE HeaderKnown'
  BY <1>25 DEF Die, UnlockClose, Finish, Holds, Kept, File, EmptyFile
<1>26. CASE Edit
  BY <1>26 DEF Edit
<1>27. CASE MachineCrash
  BY <1>27 DEF MachineCrash, Kept, File, EmptyFile
<1>28. CASE UNCHANGED vars
  BY <1>28 DEF vars
<1> QED
  BY <1>1, <1>2, <1>3, <1>4, <1>5, <1>6, <1>7, <1>8, <1>9, <1>10, <1>11, <1>12,
     <1>13, <1>14, <1>15, <1>16, <1>17, <1>18, <1>19, <1>20, <1>21, <1>22,
     <1>23, <1>24, <1>25, <1>26, <1>27, <1>28 DEF Next, Serve

(* Nobody has the file open that a writer has created.                    *)
LEMMA WriterNext ==
  ASSUME Inv, [Next]_vars
  PROVE  OneWriter'
<1> USE DEF Inv, TypeOK, OneWriter, Labels, Reading, Writing, world, disk,
     locks, own, Go
<1>1. ASSUME NEW p \in Proc, Stat(p)  PROVE OneWriter'
  BY <1>1 DEF Stat
<1>2. ASSUME NEW p \in Proc, Open(p)  PROVE OneWriter'
  BY <1>2 DEF Open
<1>3. ASSUME NEW p \in Proc, LockShared(p)  PROVE OneWriter'
  BY <1>3 DEF LockShared
<1>4. ASSUME NEW p \in Proc, ShortHeader(p)  PROVE OneWriter'
  BY <1>4 DEF ShortHeader, UnlockClose
<1>5. ASSUME NEW p \in Proc, ForeignHeader(p)  PROVE OneWriter'
  BY <1>5 DEF ForeignHeader, UnlockClose
<1>6. ASSUME NEW p \in Proc, ReadHeader(p)  PROVE OneWriter'
  BY <1>6 DEF ReadHeader, Holds
<1>7. ASSUME NEW p \in Proc, NoMemory(p)  PROVE OneWriter'
  BY <1>7 DEF NoMemory, UnlockClose
<1>8. ASSUME NEW p \in Proc, ReadBody(p)  PROVE OneWriter'
  BY <1>8 DEF ReadBody, Holds, UnlockClose
<1>9. ASSUME NEW p \in Proc, EntryStale(p)  PROVE OneWriter'
  BY <1>9 DEF EntryStale, Holds
<1>10. ASSUME NEW p \in Proc, EntryGood(p)  PROVE OneWriter'
  BY <1>10 DEF EntryGood, Add
<1>11. ASSUME NEW p \in Proc, Unlink(p)  PROVE OneWriter'
  BY <1>11 DEF Unlink, UnlinkName
<1>12. ASSUME NEW p \in Proc, Compile(p)  PROVE OneWriter'
  BY <1>12 DEF Compile, Holds, Compiled
<1>13. ASSUME NEW p \in Proc, CompileOnly(p)  PROVE OneWriter'
  BY <1>13 DEF CompileOnly, Finish, Holds
<1>14. ASSUME NEW p \in Proc, StoreFile(p)  PROVE OneWriter'
  BY <1>14 DEF StoreFile, UnlinkName
<1>15. ASSUME NEW p \in Proc, Create(p)  PROVE OneWriter'
  <2>1. CASE dir # None
    BY <1>15, <2>1 DEF Create
  <2>2. CASE dir = None
    <3>1. PICK i \in Free : /\ dir' = i /\ fd' = [fd EXCEPT ![p] = i]
                            /\ pc' = [pc EXCEPT ![p] = "lock_ex"]
      BY <1>15, <2>2, FreeInode DEF Create
    <3> QED
      BY <1>15, <2>2, <3>1, DiskAssumption DEF Create, Free, EmptyFile
  <2> QED
    BY <2>1, <2>2
<1>16. ASSUME NEW p \in Proc, LockExclusive(p)  PROVE OneWriter'
  BY <1>16 DEF LockExclusive
<1>17. ASSUME NEW p \in Proc, WriteHeader(p)  PROVE OneWriter'
  BY <1>17 DEF WriteHeader
<1>18. ASSUME NEW p \in Proc, HeaderCutShort(p)  PROVE OneWriter'
  BY <1>18 DEF HeaderCutShort, UnlockClose
<1>19. ASSUME NEW p \in Proc, WriteBody(p)  PROVE OneWriter'
  BY <1>19 DEF WriteBody, UnlockClose
<1>20. ASSUME NEW p \in Proc, BodyCutShort(p)  PROVE OneWriter'
  BY <1>20 DEF BodyCutShort, UnlockClose
<1>21. ASSUME NEW p \in Proc, AddMem(p)  PROVE OneWriter'
  BY <1>21 DEF AddMem, Add
<1>22. ASSUME NEW p \in Proc, EndRequest(p)  PROVE OneWriter'
  BY <1>22 DEF EndRequest, Finish, Holds
<1>23. ASSUME NEW p \in Proc, Touch(p)  PROVE OneWriter'
  BY <1>23 DEF Touch
<1>24. ASSUME NEW p \in Proc, Clear(p)  PROVE OneWriter'
  BY <1>24 DEF Clear, UnlinkName
<1>25. ASSUME NEW p \in Proc, Die(p)  PROVE OneWriter'
  BY <1>25 DEF Die, UnlockClose, Finish, Holds
<1>26. CASE Edit
  BY <1>26 DEF Edit
<1>27. CASE MachineCrash
  BY <1>27 DEF MachineCrash
<1>28. CASE UNCHANGED vars
  BY <1>28 DEF vars
<1> QED
  BY <1>1, <1>2, <1>3, <1>4, <1>5, <1>6, <1>7, <1>8, <1>9, <1>10, <1>11, <1>12,
     <1>13, <1>14, <1>15, <1>16, <1>17, <1>18, <1>19, <1>20, <1>21, <1>22,
     <1>23, <1>24, <1>25, <1>26, <1>27, <1>28 DEF Next, Serve

(* ... and nobody else writes to it.                                       *)
LEMMA NewNext ==
  ASSUME Inv, [Next]_vars
  PROVE  NewFile'
<1> USE DEF Inv, TypeOK, NewFile, OneWriter, FreeEmpty, Labels, Reading,
     Writing, world, disk, locks, own, Go
<1>1. ASSUME NEW p \in Proc, Stat(p)  PROVE NewFile'
  BY <1>1 DEF Stat
<1>2. ASSUME NEW p \in Proc, Open(p)  PROVE NewFile'
  BY <1>2 DEF Open
<1>3. ASSUME NEW p \in Proc, LockShared(p)  PROVE NewFile'
  BY <1>3 DEF LockShared
<1>4. ASSUME NEW p \in Proc, ShortHeader(p)  PROVE NewFile'
  BY <1>4 DEF ShortHeader, UnlockClose, Kept, EmptyFile
<1>5. ASSUME NEW p \in Proc, ForeignHeader(p)  PROVE NewFile'
  BY <1>5 DEF ForeignHeader, UnlockClose, Kept, EmptyFile
<1>6. ASSUME NEW p \in Proc, ReadHeader(p)  PROVE NewFile'
  BY <1>6 DEF ReadHeader, Holds
<1>7. ASSUME NEW p \in Proc, NoMemory(p)  PROVE NewFile'
  BY <1>7 DEF NoMemory, UnlockClose, Kept, EmptyFile
<1>8. ASSUME NEW p \in Proc, ReadBody(p)  PROVE NewFile'
  BY <1>8 DEF ReadBody, Holds, UnlockClose, Kept, EmptyFile
<1>9. ASSUME NEW p \in Proc, EntryStale(p)  PROVE NewFile'
  BY <1>9 DEF EntryStale, Holds
<1>10. ASSUME NEW p \in Proc, EntryGood(p)  PROVE NewFile'
  BY <1>10 DEF EntryGood, Add
<1>11. ASSUME NEW p \in Proc, Unlink(p)  PROVE NewFile'
  BY <1>11 DEF Unlink, UnlinkName, Kept, EmptyFile
<1>12. ASSUME NEW p \in Proc, Compile(p)  PROVE NewFile'
  BY <1>12 DEF Compile, Holds, Compiled
<1>13. ASSUME NEW p \in Proc, CompileOnly(p)  PROVE NewFile'
  BY <1>13 DEF CompileOnly, Finish, Holds
<1>14. ASSUME NEW p \in Proc, StoreFile(p)  PROVE NewFile'
  BY <1>14 DEF StoreFile, UnlinkName, Kept, EmptyFile
<1>15. ASSUME NEW p \in Proc, Create(p)  PROVE NewFile'
  <2>1. CASE dir # None
    BY <1>15, <2>1 DEF Create
  <2>2. CASE dir = None
    <3>1. PICK i \in Free : /\ dir' = i /\ fd' = [fd EXCEPT ![p] = i]
                            /\ pc' = [pc EXCEPT ![p] = "lock_ex"]
      BY <1>15, <2>2, FreeInode DEF Create
    <3> QED
      BY <1>15, <2>2, <3>1, DiskAssumption DEF Create, Free, EmptyFile
  <2> QED
    BY <2>1, <2>2
<1>16. ASSUME NEW p \in Proc, LockExclusive(p)  PROVE NewFile'
  BY <1>16 DEF LockExclusive
<1>17. ASSUME NEW p \in Proc, WriteHeader(p)  PROVE NewFile'
  BY <1>17 DEF WriteHeader, Kept, EmptyFile
<1>18. ASSUME NEW p \in Proc, HeaderCutShort(p)  PROVE NewFile'
  BY <1>18 DEF HeaderCutShort, UnlockClose, Kept, EmptyFile
<1>19. ASSUME NEW p \in Proc, WriteBody(p)  PROVE NewFile'
  BY <1>19 DEF WriteBody, UnlockClose, Kept, EmptyFile
<1>20. ASSUME NEW p \in Proc, BodyCutShort(p)  PROVE NewFile'
  BY <1>20 DEF BodyCutShort, UnlockClose, Kept, EmptyFile
<1>21. ASSUME NEW p \in Proc, AddMem(p)  PROVE NewFile'
  BY <1>21 DEF AddMem, Add
<1>22. ASSUME NEW p \in Proc, EndRequest(p)  PROVE NewFile'
  BY <1>22 DEF EndRequest, Finish, Holds
<1>23. ASSUME NEW p \in Proc, Touch(p)  PROVE NewFile'
  BY <1>23 DEF Touch
<1>24. ASSUME NEW p \in Proc, Clear(p)  PROVE NewFile'
  BY <1>24 DEF Clear, UnlinkName, Kept, EmptyFile
<1>25. ASSUME NEW p \in Proc, Die(p)  PROVE NewFile'
  BY <1>25 DEF Die, UnlockClose, Finish, Holds, Kept, EmptyFile
<1>26. CASE Edit
  BY <1>26 DEF Edit
<1>27. CASE MachineCrash
  BY <1>27 DEF MachineCrash, Kept, EmptyFile
<1>28. CASE UNCHANGED vars
  BY <1>28 DEF vars
<1> QED
  BY <1>1, <1>2, <1>3, <1>4, <1>5, <1>6, <1>7, <1>8, <1>9, <1>10, <1>11, <1>12,
     <1>13, <1>14, <1>15, <1>16, <1>17, <1>18, <1>19, <1>20, <1>21, <1>22,
     <1>23, <1>24, <1>25, <1>26, <1>27, <1>28 DEF Next, Serve

(* What is closed for the last time, and has no name, is gone.             *)
LEMMA FreeNext ==
  ASSUME Inv, [Next]_vars
  PROVE  FreeEmpty'
<1> USE DEF Inv, TypeOK, FreeEmpty, Free, Labels, Reading, Writing, world, disk,
     locks, own, Go
<1>1. ASSUME NEW p \in Proc, Stat(p)  PROVE FreeEmpty'
  BY <1>1 DEF Stat
<1>2. ASSUME NEW p \in Proc, Open(p)  PROVE FreeEmpty'
  <2>1. fd[p] = None /\ fd' = [fd EXCEPT ![p] = dir] /\ UNCHANGED <<dir, file>>
    BY <1>2 DEF Open
  <2> QED
    BY <2>1, DiskAssumption
<1>3. ASSUME NEW p \in Proc, LockShared(p)  PROVE FreeEmpty'
  BY <1>3 DEF LockShared
<1>4. ASSUME NEW p \in Proc, ShortHeader(p)  PROVE FreeEmpty'
  BY <1>4 DEF ShortHeader, UnlockClose, Kept
<1>5. ASSUME NEW p \in Proc, ForeignHeader(p)  PROVE FreeEmpty'
  BY <1>5 DEF ForeignHeader, UnlockClose, Kept
<1>6. ASSUME NEW p \in Proc, ReadHeader(p)  PROVE FreeEmpty'
  BY <1>6 DEF ReadHeader, Holds
<1>7. ASSUME NEW p \in Proc, NoMemory(p)  PROVE FreeEmpty'
  BY <1>7 DEF NoMemory, UnlockClose, Kept
<1>8. ASSUME NEW p \in Proc, ReadBody(p)  PROVE FreeEmpty'
  BY <1>8 DEF ReadBody, Holds, UnlockClose, Kept
<1>9. ASSUME NEW p \in Proc, EntryStale(p)  PROVE FreeEmpty'
  BY <1>9 DEF EntryStale, Holds
<1>10. ASSUME NEW p \in Proc, EntryGood(p)  PROVE FreeEmpty'
  BY <1>10 DEF EntryGood, Add
<1>11. ASSUME NEW p \in Proc, Unlink(p)  PROVE FreeEmpty'
  BY <1>11 DEF Unlink, UnlinkName, Kept
<1>12. ASSUME NEW p \in Proc, Compile(p)  PROVE FreeEmpty'
  BY <1>12 DEF Compile, Holds, Compiled
<1>13. ASSUME NEW p \in Proc, CompileOnly(p)  PROVE FreeEmpty'
  BY <1>13 DEF CompileOnly, Finish, Holds
<1>14. ASSUME NEW p \in Proc, StoreFile(p)  PROVE FreeEmpty'
  BY <1>14 DEF StoreFile, UnlinkName, Kept
<1>15. ASSUME NEW p \in Proc, Create(p)  PROVE FreeEmpty'
  <2>1. CASE dir # None
    BY <1>15, <2>1 DEF Create
  <2>2. CASE dir = None
    <3>1. PICK i \in Free : /\ dir' = i /\ fd' = [fd EXCEPT ![p] = i]
                            /\ pc' = [pc EXCEPT ![p] = "lock_ex"]
      BY <1>15, <2>2, FreeInode DEF Create
    <3> QED
      BY <1>15, <2>2, <3>1, DiskAssumption DEF Create, Free, EmptyFile
  <2> QED
    BY <2>1, <2>2
<1>16. ASSUME NEW p \in Proc, LockExclusive(p)  PROVE FreeEmpty'
  BY <1>16 DEF LockExclusive
<1>17. ASSUME NEW p \in Proc, WriteHeader(p)  PROVE FreeEmpty'
  BY <1>17 DEF WriteHeader, Kept
<1>18. ASSUME NEW p \in Proc, HeaderCutShort(p)  PROVE FreeEmpty'
  BY <1>18 DEF HeaderCutShort, UnlockClose, Kept
<1>19. ASSUME NEW p \in Proc, WriteBody(p)  PROVE FreeEmpty'
  BY <1>19 DEF WriteBody, UnlockClose, Kept
<1>20. ASSUME NEW p \in Proc, BodyCutShort(p)  PROVE FreeEmpty'
  BY <1>20 DEF BodyCutShort, UnlockClose, Kept
<1>21. ASSUME NEW p \in Proc, AddMem(p)  PROVE FreeEmpty'
  BY <1>21 DEF AddMem, Add
<1>22. ASSUME NEW p \in Proc, EndRequest(p)  PROVE FreeEmpty'
  BY <1>22 DEF EndRequest, Finish, Holds
<1>23. ASSUME NEW p \in Proc, Touch(p)  PROVE FreeEmpty'
  BY <1>23 DEF Touch
<1>24. ASSUME NEW p \in Proc, Clear(p)  PROVE FreeEmpty'
  BY <1>24 DEF Clear, UnlinkName, Kept
<1>25. ASSUME NEW p \in Proc, Die(p)  PROVE FreeEmpty'
  BY <1>25 DEF Die, UnlockClose, Finish, Holds, Kept
<1>26. CASE Edit
  BY <1>26 DEF Edit
<1>27. CASE MachineCrash
  BY <1>27 DEF MachineCrash, Kept
<1>28. CASE UNCHANGED vars
  BY <1>28 DEF vars
<1> QED
  BY <1>1, <1>2, <1>3, <1>4, <1>5, <1>6, <1>7, <1>8, <1>9, <1>10, <1>11, <1>12,
     <1>13, <1>14, <1>15, <1>16, <1>17, <1>18, <1>19, <1>20, <1>21, <1>22,
     <1>23, <1>24, <1>25, <1>26, <1>27, <1>28 DEF Next, Serve

(* Every step keeps the types, and knows whether a file is open.           *)
LEMMA TypeNext ==
  ASSUME Inv, [Next]_vars
  PROVE  TypeOK'
<1> USE DEF Inv, TypeOK, Labels, Reading, Writing, world, disk, locks, own, Go
<1>1. ASSUME NEW p \in Proc, Stat(p)  PROVE TypeOK'
  BY <1>1 DEF Stat
<1>2. ASSUME NEW p \in Proc, Open(p)  PROVE TypeOK'
  BY <1>2 DEF Open
<1>3. ASSUME NEW p \in Proc, LockShared(p)  PROVE TypeOK'
  BY <1>3 DEF LockShared
<1>4. ASSUME NEW p \in Proc, ShortHeader(p)  PROVE TypeOK'
  BY <1>4, CloseType DEF ShortHeader
<1>5. ASSUME NEW p \in Proc, ForeignHeader(p)  PROVE TypeOK'
  BY <1>5, CloseType DEF ForeignHeader
<1>6. ASSUME NEW p \in Proc, ReadHeader(p)  PROVE TypeOK'
  BY <1>6 DEF ReadHeader, Holds
<1>7. ASSUME NEW p \in Proc, NoMemory(p)  PROVE TypeOK'
  BY <1>7, CloseType DEF NoMemory
<1>8. ASSUME NEW p \in Proc, ReadBody(p)  PROVE TypeOK'
  <2>1. fd[p] \in Inode
    BY <1>8, OpenFile DEF ReadBody
  <2>2. Intact(file[fd[p]]) => file[fd[p]].body \in Entry
    BY <2>1 DEF Intact, FilesSound
  <2>3. /\ ex' \in [Inode -> SUBSET Proc] /\ sh' \in [Inode -> SUBSET Proc]
        /\ fd' = [fd EXCEPT ![p] = None] /\ fd' \in [Proc -> Inode \cup {None}]
        /\ file' \in [Inode -> File]
    BY <1>8, CloseType DEF ReadBody
  <2>4. CASE Intact(file[fd[p]])
    BY <1>8, <2>2, <2>3, <2>4 DEF ReadBody, Holds
  <2>5. CASE ~ Intact(file[fd[p]])
    BY <1>8, <2>3, <2>5 DEF ReadBody, Holds
  <2> QED
    BY <2>4, <2>5
<1>9. ASSUME NEW p \in Proc, EntryStale(p)  PROVE TypeOK'
  BY <1>9 DEF EntryStale, Holds
<1>10. ASSUME NEW p \in Proc, EntryGood(p)  PROVE TypeOK'
  BY <1>10 DEF EntryGood, Add
<1>11. ASSUME NEW p \in Proc, Unlink(p)  PROVE TypeOK'
  BY <1>11, KeptType DEF Unlink, UnlinkName
<1>12. ASSUME NEW p \in Proc, Compile(p)  PROVE TypeOK'
  <2>1. Compiled(p) \in Entry
    BY DEF Compiled, Entry
  <2> QED
    BY <1>12, <2>1 DEF Compile, Holds
<1>13. ASSUME NEW p \in Proc, CompileOnly(p)  PROVE TypeOK'
  BY <1>13 DEF CompileOnly, Finish, Holds
<1>14. ASSUME NEW p \in Proc, StoreFile(p)  PROVE TypeOK'
  BY <1>14, KeptType DEF StoreFile, UnlinkName
<1>15. ASSUME NEW p \in Proc, Create(p)  PROVE TypeOK'
  <2>1. CASE dir # None
    BY <1>15, <2>1 DEF Create
  <2>2. CASE dir = None
    <3>1. PICK i \in Inode : dir' = i /\ fd' = [fd EXCEPT ![p] = i]
      BY <1>15, <2>2, FreeInode DEF Create, Free
    <3> QED
      BY <1>15, <2>2, <3>1, DiskAssumption DEF Create
  <2> QED
    BY <2>1, <2>2
<1>16. ASSUME NEW p \in Proc, LockExclusive(p)  PROVE TypeOK'
  BY <1>16 DEF LockExclusive
<1>17. ASSUME NEW p \in Proc, WriteHeader(p)  PROVE TypeOK'
  <2>1. fd[p] \in Inode /\ img[p] \in Entry
    BY <1>17, OpenFile DEF WriteHeader, HoldsSound, Holding, Sound
  <2>2. [file EXCEPT ![fd[p]].len = 2, ![fd[p]].crc = img[p]] \in [Inode -> File]
    <3>1. [file EXCEPT ![fd[p]].len = 2, ![fd[p]].crc = img[p]] =
            [file EXCEPT ![fd[p]] = [file[fd[p]] EXCEPT !.len = 2, !.crc = img[p]]]
      BY <2>1
    <3>2. [file[fd[p]] EXCEPT !.len = 2, !.crc = img[p]] \in File
      BY <2>1, WriteTypes
    <3> QED
      BY <3>1, <3>2
  <2> QED
    BY <1>17, <2>2 DEF WriteHeader
<1>18. ASSUME NEW p \in Proc, HeaderCutShort(p)  PROVE TypeOK'
  <2> DEFINE written == [file EXCEPT ![fd[p]].len = 1]
  <2>1. fd[p] \in Inode
    BY <1>18, OpenFile DEF HeaderCutShort
  <2>2. written \in [Inode -> File]
    BY <1>18, <2>1, ShortTypes DEF HeaderCutShort
  <2>3. UnlockClose(p, written)
    BY <1>18 DEF HeaderCutShort
  <2>4. /\ ex' \in [Inode -> SUBSET Proc] /\ sh' \in [Inode -> SUBSET Proc]
        /\ fd' = [fd EXCEPT ![p] = None] /\ fd' \in [Proc -> Inode \cup {None}]
        /\ file' \in [Inode -> File]
    BY <2>2, <2>3, CloseType
  <2> QED
    BY <1>18, <2>4 DEF HeaderCutShort
<1>19. ASSUME NEW p \in Proc, WriteBody(p)  PROVE TypeOK'
  <2> DEFINE written == [file EXCEPT ![fd[p]].len = 4, ![fd[p]].body = img[p]]
  <2>1. fd[p] \in Inode
    BY <1>19, OpenFile DEF WriteBody
  <2>2. written \in [Inode -> File]
    BY <1>19, <2>1, WriteTypes DEF WriteBody, HoldsSound, Holding, Sound
  <2>3. UnlockClose(p, written)
    BY <1>19 DEF WriteBody
  <2>4. /\ ex' \in [Inode -> SUBSET Proc] /\ sh' \in [Inode -> SUBSET Proc]
        /\ fd' = [fd EXCEPT ![p] = None] /\ fd' \in [Proc -> Inode \cup {None}]
        /\ file' \in [Inode -> File]
    BY <2>2, <2>3, CloseType
  <2> QED
    BY <1>19, <2>4 DEF WriteBody
<1>20. ASSUME NEW p \in Proc, BodyCutShort(p)  PROVE TypeOK'
  <2> DEFINE written == [file EXCEPT ![fd[p]].len = 3]
  <2>1. fd[p] \in Inode
    BY <1>20, OpenFile DEF BodyCutShort
  <2>2. written \in [Inode -> File]
    BY <1>20, <2>1, ShortTypes DEF BodyCutShort
  <2>3. UnlockClose(p, written)
    BY <1>20 DEF BodyCutShort
  <2>4. /\ ex' \in [Inode -> SUBSET Proc] /\ sh' \in [Inode -> SUBSET Proc]
        /\ fd' = [fd EXCEPT ![p] = None] /\ fd' \in [Proc -> Inode \cup {None}]
        /\ file' \in [Inode -> File]
    BY <2>2, <2>3, CloseType
  <2> QED
    BY <1>20, <2>4 DEF BodyCutShort
<1>21. ASSUME NEW p \in Proc, AddMem(p)  PROVE TypeOK'
  BY <1>21 DEF AddMem, Add
<1>22. ASSUME NEW p \in Proc, EndRequest(p)  PROVE TypeOK'
  BY <1>22 DEF EndRequest, Finish, Holds
<1>23. ASSUME NEW p \in Proc, Touch(p)  PROVE TypeOK'
  <2>1. img[p] \in Entry
    BY <1>23 DEF Touch, LinkedServed, HoldsSound, Holding, Sound
  <2>2. [img[p] EXCEPT !.counters = 1 - @] \in Entry
    BY <2>1 DEF Entry
  <2> QED
    BY <1>23, <2>2 DEF Touch
<1>24. ASSUME NEW p \in Proc, Clear(p)  PROVE TypeOK'
  BY <1>24, KeptType DEF Clear, UnlinkName
<1>25. ASSUME NEW p \in Proc, Die(p)  PROVE TypeOK'
  BY <1>25, CloseType DEF Die, Finish, Holds
<1>26. CASE Edit
  BY <1>26 DEF Edit
<1>27. CASE MachineCrash
  <2>1. file' \in [Inode -> File]
    <3>1. CASE dir = None
      BY <1>27, <3>1, KeptType DEF MachineCrash
    <3>2. CASE dir # None
      <4>1. PICK f \in Damaged(file[dir]) :
              file' = Kept(dir, [file EXCEPT ![dir] = f], {})
        BY <1>27, <3>2 DEF MachineCrash
      <4>2. f \in File
        BY <3>2, DamagedType DEF FilesSound
      <4> QED
        BY <4>1, <4>2, KeptType
    <3> QED
      BY <3>1, <3>2
  <2> QED
    BY <1>27, <2>1 DEF MachineCrash
<1>28. CASE UNCHANGED vars
  BY <1>28 DEF vars
<1> QED
  BY <1>1, <1>2, <1>3, <1>4, <1>5, <1>6, <1>7, <1>8, <1>9, <1>10, <1>11, <1>12,
     <1>13, <1>14, <1>15, <1>16, <1>17, <1>18, <1>19, <1>20, <1>21, <1>22,
     <1>23, <1>24, <1>25, <1>26, <1>27, <1>28 DEF Next, Serve

-----------------------------------------------------------------------------
LEMMA InvNext == Inv /\ [Next]_vars => Inv'
  BY TypeNext, HoldsNext, LinkedNext, StatNext, FilesNext, WrittenNext,
     LocksNext,
     HeaderNext, WriterNext, NewNext, FreeNext DEF Inv

LEMMA Invariance == Spec => []Inv
  BY InvInit, InvNext, PTL DEF Spec

(* Types, and that a process has a file open where its place in the code   *)
(* says so and nowhere else: hash_find_file and hash_add_file close what   *)
(* they open on each of their ways out.                                    *)
THEOREM TypesCorrect == Spec => []TypeOK
<1>1. Inv => TypeOK
  BY DEF Inv
<1> QED
  BY <1>1, Invariance, PTL

(* No request is served an entry that is not as its author wrote it,       *)
(* however many processes die and writes stop short.                       *)
THEOREM ServedIsWhole == Spec => []ServedWhole
<1>1. Inv => ServedWhole
  BY DEF Inv, HoldsSound, Holding, Sound, ServedWhole
<1> QED
  BY <1>1, Invariance, PTL

(* A file that has been written to the end passes the check of its crc32.  *)
THEOREM WrittenIsIntact == Spec => []WrittenFileIntact
<1>1. Inv => WrittenFileIntact
  BY DEF Inv
<1> QED
  BY <1>1, Invariance, PTL

(* No server runs what a server has left whose version numbers, as         *)
(* encode_version keeps them, are not its own.                             *)
THEOREM ServedHasOwnVersion == Spec => []ServedOwnVersion
<1>1. Inv => ServedOwnVersion
  BY DEF Inv, HoldsSound, Holding, ServedOwnVersion
<1> QED
  BY <1>1, Invariance, PTL

(* No request is served code older than the script was when it began.      *)
THEOREM ServedIsFresh == Spec => []ServedFresh
<1>1. Inv => ServedFresh
  BY DEF Inv, HoldsSound, Holding, ServedFresh
<1> QED
  BY <1>1, Invariance, PTL

(* Only a process that has seen a header turns to remove a file.           *)
LEMMA SpoiltFrom ==
  ASSUME TypeOK, [Next]_vars, NEW p \in Proc, pc[p] # "spoilt", pc'[p] = "spoilt"
  PROVE  ForeignHeader(p) \/ ReadBody(p)
<1> USE DEF TypeOK, Go, Finish
<1>1. ASSUME NEW q \in Proc,
             Stat(q) \/ Serve(q) \/ Touch(q) \/ Clear(q) \/ Die(q)
      PROVE  ForeignHeader(p) \/ ReadBody(p)
  BY <1>1 DEF own, Serve, Stat, Open, LockShared, ShortHeader, ForeignHeader,
     ReadHeader,
    NoMemory, ReadBody, EntryStale, EntryGood, Unlink, Compile, CompileOnly,
    StoreFile, Create, LockExclusive, WriteHeader, HeaderCutShort, WriteBody,
    BodyCutShort, AddMem, EndRequest, Touch, Clear, Die
<1>2. ~ UNCHANGED pc /\ ~ MachineCrash
  BY DEF MachineCrash
<1> QED
  BY <1>1, <1>2 DEF Next, Edit, vars

(* A request takes no file for corrupted whose writer is at work: it has a *)
(* lock that the writer cannot have, and a header that a writer who waits  *)
(* for the lock has not written.                                           *)
THEOREM WriterSpared == Spec => YoungFileSpared
<1>1. ASSUME Inv, [Next]_vars, NEW p \in Proc, NEW q \in Proc,
             pc[p] # "spoilt", pc'[p] = "spoilt", fd[q] = fd[p]
      PROVE  pc[q] \notin Writing
  <2> USE DEF Inv
  <2>1. ForeignHeader(p) \/ ReadBody(p)
    BY <1>1, SpoiltFrom
  <2>2. pc[p] \in {"header", "body"} /\ file[fd[p]].len >= 2
    BY <1>1, <2>1 DEF ForeignHeader, ReadBody, HeaderKnown
  <2>3. fd[p] \in Inode
    BY <1>1, <2>2, OpenFile DEF Reading
  <2>4. p \in sh[fd[p]] /\ ex[fd[p]] = {}
    BY <1>1, <2>2, <2>3 DEF LocksHeld
  <2>5. pc[q] \notin {"write_header", "write_body"}
    BY <1>1, <2>4 DEF LocksHeld
  <2>6. pc[q] # "lock_ex"
    BY <1>1, <2>2, <2>3 DEF NewFile, TypeOK
  <2> QED
    BY <2>5, <2>6 DEF Writing
<1>2. Inv /\ [Next]_vars =>
        [\A p, q \in Proc :
           pc[p] # "spoilt" /\ pc'[p] = "spoilt" /\ fd[q] = fd[p] =>
             pc[q] \notin Writing]_vars
  BY <1>1
<1> QED
  BY <1>2, Invariance, PTL DEF Spec, YoungFileSpared
=============================================================================
