# eAccelerator in TLA+

eAccelerator keeps compiled PHP scripts in a segment of shared memory and runs
them there, in place, from many PHP processes (or threads) at once.  What can go
wrong is mostly a matter of who still uses a piece of memory when somebody else
gives it back, and of which of several steps of several processes comes first.
This directory models that: TLA+ modules translated from the C sources, runs of
TLC that check them on small instances, and proofs checked by TLAPS.

## Inventory

| Component | State | Operations | Interacts with |
|---|---|---|---|
| Shared-memory allocator (`mm.c`) | free list ordered by address, `available`, size field in each block's head | `mm_init`, `mm_malloc_nolock`, `mm_free_nolock`, `mm_maxsize` | everything that stores in shared memory; under the segment's lock |
| Locks and segments (`mm.c`, macros of `eaccelerator.h`) | one lock per segment (spinlock, fcntl, flock, System V, POSIX, pthread, Win32), `ZTS_LOCK` | `mm_lock`, `mm_unlock`, `mm_create`, `mm_attach`, `mm_destroy` | taken by the cache around every list operation, by the allocator for single calls |
| Script cache (`eaccelerator.c`) | `hash[]` chains, `removed` list, `hash_cnt`, `rem_cnt`, `last_prune`; per entry `use_cnt`, `ttl`, `mtime`, `removed` | `hash_find_mm`, `hash_add_mm`, `eaccelerator_prune`, `eaccelerator_malloc2`, `eaccelerator_store`, `eaccelerator_restore`, `eaccelerator_clean_request` | allocator, disk cache, requests |
| Compilation flow (`eaccelerator.c`) | locals of `eaccelerator_compile_file`, `EAG(used_entries)`, exchanged function and class tables | stat, look-up, compile, stat again, store | Zend compiler, file system |
| Disk cache (`eaccelerator.c`, `ea_info.c`) | one file per script, header with sizes, versions and checksum; its name, its locks; a directory per user, `cache_dir_uid` | `hash_find_file`, `hash_add_file`, `check_header`, `clear_filecache`, `init_cache_dir`, `make_hash_dirs` | file system, script cache, other servers |
| Administration (`ea_info.c`) | switches in `ea_mm_instance` | clean, clear, purge, check_mtime, caching, optimizer, listings | script cache, from inside a request |
| Storing (`ea_store.c`) | write position, table of shared strings | `calc_*` (size pass), `store_*` (copy pass) | fills the block of a new entry |
| Restoring (`ea_restore.c`) | base address of fix-ups; class and function tables | `fixup_*`, `restore_*` | reads entries in shared memory |
| Optimizer (`optimize.c`) | basic blocks with their edges, registers | `build_cfg`, `optimize_jmp`, `optimize_bb`, `reassign_registers`, `emit_cfg` | called by the compiler hook |
| Filter, versions | none | `ea_match`, `encode_version` | compilation flow, disk cache header |
| Life cycle (`eaccelerator.c`) | `ea_mm_instance` of each process, umask, signal handlers | MINIT, `init_mm`, RINIT, RSHUTDOWN, `eaccelerator_crash_handler`, MSHUTDOWN, `shutdown_mm` | allocator, locks, disk cache |
| Debugging, disassembler, web pages, build files | none | printing | none |

### What is hard

* *Interleaving.* Sections under the lock are short: between a stat, a look-up, a
  compilation, an allocation, the filling of a block and its insertion, other
  processes do anything, scripts are edited, and administrators act.
* *Deferred freeing.* An entry that is replaced or invalid leaves the table at once
  and its memory when the last request that runs it has ended; it travels over
  the `removed` list, and every place that frees decides by `use_cnt`, each in
  its own way.
* *Checks made early.* `last_prune`, the switch for modification checks and the
  stat of a script are read outside the lock and used later.
* *Crashes.* Nothing a dead process held is given back, but what the system gives
  back: locks on files, semaphores with `SEM_UNDO`.  A request can be torn out of
  a section and PHP go on.
* *Names and files.* A cache file is unlinked by name, read and locked by
  descriptor; in between the name may stand for another file.
* *Two walks that must agree.* The size of an entry is computed by one recursive
  walk, the entry written by a second, relocated by a third, restored by a
  fourth: each knows on its own what has which pointers.
* *Rewriting code.* Every rule of the optimizer keeps a graph with backward links,
  and decides from local facts what may be dropped.
* *Boundaries.* Splitting and merging of memory, buckets that are almost the
  size asked for, memory that runs out at any store.

`PROJECT.json` lists the hazards one by one with the line where each bites and the
properties that cover it.

## Modules

| Module | Stands for |
|---|---|
| `Heap` | what the allocator promises: disjoint blocks inside the segment, and a refusal only when no run of unused memory could hold the request |
| `MM` | `mm.c`'s best-fit allocator; shown to implement `Heap` |
| `EntryLease` | what the cache promises to requests: an entry does not cease to exist while a request holds a lease on it, and once withdrawn it is never offered again |
| `ScriptCache` | the script cache in shared memory, requests, the world around them; shown to implement `EntryLease` |
| `ShmLock` | the lock of the segment in five builds, for threads or not, `ea_mutex`, the sections that run under them, deaths and torn requests |
| `Version` | `encode_version`: what a file's header keeps of a version string |
| `DiskCache` | the cache file of one script, system call by system call, over several processes and servers |
| `Request` | RINIT with the making of the user's directories, RSHUTDOWN, the crash handler: what they do to a process, and to other users and servers |
| `Segment` | the life of the segment and of its lock: start and stop of the module, fork, what a child inherits, who destroys |
| `ScriptImage` | sizing, storing, writing out, relocating and restoring a compiled script |
| `ZendClass` | external: classes and what PHP does when it binds one to its parent |
| `OptGraph` | basic blocks, their edges and the links back; what takes an edge or a block out; what makes a graph sound |
| `OptJmp` | the rewritings of `optimize_jmp`: each rule for the jump that ends a block, chains of JMPs, merging, copying of RETURN |
| `OptCfg`, `OptBlock` | the optimizer's walks over the whole graph: building, marking, sweeping, emission; liveness, peephole rules, registers |
| `Optimizer` | `eaccelerator_optimize` as a machine that takes those steps |
| `Zend` | external: the compiler that feeds the optimizer and the executor that runs what it leaves |
| `Opcodes` | instructions and their operands, as `Zend` and the optimizer know them |
| `Loops` | folds for TLC |
| `MM_proofs`, `ScriptCache_proofs`, `DiskCache_proofs`, `ShmLock_proofs`, `Request_proofs`, `Segment_proofs`, `OptJmp_proofs` | theorems about the module in the name |
| `ScriptCacheLease_proofs` | theorems about `ScriptCache` that rest on the invariant of `ScriptCache_proofs`, with the refinement of `EntryLease` |
| `MCMM`, `MCScriptCache`, `MCShmLock`, `MCDiskCache`, `MCRequest`, `MCSegment`, `MCScriptImage`, `MCOptimizer` | instances for TLC |

How they meet: `ScriptCache` takes from the allocator that a block is free or is
not, which `Heap` promises and `MM` implements; it takes from the lock that a
section is one step, which `ShmLock` shows (`Exclusive`, `WholeOnEntry`) and of
which it tells when it fails; `DiskCache` takes over where a look-up in shared
memory finds nothing, and hands an entry back to it (`Add`); `Request` makes the
directories it writes into, and `Segment` the lock and the memory all of them
use; `ScriptImage` is the
inside of an entry, `Optimizer` what is done to an op_array before that.

### MM

`free_list` is the linked list as a sequence of buckets (address and size),
`available` is `mm->available`, `blocks` maps the address of each block handed out
to the size field in its head, and `ret` is the pointer last returned.  Every
quantity of the code is a multiple of `MM_PLATFORM_ALIGNMENT` and is counted in
that unit.  `MallocExact`, `MallocWhole`, `MallocSplit` and `MallocFails` are the
outcomes of `mm_malloc_nolock`; `FreeBlock` is `mm_free_nolock` with its four
cases of merging.  All of it runs under the segment's lock, so that each call is
one step.  The range checks of `mm_free_nolock` always succeed for a pointer the
allocator returned, the only pointers its callers pass.  `mm.c` announces its red
zone (`MM_CHECK`) as enabled in debug builds, but `#undef`s the macro there and
defines it nowhere: it is not modelled.

### ScriptCache

One step is what the code does under one hold of the lock, or one access to
something shared that it makes without the lock:

| Code | Actions |
|---|---|
| RINIT | `StartRequest` |
| `eaccelerator_compile_file` up to its stat | `CompileFile` |
| `hash_find_mm` | `FindHit`, `FindStale`, `FindMiss` |
| `eaccelerator_restore` after the look-up | `Restore`, `RestoreRefused` |
| the Zend compiler | `Compile`, `CompileFails` |
| the test after it and the second stat | `KeepStat`, `StatAfter` |
| `eaccelerator_store`: `mm_malloc_lock`, `eaccelerator_malloc2`, prune | `Malloc`, `MallocFails`, `Malloc2`, `PruneForSpace` |
| `hash_add_mm` | `Add` |
| `eaccelerator_clean_request`, locked and unlocked walk | `CleanRequest`, `FreeUsed` |
| `eaccelerator_clean`, `_clear`, `_purge`, `_check_mtime` | `Clean`, `Clear`, `Purge`, `SetCheckMtime` |
| death of a process, edits, time | `Crash`, `Edit`, `Delete`, `Tick` |

Abstractions, and why they lose nothing the properties tell apart:

* A chain, and the removed list, is the *set* of its entries.  Every walk in the
  code looks for one entry, or visits all of them, under the lock.  (The
  listings, which walk without the lock, change nothing and are left out.)
* Every entry occupies one `Block` and blocks are of one size; the allocator's
  own behaviour is `MM`'s business.  `alloc` is what it has handed out.
* The modification time and size of a script, only ever compared together, are
  a revision number, and an edit always changes it: an edit within the same
  second that keeps the size is invisible to the code too.  The compiled code is
  the revision the compiler read.
* A script is looked up under the name it is stored under (`realname` is the
  `opened_path` PHP reports).
* `eaccelerator.shm_only` is on: the disk cache is `DiskCache`'s.
* What is found in an uninitialised `struct stat`, when the checks were off
  at the first stat, is any revision at all.
* A process dies only outside the locked sections; deaths inside them, and the
  signal handler that calls `eaccelerator_clean_request`, are in `ShmLock`.

`QuietEdits` restricts edits to times when no request deals with the script, and
`QuietPurge` restricts `eaccelerator_purge` to times when no request uses a removed
script.  They are not conditions the code checks: they name the circumstances
under which prune and purge are safe; "Disagreements" says what happens without
them.

### ShmLock

`held` is what the system knows of the lock (who, for reading or for writing),
`mutex` the thread that has `ea_mutex` in each process, `data` what the lock
protects: `"whole"`, `"half"` while a section changes it, `"broken"` when whoever
was changing it has gone, or two changed it at once.  `kind` is the `MM_SEM_...` the
build chose.  `configure` does not look at ZTS when it chooses (`config.m4` 284-306), so
all five kinds are initial states of one run, each with every layout of threads.

Whom the system takes for the holder is `Owner`: a thread for a word or a mutex in
memory; the process for a semaphore or `fcntl`; for `flock` the open file description in
`mm_flock_fd`, which is known by the thread that opened it (`fd`).  Threads of one process
may both find the file not yet opened, and then one description replaces the other while
somebody locks with it: `via` is the name a thread waits in or has entered in.  `left` are
the processes that still have a lock which a torn request did not release; without it
`WaitersGetIn` could not tell them from the dead, for whom nobody is to wait.  `Runs` bounds
the sections of a thread: in the run, the third one, which is alone in its process, takes no
`ea_mutex` but to clean up, since nobody else wants it.

| Code | Actions |
|---|---|
| `EACCELERATOR_LOCK_RW`, `_RD`, `mm_malloc_lock`, `mm_available` ... | `Begin`: a section with or without `ea_mutex`, to read or to write |
| `ZTS_LOCK` | `ZtsLock` |
| `mm_do_lock` | `OpenFile` (flock, in a process that has not opened it), `DoLock` when the lock can be had; for a file, `LetGo` (flock drops the lock it cannot convert), `Refuse` (fcntl reports `EDEADLK`, which `mm_lock` passes on and the macro ignores) |
| the section | `Write`, `Complete` |
| `mm_do_unlock`, `ZTS_UNLOCK` | `Unlock` |
| `eaccelerator_crash_handler`; PHP's bailout; `eaccelerator_clean_request` after either | `TearOut`, with which a request leaves a section without unlocking and goes on to the section that cleans up, if it has used entries |
| a process that is killed | `Kill` |

A lock that is there can be had here: those that fail for want of permission or of
a descriptor are in `Segment`.

`FairSpec`: weak fairness of `Work(a)`, since a thread in a section only runs; strong
fairness of `Acquire(a)`, since whoever waits for a lock that is free again and
again gets it (a spinlock sleeps and tries, the kernel wakes its waiters).  Nothing
makes a section begin.

### DiskCache

`dir` is the inode the file's name stands for, `file` what each inode holds, `ex`
and `sh` who has it locked, `fd` what a process has open.  A file is written in two
writes, header and entry, and `len` says how far it got; `lost` is what a crash of
the machine made of it.  Each server has the three version strings `VersionOf`; the
header of a file holds them as `encode_version` leaves them (`Header`), and `CheckHeader`
compares those, so that a server takes files of a build it cannot tell from itself.
An entry is who compiled it, the revision it is labelled
with, the revision its code is of, and its counters, which other processes change
while it is in shared memory.

| Code | Actions |
|---|---|
| `eaccelerator_stat` | `Stat` |
| `hash_find_file` | `Open`, `LockShared`, `ShortHeader`, `ForeignHeader`, `ReadHeader`, `NoMemory`, `ReadBody`, `EntryStale`, `EntryGood`, `Unlink` |
| the compiler, `eaccelerator_store` | `Compile`, `CompileOnly` |
| `hash_add_file` | `StoreFile` (unlink), `Create`, `LockExclusive`, `WriteHeader`, `WriteBody`, and either write cut short |
| `hash_add_mm`; other processes that use the entry | `AddMem`; `Touch` |
| end of request, `clear_filecache` | `EndRequest`, `Clear` |
| the script is edited, a process dies, the machine goes down | `Edit`, `Die`, `MachineCrash` |

`open` returning descriptor 0 is taken for a failure by the code, as in the model.
`FairSpec`: weak fairness of what a process does for its request, strong fairness of
`LockExclusive`, as `flock` wakes its waiters whenever the lock is free.

### Request

`mask` and `handler` are the umask and the signal handler of each process, `dir_uid`
is `cache_dir_uid` in each server's segment, `top` and `hashed` the directories that
are there.  Threads run requests, in one process or in several, and processes of
one or more servers, under one or more users, share the cache directory.

| Code | Actions |
|---|---|
| RINIT: `signal`, the test of `cache_dir_uid` without the lock | `RInit` |
| the lock and the second test | `DirMade`, `InitCacheDir` |
| `init_cache_dir`: `lstat`, `mkdir`, either early return | `Lstat`, `Mkdir`, `GiveUp` |
| `make_hash_dirs` | `MakeHashDir`, one directory a step |
| `umask(old_umask)`, `cache_dir_uid = uid`, unlock | `Announce` |
| RSHUTDOWN up to `eaccelerator_clean_request` | `RShutdown` |
| `eaccelerator_crash_handler`, death and replacement of the process | `Crash` |
| somebody empties the cache directory | `Wipe` |

The five signals are treated alike and are one; of the two levels of hashed
directories the lower is named.  A process does not crash while a sibling thread
makes directories: what a lock is after such a death is `ShmLock`'s business.
`gave_up`, `spoilt`, `wiped` and `lost` record what happened, for the properties.

### Segment

`instance` is `ea_mm_instance` of each process, `sem` what has become of the lock of
each segment, `held` who has it, `flock_fd` and `flock_pid` the variables of that name,
`fds` the open file descriptions each process has, known by the segment and by who
opened them.  `foreign` are the workers that the server makes another user's than the
one that made the lock, where that user is not admitted to it (`Admits`): to a semaphore,
if it is not `EA_USERID`, or to flock's file, which `mkstemp` makes with mode 0600.

| Code | Actions |
|---|---|
| MINIT, `init_mm`, `mm_create`, `mm_init_lock`; the early return of `init_mm` | `InitMM`, `InitMMFails` |
| `fork`; `setsid` | `Fork`, `Lead` |
| `mm_do_lock`: opening the lock file; the lock; an error, which the macros ignore: the lock was removed, its file is another user's, no descriptor is free | `OpenLock`, `DoLock`, `LockFails` |
| `mm_do_unlock` | `DoUnlock` |
| MSHUTDOWN, `shutdown_mm`, `mm_destroy` in the process that started the module, in another | `Stop`, `End` |
| a process ends without MSHUTDOWN, is killed | `Quit`, `Kill` |

Only sections of writers are modelled, and every worker that ends by itself runs
MSHUTDOWN.  A process may be any leader or none: servers detach themselves before or
after MINIT, or never.  A destroyed pthread mutex refuses or goes on working: POSIX
leaves it open.  A process of another user cannot remove a semaphore, and may be unable to
unlink the file (`Removed`).  A child may fork further children (a script may), with all it has
open.

### ScriptImage

The block is a function from addresses to objects; bytes are counted, so that
alignment and sharing of strings matter, but not written one by one.

| Code | Definitions |
|---|---|
| `calc_*`, `calc_size` | `CalcZval`, `CalcHash`, `CalcOpArray`, `CalcClassEntry`, `CalcSize`; action `Size` |
| `store_*`, `eaccelerator_store_int` | `StoreZval`, `StoreHash`, `StoreOpArray`, `StoreClassEntry`, `StoreScript`, the checks of what a class inherited (`OwnInfos`, `OwnMethods`, `OwnStatics`); action `Store`, with what `hash_add_file` writes |
| `fixup_*`, `eaccelerator_fixup` | `FixZval`, `FixHash`, `FixOpArray`, `FixClassEntry`, `FixScript`; action `Reload` |
| `restore_*`, `restore_class`, `restore_function`, `eaccelerator_restore` | `RestoreOpArray`, `RestoreClassEntry`, `Enter`, `RestoreScript`; action `Include` |
| `zend_do_delayed_early_binding` at the end of a restore (external) | `BindDelayed`, in `RestoreScript` |
| `eaccelerator_compile_file` after the compiler: tables merged, classes bound late | `Compiled`; action `Compile` |
| the request runs what it has, ends | `Run`, `Finish` |

`Run` dirties the static variables of every op_array a request has where they
really are: in the block, if a restored op_array shared them with it.  Binding a
class to its parent (`ZendClass`) is PHP's and is modelled as far as the two
versions differ in what they copy: infos, default and static members, methods,
constructors, interfaces and magic methods.  A class whose parent is not in the file is
declared by an instruction of the chain that starts at `early`: after every restore, and
every compilation, the chain is followed and each class bound whose parent the request has
by then (`Worlds` are the classes it may have from other files).  Interfaces a class
inherits are not stored (`OwnInterfaces`).  `optimize.c` 3325-3394 links the chain anew
after it has moved instructions; here it starts from the op_array as it is stored.

### Optimizer

One step is one rewriting: of the jump that ends the block at hand (`Thread`), of
one link in a chain of JMPs (`Follow`), the merging of a block (`MergeBlock`), the
copying of RETURNs, liveness, the peephole rules on one block (`Optimize`), the
emission with its registers (`Emit2`).  What a rule does is an operator from graphs
to graphs in `OptGraph`, `OptJmp`, `OptCfg` and `OptBlock`; the machine is `optimize_jmp`'s loops
and `eaccelerator_optimize`'s two passes.  `Zend` compiles trees of a small language
to op_arrays as PHP 5.3 does, and runs op_arrays: what is printed, which questions
are put to the world (calls, iterations, whether one throws) and how the run ends.

`GraphSound` is what `optimize_jmp` goes by, and never tests: `Sound(g, P, C)`, where
`P` are the blocks of the list and `C` those that catch exceptions.

* `Exact`: a block in use knows just the blocks in use that lead to it, and leads to
  blocks in use only.  `RM_BB` and the sweep take a block without predecessors for
  dead, merging takes one with a single predecessor for part of that.
* `InOrder`, `Disjoint`: the list follows the code and ends; no line is in two
  blocks.  A merged block spans the lines between the two it was made of, and a
  removed block makes NOPs of its lines.
* `JumpsLast`: a jump is the last line of a block, so that a block that begins with
  one has no other line, and can be gone past.
* `EdgesFit`: which edges a block has is known from its last instruction.  The rules
  copy some edges and clear some; one forgotten would be a link nobody takes back.
* `Protected`: a block that a try element begins with, or ends up in, is no
  predecessor's own and does not begin with FREE, so that no split loses its mark.

Where a rule splits a block, it takes the next element of the array (`bb + 1`) for the
new one: `CanSplit` says that this element is no block of the list, and blank.

`Spec` is fair to `Next` as a whole (`WF_vars(Next)` with its enabling condition written
out): a function that can go on does.

## Runs

| Run | Shows | Bounds | Distinct states |
|---|---|---|---|
| `mm` | list sorted, merged, complete; blocks disjoint; `available` and `mm_maxsize` exact; `Heap` implemented | 13 units, heads of 1, buckets of 2, requests of 1 to 4 | 7,066 |
| `cache_two` | lists, flags and counters agree; nothing leaks; nothing is freed in use; removed entries only drain, also when the modification checks are switched at run time | 2 processes, 2 blocks, 1 script with 2 revisions, 2 restores per request, 1 refusal | 2,855,438 |
| `cache_three` | use counts cover all uses, one entry per script, modifications noticed, `EntryLease` implemented | 3 processes, 2 blocks, 1 script with 2 revisions, 1 restore per request, 1 crash | 287,004 |
| `prune` | expiry frees nothing in use when edits are quiet, use counts exact | 2 processes, 2 blocks, 2 scripts, clock up to 2, ttl and prune period 1 | 2,171,376 |
| `live` | removed entries are freed in the end | 2 processes, 2 blocks, no crash | 79,448 |
| `disk` | no request is served a damaged or outdated entry or one of another version; a file written to the end passes the check; no reader throws away a file a live writer works on; every request is answered | 2 processes of 2 servers, of versions the header tells apart or does not, 3 inodes, 2 revisions, 1 death, short write or crash | 327,220 |
| `lock` | writers exclude everybody; nobody enters half-changed data; who waits gets in, or waits for a named reason | 3 threads in 3 processes, or in 2 of a build for threads, 5 kinds of lock in either, 1 fault | 241,275 |
| `request` | who runs alone on its server, and not as root, finds the disk cache; no script runs with the umask of `init_cache_dir`; handlers are given back; a crash gives back what is used in a build without threads | 2 threads in 1 or 2 processes, 3 users, 2 servers, 2 hashed directories, 2 crashes or removals | 1,236,248 |
| `segment` | sections of one segment exclude each other across fork and restart; while the module is stopped last nobody meets a removed lock, and one that is there is refused for a named reason only; no lock is left behind | a master and 2 workers, under 1 or 2 users, 2 starts, 5 kinds of lock | 356,176 |
| `optimizer` | the graph stays sound while jumps are threaded, and where a block is split the place is free; registers fit; the optimizer ends; the script behaves as before, but for a lost JMP_SET | every script of the grammar in `MCOptimizer`; runs followed for 40 steps at a time through 3 questions | 70,091 |
| `image` | the copy fits the size computed; every request gets what compiling would have given it, classes bound late included | 2 addresses, 2 requests, 2 includes each, with parents from other files or not, the files in `MCScriptImage`, PHP 5.3 and 5.4 | 14,592 |
| `used_twice` | a disagreement of the code with its comments, below | 2 processes, 2 blocks: the trace has 2 processes on 1 entry | |

*Why the bounds are enough.*  In `mm`, thirteen units hold four smallest blocks
and a fragment, so that a block can come back with a free neighbour on either
side, on both, or on none, exact, whole and split allocations all occur, and a
request can fail for fragmentation as well as for lack of memory.  In the cache,
two blocks are one entry in the table and one that is removed or being filled,
and a third store finds memory full; two restores per request let one request
use an entry twice, or an old entry and its replacement; a third process is the
administrator, or the second loser of a race, while two others meet.  Two
revisions make an entry stale; a third would be stale in the same way.

In `disk`, the two processes are reader and writer, or two writers, or a reader and one
that clears; a third inode lets both have a file open that no longer has the name; one
fault is enough to damage a file, and what a second could add, the damage of a file the
reader then makes, is another file. Of the servers, one has another version number, the
other a version that encodes like its own. In `lock`, three threads are a holder, a
second reader and a writer, or two of one process and one of another; one fault orphans
the lock, or lets a torn request come back for it. (Several faults are in the proofs of
`Exclusive` and `WholeOnEntry`, which do not bound them.) In `request`, two threads of a
process meet in its umask and handlers, two processes of a server in `cache_dir_uid`,
two servers in the directories; the third user is root beside two others; a directory
half made has one hashed directory of two. In `segment`, a worker, its parent and its
child, or two workers and a master that is gone, are three processes; a second start
meets what is left of the first. In `optimizer`, every rule fires, every way of leaving
a block (end of script, return, exit, break, continue, throw, catch, true, false,
iteration ends) stands in and behind every control structure, one level deep and for
loops two; runs compare a state only with a state that has asked the same questions, so
three questions are every loop entered, repeated and left. In `image`, strings are short
enough to be shared or are not, two or more of each kind of table make a second element,
and classes redeclare, hide, share or leave alone each kind of member of their parent,
with a grandchild; two classes bound late are a chain, the second of which needs the
first; a second include is a third in what it finds.

Processes and blocks are interchangeable in every run of the cache but `live`,
requests in `image`, workers in `segment`; liveness is checked without symmetry.  Deadlock is checked
everywhere but in `lock`, where threads do stop for ever (`Stuck` says when), and in
`segment`, where the server ends.

*Fairness.*  In `ScriptCache`, `FairSpec` is weakly fair to each process while it serves
a script: it runs by itself and the lock is only held for short sections.  It is
strongly fair to `CleanRequest`, because PHP bounds the running time of a request, so
that one cannot go on including scripts for ever.  Nothing makes a request start, a
script change or an administrator act.  For the other modules see above.

*What the lock run says about each lock.*  `WaitersGetIn` names every way to wait in
vain (`Stuck`).  The spinlock and the pthread mutex are orphaned for ever by whoever
dies with them, `sysvipc` and the locks on files are not; a semaphore is waited for
by its own holder when a torn request comes back for it, and `ea_mutex` likewise,
in every build for threads; readers of a file lock that take turns keep a writer
out.  The price of locks the system gives back is in `WholeOnEntry`: the next process
walks into lists the dead one left half changed.  With `fcntl` and `flock` in a build for
threads, the sections of `mm.c` that take no `ea_mutex` (`mm_malloc_lock`, `mm_free_lock`) run
beside the table sections of their siblings, and release the lock under them:
`Together` and `Bare` name those, and `Exclusive` says that nobody else meets.

### Disagreements

Checked by a run:

* `used_twice`: `clean_request` reads `use_cnt` of its entries a second time after
  the lock is gone, when others may have freed them.

Found while modelling.  A property or an assumption that a run checks names each of
the first five as its exception, so that the run shows there is no other:

* `eaccelerator_prune` frees entries whose script has changed or gone without looking
  at `use_cnt`; only expiry looks at it.  `QuietEdits` keeps it away: with
  `QuietEdits = FALSE` in `MCPrune.cfg`, `NoUseAfterFree` is violated.
* `compute_live_var` makes an instruction whose result nobody reads a NOP; JMP_SET
  (`if ($a ?: f()) {}`) also jumps, and after the optimizer `f` is called, or not,
  regardless of `$a`.  `SameButJmpSet` excepts scripts that lose one (`JmpSetLost`), and
  nothing else.
* RINIT makes the user's directory where `cache_dir_uid` differs from `getuid()`, and
  `init_mm` clears it to 0, root's uid: a server that runs as root has no disk cache.
* File names are made with `cache_dir_uid`, which every RINIT under another user
  overwrites: a request then looks into a directory of mode 0700 of somebody else.
  `OneUserUsable` says that two users of one server, and root, are the only reasons to
  find the disk cache unusable, besides a directory that cannot be made or was removed.
* The crash handler gives back what the crashing thread uses, not what its siblings
  use, and the RSHUTDOWN of one thread takes the handler of all away.  `CrashReleases`
  speaks of threads that are alone in their process.
* `init_cache_dir` returns early with the umask it has set: what the scripts
  of that process make from then on nobody else can read.  `UmaskKept` shows that nothing
  else leaves it behind, but threads see it while a sibling makes directories.
* `init_mm` does not destroy what it has created when its allocation fails (`untidy`
  in `Segment`), and only a process that leads its group destroys the segment, so
  that one that is started in the foreground of a shell's group leaves its semaphore.
  A worker that a script makes a leader destroys the lock under all the others
  (`orderly`).
* A flock child does not close the description it has inherited when it opens its
  own (`mm.c` 579): when its parent is killed in a section, the lock stays locked while
  the child lives.  `Accounted` of `Segment` allows this and nothing else.
* `eaccelerator_purge` (`ea_info.c` 329) frees every removed entry without looking at
  `use_cnt`, while `eaccelerator.c` 145 puts it on that list because "key is used by
  other process/thread".  `QuietPurge` keeps it away.
* The prune period is tested without the lock (`eaccelerator.c` 443) and not again
  under it, so that two processes prune one after the other, against
  `eaccelerator.ini` 73.
* A script that is found but refused by `open_basedir` (`eaccelerator.c` 798) stays
  counted as in use for ever; `UseCntCovers` shows that this can only cost memory, and
  `UseCntExact` that nothing but this and a death makes the count wrong.
* When the modification checks are off after a compilation, the script is stat'ed
  then (`eaccelerator.c` 1272), and code compiled before an edit is stored as that of
  the file after it; once the checks are on again it is served as current.
* `doc/php/info.php` 52 says that removed scripts are purged automatically when memory
  is needed; nothing does that, and an entry whose user died stays until an
  administrator purges it.
* `eaccelerator.ini` says that `shm_ttl = 0` means nothing is removed from shared
  memory, but a prune still removes changed and vanished scripts; and
  `eaccelerator_clean` is documented to clean the disk cache, which it does not touch.
* A comment of `build_cfg` (`optimize.c` 3092-3098) says that code after a RETURN, an
  EXIT, a BRK or a CONT is glued "to the last opcode, that is HANDLE_EXCEPTION"; the
  last block is kept that way only where such an instruction can be reached, and
  `while (true) { f(); }` loses its RETURN and its HANDLE_EXCEPTION.
* `while (1);` is a JMP to itself after the first rewriting, and `optimize_jmp`, which
  follows chains of JMPs, then never returns.  `Terminates` excludes such scripts
  (`IdleLoop`) and nothing else; the phase is called `"spins"`.
* Some rules of `optimize_bb` that are not modelled are wrong for certain scripts:
  `A::$x = B::$x + 1` becomes `A::$x += 1`; a BRK out of two nested foreach loops, made
  a JMP, skips the FREE of the inner one; where `build_cfg` gives up on one BRK, those
  before it stay replaced; PHP 5.4's `JMP_SET_VAR` is unknown to it.
* `mm.c` 542 says of flock that it "is not thread safe", and it is not (see above), nor is
  fcntl; `config.m4` 295-300 may choose either with ZTS, without a word.
* `config.m4` 64 says that `--with-eaccelerator-userid` is "only needed when using sysvipc
  semaphores".  flock's workers open a file of mode 0600 that the process that started the
  module has made (`mm.c` 557, 579): those that have changed their user are refused, and as
  with a semaphore that is another user's (`mm.c` 425), the error is logged and the section
  run without the lock.  `AlwaysLocked` names these two, and a process that has no
  descriptor left for flock's file, as the only sections that run so in good order.
* The header of a cache file has versions as `encode_version` leaves them: other suffixes
  than "rev", "rc" and "beta" by their first four bytes, "RC1" and "RC2" alike (the
  comparison does not mind case, `sscanf` does), ZTS, debugging and word size not at all.
  Builds that agree in these run each other's files.  `ServedOwnVersion` says no more
  than the header can tell.
* A script that is included again is restored without its functions and classes, which are
  there already, where compiling it again would report that they cannot be redeclared;
  but the chain of classes bound late is followed each time, and reports it.
  `RestoredLikeCompiled` excepts these (`late`).
* `store_default_property_access_check` (`ea_store.c` 836-859) looks its property up
  into the wrong variable and so keeps every one, which costs memory only.

## Proofs

`MM_proofs` proves, for a segment, a head, a bucket and requests of any sizes that
satisfy `SizesAssumption` (a bucket fits in a head and one unit): `TypeOK`,
`Coalesced`, `RoomForBucket`, `NoOverlap`, `NothingLost`, `AvailableExact`,
`MaxSizeExact`, and that `MM` implements `Heap`.  The inductive invariant `Inv` adds to these that
blocks fit in the segment (`BlocksFit`), are pairwise apart (`BlocksApart`) and lie
outside the buckets (`BlocksOutside`) in terms of their end points, on which the
arithmetic works; the sets of units that `NoOverlap` speaks of follow from it.
`NothingLost` needs every other part: a merge loses nothing only because the
neighbours it swallows touch the block.  The list operations are lemmas about
cutting an element out of a sequence and splicing one into it (`CutOut`, `Splice`),
and the count of free units follows the list by `TakeUnits` and `GiveUnits`.
That a refusal is justified (`FailsRefuses`) uses `NothingLost` and `Coalesced`: a
run of unused units lies in buckets, and, as buckets never touch, in one bucket
(`RunInBucket`).  With its converse (`BucketIsRun`) this also gives what `mm_maxsize`
answers; that a finite set of sizes has a largest member (`Largest`) is had without
an induction, from the well-founded order of the finite sets under inclusion.

`ScriptCache_proofs` and `ScriptCacheLease_proofs` prove every safety and action
property of `ScriptCache`, and that it implements `EntryLease`, for any number of
processes, blocks, scripts, revisions and uses per request, with crashes and
refusals as many as the constants allow.  The invariant is `Core`:

* `Sound` of every block, on a list or not: the lists are apart, allocated and agree
  with the flag; `use_cnt` covers the uses; what is used is on a list.  The last two
  need each other: a free decided by `use_cnt = 0` is right because the count covers
  the uses, and the count goes on covering them because a block in use is not
  handed out again with its count set to 1.
* `Counted` and `Storers`: the counters, and the blocks being filled, which are on no
  list and have one owner each, so that an `Add` takes nothing that is used or listed.
* `Fresh`: while edits are quiet a request knows the file as it is, and no entry in use
  has changed; this is what makes prune, which does not look at `use_cnt`, harmless.
* `Ended`, `Pruning`, and `HasEntry` with `TypeOK`: what is known from the program counter.

Uses are counted as a set of pairs (who, which of its uses).  That one process's step
changes the count by what that process takes or gives back is proved once
(`CountStep`), for the used list and for the use between look-up and restore; the walk of
`clean_request` takes off just what the process had.  `NoUseAfterFree`, `ListsConsistent` and
`UseCntCovers` follow from `Core`.  Four more parts are inductive on top of it:
`Filled` (who adds a block put its contents there) for `OneEntryPerScript`; `Dated` (a stat
is older than what is compiled after it) for `ModificationNoticed`; `Exact` for `UseCntExact`;
`Accounted` for `NothingLeaked`.  `RemovedOnlyDrains` is a property of each step from a state
of `Core`.  For `ImplementsLease`, a lease of `EntryLease` is a use, and every step is an
`Acquire`, a `Release`, a `Finish` (a request or its process ends and gives back all it
had), a `Change`, or a stutter (`LeaseStep`).

The theorems have hypotheses on the constants, the circumstances without which the
properties are false of the code ("Disagreements"): `PruneIsSafe`, that prune is not reached
(no period and no `eaccelerator_clean`), or that edits are quiet while modification checks
stay on; `PurgeIsSafe`, that purge is quiet or not called; for `ModificationNoticed` also that
the checks are not switched at run time, because code compiled while they are off is
stored with a later stat.  The four runs of `ScriptCache` satisfy the first two in their
different ways (`cache_two`, `cache_three` and `live` without pruning and with any edit,
`prune` with pruning and quiet edits), and `cache_three` the third.

`DiskCache_proofs` proves, for any number of processes, servers, inodes and revisions
and without a bound on faults other than `MaxFault`, the safety of `DiskCache`:
`TypeOK`, `ServedWhole`, `WrittenFileIntact`, `ServedOwnVersion`, `ServedFresh` and
`YoungFileSpared`.  What is served was held, in memory or in a file that passed the
check, so that the invariant says of every place an entry can be what holds of it
there: in a process's hands (`HoldsSound`), linked (`LinkedServed`), in a file
(`FilesSound`); its labels are of the past (`StatPast`).  A header once read stays
the header of that inode (`HeaderKnown`) because the reader's lock keeps writers
out (`LocksHeld`), because a file has one writer (`OneWriter`), which made it for itself
(`NewFile`), and because an inode that is not in use is empty (`FreeEmpty`).  A free inode
always exists, by counting names and descriptors, under `DiskAssumption`.  What encodings of versions
have in common is not asked: the proof compares headers, whatever `EncodeVersion` makes.

`ShmLock_proofs` proves, for any number of threads and processes, any way to spread the
threads, each of the five locks and any number of faults, `TypeOK`, `Exclusive` and
`WholeOnEntry`.  The invariant has two halves.  A word, a mutex and a semaphore let one
thread in, which holds it (`OneInside`).  A file is locked for one writer or for readers
(`WriterAlone`), in a name that belongs to the process (`OpenedOwn`, `InName`); that two
threads share the lock is then possible for those of one process only, of which `ea_mutex`
lets one in (`MutexHeld`, `OnlyZTS`).  Who is neither excluded nor `Together` has lost the
lock to a refusal or to a sibling (`TypeOK` says so of `Bare`).  Data is half changed only
in somebody's hands (`HalfWritten`), and broken for a reason (`Reasons`) and, where the
system gives nothing back, behind a lock nobody gets (`LockedUp`).

`Segment_proofs` proves, for any number of processes and of starts and each of the five
locks, `TypeOK`, `Accounted`, `ExclusiveOverFork`, `AlwaysLocked` and `NothingLeft`.
Exclusion over a fork rests on who a lock is held for: whoever is in a section holds
it under its own name (`HoldersIn`), because flock's children open a description of
their own before they lock (`OwnDesc`).  That no lock in use is removed while all is
orderly is `InOrder`, and that a lock that is there belongs to a master that is up, or
was given up by it, is `Owned`; a master in a section keeps the module up (`MasterIn`).

`Request_proofs` proves, for any threads, processes, servers and users, and any way to
spread the threads, `TypeOK`, `OneUserUsable`, `UmaskKept` and `CrashReleases`.  What was
announced is there, and what is being made is there as far as it has got (`Announced`);
who runs has found its directory or has a reason not to (`Found`); a umask of 077 is
that of a thread in `init_cache_dir`, of which a process has one at a time since its
segment has one lock (`MaskOf`, `OneMakes`); a thread that is alone has the handlers to
itself (`HandlerOf`).

`OptJmp_proofs` proves that every rewriting of `optimize_jmp` keeps a graph sound: for any
number of lines, any blocks and edges between them, any instructions, one theorem
for each operator by which the phases of `Optimizer` that `GraphSound` speaks of change the
graph.  They are `RewriteSound` (the rules for JMP, JMPZNZ, JMPZ, JMPNZ,
JMPZ_EX and JMPNZ_EX), `ChaseSound`, `SplitSound`, `MergeSound`, `CopyReturnSound` and
`UnlinkSound`; each also says that the result is a graph (`Graph(N)`).  They are steps of
an induction whose beginning, that `BuildCfg` and `MarkUsed` make a sound graph, TLC
checks, as it does that `Listed` and `Handlers` are the `P` and `C` meant.  No part of
`Sound` is inductive alone.  That a jump goes past the block it led to keeps `Exact` only
if that block's edges are those of its first instruction (`EdgesFit`, and `JumpsLast` with
`Disjoint`, in `FirstJump`); the rule for a JMP to the next block tests the edge "follow"
and takes back a link there is none of, because the only block a JMP may be left to follow
is that very block (`EdgesFit` with `InOrder`); merging keeps `EdgesFit` of an empty second
block because the line before it is no jump (`JumpsLast`).

The argument has three layers.  Links: what `DelPred`, `AddPred`, `Rm` and `Leave` do
(`LeaveFacts`), and that leaving a block, which may take it out of the graph with its own
links, keeps what the others know; `Toward(g, p, T)` is `Exact` with the blocks
`T` for those that p leads to, and holds in between.  Jumps: a rule makes p's last line and edges others in one
of six ways (`JumpFalls` to `EdgeMoved`), and then `StaySound`, `AddSound` or `DropSound` applies.
Rules: which of the cases of a rule is which.  The
rules meet loops, a block that leads to itself or twice to the same block, without
exception.  `RewriteSound` has `CanSplit` as a hypothesis, which `GraphSound` checks where a jump
is rewritten: that no block that begins with FREE has swallowed the next one while a
JMPZ_EX with the same register still leads to it is due to the order in which jumps are taken.

The type invariants of `MM`, `ScriptCache`, `DiskCache`, `ShmLock`, `Request` and `Segment`,
`NoOverlap` of `MM` and `Accounted` of `Segment` are stated by theorems alone, so that the
runs ask what is not proved, or what TLC should have agreed to first.

Model-checked only: `ScriptImage`, and of `Optimizer` all but the rewritings above:
that building and marking make a sound graph, the walks over it, what `optimize_bb`
and the assignment of registers do, and that the code means the same.  These modules
are recursive over scripts, classes and lists of blocks, and what a recursive
definition computes for every input is proved by induction over data, which the
installed provers cannot instantiate.  Liveness under fairness (`RemovedDrains`, `Answered`,
`WaitersGetIn`, `Terminates`) stays with TLC altogether.

## Plan

1. More rules of `optimize_bb`, each with what its instructions do in `Zend`.
2. An invariant of the order in which `optimize_jmp` takes jumps, from which `CanSplit`
   follows for every graph.

## Not modelled

* *Locks*: POSIX semaphores (the source says "this one doesn't work!"), Windows,
  builds without a lock.
* *Segments*: the system calls of `mm_create_shm` in its six variants, which remove the
  name of a segment as soon as it is mapped, so that its memory goes with the last
  process; and `mm_attach`, which finds nothing outside Windows.
* *Life cycle*: settings, registering as a zend_extension and as PHP's compiler, the log
  file, Windows.  `register_eaccelerator_as_zend_extension` touches other extensions'
  hooks once, before the server forks.
* *Storing and restoring*: branches for PHP 5.1 and 5.2, internal functions and
  classes, resources, the chains of hash tables (every restore builds them anew), and
  numbers that are copied as they are.
* *Optimizer*: the rules about variables fetched by name, ASSIGN_DIM, interpolated
  strings, silence, arithmetic, POST_INC, calls whose name is known
  (`function_exists`, `defined`...), class declarations; the normalisation of operand
  types and `opt_undo_pass_two`, which prepare and undo representations.  They are
  statements about what instructions of Zend mean, which is not in this repository;
  those that are modelled are there for the control flow.
* *Compilation flow*: bailouts inside the compiler, resolution of include paths.
* *Filter*: `ea_match` keeps no state; `fnmatch` is a copy of the C library's.
* *Printing*: debugging, the disassembler, the web pages, the listings.
* `clean_file` (`ea_info.c` 144-162) is never called.
