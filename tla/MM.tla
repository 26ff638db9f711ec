--------------------------------- MODULE MM ---------------------------------
(***************************************************************************)
(* The shared-memory allocator of mm.c: a best-fit allocator over one      *)
(* segment, with an address-ordered singly linked list of free buckets     *)
(* that are merged with their neighbours when a block comes back.          *)
(*                                                                         *)
(* Addresses are offsets from mm->start and, like sizes, are counted in    *)
(* units of MM_PLATFORM_ALIGNMENT: every quantity of the code is a         *)
(* multiple of it, because MM_ALIGN rounds the segment's start and every   *)
(* request up to one.  A request of n units stands for every byte count    *)
(* that rounds up to n.  The linked list is the sequence of its buckets.   *)
(* Every operation runs under the segment's lock, so it is one step.       *)
(***************************************************************************)
EXTENDS Integers, Sequences, FiniteSets

CONSTANTS
  HeapUnits,    (* units of memory between mm->start and the end of the segment *)
  HeadUnits,    (* sizeof(mm_mem_head) in units                                 *)
  BucketUnits,  (* sizeof(mm_free_bucket) in units                              *)
  Requests      (* sizes callers ask for, in units                              *)

(***************************************************************************)
(* On the platforms the code is built for a head is one unit and a bucket  *)
(* one (MM_PLATFORM_ALIGNMENT twice the size of a pointer) or two.  What   *)
(* the allocator needs is weaker: the smallest block it hands out, a head  *)
(* and one unit, can hold a bucket when it is freed.                       *)
(***************************************************************************)
ASSUME SizesAssumption ==
  /\ HeadUnits \in Nat \ {0}
  /\ BucketUnits \in Nat \ {0}
  /\ BucketUnits <= HeadUnits + 1
  /\ HeapUnits \in Nat
  /\ BucketUnits <= HeapUnits
  /\ Requests \subseteq Nat \ {0}

VARIABLES
  free_list,    (* mm->free_list, as the sequence of its buckets                *)
  available,    (* mm->available                                                *)
  blocks,       (* address of each block handed out |-> size field of its head  *)
  ret           (* the pointer the last mm_malloc_nolock returned               *)

vars == <<free_list, available, blocks, ret>>

NULL == 0

Bucket == [addr : Nat, size : Nat]

Units(a, s) == a .. (a + s - 1)

Arena == Units(0, HeapUnits)

End(q) == q.addr + q.size

Init ==
  /\ free_list = << [addr |-> 0, size |-> HeapUnits] >>
  /\ available = HeapUnits
  /\ blocks = [b \in {} |-> 0]
  /\ ret = NULL
-----------------------------------------------------------------------------
(***************************************************************************)
(* mm_malloc_nolock                                                        *)
(***************************************************************************)
RealSize(n) == HeadUnits + n

(* The walk of the free list stops at the first bucket of exactly the size *)
(* wanted ...                                                              *)
ExactFit(i, realsize) ==
  /\ free_list[i].size = realsize
  /\ \A j \in 1 .. i - 1 : free_list[j].size # realsize

(* ... and otherwise remembers the smallest larger one, the first of them  *)
(* when several have that size.                                            *)
BestFit(i, realsize) ==
  /\ \A j \in DOMAIN free_list : free_list[j].size # realsize
  /\ free_list[i].size > realsize
  /\ \A j \in DOMAIN free_list :
       free_list[j].size > realsize =>
         \/ free_list[i].size < free_list[j].size
         \/ free_list[i].size = free_list[j].size /\ i <= j

(* A definition whose name ends in Bug stands before the one it would      *)
(* replace and is what a plausible mistake in the code would make of it:   *)
(* the properties are checked to notice.  Nothing else uses it.            *)
HandOutPayloadBug(a, s) ==
  /\ blocks' = [b \in DOMAIN blocks \cup {a} |-> IF b = a THEN s ELSE blocks[b]]
  /\ available' = available - (s - HeadUnits)
  /\ ret' = a + HeadUnits

HandOut(a, s) ==
  /\ blocks' = [b \in DOMAIN blocks \cup {a} |-> IF b = a THEN s ELSE blocks[b]]
  /\ available' = available - s
  /\ ret' = a + HeadUnits

(* The whole bucket becomes the block.                                     *)
Unlink(i) ==
  /\ free_list' = SubSeq(free_list, 1, i - 1)
                    \o SubSeq(free_list, i + 1, Len(free_list))
  /\ HandOut(free_list[i].addr, free_list[i].size)

(* The front of the bucket becomes the block; the rest stays in the list.  *)
Split(i, realsize) ==
  /\ free_list' = [free_list EXCEPT ![i] = [addr |-> free_list[i].addr + realsize,
                                            size |-> free_list[i].size - realsize]]
  /\ HandOut(free_list[i].addr, realsize)

MallocExact(n) ==
  /\ RealSize(n) <= available
  /\ \E i \in DOMAIN free_list : ExactFit(i, RealSize(n)) /\ Unlink(i)

MallocWhole(n) ==
  /\ RealSize(n) <= available
  /\ \E i \in DOMAIN free_list :
       /\ BestFit(i, RealSize(n))
       /\ free_list[i].size - RealSize(n) < BucketUnits
       /\ Unlink(i)

MallocSplitBug(n) ==
  /\ RealSize(n) <= available
  /\ \E i \in DOMAIN free_list :
       /\ BestFit(i, RealSize(n))
       /\ free_list[i].size - RealSize(n) > 0
       /\ Split(i, RealSize(n))

MallocSplit(n) ==
  /\ RealSize(n) <= available
  /\ \E i \in DOMAIN free_list :
       /\ BestFit(i, RealSize(n))
       /\ free_list[i].size - RealSize(n) >= BucketUnits
       /\ Split(i, RealSize(n))

MallocFailsBug(n) ==
  /\ \/ RealSize(n) >= available
     \/ \A i \in DOMAIN free_list : free_list[i].size < RealSize(n)
  /\ ret' = NULL
  /\ UNCHANGED <<free_list, available, blocks>>

MallocFails(n) ==
  /\ \/ RealSize(n) > available
     \/ \A i \in DOMAIN free_list : free_list[i].size < RealSize(n)
  /\ ret' = NULL
  /\ UNCHANGED <<free_list, available, blocks>>
-----------------------------------------------------------------------------
(***************************************************************************)
(* mm_free_nolock, for a block the allocator handed out.                   *)
(***************************************************************************)

(* The walk of the list ends between buckets i and i + 1: i is prev (0     *)
(* when there is none), i + 1 is next, the first bucket above the block.   *)
Position(a, i) ==
  /\ \A j \in 1 .. i : free_list[j].addr <= a
  /\ i < Len(free_list) => a < free_list[i + 1].addr

MergesPrev(a, i) == i > 0 /\ End(free_list[i]) = a

MergesNextBug(a, i) == FALSE

MergesNext(a, i) == i < Len(free_list) /\ a + blocks[a] = free_list[i + 1].addr

(* The bucket the block ends up in: itself and the neighbours it touches.  *)
MergedBug(a, i) ==
  LET from == IF MergesPrev(a, i) THEN free_list[i].addr ELSE a
  IN  [addr |-> from, size |-> a + blocks[a] - from]

Merged(a, i) ==
  LET from == IF MergesPrev(a, i) THEN free_list[i].addr ELSE a
      to   == IF MergesNext(a, i) THEN End(free_list[i + 1]) ELSE a + blocks[a]
  IN  [addr |-> from, size |-> to - from]

(* The buckets below and above it that stay as they are.                   *)
Below(a, i) == IF MergesPrev(a, i) THEN i - 1 ELSE i
Above(a, i) == IF MergesNext(a, i) THEN i + 2 ELSE i + 1

FreeBlock(a) ==
  \E i \in 0 .. Len(free_list) :
    /\ Position(a, i)
    /\ free_list' = SubSeq(free_list, 1, Below(a, i)) \o << Merged(a, i) >>
                      \o SubSeq(free_list, Above(a, i), Len(free_list))
    /\ available' = available + blocks[a]
    /\ blocks' = [b \in DOMAIN blocks \ {a} |-> blocks[b]]
    /\ UNCHANGED ret
-----------------------------------------------------------------------------
Next ==
  \/ \E n \in Requests : \/ MallocExact(n)
                         \/ MallocWhole(n)
                         \/ MallocSplit(n)
                         \/ MallocFails(n)
  \/ \E a \in DOMAIN blocks : FreeBlock(a)

Spec == Init /\ [][Next]_vars
-----------------------------------------------------------------------------
(* mm_maxsize: the largest request the free list can serve.                *)
MaxSizeBug ==
  LET sizes == {HeadUnits} \cup {free_list[i].size : i \in DOMAIN free_list}
  IN  CHOOSE s \in sizes : \A t \in sizes : t <= s

MaxSize ==
  LET sizes == {HeadUnits} \cup {free_list[i].size : i \in DOMAIN free_list}
  IN  (CHOOSE s \in sizes : \A t \in sizes : t <= s) - HeadUnits
-----------------------------------------------------------------------------
BucketOf(i) == Units(free_list[i].addr, free_list[i].size)

BlockOf(a) == Units(a, blocks[a])

(* Type invariant: the list is made of buckets, the heads of the blocks    *)
(* handed out hold sizes, and the last pointer returned is one.            *)
TypeOK ==
  /\ free_list \in Seq(Bucket)
  /\ available \in Int
  /\ blocks \in [DOMAIN blocks -> Nat]
  /\ DOMAIN blocks \subseteq Nat
  /\ ret \in Nat

(* mm_free_nolock inserts by address and merges a block with the bucket    *)
(* before it, the bucket after it, or both: the list stays in address      *)
(* order, inside the segment, and no two buckets touch.                    *)
Coalesced ==
  /\ \A i \in DOMAIN free_list : End(free_list[i]) <= HeapUnits
  /\ \A i, j \in DOMAIN free_list : i < j => End(free_list[i]) < free_list[j].addr

(* mm_malloc_nolock hands out a whole bucket when the rest of it could not *)
(* hold a bucket: whatever is freed later has room for the size and next   *)
(* fields that mm_free_nolock writes into it, so a free never writes past  *)
(* its block.                                                              *)
RoomForBucket ==
  /\ \A i \in DOMAIN free_list : free_list[i].size >= BucketUnits
  /\ \A a \in DOMAIN blocks : blocks[a] >= BucketUnits

(* Two blocks handed out never share memory, and no block handed out       *)
(* shares memory with a free bucket.                                       *)
NoOverlap ==
  /\ \A a \in DOMAIN blocks : BlockOf(a) \subseteq Arena
  /\ \A a, b \in DOMAIN blocks : a # b => BlockOf(a) \cap BlockOf(b) = {}
  /\ \A a \in DOMAIN blocks, i \in DOMAIN free_list : BlockOf(a) \cap BucketOf(i) = {}

(* No sequence of splits and merges loses memory: every unit of the        *)
(* segment is in a bucket or in a block.                                   *)
NothingLost ==
  \A u \in Arena : \/ \E a \in DOMAIN blocks : u \in BlockOf(a)
                   \/ \E i \in DOMAIN free_list : u \in BucketOf(i)

(* mm->available, which mm_malloc_nolock consults before it walks the list *)
(* and eaccelerator_info reports, is the memory in the list.               *)
AvailableExact ==
  available = Cardinality({u \in Arena : \E i \in DOMAIN free_list : u \in BucketOf(i)})

(* What mm_maxsize answers is exact: a request is within it if and only if *)
(* some run of memory outside every block could hold it.                   *)
MaxSizeExact ==
  \A n \in Requests :
    n <= MaxSize <=> \E u \in Arena :
                       /\ Units(u, RealSize(n)) \subseteq Arena
                       /\ \A a \in DOMAIN blocks :
                            Units(u, RealSize(n)) \cap BlockOf(a) = {}

(* The linked list implements the promise of module Heap: in particular a  *)
(* request is refused only when no unused run of memory could hold it.     *)
H == INSTANCE Heap

ImplementsHeap == H!HeapSpec
=============================================================================
