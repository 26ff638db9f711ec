-------------------------------- MODULE Heap --------------------------------
(***************************************************************************)
(* What the shared-memory allocator of mm.c promises to its callers,       *)
(* whatever its free list looks like: blocks handed out lie inside the     *)
(* arena and never overlap, a block is at most a fragment too large to be  *)
(* a bucket bigger than asked, and a request is refused only when no       *)
(* contiguous run of unused memory could hold it.                          *)
(***************************************************************************)
EXTENDS Integers

CONSTANTS
  HeapUnits,    (* units of memory between mm->start and the end of the segment *)
  HeadUnits,    (* sizeof(mm_mem_head) in units                                 *)
  BucketUnits,  (* sizeof(mm_free_bucket) in units                              *)
  Requests      (* sizes callers ask for, in units of MM_PLATFORM_ALIGNMENT     *)

VARIABLES
  blocks,       (* address of each block handed out |-> its size, head included *)
  ret           (* the pointer the last mm_malloc returned                      *)

NULL == 0

Units(a, s) == a .. (a + s - 1)

Arena == Units(0, HeapUnits)

Free(S) == \A b \in DOMAIN blocks : Units(b, blocks[b]) \cap S = {}

HeapInit ==
  /\ blocks = [b \in {} |-> 0]
  /\ ret = NULL

Grant(n) ==
  \E a \in Arena, s \in HeadUnits + n .. HeadUnits + n + BucketUnits - 1 :
    /\ Units(a, s) \subseteq Arena
    /\ Free(Units(a, s))
    /\ blocks' = [b \in DOMAIN blocks \cup {a} |-> IF b = a THEN s ELSE blocks[b]]
    /\ ret' = a + HeadUnits

Refuse(n) ==
  /\ ~ \E a \in Arena : /\ Units(a, HeadUnits + n) \subseteq Arena
                        /\ Free(Units(a, HeadUnits + n))
  /\ ret' = NULL
  /\ UNCHANGED blocks

Return(b) ==
  /\ blocks' = [c \in DOMAIN blocks \ {b} |-> blocks[c]]
  /\ UNCHANGED ret

HeapNext ==
  \/ \E n \in Requests : Grant(n) \/ Refuse(n)
  \/ \E b \in DOMAIN blocks : Return(b)

HeapSpec == HeapInit /\ [][HeapNext]_<<blocks, ret>>
=============================================================================
