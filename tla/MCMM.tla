-------------------------------- MODULE MCMM --------------------------------
(***************************************************************************)
(* A segment of a dozen units: enough for four of the smallest blocks, so  *)
(* that a block can come back between two free neighbours, next to one, or *)
(* between two blocks in use, and for buckets of equal and of different    *)
(* sizes at the same time.                                                 *)
(***************************************************************************)
EXTENDS MM

MCRequests == 1 .. 4
=============================================================================
