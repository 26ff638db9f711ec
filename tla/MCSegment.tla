----------------------------- MODULE MCSegment -----------------------------
(***************************************************************************)
(* A small instance of Segment: a master and two workers, two starts.      *)
(***************************************************************************)
EXTENDS Segment, TLC

CONSTANTS m, w1, w2

Symmetry == Permutations({w1, w2})
=============================================================================
