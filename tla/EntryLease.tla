----------------------------- MODULE EntryLease -----------------------------
(***************************************************************************)
(* What the script cache promises to the requests that run scripts in      *)
(* place in shared memory, whatever its lists and counters look like.      *)
(*                                                                         *)
(* An entry is live from the moment it is stored until its memory is       *)
(* taken back.  It is on offer for a while, and a request can take a lease *)
(* on it only then; once withdrawn it is never offered again.  It does not *)
(* cease to be live while a request holds a lease on it.                   *)
(***************************************************************************)
EXTENDS Naturals

CONSTANTS
  Proc,      (* processes, each serving one request at a time *)
  Block      (* entries, by the block of memory they occupy   *)

VARIABLES
  live,      (* entries that exist                            *)
  offered,   (* live entries that a request may take          *)
  held       (* held[p][b]: leases of request p on entry b    *)

Unheld(b) == \A p \in Proc : held[p][b] = 0

LeaseInit ==
  /\ live = {} /\ offered = {}
  /\ held = [p \in Proc |-> [b \in Block |-> 0]]

Acquire(p, b) ==
  /\ b \in offered
  /\ held' = [held EXCEPT ![p][b] = @ + 1]
  /\ UNCHANGED <<live, offered>>

(* A request lets go of one lease, or ends and lets go of all of them, and *)
(* may take back the memory of withdrawn entries nobody holds any longer.  *)
Release(p, b) ==
  /\ held[p][b] > 0
  /\ held' = [held EXCEPT ![p][b] = @ - 1]
  /\ UNCHANGED <<live, offered>>

Finish(p) ==
  /\ held' = [held EXCEPT ![p] = [b \in Block |-> 0]]
  /\ live' \subseteq live
  /\ \A b \in live \ live' : b \notin offered /\ Unheld(b)'
  /\ UNCHANGED offered

(* Entries are stored, withdrawn, or vanish because nobody holds them.     *)
Change ==
  /\ offered' \subseteq live'
  /\ offered' \cap live \subseteq offered
  /\ live' \ live \subseteq offered'
  /\ live' \subseteq Block
  /\ \A b \in live \ live' : Unheld(b)
  /\ UNCHANGED held

LeaseNext ==
  \/ \E p \in Proc : \/ \E b \in Block : Acquire(p, b) \/ Release(p, b)
                     \/ Finish(p)
  \/ Change

LeaseSpec == LeaseInit /\ [][LeaseNext]_<<live, offered, held>>
=============================================================================
