------------------------------ MODULE Version ------------------------------
(***************************************************************************)
(* encode_version of eaccelerator.c: what the header of a cache file keeps *)
(* of the version strings of eAccelerator, the Zend engine and PHP.        *)
(***************************************************************************)
EXTENDS Integers, Sequences

(* A version string as the code takes it apart: its three or four numbers; *)
(* the kind of suffix; for "rev", "rc" and "beta" whether a number follows *)
(* in lower case, as sscanf wants it, and which; of any other suffix, or   *)
(* of the whole string where a fourth number ends it, the first four       *)
(* bytes.  What stands after them is the last field, which nobody reads.   *)
IsVersion(v) ==
  /\ v.number \in Seq(Nat) /\ Len(v.number) \in {3, 4}
  /\ v.suffix \in {"none", "rev", "rc", "beta", "other"}
  /\ v.counted \in BOOLEAN /\ v.count \in Nat
  /\ {"head", "rest"} \subseteq DOMAIN v

Class == [rev |-> 1, rc |-> 2, beta |-> 3]

(* A count that sscanf does not find leaves what was there before: the     *)
(* second number.                                                          *)
Extra(v) ==
  CASE v.suffix = "none" /\ Len(v.number) = 3 -> <<0, 0>>
    [] v.suffix \in DOMAIN Class ->
         <<Class[v.suffix],
           (IF v.counted THEN v.count ELSE v.number[2]) % 2^28>>
    [] OTHER -> <<15, v.head>>

EncodeVersion(v) ==
  [version |-> [i \in 1 .. 4 |-> IF i <= Len(v.number) THEN v.number[i] % 256
                                                       ELSE 0],
   extra   |-> Extra(v)]
=============================================================================
