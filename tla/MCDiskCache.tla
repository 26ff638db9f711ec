---------------------------- MODULE MCDiskCache ----------------------------
(***************************************************************************)
(* A small instance of DiskCache: two processes, of two servers that share *)
(* the directory.  "new" is a later PHP; "twin" is another candidate of    *)
(* the release that "old" is, "RC1" and "RC2" in upper case, which the     *)
(* header does not tell apart: it does with files as a process of the same *)
(* server would.  No symmetry, since liveness is checked.                  *)
(***************************************************************************)
EXTENDS DiskCache, TLC

CONSTANTS p1, p2, old, new, twin

Release(number) ==
  [number |-> number, suffix |-> "none", counted |-> FALSE, count |-> 0,
   head |-> "", rest |-> ""]

Candidate(number, count) ==
  [number |-> number, suffix |-> "rc", counted |-> FALSE, count |-> count,
   head |-> "RC", rest |-> ""]

Build(php) ==
  [eaccelerator |-> Release(<<0, 9, 6>>), zend |-> Release(<<2, 3, 0>>),
   php |-> php]

MCVersionOf == (old  :> Build(Candidate(<<5, 3, 0>>, 1)))
            @@ (twin :> Build(Candidate(<<5, 3, 0>>, 2)))
            @@ (new  :> Build(Release(<<5, 3, 1>>)))

MCDeployment == {(p1 :> old) @@ (p2 :> s) : s \in {new, twin}}
=============================================================================
