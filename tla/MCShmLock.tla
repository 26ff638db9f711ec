----------------------------- MODULE MCShmLock -----------------------------
(***************************************************************************)
(* A small instance of ShmLock: three threads, in processes of their own   *)
(* or with others, one fault.  No symmetry, since liveness is checked.     *)
(***************************************************************************)
EXTENDS ShmLock, TLC

CONSTANTS a1, a2, a3, p1, p2, p3

MCThread  == {a1, a2, a3}
MCProcess == {p1, p2, p3}

(* A build without threads, and a server with two processes of threads.    *)
MCLayout == {(a1 :> p1) @@ (a2 :> p2) @@ (a3 :> p3),
             (a1 :> p1) @@ (a2 :> p1) @@ (a3 :> p3)}

(* Who is alone in its process goes past ea_mutex without waiting: it may  *)
(* as well run the other sections.                                         *)
MCRuns == [a \in Thread |->
             IF a = a3 THEN {s \in Section : ~ s.mutex} ELSE Section]
=============================================================================
