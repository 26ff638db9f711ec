------------------------------ MODULE MCRequest ------------------------------
(***************************************************************************)
(* Small instances of Request: processes with a thread each, or with two   *)
(* in the first.                                                           *)
(***************************************************************************)
EXTENDS Request, TLC
CONSTANTS t1, t2, p1, p2

Layouts == {t1 :> p1 @@ t2 :> p2, t1 :> p1 @@ t2 :> p1}
=============================================================================
