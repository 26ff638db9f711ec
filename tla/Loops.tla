------------------------------- MODULE Loops -------------------------------
(***************************************************************************)
(* Steps one after the other, for TLC, which gives an operator expressions *)
(* to evaluate wherever the operator uses them, but a function values.     *)
(***************************************************************************)
EXTENDS Sequences, TLC

(* op(x), where x is computed once.                                        *)
With(x, op(_)) == LET f[y \in Any] == op(y) IN f[x]

(* op(...op(op(x, s[1]), s[2])..., s[Len(s)]).                             *)
Loop(op(_, _), x, s) ==
  LET loop[y \in Any, rest \in Any] ==
        IF rest = <<>> THEN y ELSE loop[op(y, Head(rest)), Tail(rest)]
  IN loop[x, s]
=============================================================================
