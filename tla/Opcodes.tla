------------------------------ MODULE Opcodes ------------------------------
(***************************************************************************)
(* What an instruction of PHP is, for the compiler that emits it, for the  *)
(* optimizer that rewrites it and for the executor that runs it.           *)
(***************************************************************************)
EXTENDS Integers, Sequences

(* Values: strings, as sequences of letters, and booleans, as PHP prints   *)
(* them.                                                                   *)
Str(s) == [t |-> "str", s |-> s]
Bool(b) == [t |-> "bool", s |-> IF b THEN <<"1">> ELSE <<>>]
IsTrue(v) == v.s \notin {<<>>, <<"0">>}
Undef == [t |-> "undef", s |-> <<>>]

(* Operands: a constant, a register (TMP or VAR), a slot, or nothing.      *)
Operand(k, v) == [k |-> k, v |-> v, c |-> Undef]
Unused   == Operand("UNUSED", 0)
Const(c) == [k |-> "CONST", v |-> 0, c |-> c]
IsReg(o) == o.k \in {"TMP", "VAR"}

(* Instructions.  "to" is the line that op1 or op2 of a jump holds, and    *)
(* the loop that BRK and CONT leave; "ext" the extended_value; "drop" says *)
(* that nobody wants the result (EXT_TYPE_UNUSED); "mark" is a JMP that    *)
(* was a BRK or a CONT, or the last CATCH of its try.                      *)
Op(code) ==
  [code |-> code, op1 |-> Unused, op2 |-> Unused, res |-> Unused,
   drop |-> FALSE, to |-> 0, ext |-> 0, mark |-> FALSE]

Codes ==
  {"NOP", "ASSIGN", "BOOL", "BOOL_NOT", "CONCAT", "IS_EQUAL", "IS_IDENTICAL", "QM_ASSIGN",
   "ECHO", "PRINT", "FREE", "SWITCH_FREE", "DO_FCALL", "DO_FCALL_BY_NAME", "NEW",
   "JMP", "JMPZ", "JMPNZ", "JMPZNZ", "JMPZ_EX", "JMPNZ_EX", "JMP_SET", "BRK", "CONT",
   "FE_RESET", "FE_FETCH", "OP_DATA", "FETCH_CLASS", "CATCH", "THROW", "RETURN", "EXIT",
   "HANDLE_EXCEPTION"}

Instruction ==
  LET operand == [k : {"UNUSED", "CONST", "TMP", "VAR", "CV"}, v : Nat,
                  c : [t : {"undef", "str", "bool"}, s : Seq(STRING)]] IN
  [code : Codes, op1 : operand, op2 : operand, res : operand,
   drop : BOOLEAN, to : Nat, ext : Nat, mark : BOOLEAN]
=============================================================================
