-------------------------------- MODULE Zend --------------------------------
(***************************************************************************)
(* What is outside the optimizer: the op_arrays PHP 5.3 compiles scripts   *)
(* to, and what PHP does when it runs them.  Scripts are trees of a small  *)
(* language: variables that the compiler keeps in slots (CVs), constants,  *)
(* calls of functions nobody can see into, the logical operators, strings, *)
(* and every control structure the optimizer looks at but switch.          *)
(*                                                                         *)
(* Lines count from 1; 0 stands for none.                                  *)
(***************************************************************************)
EXTENDS Opcodes, TLC

(* An op_array: its code, the number of its registers, its try elements    *)
(* and its brk_cont elements; and, while it is compiled, the loop the      *)
(* compiler is in.                                                         *)
Empty == [ops |-> <<>>, T |-> 0, tries |-> <<>>, loops |-> <<>>, loop |-> 0]

-----------------------------------------------------------------------------
(* The compiler.                                                           *)
Here(s) == Len(s.ops) + 1

Emit(s, o) == [s EXCEPT !.ops = Append(@, o)]

(* An instruction with a result in a new register.                         *)
EmitReg(s, o, k) ==
  [Emit(s, [o EXCEPT !.res = Operand(k, s.T + 1)]) EXCEPT !.T = @ + 1]

Patch(s, line) == [s EXCEPT !.ops[line].to = Here(s)]

(* The result of an expression that nobody uses: a register is freed, the  *)
(* instruction that sets a variable does not set it.                       *)
Discard(s, r) ==
  CASE r.k = "TMP" -> Emit(s, [Op("FREE") EXCEPT !.op1 = r])
    [] r.k = "VAR" ->
         [s EXCEPT !.ops = [i \in DOMAIN @ |-> [@[i] EXCEPT !.drop = @ \/ s.ops[i].res = r]]]
    [] OTHER -> s

RECURSIVE Expr(_, _), Stmt(_, _), Block(_, _), Catches(_, _)

(* The code of expression e after that of s, and where its value is.       *)
Expr(e, s) ==
  LET last(t) == [s |-> t, r |-> t.ops[Len(t.ops)].res]
      unary(code, k) ==
        LET a == Expr(e[2], s) IN
        last(EmitReg(a.s, [Op(code) EXCEPT !.op1 = a.r], k))
      binary(code) ==
        LET a == Expr(e[2], s)  b == Expr(e[3], a.s) IN
        last(EmitReg(b.s, [Op(code) EXCEPT !.op1 = a.r, !.op2 = b.r], "TMP"))
      lazy(code) ==
        LET a == Expr(e[2], s)
            o == [Op(code) EXCEPT !.op1 = a.r]
            j == IF a.r.k = "TMP" THEN Emit(a.s, [o EXCEPT !.res = a.r])
                                  ELSE EmitReg(a.s, o, "TMP")
            r == j.ops[Len(j.ops)].res
            b == Expr(e[3], j)
            t == Emit(b.s, [Op("BOOL") EXCEPT !.op1 = b.r, !.res = r]) IN
        [s |-> Patch(t, Len(j.ops)), r |-> r]
  IN CASE e[1] = "cv" -> [s |-> s, r |-> Operand("CV", e[2])]
       [] e[1] = "const" -> [s |-> s, r |-> Const(e[2])]
       [] e[1] = "call" -> last(EmitReg(s, Op("DO_FCALL"), "VAR"))
       [] e[1] = "new" ->
            LET n == EmitReg(s, Op("NEW"), "VAR")
                t == Emit(n, [Op("DO_FCALL") EXCEPT !.res = Operand("VAR", n.T + 1),
                                                    !.drop = TRUE]) IN
            [s |-> Patch([t EXCEPT !.T = @ + 1], Len(n.ops)), r |-> n.ops[Len(n.ops)].res]
       [] e[1] = "set" ->
            LET a == Expr(e[3], s) IN
            last(EmitReg(a.s, [Op("ASSIGN") EXCEPT !.op1 = Operand("CV", e[2]), !.op2 = a.r],
                         "VAR"))
       [] e[1] = "not" -> unary("BOOL_NOT", "TMP")
       [] e[1] = "print" -> unary("PRINT", "TMP")
       [] e[1] = "." -> binary("CONCAT")
       [] e[1] = "==" -> binary("IS_EQUAL")
       [] e[1] = "===" -> binary("IS_IDENTICAL")
       [] e[1] = "and" -> lazy("JMPZ_EX")
       [] e[1] = "or" -> lazy("JMPNZ_EX")
       [] e[1] = "?:" ->
            LET c == Expr(e[2], s)
                j == Emit(c.s, [Op("JMPZ") EXCEPT !.op1 = c.r])
                a == Expr(e[3], j)
                q == EmitReg(a.s, [Op("QM_ASSIGN") EXCEPT !.op1 = a.r], "TMP")
                r == q.ops[Len(q.ops)].res
                k == Emit(q, Op("JMP"))
                b == Expr(e[4], Patch(k, Len(j.ops)))
                t == Emit(b.s, [Op("QM_ASSIGN") EXCEPT !.op1 = b.r, !.res = r]) IN
            [s |-> Patch(t, Len(k.ops)), r |-> r]
       [] e[1] = "?" ->
            LET a == Expr(e[2], s)
                j == EmitReg(a.s, [Op("JMP_SET") EXCEPT !.op1 = a.r], "TMP")
                r == j.ops[Len(j.ops)].res
                b == Expr(e[3], j)
                t == Emit(b.s, [Op("QM_ASSIGN") EXCEPT !.op1 = b.r, !.res = r]) IN
            [s |-> Patch(t, Len(j.ops)), r |-> r]

(* A loop whose body and control code are compiled by F(s); s.loop is the  *)
(* new loop meanwhile.                                                     *)
InLoop(s) ==
  [s EXCEPT !.loops = Append(@, [brk |-> 0, cont |-> 0, parent |-> s.loop]),
            !.loop = Len(s.loops) + 1]

OutOfLoop(s, cont, t) ==
  [t EXCEPT !.loops[Len(s.loops) + 1] = [@ EXCEPT !.brk = Here(t), !.cont = cont],
            !.loop = s.loop]

Jump(s, to) == Emit(s, [Op("JMP") EXCEPT !.to = to])

Catches(x, s) ==
  IF x = <<>> THEN s
  ELSE LET f == EmitReg(s, [Op("FETCH_CLASS") EXCEPT !.op2 = Const(Str(<<x[1][1]>>))], "VAR")
           c == Emit(f, [Op("CATCH") EXCEPT !.op1 = f.ops[Len(f.ops)].res,
                                            !.mark = Len(x) = 1])
           b == Block(x[1][2], c)
           t == IF Len(x) = 1 THEN b ELSE Emit(b, Op("JMP"))
           n == Catches(Tail(x), [t EXCEPT !.ops[Len(c.ops)].ext = Here(t)]) IN
       IF Len(x) = 1 THEN n ELSE Patch(n, Len(t.ops))

Stmt(x, s) ==
  CASE x[1] = "echo" ->
         LET a == Expr(x[2], s) IN Emit(a.s, [Op("ECHO") EXCEPT !.op1 = a.r])
    [] x[1] = "expr" -> LET a == Expr(x[2], s) IN Discard(a.s, a.r)
    [] x[1] = "return" ->
         LET a == Expr(x[2], s) IN Emit(a.s, [Op("RETURN") EXCEPT !.op1 = a.r])
    [] x[1] = "exit" -> Emit(s, Op("EXIT"))
    [] x[1] = "throw" ->
         LET a == Expr(x[2], s) IN Emit(a.s, [Op("THROW") EXCEPT !.op1 = a.r, !.to = 1])
    [] x[1] \in {"BRK", "CONT"} ->
         Emit(s, [Op(x[1]) EXCEPT !.op2 = Const(Str(<<"n">>)), !.to = s.loop, !.ext = x[2]])
    [] x[1] = "if" ->
         LET c == Expr(x[2], s)
             j == Emit(c.s, [Op("JMPZ") EXCEPT !.op1 = c.r])
             a == Emit(Block(x[3], j), Op("JMP")) IN
         Patch(Block(x[4], Patch(a, Len(j.ops))), Len(a.ops))
    [] x[1] = "while" ->
         LET c == Expr(x[2], InLoop(s))
             j == Emit(c.s, [Op("JMPZ") EXCEPT !.op1 = c.r])
             t == Jump(Block(x[3], j), Here(s)) IN
         OutOfLoop(s, Here(s), Patch(t, Len(j.ops)))
    [] x[1] = "do" ->
         LET b == Block(x[2], InLoop(s))
             c == Expr(x[3], b) IN
         OutOfLoop(s, Here(b),
                   Emit(c.s, [Op("JMPNZ") EXCEPT !.op1 = c.r, !.to = Here(s)]))
    [] x[1] = "for" ->
         LET c == Expr(x[2], InLoop(s))
             j == Emit(c.s, [Op("JMPZNZ") EXCEPT !.op1 = c.r])
             i == Expr(x[3], j)
             u == Jump(Discard(i.s, i.r), Here(s))
             b == Jump(Block(x[4], u), Here(j))
             t == Patch(b, Len(j.ops)) IN
         OutOfLoop(s, Here(j), [t EXCEPT !.ops[Len(j.ops)].ext = Here(u)])
    [] x[1] = "foreach" ->
         LET f == EmitReg(InLoop(s), [Op("FE_RESET") EXCEPT !.op1 = Operand("CV", x[2])], "VAR")
             v == f.ops[Len(f.ops)].res
             g == EmitReg(f, [Op("FE_FETCH") EXCEPT !.op1 = v], "VAR")
             a == Emit(Emit(g, Op("OP_DATA")),
                       [Op("ASSIGN") EXCEPT !.op1 = Operand("CV", x[3]),
                          !.op2 = g.ops[Len(g.ops)].res,
                          !.res = Operand("VAR", g.T + 1), !.drop = TRUE])
             b == Jump(Block(x[4], [a EXCEPT !.T = @ + 1]), Here(f))
             t == OutOfLoop(s, Here(f), Patch(Patch(b, Len(f.ops)), Len(g.ops))) IN
         Emit(t, [Op("SWITCH_FREE") EXCEPT !.op1 = v])
    [] x[1] = "try" ->
         LET n == Len(s.tries) + 1
             o == [s EXCEPT !.tries = Append(@, [try_op |-> Here(s), catch_op |-> 0])]
             b == Emit(Block(x[2], o), Op("JMP"))
             c == Catches(x[3], [b EXCEPT !.tries[n].catch_op = Here(b)]) IN
         Patch(c, Len(b.ops))

Block(x, s) == IF x = <<>> THEN s ELSE Block(Tail(x), Stmt(x[1], s))

(* A script: its statements, return 1, and what runs when an exception is  *)
(* thrown.                                                                 *)
Compile(script) ==
  Emit(Stmt(<<"return", <<"const", Bool(TRUE)>>>>, Block(script, Empty)),
       Op("HANDLE_EXCEPTION"))
-----------------------------------------------------------------------------
(* The executor.  A run goes on until it asks the world something (what a  *)
(* function returns or throws, whether there is another element, whether   *)
(* the class has a constructor), ends, or has taken "fuel" steps.          *)
Start(a, slots) ==
  [pc |-> 1, regs |-> [r \in 1 .. a.T |-> Undef], slots |-> slots, out |-> <<>>, thrown |-> <<>>, why |-> "runs"]

Get(m, o) ==
  CASE o.k = "CONST" -> o.c
    [] o.k = "CV" -> m.slots[o.v]
    [] IsReg(o) -> m.regs[o.v]
    [] OTHER -> Bool(FALSE)

Put(m, o, v) ==
  IF ~ IsReg(o.res) \/ o.drop THEN m ELSE [m EXCEPT !.regs[o.res.v] = v]

At(m, line) == [m EXCEPT !.pc = line]

(* The exception m.thrown leaves the instruction: the innermost try around *)
(* it, which is the last in the array that covers it, catches it.          *)
Raise(a, m) ==
  LET around == {i \in DOMAIN a.tries : /\ a.tries[i].try_op <= m.pc
                                        /\ m.pc < a.tries[i].catch_op} IN
  IF around = {} THEN [m EXCEPT !.why = "uncaught"]
  ELSE At(m, a.tries[CHOOSE i \in around : \A j \in around : j <= i].catch_op)

(* The line BRK or CONT goes to: up as many loops as it says.              *)
RECURSIVE Outer(_, _, _)
Outer(a, loop, n) ==
  IF n = 1 \/ loop = 0 THEN loop ELSE Outer(a, a.loops[loop].parent, n - 1)

Combine(code, v, w) ==
  CASE code = "CONCAT" -> Str(v.s \o w.s)
    [] code = "IS_IDENTICAL" -> Bool(v = w)
    [] code = "IS_EQUAL" ->
         Bool(IF "bool" \in {v.t, w.t} THEN IsTrue(v) = IsTrue(w) ELSE v.s = w.s)

(* One step of an op_array a.                                              *)
Step(a, m) ==
  LET o == a.ops[m.pc]
      v == Get(m, o.op1)
      w == Get(m, o.op2)
      next == At(m, m.pc + 1)
      if(b, t, f) == IF b THEN At(m, t) ELSE At(m, f) IN
  CASE (IsReg(o.op1) /\ v = Undef) \/ (IsReg(o.op2) /\ w = Undef) ->
         [m EXCEPT !.why = "error"]
    [] o.code \in {"NOP", "FREE", "SWITCH_FREE", "OP_DATA"} -> next
    [] o.code = "JMP" -> At(m, o.to)
    [] o.code = "JMPZ" -> if(IsTrue(v), m.pc + 1, o.to)
    [] o.code = "JMPNZ" -> if(IsTrue(v), o.to, m.pc + 1)
    [] o.code = "JMPZNZ" -> if(IsTrue(v), o.ext, o.to)
    [] o.code = "JMPZ_EX" -> Put(if(IsTrue(v), m.pc + 1, o.to), o, Bool(IsTrue(v)))
    [] o.code = "JMPNZ_EX" -> Put(if(IsTrue(v), o.to, m.pc + 1), o, Bool(IsTrue(v)))
    [] o.code = "JMP_SET" -> IF IsTrue(v) THEN Put(At(m, o.to), o, v) ELSE next
    [] o.code \in {"BRK", "CONT"} /\ Outer(a, o.to, o.ext) = 0 -> [m EXCEPT !.why = "fatal"]
    [] o.code = "BRK" /\ Outer(a, o.to, o.ext) # 0 -> At(m, a.loops[Outer(a, o.to, o.ext)].brk)
    [] o.code = "CONT" /\ Outer(a, o.to, o.ext) # 0 -> At(m, a.loops[Outer(a, o.to, o.ext)].cont)
    [] o.code = "ECHO" -> [next EXCEPT !.out = @ \o v.s]
    [] o.code = "PRINT" -> Put([next EXCEPT !.out = @ \o v.s], o, Str(<<"1">>))
    [] o.code = "QM_ASSIGN" -> Put(next, o, v)
    [] o.code = "BOOL" -> Put(next, o, Bool(IsTrue(v)))
    [] o.code = "BOOL_NOT" -> Put(next, o, Bool(~ IsTrue(v)))
    [] o.code \in {"CONCAT", "IS_EQUAL", "IS_IDENTICAL"} ->
         Put(next, o, Combine(o.code, v, w))
    [] o.code = "ASSIGN" -> Put([next EXCEPT !.slots[o.op1.v] = w], o, w)
    [] o.code = "FETCH_CLASS" -> Put(next, o, w)
    [] o.code = "RETURN" -> [m EXCEPT !.why = "returns", !.out = @ \o <<"return">> \o v.s]
    [] o.code \in {"EXIT", "HANDLE_EXCEPTION"} -> [m EXCEPT !.why = o.code]
    [] o.code = "THROW" -> Raise(a, [m EXCEPT !.thrown = <<"E">>])
    [] o.code = "CATCH" ->
         IF m.thrown = v.s THEN [next EXCEPT !.thrown = <<>>]
         ELSE IF o.mark THEN Raise(a, m) ELSE At(m, o.ext)
    [] o.code \in {"DO_FCALL", "NEW", "FE_RESET", "FE_FETCH"} ->
         [m EXCEPT !.why = "asks", !.out = Append(@, o.code)]

(* What the world may answer to the instruction that asks, and how the run *)
(* goes on.                                                                *)
Answers(a, m) ==
  IF a.ops[m.pc].code = "DO_FCALL" THEN {"yes", "no", "E", "F"} ELSE {"yes", "no"}

Resume(a, m, ans) ==
  LET o == a.ops[m.pc]
      r == [m EXCEPT !.why = "runs"]
      skip == IF o.code = "FE_FETCH" THEN 2 ELSE 1 IN
  CASE ans \in {"E", "F"} -> Raise(a, [r EXCEPT !.thrown = <<ans>>])
    [] ans = "no" /\ o.code = "DO_FCALL" -> Put(At(r, m.pc + 1), o, Bool(FALSE))
    [] ans = "no" /\ o.code = "NEW" -> Put(At(r, o.to), o, Str(<<"new">>))
    [] ans = "no" -> Put(At(r, o.to), o, Str(<<"end">>))
    [] ans = "yes" -> Put(At(r, m.pc + skip), o, Str(<<"y">>))

Run(a, start, fuel) ==
  LET run[m \in Any, n \in Nat] ==
        IF m.why # "runs" \/ n = 0 THEN m ELSE run[Step(a, m), n - 1] IN
  run[start, fuel]

(* Two op_arrays, run side by side, print the same, ask the same and end   *)
(* the same way, for all answers, as far as "depth" questions go, and      *)
(* neither reads a register nobody has set.                                *)
RECURSIVE SameRuns(_, _, _, _, _, _)
SameRuns(a, b, m, n, fuel, depth) ==
  \A x \in {Run(a, m, fuel)}, y \in {Run(b, n, fuel)} :
    /\ x.why = y.why /\ x.why # "error"
    /\ x.why # "runs" => x.out = y.out
    /\ x.why = "asks" /\ depth > 0 =>
         \A ans \in Answers(a, x) :
           SameRuns(a, b, Resume(a, x, ans), Resume(b, y, ans), fuel, depth - 1)
=============================================================================
