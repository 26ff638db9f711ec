------------------------------ MODULE OptBlock ------------------------------
(***************************************************************************)
(* What optimize.c does to the instructions of blocks: compute_live_var,   *)
(* which drops results nobody reads, optimize_bb, which folds constants    *)
(* and pairs of instructions, and reassign_registers, which numbers the    *)
(* registers anew.  Of optimize_bb, the rules about the instructions of    *)
(* module Zend.                                                            *)
(***************************************************************************)
EXTENDS OptCfg, SequencesExt

(* An instruction that sets its result.                                    *)
Sets(o) == o.res.k = "TMP" \/ (o.res.k = "VAR" /\ ~ o.drop)

(* The registers an instruction reads; OP_DATA's second operand is none.   *)
Reads(o) == {x.v : x \in {y \in {o.op1, o.op2} : IsReg(y)}}

Lines(b) == [i \in 1 .. b.len |-> b.start + i - 1]

-----------------------------------------------------------------------------
(* compute_live_var                                                        *)
(* The registers some block reads before it has set them: they live across *)
(* blocks.  A single block has none.                                       *)
(* Mutant: without op2.                                                    *)
ReadFirstBug(g, b) ==
  Loop(LAMBDA st, i :
         LET o == g.ops[i]
             op1 == {x.v : x \in {y \in {o.op1} : IsReg(y)}} IN
         [reads |-> st.reads \cup (op1 \ st.def),
          def |-> IF Sets(o) THEN st.def \cup {o.res.v} ELSE st.def],
       [reads |-> {}, def |-> {}], Lines(b)).reads

ReadFirst(g, b) ==
  Loop(LAMBDA st, i :
         LET o == g.ops[i] IN
         [reads |-> st.reads \cup (Reads(o) \ st.def),
          def |-> IF Sets(o) THEN st.def \cup {o.res.v} ELSE st.def],
       [reads |-> {}, def |-> {}], Lines(b)).reads

Global(g) ==
  IF g.bb[1].next = 0 THEN {}
  ELSE UNION {ReadFirst(g, g.bb[p]) : p \in Listed(g)}

(* What becomes of an instruction whose result nobody reads.               *)
Unread(o) ==
  CASE o.code = "JMPZ_EX" -> [o EXCEPT !.code = "JMPZ", !.res = Unused]
    [] o.code = "JMPNZ_EX" -> [o EXCEPT !.code = "JMPNZ", !.res = Unused]
    [] o.code \in Calls \cup {"ASSIGN"} -> [o EXCEPT !.drop = @ \/ o.res.k = "VAR"]
    [] o.code \in {"NEW", "FE_FETCH", "PRINT"} -> o
    [] OTHER -> Op("NOP")

(* A block, from its last instruction to its first; st.used are the        *)
(* registers read further down.                                            *)
LiveVar(g, b, global) ==
  Loop(LAMBDA st, i :
         LET o == st.ops[i]
                 n == CASE Sets(o) /\ o.res.v \notin global \cup st.used -> Unread(o)
                        [] o.res.k = "VAR" /\ o.drop /\ o.res.v \in st.used ->
                             [o EXCEPT !.drop = FALSE]
                        [] OTHER -> o IN
             [ops |-> [st.ops EXCEPT ![i] = n],
              used |-> (IF Sets(n) THEN st.used \ {n.res.v} ELSE st.used) \cup Reads(n)],
           [ops |-> g.ops, used |-> {}], Reverse(Lines(b))).ops

ComputeLiveVar(g, global) ==
  Loop(LAMBDA h, p : [h EXCEPT !.ops = LiveVar(h, h.bb[p], global)], g, From(g, 1))

-----------------------------------------------------------------------------
(* optimize_bb.  In st: the code, for each register the line in this block *)
(* that set it (Ts), and the last instruction seen that was not a NOP.     *)
DefLine(st, o) == IF IsReg(o) /\ o.v \in DOMAIN st.Ts THEN st.Ts[o.v] ELSE 0
Undefine(st, o) == [st EXCEPT !.Ts = [r \in DOMAIN @ \ {o.v} |-> @[r]]]
Define(st, i) ==
  LET r == st.ops[i].res.v IN
  [st EXCEPT !.Ts = [q \in DOMAIN @ \cup {r} |-> IF q = r THEN i ELSE @[q]]]

Set(st, i, o) == [st EXCEPT !.ops[i] = o]
Nop(st, i) == Set(st, i, Op("NOP"))

ConstSet(o) == o.code = "QM_ASSIGN" /\ o.op1.k = "CONST"

(* A register that was set to a constant gives way to the constant.        *)
PropagateConst(st, i, op) ==
  LET o == st.ops[i]
      d == DefLine(st, o[op]) IN
  IF o[op].k = "TMP" /\ d # 0 /\ ConstSet(st.ops[d])
    THEN Nop(Set(Undefine(st, o[op]), i, [o EXCEPT ![op] = st.ops[d].op1]), d)
    ELSE st

IsBool(x) == x.k = "CONST" /\ x.c.t = "bool"

(* A comparison with true or false is a BOOL or a BOOL_NOT.                *)
CompareBool(o) ==
  LET to(x, y) ==
        [o EXCEPT !.code = IF IsTrue(x.c) THEN "BOOL" ELSE "BOOL_NOT",
                  !.op1 = y, !.op2 = Unused] IN
  CASE o.code = "IS_EQUAL" /\ IsBool(o.op1) -> to(o.op1, o.op2)
    [] o.code = "IS_EQUAL" /\ ~ IsBool(o.op1) /\ IsBool(o.op2) -> to(o.op2, o.op1)
    [] OTHER -> o

EchoNothing(o) ==
  IF o.code = "ECHO" /\ o.op1 = Const(Str(<<>>)) THEN Op("NOP") ELSE o

Comparisons == {"IS_EQUAL", "IS_IDENTICAL"}
Tests == {"BOOL", "BOOL_NOT", "JMPZ", "JMPNZ"}

(* Constants.                                                              *)
Fold(o) ==
  LET to(c) == [o EXCEPT !.code = "QM_ASSIGN", !.op1 = Const(c), !.op2 = Unused] IN
  CASE o.code \in Comparisons \cup {"CONCAT"} -> to(Combine(o.code, o.op1.c, o.op2.c))
    [] o.code = "BOOL_NOT" -> to(Bool(~ IsTrue(o.op1.c)))
    [] o.code = "BOOL" -> to(Bool(IsTrue(o.op1.c)))

Foldable(o) ==
  /\ o.op1.k = "CONST" /\ o.res.k = "TMP"
  /\ \/ o.code \in Comparisons \cup {"CONCAT"} /\ o.op2.k = "CONST"
     \/ o.code \in {"BOOL", "BOOL_NOT"}

Opposite(code) ==
  CASE code = "BOOL" -> "BOOL_NOT" [] code = "BOOL_NOT" -> "BOOL"
    [] code = "JMPZ" -> "JMPNZ" [] code = "JMPNZ" -> "JMPZ"

(* Pairs: an instruction i and the one, at line d, that set its operand.   *)
(* The first rule that applies is applied.                                 *)
Pair(st, i, global) ==
  LET o == st.ops[i]
      tmp == o.op1.k = "TMP"
      d == IF tmp THEN DefLine(st, o.op1) ELSE 0
      x == IF d = 0 THEN Op("none") ELSE st.ops[d]
      only == o.op1.v \notin global \/ o.op1 = o.res
      prev == IF st.prev = 0 THEN Op("none") ELSE st.ops[st.prev]
      resultTo == Nop(Define(Set(st, d, [x EXCEPT !.res = o.res]), d), i)
      operandOf(code) ==
        Nop(Set(Undefine(st, o.op1), i, [o EXCEPT !.code = code, !.op1 = x.op1]), d) IN
  CASE Foldable(o) -> Set(st, i, Fold(o))
    [] o.code = "FREE" /\ o.op1.k = "CONST" -> Nop(st, i)
    (* CONCAT('',$x,$y) + CONCAT($y,$v,$z) => CONCAT($x,$v,$z)             *)
    [] o.code = "CONCAT" /\ x.code = "CONCAT" /\ x.op1 = Const(Str(<<>>)) ->
         Nop(Set(Undefine(st, o.op1), i, [o EXCEPT !.op1 = x.op2]), d)
    (* CONCAT($x,CONST,$y) + CONCAT($y,CONST,$z) => CONCAT($x,CONST,$z)    *)
    [] o.code = "CONCAT" /\ x.code = "CONCAT" /\ x.op1 # Const(Str(<<>>))
         /\ x.op2.k = "CONST" /\ o.op2.k = "CONST" ->
         LET c == Const(Str(x.op2.c.s \o o.op2.c.s)) IN
         Nop(Define(Set(st, d, [x EXCEPT !.op2 = c, !.res = o.res]), d), i)
    (* PRINT + FREE => ECHO                                                *)
    [] o.code = "FREE" /\ x.code = "PRINT" ->
         Nop(Set(Undefine(st, o.op1), d, [x EXCEPT !.code = "ECHO", !.res = Unused]), i)
    (* BOOL + FREE => NOP + NOP                                            *)
    [] o.code = "FREE" /\ x.code = "BOOL" -> Nop(Nop(Undefine(st, o.op1), d), i)
    (* CMP + BOOL => CMP                                                   *)
    [] o.code = "BOOL" /\ only /\ x.code \in Comparisons -> resultTo
    (* BOOL + BOOL, BOOL_NOT, JMP... => BOOL, BOOL_NOT, JMP...             *)
    [] o.code \in Tests \cup {"JMPZNZ", "JMPZ_EX", "JMPNZ_EX"} /\ only /\ x.code = "BOOL" ->
         operandOf(o.code)
    (* BOOL_NOT + BOOL, BOOL_NOT, JMP... => BOOL_NOT, BOOL, JMPN...        *)
    [] o.code \in Tests /\ only /\ x.code = "BOOL_NOT" -> operandOf(Opposite(o.code))
    [] o.code = "QM_ASSIGN" /\ tmp /\ o.op1 = o.res -> Nop(st, i)
    (* ?(,,$x) + QM_ASSIGN($x,$y) => ?(,,$y)                               *)
    [] o.code = "QM_ASSIGN" /\ d # 0 /\ o.op1 # o.res /\ o.op1.v \notin global ->
         Nop(Define(Set(Undefine(st, o.op1), d, [x EXCEPT !.res = o.res]), d), i)
    [] o.code = "ECHO" /\ o.op1.k = "CONST" /\ prev.code = "ECHO" /\ prev.op1.k = "CONST" ->
         Nop(Set(st, st.prev, [prev EXCEPT !.op1 = Const(Str(@.c.s \o o.op1.c.s))]), i)
    [] OTHER -> st

(* One instruction, and what is known after it.                            *)
Peephole(st0, i, global) ==
  LET st1 == PropagateConst(PropagateConst(st0, i, "op1"), i, "op2")
      st2 == Set(st1, i, EchoNothing(CompareBool(st1.ops[i])))
      st3 == Pair(st2, i, global)
      st4 == IF st3.ops[i].code = "NOP" THEN st3 ELSE [st3 EXCEPT !.prev = i] IN
  IF Sets(st4.ops[i]) THEN Define(st4, i) ELSE st4

(* A block: every instruction in turn; then NOPs are removed, the block's  *)
(* other lines become NOPs.                                                *)
OptimizeBb(g, p, global) ==
  LET b == g.bb[p]
      st == Loop(LAMBDA s, i : Peephole(s, i, global),
                     [ops |-> g.ops, Ts |-> <<>>, prev |-> 0], Lines(b))
      kept == SelectSeq(SubSeq(st.ops, b.start, LastLine(b)), LAMBDA o : o.code # "NOP")
      line(i) == LET k == i - b.start + 1 IN
                 IF k <= Len(kept) THEN kept[k] ELSE Op("NOP") IN
  [g EXCEPT !.ops = [i \in DOMAIN @ |-> IF i \in b.start .. LastLine(b) THEN line(i) ELSE @[i]],
            !.bb[p].len = Len(kept)]
-----------------------------------------------------------------------------
(* reassign_registers.  In st: the new register of an old one (assigned),  *)
(* the new registers in use (pool) and those ever used, how many there are *)
(* (n).  Blocks are taken in order, the instructions of each from the last *)
(* to the first: a register is taken where it is last read and free above  *)
(* the line that sets it.  One that lives across blocks keeps a register   *)
(* nobody else has used.  0 is what the code finds when none is free, a    *)
(* register that is not there.                                             *)
(* Mutant: takes the number of a register for how many there are.          *)
GetRegBug(st, r, T, global) ==
  LET free == {j \in 1 .. T : j \notin st.pool /\ (r \notin global \/ j \notin st.used)}
      j == IF free = {} THEN 0 ELSE CHOOSE k \in free : \A l \in free : k <= l IN
  IF r \in DOMAIN st.assigned THEN [st EXCEPT !.used = @ \cup {st.assigned[r]}]
  ELSE [st EXCEPT !.assigned = [q \in DOMAIN @ \cup {r} |-> IF q = r THEN j ELSE @[q]],
                  !.pool = @ \cup {j}, !.used = @ \cup {j}, !.n = IF j > @ THEN j - 1 ELSE @]

GetReg(st, r, T, global) ==
  LET free == {j \in 1 .. T : j \notin st.pool /\ (r \notin global \/ j \notin st.used)}
      j == IF free = {} THEN 0 ELSE CHOOSE k \in free : \A l \in free : k <= l IN
  IF r \in DOMAIN st.assigned THEN [st EXCEPT !.used = @ \cup {st.assigned[r]}]
  ELSE [st EXCEPT !.assigned = [q \in DOMAIN @ \cup {r} |-> IF q = r THEN j ELSE @[q]],
                  !.pool = @ \cup {j}, !.used = @ \cup {j}, !.n = IF j > @ THEN j ELSE @]

Renamed(st, T, global, i, op) ==
  LET x == st.ops[i][op]
      s == GetReg(st, x.v, T, global) IN
  IF IsReg(x) THEN [s EXCEPT !.ops[i][op].v = s.assigned[x.v]] ELSE st

RenameOp(st0, T, global, i) ==
  LET r == st0.ops[i].res
      st1 == Renamed(Renamed(st0, T, global, i, "op1"), T, global, i, "op2")
      st2 == Renamed(st1, T, global, i, "res")
      o == st2.ops[i]
      over == \/ o.res.k = "VAR" /\ o.drop
              \/ o.res \notin {o.op1, o.op2} /\ r.v \notin global IN
  IF IsReg(r) /\ over THEN [st2 EXCEPT !.pool = @ \ {o.res.v}] ELSE st2

RenameBlock(st, T, global, b) ==
  LET old == {r \in DOMAIN st.assigned : r \notin global}
      s == [st EXCEPT !.pool = @ \ {st.assigned[r] : r \in old},
                      !.assigned = [r \in DOMAIN @ \ old |-> @[r]]] IN
  Loop(LAMBDA t, i : RenameOp(t, T, global, i), s, Reverse(Lines(b)))

Reassign(a, global) ==
  LET blocks == SelectSeq(a.blocks, LAMBDA b : b.len > 0)
      st == Loop(LAMBDA s, b : RenameBlock(s, a.T, global, b),
                     [ops |-> a.ops, assigned |-> <<>>, pool |-> {}, used |-> {}, n |-> 0],
                     blocks) IN
  [ops |-> st.ops, T |-> st.n, tries |-> a.tries]
=============================================================================
