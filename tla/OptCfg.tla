------------------------------- MODULE OptCfg -------------------------------
(***************************************************************************)
(* build_cfg, which splits an op_array into blocks and links them, what    *)
(* optimize_jmp does to all blocks of the list, and emit_cfg, which writes *)
(* the code back.                                                          *)
(***************************************************************************)
EXTENDS Zend, Loops, OptJmp

(* The blocks of the list from p on.                                       *)
From(g, p) ==
  LET behind[l \in Any] ==
        LET q == g.bb[l[Len(l)]].next IN IF q = 0 THEN l ELSE behind[Append(l, q)] IN
  behind[<<p>>]
Listed(g) ==
  LET behind[p \in DOMAIN g.bb] ==
        {p} \cup (IF g.bb[p].next = 0 THEN {} ELSE behind[g.bb[p].next]) IN
  behind[1]
InUse(g) == {p \in Listed(g) : g.bb[p].used}
-----------------------------------------------------------------------------
(* build_cfg                                                               *)
(* BRK and CONT that leave a known loop are replaced by JMP; where one     *)
(* leaves more loops than there are, nothing is optimized.                 *)
RECURSIVE OutOf(_, _, _)
OutOf(a, loop, level) ==
  IF loop = 0 \/ level <= 1 THEN loop ELSE OutOf(a, a.loops[loop].parent, level - 1)

Leaves(a, o) ==
  o.code \in {"BRK", "CONT"} /\ o.to # 0 /\ o.op2.k = "CONST" /\ OutOf(a, o.to, o.ext) # 0

Plain(a) ==
  LET jump(o) ==
        LET l == a.loops[OutOf(a, o.to, o.ext)] IN
        [Op("JMP") EXCEPT !.to = IF o.code = "BRK" THEN l.brk ELSE l.cont, !.mark = TRUE] IN
  [a EXCEPT !.ops = [i \in DOMAIN @ |-> IF Leaves(a, @[i]) THEN jump(@[i]) ELSE @[i]]]

Buildable(a) ==
  \A i \in DOMAIN a.ops :
    a.ops[i].code \in {"BRK", "CONT"} => a.ops[i].to = 0 \/ Leaves(a, a.ops[i])

(* The first lines of blocks.                                              *)
Starts(a) ==
  LET line(i) ==
        LET o == a.ops[i] IN
        CASE o.code = "JMPZNZ" -> {o.to, o.ext, i + 1}
          [] o.code \in CondJumps \cup {"JMP", "THROW"} -> {o.to, i + 1}
          [] o.code = "CATCH" -> {o.ext, i + 1}
          [] o.code \in Ends \cup Calls -> {i + 1}
          [] OTHER -> {}
      tries == {a.tries[i].try_op : i \in DOMAIN a.tries}
                 \cup {a.tries[i].catch_op : i \in DOMAIN a.tries}
  IN ({1} \cup tries \cup UNION {line(i) : i \in DOMAIN a.ops}) \cap DOMAIN a.ops

(* Where an exception at a line that ends a block may go: code after a     *)
(* RETURN is kept if it is that, or the last instruction,                  *)
(* HANDLE_EXCEPTION.                                                       *)
InnermostCatch(a, line) ==
  LET around == {a.tries[i].catch_op : i \in
                   {j \in DOMAIN a.tries : /\ a.tries[j].try_op <= line
                                           /\ line < a.tries[j].catch_op}} IN
  IF around = {} THEN Len(a.ops) ELSE CHOOSE c \in around : \A d \in around : c <= d

(* The edges of a block that ends at "line"; the next one starts after it. *)
Linked(a, b, line) ==
  LET o == a.ops[line]
      beforeCatch == /\ line + 2 <= Len(a.ops)
                     /\ a.ops[line + 1].code = "FETCH_CLASS"
                     /\ a.ops[line + 2].code = "CATCH" IN
  CASE o.code = "JMP" ->
         [b EXCEPT !.jmp_1 = o.to, !.follow = IF beforeCatch THEN line + 1 ELSE 0]
    [] o.code = "JMPZNZ" -> [b EXCEPT !.jmp_2 = o.to, !.jmp_ext = o.ext]
    [] o.code \in CondJumps \cup {"THROW"} ->
         [b EXCEPT !.jmp_2 = o.to, !.follow = line + 1]
    [] o.code \in Ends -> [b EXCEPT !.follow = InnermostCatch(a, line)]
    [] o.code = "CATCH" -> [b EXCEPT !.jmp_ext = o.ext, !.follow = line + 1]
    [] OTHER -> [b EXCEPT !.follow = line + 1]

BuildCfg(a0) ==
  LET a == Plain(a0)
      n == Len(a.ops)
      starts == Starts(a)
      after(i) == {s \in starts : s > i}
      next(i) == IF after(i) = {} THEN 0
                 ELSE CHOOSE s \in after(i) : \A t \in after(i) : s <= t
      end(i) == IF next(i) = 0 THEN n ELSE next(i) - 1
      tries(i) == {t \in DOMAIN a.tries : a.tries[t].try_op = i}
      block(i) ==
        LET b == [NoBlock EXCEPT
                    !.start = i, !.len = end(i) - i + 1, !.next = next(i),
                    !.protect = \E t \in DOMAIN a.tries :
                                  i \in {a.tries[t].try_op, a.tries[t].catch_op},
                    !.jmp_tc = IF tries(i) = {} THEN 0
                               ELSE a.tries[CHOOSE t \in tries(i) :
                                              \A u \in tries(i) : u <= t].catch_op] IN
        IF next(i) = 0 THEN b ELSE Linked(a, b, end(i))
  IN [ops |-> a.ops, T |-> a.T, tries |-> a.tries,
      bb |-> [i \in 1 .. n + 1 |-> IF i \in starts THEN block(i) ELSE NoBlock]]
-----------------------------------------------------------------------------
(* Marks, links and removal.                                               *)
Reach(g, start) ==
  LET from[S \in SUBSET DOMAIN g.bb] ==
        LET more == UNION {Succ(g, p) : p \in S} \ S IN
        IF more = {} THEN S ELSE from[S \cup more] IN
  from[start]

(* mark_used_bb: what can be reached is used, and knows its predecessors.  *)
MarkUsed(g) ==
  LET R == Reach(g, {1}) IN
  [g EXCEPT !.bb = [q \in DOMAIN @ |->
     IF q \notin R THEN @[q]
     ELSE [@[q] EXCEPT !.used = TRUE, !.pred = @ \cup {p \in R : q \in Succ(g, p)}]]]

(* mark_used_bb2                                                           *)
MarkUsed2(g) ==
  LET R == Reach(g, {1}) IN
  [g EXCEPT !.bb = [q \in DOMAIN @ |-> [@[q] EXCEPT !.used = @ \/ q \in R]]]

(* The blocks right behind p, or all behind it, that are dead.             *)
SweepNext(g0, p) ==
  LET sweep[g \in Any] == IF Dead(g, g.bb[p].next) THEN sweep[Unlink(g, p)] ELSE g IN
  sweep[g0]

Sweep(g0) ==
  LET sweep[g \in Any, p \in Nat] ==
        CASE g.bb[p].next = 0 -> g
          [] Dead(g, g.bb[p].next) -> sweep[Unlink(g, p), p]
          [] OTHER -> sweep[g, g.bb[p].next] IN
  sweep[g0, 1]

(* The same before the code is emitted, when nobody has predecessors.      *)
Sweep2(g0) ==
  LET sweep[g \in Any, p \in Nat] ==
        LET q == g.bb[p].next IN
        CASE q = 0 -> g
          [] q # 0 /\ g.bb[q].used -> sweep[g, q]
          [] OTHER -> sweep[Unlink(g, p), p] IN
  sweep[g0, 1]

(* "Mark All Basic Blocks as Unused. Free Predecessors Links."             *)
Unmark(g) == Loop(Rm, g, From(g, 1))
-----------------------------------------------------------------------------
CopyReturns(g) == Loop(CopyReturn, g, From(g, 1))

(* Something was copied: the walk over the blocks starts again.            *)
Copied(g, h) == g.bb # h.bb
-----------------------------------------------------------------------------
(* emit_cfg: the used blocks, one behind the other; the lines jumps go to; *)
(* the try elements, of which those are lost whose blocks are.             *)
EmitCfg(g) ==
  LET list == SelectSeq(From(g, 1), LAMBDA p : g.bb[p].used)
      before(i) == Loop(LAMBDA n, p : n + g.bb[p].len, 1, SubSeq(list, 1, i - 1))
      start == [p \in {list[i] : i \in DOMAIN list} |->
                  before(CHOOSE i \in DOMAIN list : list[i] = p)]
      line(q, old) == IF q = 0 THEN old ELSE start[q]
      code(p) ==
        LET b == g.bb[p] IN
        [i \in 1 .. b.len |->
           LET o == g.ops[b.start + i - 1] IN
           IF i < b.len THEN o
           ELSE [o EXCEPT !.to = line(b.jmp_2, line(b.jmp_1, @)), !.ext = line(b.jmp_ext, @)]]
      kept(t) == g.bb[t.try_op].used /\ g.bb[t.catch_op].used
      moved(t) == IF kept(t) THEN [try_op |-> start[t.try_op], catch_op |-> start[t.catch_op]]
                             ELSE [try_op |-> 0, catch_op |-> 0]
      tries == [i \in DOMAIN g.tries |-> moved(g.tries[i])]
  IN [ops |-> Loop(LAMBDA c, p : c \o code(p), <<>>, list), T |-> g.T,
      tries |-> IF \A i \in DOMAIN g.tries : kept(g.tries[i]) THEN tries
                ELSE SelectSeq(tries, LAMBDA t : t.try_op # t.catch_op),
      blocks |-> [i \in DOMAIN list |-> [start |-> start[list[i]], len |-> g.bb[list[i]].len]]]
=============================================================================
