------------------------------- MODULE OptJmp -------------------------------
(***************************************************************************)
(* optimize_jmp: what it does to the jump at the end of one block, the     *)
(* merging of a block with the one before it, and the copying of RETURN    *)
(* over a jump to it.                                                      *)
(*                                                                         *)
(* A rule that finds nothing to do returns the graph as it is.  Blocks end *)
(* with one jump, so that once it is gone no rule applies any more.        *)
(***************************************************************************)
EXTENDS OptGraph

(* p no longer goes to block q; nobody does: q goes, too.                  *)
Leave(g, p, q) == RmIfDead(DelPred(g, q, p), q)

(* ... by edge e, unless the edge "other" goes there as well.              *)
LeaveBy(g, p, e, other) ==
  IF g.bb[p][e] = g.bb[p][other] THEN g ELSE Leave(g, p, g.bb[p][e])

(* Mutant: block r does not hear of it.                                    *)
RetargetBug(g, p, e, other, r) == [LeaveBy(g, p, e, other) EXCEPT !.bb[p][e] = r]

(* Edge e of p leads to block r from now on.                               *)
Retarget(g, p, e, other, r) ==
  AddPred([LeaveBy(g, p, e, other) EXCEPT !.bb[p][e] = r], r, p)

SetLast(g, p, o) == [g EXCEPT !.ops[LastLine(g.bb[p])] = o]

(* The jump at the end of p becomes a NOP, which p does without.           *)
DropJump(g, p) ==
  [SetToNop(g, LastLine(g.bb[p])) EXCEPT !.bb[p].len = @ - 1]

(* ... a JMP to r.                                                         *)
MakeJmp(g, p, r) ==
  [SetLast(g, p, Op("JMP")) EXCEPT !.bb[p] =
     [@ EXCEPT !.jmp_1 = r, !.jmp_2 = 0, !.jmp_ext = 0, !.follow = 0]]

(* The edge by which control leaves the jump o that tests register v, when *)
(* v is known to be true, or false; only a jump that keeps v as it is      *)
(* counts, one with a result only where "ex" says so.                      *)
Through(o, v, val, ex) ==
  LET keeps == o.code \in {"JMPZ_EX", "JMPNZ_EX"} => ex /\ o.res = o.op1 IN
  IF o.op1 # Operand("TMP", v) \/ ~ keeps THEN "none"
  ELSE CASE o.code \in {"JMPZ", "JMPZ_EX"} -> IF val THEN "follow" ELSE "jmp_2"
         [] o.code \in {"JMPNZ", "JMPNZ_EX"} -> IF val THEN "jmp_2" ELSE "follow"
         [] o.code = "JMPZNZ" -> IF val THEN "jmp_ext" ELSE "jmp_2"
         [] OTHER -> "none"

-----------------------------------------------------------------------------
(* L1: JMP L1+1  =>  NOP                                                   *)
RuleJmp(g, p) ==
  LET b == g.bb[p] IN
  IF b.jmp_1 # b.next THEN g
  ELSE LET d == IF b.follow # 0 THEN DelPred(g, b.follow, p) ELSE g IN
       [DropJump(d, p) EXCEPT !.bb[p].follow = b.jmp_1, !.bb[p].jmp_1 = 0]

RuleJmpZnz(g, p) ==
  LET b == g.bb[p]
      o == LastOp(g, p)
      false == Through(FirstOp(g, b.jmp_2), o.op1.v, FALSE, FALSE)
      true == Through(FirstOp(g, b.jmp_ext), o.op1.v, TRUE, FALSE)
      threads == o.op1.k = "TMP" /\ g.bb[b.jmp_2].len = 1 IN
  CASE b.jmp_ext = b.jmp_2 -> MakeJmp(g, p, b.jmp_2)
    [] b.jmp_ext # b.jmp_2 /\ o.op1.k = "CONST" ->
         IF IsTrue(o.op1.c) THEN MakeJmp(Leave(g, p, b.jmp_2), p, b.jmp_ext)
                            ELSE MakeJmp(Leave(g, p, b.jmp_ext), p, b.jmp_2)
    [] b.jmp_ext # b.jmp_2 /\ o.op1.k # "CONST" ->
       CASE b.jmp_ext = b.next ->
              [SetLast(g, p, [o EXCEPT !.code = "JMPZ"]) EXCEPT !.bb[p] =
                 [@ EXCEPT !.follow = b.jmp_ext, !.jmp_ext = 0]]
         [] b.jmp_2 = b.next ->
              [SetLast(g, p, [o EXCEPT !.code = "JMPNZ"]) EXCEPT !.bb[p] =
                 [@ EXCEPT !.follow = b.jmp_2, !.jmp_2 = b.jmp_ext, !.jmp_ext = 0]]
         [] OTHER ->
              IF threads /\ false # "none"
                THEN Retarget(g, p, "jmp_2", "jmp_ext", g.bb[b.jmp_2][false])
              ELSE IF threads /\ true # "none"
                THEN Retarget(g, p, "jmp_ext", "jmp_2", g.bb[b.jmp_ext][true])
              ELSE g

(* JMPZ and JMPNZ, which jump when the value is "val".                     *)
RuleCond(g, p, val) ==
  LET b == g.bb[p]
      o == LastOp(g, p)
      x == b.follow
      on == g.bb[x].jmp_1
      thru == Through(FirstOp(g, b.jmp_2), o.op1.v, val, FALSE) IN
  CASE b.follow = b.jmp_2 -> [DropJump(g, p) EXCEPT !.bb[p].jmp_2 = 0]
    [] b.follow # b.jmp_2 /\ o.op1.k = "CONST" ->
         IF IsTrue(o.op1.c) = val
           THEN MakeJmp(Leave(g, p, b.follow), p, b.jmp_2)
           ELSE [DropJump(Leave(g, p, b.jmp_2), p) EXCEPT !.bb[p].jmp_2 = 0]
    [] b.follow # b.jmp_2 /\ o.op1.k # "CONST" ->
       CASE Alone(g, x, "JMP") ->
              AddPred([SetLast(Leave(g, p, x), p, [o EXCEPT !.code = "JMPZNZ"])
                       EXCEPT !.bb[p] =
                         [@ EXCEPT !.follow = 0,
                                   !.jmp_2 = IF val THEN on ELSE b.jmp_2,
                                   !.jmp_ext = IF val THEN b.jmp_2 ELSE on]],
                      on, p)
         [] OTHER ->
              IF g.bb[b.jmp_2].len = 1 /\ o.op1.k = "TMP" /\ thru # "none"
                THEN Retarget(g, p, "jmp_2", "follow", g.bb[b.jmp_2][thru]) ELSE g

(* Block b = FREE, ... is split in two behind the FREE: block n goes on     *)
(* there, and takes the place of c, what the array holds for that line.    *)
UpTo(b, n) ==
  [b EXCEPT !.len = 1, !.next = n, !.jmp_1 = 0, !.jmp_2 = 0, !.jmp_ext = 0, !.follow = n]

Behind(b, c) ==
  LET edge(e) == IF b[e] # 0 THEN b[e] ELSE c[e] IN
  [c EXCEPT !.used = TRUE, !.start = b.start + 1, !.len = b.len - 1, !.next = b.next,
            !.pred = {}, !.jmp_1 = edge("jmp_1"), !.jmp_2 = edge("jmp_2"),
            !.jmp_ext = edge("jmp_ext"), !.follow = edge("follow")]

Split(g, q) ==
  LET b == g.bb[q]
      n == q + 1
      out == {b.jmp_1, b.jmp_2, b.jmp_ext, b.follow}
      moved == [r \in DOMAIN g.bb |->
                  IF r \in out THEN [g.bb[r] EXCEPT !.pred = (@ \cup {n}) \ {q}] ELSE g.bb[r]] IN
  AddPred([g EXCEPT !.bb = [moved EXCEPT ![n] = Behind(b, g.bb[n]), ![q] = UpTo(@, n)]], n, q)

(* ... where the new block takes no other's place.                         *)
CanSplit(g, P, C, p) ==
  LET q == g.bb[p].jmp_2
      past == LastOp(g, p).code \in {"JMPZ_EX", "JMPNZ_EX"} /\ FirstOp(g, q).code = "FREE" IN
  g.bb[p].used /\ g.bb[p].len > 0 /\ past =>
    /\ q # p
    /\ g.bb[q].len > 1 => q + 1 \notin P \cup C /\ g.bb[q + 1] = NoBlock

(* JMPZ_EX and JMPNZ_EX                                                    *)
RuleEx(g, p, val) ==
  LET b == g.bb[p]
      o == LastOp(g, p)
      q == b.jmp_2
      t == FirstOp(g, q)
      mine == o.res.k = "TMP" /\ t.op1 = o.res
      thru == Through(t, o.res.v, val, TRUE)
      plain == [o EXCEPT !.code = IF val THEN "JMPNZ" ELSE "JMPZ", !.res = Unused] IN
  CASE b.follow = q ->
         IF o.op1 = o.res
           THEN [DropJump(g, p) EXCEPT !.bb[p].jmp_2 = 0]
           ELSE [SetLast(g, p, [o EXCEPT !.code = "BOOL"]) EXCEPT !.bb[p].jmp_2 = 0]
    [] b.follow # q /\ mine /\ t.code = "FREE" ->
         LET h == IF g.bb[q].len > 1 THEN Split(g, q) ELSE g IN
         Retarget(SetLast(h, p, plain), p, "jmp_2", "follow", h.bb[q].follow)
    [] b.follow # q /\ mine /\ t.code = "BOOL" /\ g.bb[q].len = 1 ->
         Retarget(SetLast(g, p, [o EXCEPT !.res = t.res]), p, "jmp_2", "follow",
                  g.bb[q].follow)
    [] b.follow # q /\ mine /\ thru # "none" /\ g.bb[q].len = 1 ->
         Retarget(g, p, "jmp_2", "follow", g.bb[q][thru])
    [] OTHER -> g

(* One rewriting of the jump that ends p, by the first rule that applies.  *)
Rewrite(g, p) ==
  IF ~ g.bb[p].used \/ g.bb[p].len = 0 THEN g
  ELSE LET code == LastOp(g, p).code IN
       CASE code = "JMP" -> RuleJmp(g, p)
         [] code = "JMPZNZ" -> RuleJmpZnz(g, p)
         [] code = "JMPZ" -> RuleCond(g, p, FALSE)
         [] code = "JMPNZ" -> RuleCond(g, p, TRUE)
         [] code = "JMPZ_EX" -> RuleEx(g, p, FALSE)
         [] code = "JMPNZ_EX" -> RuleEx(g, p, TRUE)
         [] OTHER -> g

(* When no rule applies, a jump to a lone JMP goes where that goes: one    *)
(* step along a chain of JMPs.                                             *)
CanChase(g, p) ==
  LET b == g.bb[p]
      code == LastOp(g, p).code
      jmp(q) == Alone(g, q, "JMP") IN
  /\ b.used /\ b.len > 0
  /\ \/ code = "JMP" /\ jmp(b.jmp_1) /\ b.jmp_1 # p
     \/ code = "JMPZNZ" /\ (jmp(b.jmp_2) \/ jmp(b.jmp_ext))
     \/ code \in CondJumps \ {"FE_RESET", "JMP_SET"} /\ jmp(b.jmp_2)

Chase(g, p) ==
  LET b == g.bb[p]
      code == LastOp(g, p).code IN
  CASE code = "JMP" ->
         LET on == g.bb[b.jmp_1].jmp_1 IN
         AddPred([Leave(g, p, b.jmp_1) EXCEPT !.bb[p].jmp_1 = on], on, p)
    [] code = "JMPZNZ" ->
         IF Alone(g, b.jmp_2, "JMP")
           THEN Retarget(g, p, "jmp_2", "jmp_ext", g.bb[b.jmp_2].jmp_1)
           ELSE Retarget(g, p, "jmp_ext", "jmp_2", g.bb[b.jmp_ext].jmp_1)
    [] OTHER -> Retarget(g, p, "jmp_2", "follow", g.bb[b.jmp_2].jmp_1)

(* The chain of JMPs p's jump starts is a circle: following it never ends. *)
Endless(g, p) ==
  LET b == g.bb[p]
      code == LastOp(g, p).code
      jmp(q) == Alone(g, q, "JMP")
      Chain[S \in SUBSET DOMAIN g.bb] ==
        LET more == {g.bb[q].jmp_1 : q \in {r \in S : jmp(r)}} \ S IN
        IF more = {} THEN S ELSE Chain[S \cup more]
      starts == IF code = "JMP" THEN {b.jmp_1} ELSE {b.jmp_2, b.jmp_ext} \ {0} IN
  \E q \in starts : \A r \in Chain[{q}] : jmp(r) /\ (code = "JMP" => r # p)

(* Merging: p, which only the block right before it falls into, becomes    *)
(* part of that block.                                                     *)
Mergeable(g, p) ==
  /\ g.bb[p].used /\ ~ g.bb[p].protect
  /\ \E x \in g.bb[p].pred :
       /\ g.bb[p].pred = {x} /\ g.bb[x].used
       /\ g.bb[x].follow = p /\ g.bb[x].next = p
       /\ g.bb[x].jmp_1 = 0 /\ g.bb[x].jmp_2 = 0 /\ g.bb[x].jmp_ext = 0

(* Mutant: the length is counted from the beginning of the code.           *)
MergeBug(g, p) ==
  LET x == CHOOSE y \in g.bb[p].pred : TRUE  b == g.bb[p] IN
  [g EXCEPT !.bb[x] = [@ EXCEPT !.len = b.start + b.len, !.follow = b.follow],
            !.bb[p] = [@ EXCEPT !.pred = {}, !.used = FALSE, !.len = 0]]

Merge(g, p) ==
  LET x == CHOOSE y \in g.bb[p].pred : TRUE
      b == g.bb[p]
      out == {b.jmp_1, b.jmp_2, b.jmp_ext, b.follow} \ {0}
      bb == [r \in DOMAIN g.bb |->
               IF r \in out THEN [g.bb[r] EXCEPT !.pred = (@ \ {p}) \cup {x}] ELSE g.bb[r]] IN
  [g EXCEPT !.bb =
     [bb EXCEPT ![x] = [@ EXCEPT !.len = b.start + b.len - bb[x].start,
                                 !.jmp_1 = b.jmp_1, !.jmp_2 = b.jmp_2,
                                 !.jmp_ext = b.jmp_ext, !.follow = b.follow],
                ![p] = [@ EXCEPT !.pred = b.pred \ {x}, !.used = FALSE, !.len = 0]]]

(* "Eliminate JMP to RETURN or EXIT": a former BRK or CONT only loses its  *)
(* mark.                                                                   *)
CopyReturn(g, p) ==
  LET b == g.bb[p]
      o == LastOp(g, p)
      r == FirstOp(g, b.jmp_1) IN
  CASE ~ (b.used /\ b.len > 0) -> g
    [] b.used /\ b.len > 0 /\ o.code = "JMP"
         /\ g.bb[b.jmp_1].len = 1 /\ r.code \in {"RETURN", "EXIT"} ->
         IF o.mark THEN SetLast(g, p, [o EXCEPT !.mark = FALSE])
         ELSE [SetLast(Leave(g, p, b.jmp_1), p, r) EXCEPT !.bb[p].jmp_1 = 0]
    [] OTHER -> g

=============================================================================
