------------------------------ MODULE OptGraph ------------------------------
(***************************************************************************)
(* Basic blocks, as optimize.c keeps them: blocks with their edges and the *)
(* links back, and what takes an edge or a block out of the graph.         *)
(*                                                                         *)
(* A graph g is an op_array (module Zend) with blocks: bb[i] is the block  *)
(* that starts at line i when the graph is built.  Blocks hold the lines   *)
(* start .. start + len - 1 and form a list through "next"; 0 is NULL.     *)
(***************************************************************************)
EXTENDS Opcodes, FiniteSets

(* Instructions that end a block.                                          *)
CondJumps == {"JMPZ", "JMPNZ", "JMPZ_EX", "JMPNZ_EX", "JMP_SET", "NEW",
              "FE_RESET", "FE_FETCH"}
Calls == {"DO_FCALL", "DO_FCALL_BY_NAME"}
Ends  == {"RETURN", "EXIT", "BRK", "CONT"}

(* The five ways from a block to another, and the links back.              *)
Edges == {"jmp_1", "jmp_2", "jmp_ext", "jmp_tc", "follow"}

NoBlock ==
  [start |-> 0, len |-> 0, used |-> FALSE, protect |-> FALSE,
   jmp_1 |-> 0, jmp_2 |-> 0, jmp_ext |-> 0, jmp_tc |-> 0, follow |-> 0,
   pred |-> {}, next |-> 0]

BasicBlock ==
  [start : Nat, len : Nat, used : BOOLEAN, protect : BOOLEAN,
   jmp_1 : Nat, jmp_2 : Nat, jmp_ext : Nat, jmp_tc : Nat, follow : Nat,
   pred : SUBSET Nat, next : Nat]

(* Graphs of n lines.                                                      *)
Graph(n) ==
  [ops : [1 .. n -> Instruction], T : Nat,
   tries : Seq([try_op : Nat, catch_op : Nat]), bb : [1 .. n + 1 -> BasicBlock]]

Succ(g, p) == {g.bb[p][e] : e \in Edges} \ {0}
LastLine(b) == b.start + b.len - 1
LastOp(g, p) == g.ops[LastLine(g.bb[p])]
FirstOp(g, q) == g.ops[g.bb[q].start]
Alone(g, q, code) == g.bb[q].len = 1 /\ FirstOp(g, q).code = code
-----------------------------------------------------------------------------
AddPred(g, q, p) == [g EXCEPT !.bb[q].pred = @ \cup {p}]
DelPred(g, q, p) == [g EXCEPT !.bb[q].pred = @ \ {p}]

(* rm_bb                                                                   *)
Rm(g, q) ==
  LET without(r) == [g.bb[r] EXCEPT !.used = @ /\ r # q,
                                    !.pred = IF r \in Succ(g, q) THEN @ \ {q} ELSE @] IN
  IF g.bb[q].used THEN [g EXCEPT !.bb = [r \in DOMAIN @ |-> without(r)]] ELSE g

(* RM_BB                                                                   *)
RmIfDead(g, q) == IF g.bb[q].pred = {} /\ q # 1 THEN Rm(g, q) ELSE g

SetToNop(g, line) == [g EXCEPT !.ops[line] = Op("NOP")]

(* del_bb, and the block leaves the list behind p.                         *)
Unlink(g, p) ==
  LET q == g.bb[p].next
      r == Rm(g, q)
      b == g.bb[q]
      ops == [i \in DOMAIN r.ops |->
                IF i \in b.start .. LastLine(b) THEN Op("NOP") ELSE r.ops[i]]
      bb == [r.bb EXCEPT ![q] = [@ EXCEPT !.len = 0, !.used = FALSE],
                         ![p] = [@ EXCEPT !.next = b.next]] IN
  [r EXCEPT !.ops = ops, !.bb = bb]

(* A block that is to be removed: not used, or without predecessors.       *)
Dead(g, q) == q # 0 /\ (~ g.bb[q].used \/ g.bb[q].pred = {})
-----------------------------------------------------------------------------
(* What holds of a graph while jumps are threaded.  P are the blocks of    *)
(* the list, C those that catch exceptions.                                *)
Used(g) == {p \in DOMAIN g.bb : g.bb[p].used}

(* The list follows the code.                                              *)
InOrder(g, P) ==
  /\ 1 \in P /\ P \subseteq DOMAIN g.ops /\ Used(g) \subseteq P
  /\ \A p \in P :
       /\ g.bb[p].start = p
       /\ LET n == g.bb[p].next IN
          IF n = 0 THEN \A q \in P : q <= p
          ELSE n \in P /\ p < n /\ \A q \in P : q <= p \/ n <= q

(* No line is in two blocks; a block that was merged with the one before   *)
(* it has none.                                                            *)
Disjoint(g, P) ==
  \A p \in P :
    /\ p + g.bb[p].len <= Len(g.ops) + 1
    /\ \A q \in P :
         p < q /\ (g.bb[q].used \/ g.bb[q].len > 0) => p + g.bb[p].len <= q

(* A jump is the last line of a block.                                     *)
Jumps == {"JMP", "JMPZNZ"} \cup CondJumps

JumpsLast(g, P) ==
  \A i \in DOMAIN g.ops :
    g.ops[i].code \in Jumps =>
      \E q \in P : g.bb[q].len > 0 /\ i = LastLine(g.bb[q])

(* A jump has the edges its code knows, and only they; those that control  *)
(* takes by itself lead to no block that catches an exception, and the one *)
(* from a JMP to the block behind it leads to nothing else.                *)
Falls(code) == code \notin Jumps \cup Ends \cup {"THROW", "CATCH", "HANDLE_EXCEPTION"}

EdgesFit(g, p, C) ==
  LET b == g.bb[p]
      code == LastOp(g, p).code
      free == C \cup {0} IN
  /\ b.len = 0 => b.follow \notin free
  /\ b.len > 0 /\ Falls(code) => b.follow \notin free
  /\ b.len > 0 /\ code = "JMP" =>
       /\ b.jmp_1 \notin free /\ b.jmp_2 = 0 /\ b.jmp_ext = 0
       /\ b.follow \in free
       /\ b.follow # 0 => p < b.follow /\ \A q \in Used(g) : q <= p \/ b.follow <= q
  /\ b.len > 0 /\ code = "JMPZNZ" =>
       /\ b.jmp_2 \notin free /\ b.jmp_ext \notin free
       /\ b.jmp_1 = 0 /\ b.follow = 0
  /\ b.len > 0 /\ code \in CondJumps =>
       /\ b.jmp_2 \notin free /\ b.follow \notin free
       /\ b.jmp_1 = 0 /\ b.jmp_ext = 0

(* Blocks a try element begins or is caught in.                            *)
Protected(g, p, C) ==
  LET b == g.bb[p] IN
  /\ b.jmp_tc # 0 => b.jmp_tc \in C /\ b.protect /\ g.bb[b.jmp_tc].protect
  /\ b.protect => FirstOp(g, p).code # "FREE"

(* The blocks in use know exactly the blocks in use that lead to them.     *)
Exact(g) ==
  \A q \in Used(g) :
    /\ g.bb[q].pred = {x \in Used(g) : q \in Succ(g, x)}
    /\ Succ(g, q) \subseteq Used(g)

Sound(g, P, C) ==
  /\ InOrder(g, P) /\ Disjoint(g, P) /\ JumpsLast(g, P)
  /\ \A p \in Used(g) : EdgesFit(g, p, C) /\ Protected(g, p, C)
  /\ Exact(g)
=============================================================================
