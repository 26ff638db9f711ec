----------------------------- MODULE Optimizer -----------------------------
(***************************************************************************)
(* eaccelerator_optimize (optimize.c): one op_array is split into blocks,  *)
(* optimized in two passes and written back.  The steps of the machine are *)
(* the rewritings, one jump or one block at a time, so that what holds of  *)
(* the graph between two of them can be said.                              *)
(***************************************************************************)
EXTENDS OptBlock

CONSTANTS Scripts,   \* the scripts that are compiled
          Slots,     \* what their variables may hold when they are run
          Fuel,      \* a run is followed for that many steps at a time,
          Depth      \* through that many questions to the world

VARIABLES
  orig,     \* the op_array the compiler has made
  phase,    \* what is done next
  pass,     \* 1 or 2
  g,        \* the graph
  p,        \* the block at hand
  ok,       \* nothing has changed since optimize_jmp last began anew
  global,   \* the registers that live across blocks
  result    \* what is left in the op_array

vars == <<orig, phase, pass, g, p, ok, global, result>>

Phases == {"build", "mark", "sweep", "thread", "chase", "merge", "returns",
           "live", "block", "emit", "done", "spins"}

(* An op_array the optimizer has not touched.                              *)
NoGraph == [ops |-> <<>>, T |-> 0, tries |-> <<>>, bb |-> <<>>]

Init ==
  /\ orig \in {Compile(s) : s \in Scripts}
  /\ phase = "build" /\ pass = 1 /\ g = NoGraph /\ p = 1 /\ ok = TRUE
  /\ global = {} /\ result = orig

(* Where BRK or CONT leave more loops than there are, the code stays as it *)
(* is; what a former BRK or CONT leads to is known all the same.           *)
Build ==
  /\ phase = "build"
  /\ IF Buildable(orig)
       THEN /\ phase' = "mark" /\ g' = BuildCfg(orig) /\ UNCHANGED result
       ELSE /\ phase' = "done" /\ result' = Plain(orig) /\ UNCHANGED g
  /\ UNCHANGED <<orig, pass, p, ok, global>>

Mark ==
  /\ phase = "mark"
  /\ phase' = "sweep" /\ g' = MarkUsed(g)
  /\ UNCHANGED <<orig, pass, p, ok, global, result>>

(* optimize_jmp begins (anew): dead blocks are removed.                    *)
SweepAllBug ==
  /\ phase = "sweep"
  /\ g' = SweepNext(Sweep(g), 1) /\ ok' = (ok /\ g' = g)
  /\ phase' = "thread" /\ p' = 1
  /\ UNCHANGED <<orig, pass, global, result>>

SweepAll ==
  /\ phase = "sweep"
  /\ g' = SweepNext(Sweep(g), 1) /\ ok' = (g' = g)
  /\ phase' = "thread" /\ p' = 1
  /\ UNCHANGED <<orig, pass, global, result>>

(* One rule rewrites the jump that ends the block.                         *)
Thread ==
  /\ phase = "thread" /\ Rewrite(g, p) # g
  /\ g' = Rewrite(g, p) /\ ok' = FALSE
  /\ UNCHANGED <<orig, phase, pass, p, global, result>>

(* No rule applies: one step along a chain of JMPs, which may have no end. *)
Follow ==
  /\ \/ phase = "thread" /\ Rewrite(g, p) = g
     \/ phase = "chase"
  /\ CanChase(g, p)
  /\ IF Endless(g, p) THEN phase' = "spins" /\ UNCHANGED g
                      ELSE phase' = "chase" /\ g' = Chase(g, p)
  /\ ok' = FALSE
  /\ UNCHANGED <<orig, pass, p, global, result>>

(* The jump is as it will be; the block joins the one before it, if it     *)
(* may, and the next block is taken, behind which dead blocks are removed. *)
MergeBlock ==
  /\ \/ phase = "thread" /\ Rewrite(g, p) = g
     \/ phase = "chase"
  /\ ~ CanChase(g, p)
  /\ LET h == IF Mergeable(g, p) THEN Merge(g, p) ELSE g
         q == g.bb[p].next IN
     IF q = 0
       THEN /\ g' = h /\ ok' = (ok /\ h = g) /\ p' = 1
            /\ phase' = IF ok' THEN "returns" ELSE "sweep"
       ELSE /\ g' = SweepNext(h, q) /\ ok' = (ok /\ g' = g) /\ p' = q
            /\ phase' = "thread"
  /\ UNCHANGED <<orig, pass, global, result>>

Returns ==
  /\ phase = "returns"
  /\ g' = CopyReturns(g)
  /\ phase' = IF Copied(g, g') THEN "sweep" ELSE "live"
  /\ UNCHANGED <<orig, pass, p, ok, global, result>>

Live ==
  /\ phase = "live"
  /\ global' = Global(g) /\ g' = ComputeLiveVar(g, global')
  /\ phase' = "block" /\ p' = 1
  /\ UNCHANGED <<orig, pass, ok, result>>

Optimize ==
  /\ phase = "block" /\ p # 0
  /\ g' = OptimizeBb(g, p, global)
  /\ p' = g.bb[p].next
  /\ UNCHANGED <<orig, phase, pass, ok, global, result>>

EndPass ==
  /\ phase = "block" /\ p = 0
  /\ g' = Unmark(g)
  /\ phase' = IF pass = 1 THEN "mark" ELSE "emit"
  /\ pass' = 2 /\ p' = 1
  /\ UNCHANGED <<orig, ok, global, result>>

Emit2 ==
  /\ phase = "emit"
  /\ g' = Sweep2(MarkUsed2(g)) /\ result' = Reassign(EmitCfg(g'), global)
  /\ phase' = "done"
  /\ UNCHANGED <<orig, pass, p, ok, global>>

Stopped == phase \in {"done", "spins"}

Done == Stopped /\ UNCHANGED vars

Next ==
  \/ Build \/ Mark \/ SweepAll \/ Thread \/ Follow \/ MergeBlock \/ Returns
  \/ Live \/ Optimize \/ EndPass \/ Emit2 \/ Done

(* The function runs until it returns, or for ever: WF_vars(Next), with    *)
(* what enables Next written out.                                          *)
Spec == Init /\ [][Next]_vars /\ ([]<>Stopped \/ []<><<TRUE>>_vars)
-----------------------------------------------------------------------------
InJmp == phase \in {"sweep", "thread", "chase", "returns", "live"}

(* The variables have their types.                                         *)
TypeOK ==
  /\ phase \in Phases /\ pass \in 1 .. 2 /\ ok \in BOOLEAN
  /\ p \in 0 .. Len(orig.ops) /\ global \subseteq 1 .. orig.T
  /\ g = NoGraph \/ g \in Graph(Len(orig.ops))
  /\ \A q \in DOMAIN g.bb :
       /\ LastLine(g.bb[q]) <= Len(orig.ops)
       /\ Succ(g, q) \cup g.bb[q].pred \subseteq DOMAIN g.bb

(* The blocks that catch exceptions.                                       *)
Handlers(a) ==
  {i \in 1 .. Len(a.ops) - 1 : a.ops[i].code = "FETCH_CLASS" /\ a.ops[i + 1].code = "CATCH"}

(* While jumps are threaded, the graph is sound: the blocks that are in    *)
(* use know exactly the blocks in use they can be reached from, so that a  *)
(* block that still can be reached is never taken for dead (optimize_jmp,  *)
(* RM_BB), and none is reached that is gone; the list follows the code, no *)
(* two blocks share a line, every jump ends a block and has the edges its  *)
(* code knows.  And where a rule is to split a block, the place of the new *)
(* block is free.                                                          *)
GraphSound ==
  InJmp => \A P \in {Listed(g)}, C \in {Handlers(orig)} :
    Sound(g, P, C) /\ (phase = "thread" => CanSplit(g, P, C, p))

Equivalent ==
  \A slots \in Slots :
    SameRuns(orig, result, Start(orig, slots), Start(result, slots), Fuel, Depth)

Has(a, code) == \E i \in DOMAIN a.ops : a.ops[i].code = code
JmpSetLost == Has(orig, "JMP_SET") /\ ~ Has(result, "JMP_SET")

(* What is left of a script prints what the script prints, asks the world  *)
(* the same and ends the same way, whatever its variables hold and the     *)
(* world answers (eaccelerator_optimize); but where a JMP_SET has gone for *)
(* good: compute_live_var takes one for an instruction that only sets its  *)
(* result, and the jump is lost when nobody reads that.                    *)
SameButJmpSet == phase = "done" /\ ~ JmpSetLost => Equivalent

(* The registers of the new code are among those the op_array declares,    *)
(* and no more than there were (reassign_registers).                       *)
RegistersFit ==
  phase = "done" =>
    /\ result.T <= orig.T
    /\ \A i \in DOMAIN result.ops :
         \A x \in {result.ops[i].op1, result.ops[i].op2, result.ops[i].res} :
           IsReg(x) => x.v \in 1 .. result.T

(* Somewhere in the code, control can go round without anything happening. *)
IdleLoop(a) ==
  \E i \in DOMAIN a.ops, slots \in Slots : Run(a, At(Start(a, slots), i), Fuel).why = "runs"

(* The optimizer comes to an end (the rules undo nothing they have done,   *)
(* and the loops over the graph find nothing new at last), but for scripts *)
(* with a loop that does nothing.                                          *)
Terminates == (phase = "build" /\ IdleLoop(orig)) \/ <>(phase = "done")
=============================================================================
