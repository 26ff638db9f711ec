---------------------------- MODULE OptJmp_proofs ----------------------------
(***************************************************************************)
(* Threading jumps keeps the block graph sound, for every graph.           *)
(*                                                                         *)
(* P is the list of blocks and C those that catch exceptions.  A rewriting *)
(* is taken apart: p leaves a block, which may go (Base); the last line of *)
(* p and p's edges become others (Becomes); p is added to the predecessors *)
(* of a block.  Toward says in between what Exact says at both ends, and   *)
(* Shaped is the rest of Sound, for which only the end counts.             *)
(***************************************************************************)
EXTENDS OptJmp, TLAPS
-----------------------------------------------------------------------------
(* Two states of a block: what no rewriting changes, what the rewriting of *)
(* its own jump changes.                                                   *)
Frame(b, c) == b.start = c.start /\ b.protect = c.protect /\ b.next = c.next /\ b.jmp_tc = c.jmp_tc
Rest(b, c) ==
  /\ b.len = c.len /\ b.jmp_1 = c.jmp_1 /\ b.jmp_2 = c.jmp_2 /\ b.jmp_ext = c.jmp_ext
  /\ b.follow = c.follow
Links(b, c) == b.used = c.used /\ b.pred = c.pred

(* What a graph of N lines is made of.                                     *)
LEMMA GraphFacts ==
  ASSUME NEW N \in Nat, NEW g \in Graph(N)
  PROVE  /\ DOMAIN g.bb = 1 .. N + 1 /\ DOMAIN g.ops = 1 .. N /\ Len(g.ops) = N
         /\ \A q \in 1 .. N + 1 : g.bb[q] \in BasicBlock
         /\ \A i \in 1 .. N : g.ops[i] \in Instruction
<1>1. g.ops \in [1 .. N -> Instruction] /\ g.bb \in [1 .. N + 1 -> BasicBlock]
  BY DEF Graph
<1>2. g.ops \in Seq(Instruction)
  BY <1>1
<1> QED
  BY <1>1, <1>2

(* Graphs differ in their blocks.                                          *)
LEMMA WithBlocks ==
  ASSUME NEW N \in Nat, NEW g \in Graph(N), NEW B \in [1 .. N + 1 -> BasicBlock]
  PROVE  /\ [g EXCEPT !.bb = B] \in Graph(N)
         /\ [g EXCEPT !.bb = B].bb = B /\ [g EXCEPT !.bb = B].ops = g.ops
  BY DEF Graph

(* Graphs differ in one line.                                              *)
LEMMA WithOp ==
  ASSUME NEW N \in Nat, NEW g \in Graph(N), NEW i \in Nat, NEW o \in Instruction
  PROVE  /\ [g EXCEPT !.ops[i] = o] \in Graph(N)
         /\ [g EXCEPT !.ops[i] = o].bb = g.bb
         /\ i \in 1 .. N => [g EXCEPT !.ops[i] = o].ops[i] = o
         /\ \A j \in 1 .. N : j # i => [g EXCEPT !.ops[i] = o].ops[j] = g.ops[j]
  BY DEF Graph

(* The edges of a block, one by one.                                       *)
LEMMA SuccIs ==
  ASSUME NEW g, NEW p
  PROVE  Succ(g, p) = {g.bb[p].jmp_1, g.bb[p].jmp_2, g.bb[p].jmp_ext, g.bb[p].jmp_tc,
                       g.bb[p].follow} \ {0}
  BY DEF Succ, Edges

(* h is g, but that other blocks are in use, and know other predecessors.  *)
Relinked(N, g, h) ==
  /\ h \in Graph(N) /\ h.ops = g.ops
  /\ \A x \in 1 .. N + 1 : Frame(g.bb[x], h.bb[x]) /\ Rest(g.bb[x], h.bb[x])

PredAdded(N, g, h, q, p) ==
  /\ Relinked(N, g, h)
  /\ \A x \in 1 .. N + 1 :
       /\ h.bb[x].used = g.bb[x].used
       /\ h.bb[x].pred = IF x = q THEN g.bb[x].pred \cup {p} ELSE g.bb[x].pred

PredGone(N, g, h, q, p) ==
  /\ Relinked(N, g, h)
  /\ \A x \in 1 .. N + 1 :
       /\ h.bb[x].used = g.bb[x].used
       /\ h.bb[x].pred = IF x = q THEN g.bb[x].pred \ {p} ELSE g.bb[x].pred

BlockGone(N, g, h, q) ==
  /\ Relinked(N, g, h)
  /\ \A x \in 1 .. N + 1 :
       /\ h.bb[x].used = (g.bb[x].used /\ x # q)
       /\ h.bb[x].pred =
            IF g.bb[q].used /\ x \in Succ(g, q) THEN g.bb[x].pred \ {q} ELSE g.bb[x].pred

(* p leaves q, which goes if it is not reached any more.                   *)
Left(g, p, q) == g.bb[q].used /\ g.bb[q].pred \ {p} = {} /\ q # 1

HasLeft(N, g, h, p, q) ==
  /\ Relinked(N, g, h)
  /\ \A x \in 1 .. N + 1 :
       /\ h.bb[x].used = (g.bb[x].used /\ ~ (x = q /\ Left(g, p, q)))
       /\ \A y : y \in h.bb[x].pred <=>
            /\ y \in g.bb[x].pred
            /\ ~ (x = q /\ y = p)
            /\ ~ (Left(g, p, q) /\ x \in Succ(g, q) /\ y = q)

(* What the operations on the links back do: a predecessor more, ...       *)
LEMMA AddPredFacts ==
  ASSUME NEW N \in Nat, NEW g \in Graph(N), NEW q \in 1 .. N + 1, NEW p \in Nat
  PROVE  PredAdded(N, g, AddPred(g, q, p), q, p)
<1>1. \A x \in 1 .. N + 1 : g.bb[x] \in BasicBlock
  BY GraphFacts
<1> DEFINE b == [g.bb[q] EXCEPT !.pred = @ \cup {p}]
           B == [g.bb EXCEPT ![q] = b]
<1>2. b \in BasicBlock /\ Frame(g.bb[q], b) /\ Rest(g.bb[q], b) /\ b.used = g.bb[q].used
      /\ b.pred = g.bb[q].pred \cup {p}
  BY <1>1 DEF BasicBlock, Frame, Rest
<1> HIDE DEF b
<1>3. B \in [1 .. N + 1 -> BasicBlock] /\ B[q] = b /\ \A x \in 1 .. N + 1 : x # q => B[x] = g.bb[x]
  BY <1>2, <1>1 DEF Graph
<1>4. AddPred(g, q, p) = [g EXCEPT !.bb = B]
  BY DEF AddPred, b, Graph
<1> HIDE DEF B
<1>5. AddPred(g, q, p) \in Graph(N) /\ AddPred(g, q, p).ops = g.ops /\ AddPred(g, q, p).bb = B
  BY <1>3, <1>4, WithBlocks
<1> QED
  BY <1>1, <1>2, <1>3, <1>5 DEF Frame, Rest, Relinked, PredAdded

(* ... one less, ...                                                       *)
LEMMA DelPredFacts ==
  ASSUME NEW N \in Nat, NEW g \in Graph(N), NEW q \in 1 .. N + 1, NEW p \in Nat
  PROVE  PredGone(N, g, DelPred(g, q, p), q, p)
<1>1. \A x \in 1 .. N + 1 : g.bb[x] \in BasicBlock
  BY GraphFacts
<1> DEFINE b == [g.bb[q] EXCEPT !.pred = @ \ {p}]
           B == [g.bb EXCEPT ![q] = b]
<1>2. b \in BasicBlock /\ Frame(g.bb[q], b) /\ Rest(g.bb[q], b) /\ b.used = g.bb[q].used
      /\ b.pred = g.bb[q].pred \ {p}
  BY <1>1 DEF BasicBlock, Frame, Rest
<1> HIDE DEF b
<1>3. B \in [1 .. N + 1 -> BasicBlock] /\ B[q] = b /\ \A x \in 1 .. N + 1 : x # q => B[x] = g.bb[x]
  BY <1>2, <1>1 DEF Graph
<1>4. DelPred(g, q, p) = [g EXCEPT !.bb = B]
  BY DEF DelPred, b, Graph
<1> HIDE DEF B
<1>5. DelPred(g, q, p) \in Graph(N) /\ DelPred(g, q, p).ops = g.ops /\ DelPred(g, q, p).bb = B
  BY <1>3, <1>4, WithBlocks
<1> QED
  BY <1>1, <1>2, <1>3, <1>5 DEF Frame, Rest, Relinked, PredGone

(* ... and a block that leaves the graph.                                  *)
LEMMA RmFacts ==
  ASSUME NEW N \in Nat, NEW g \in Graph(N), NEW q \in 1 .. N + 1
  PROVE  BlockGone(N, g, Rm(g, q), q)
<1>1. /\ DOMAIN g.bb = 1 .. N + 1
      /\ \A x \in 1 .. N + 1 : g.bb[x] \in BasicBlock /\ g.bb[x].used \in BOOLEAN
  BY GraphFacts DEF BasicBlock
<1>2. CASE ~ g.bb[q].used
  <2>1. Rm(g, q) = g
    BY <1>2 DEF Rm
  <2>2. \A x \in 1 .. N + 1 : g.bb[x].used = (g.bb[x].used /\ x # q)
    BY <1>1, <1>2
  <2> QED
    BY <1>2, <2>1, <2>2 DEF Frame, Rest, Relinked, BlockGone
<1>3. CASE g.bb[q].used
  <2> DEFINE b(r) == [g.bb[r] EXCEPT !.used = @ /\ r # q,
                                     !.pred = IF r \in Succ(g, q) THEN @ \ {q} ELSE @]
             B == [r \in 1 .. N + 1 |-> b(r)]
  <2>1. ASSUME NEW x \in 1 .. N + 1
        PROVE  /\ b(x) \in BasicBlock /\ Frame(g.bb[x], b(x)) /\ Rest(g.bb[x], b(x))
               /\ b(x).used = (g.bb[x].used /\ x # q)
               /\ b(x).pred = IF x \in Succ(g, q) THEN g.bb[x].pred \ {q} ELSE g.bb[x].pred
    BY <1>1 DEF BasicBlock, Frame, Rest
  <2>2. Rm(g, q) = [g EXCEPT !.bb = B]
    BY <1>1, <1>3 DEF Rm
  <2> HIDE DEF b
  <2>3. B \in [1 .. N + 1 -> BasicBlock] /\ \A x \in 1 .. N + 1 : B[x] = b(x)
    BY <2>1
  <2> HIDE DEF B
  <2>4. Rm(g, q) \in Graph(N) /\ Rm(g, q).ops = g.ops /\ Rm(g, q).bb = B
    BY <2>2, <2>3, WithBlocks
  <2> QED
    BY <1>3, <2>1, <2>3, <2>4 DEF Relinked, BlockGone
<1> QED
  BY <1>2, <1>3

(* No rewriting of links touches an edge.                                  *)
LEMMA RelinkedTwice ==
  ASSUME NEW N, NEW g, NEW h, NEW k, Relinked(N, g, h), Relinked(N, h, k)
  PROVE  Relinked(N, g, k)
  BY DEF Relinked, Frame, Rest

LEMMA RelinkedSucc ==
  ASSUME NEW N, NEW g, NEW h, Relinked(N, g, h), NEW x \in 1 .. N + 1
  PROVE  Succ(h, x) = Succ(g, x)
  BY SuccIs DEF Relinked, Frame, Rest

(* Leave: q loses the link to p and, with the last one, its place.         *)
LEMMA LeaveFacts ==
  ASSUME NEW N \in Nat, NEW g \in Graph(N), NEW q \in 1 .. N + 1, NEW p \in Nat
  PROVE  HasLeft(N, g, Leave(g, p, q), p, q)
<1> DEFINE d == DelPred(g, q, p)
           r == RmIfDead(d, q)
<1>1. PredGone(N, g, d, q, p)
  BY DelPredFacts
<1>2. Leave(g, p, q) = r
  BY DEF Leave
<1> HIDE DEF d
<1>3. Succ(d, q) = Succ(g, q)
  BY <1>1, RelinkedSucc DEF PredGone
<1>4. \A x \in 1 .. N + 1 : g.bb[x].used \in BOOLEAN
  BY GraphFacts DEF BasicBlock
<1>5. CASE d.bb[q].pred = {} /\ q # 1
  <2>1. r = Rm(d, q)
    BY <1>5 DEF RmIfDead
  <2> HIDE DEF r
  <2>2. d \in Graph(N)
    BY <1>1 DEF PredGone, Relinked
  <2>3. BlockGone(N, d, r, q)
    BY <2>1, <2>2, RmFacts
  <2>4. Left(g, p, q) <=> g.bb[q].used
    BY <1>1, <1>5 DEF Left, PredGone
  <2>5. Relinked(N, g, r)
    BY <1>1, <2>3, RelinkedTwice DEF PredGone, BlockGone
  <2>6. \A x \in 1 .. N + 1 : r.bb[x].used = (g.bb[x].used /\ ~ (x = q /\ Left(g, p, q)))
    BY <1>1, <1>4, <2>3, <2>4 DEF PredGone, BlockGone
  <2>7. \A x \in 1 .. N + 1 : \A y : y \in r.bb[x].pred <=>
                   /\ y \in g.bb[x].pred
                   /\ ~ (x = q /\ y = p)
                   /\ ~ (Left(g, p, q) /\ x \in Succ(g, q) /\ y = q)
    BY <1>1, <1>3, <2>3, <2>4 DEF PredGone, BlockGone
  <2> QED
    BY <1>2, <2>5, <2>6, <2>7 DEF HasLeft
<1>6. CASE ~ (d.bb[q].pred = {} /\ q # 1)
  <2>1. r = d
    BY <1>6 DEF RmIfDead
  <2>2. ~ Left(g, p, q)
    BY <1>1, <1>6 DEF Left, PredGone
  <2> HIDE DEF r
  <2>3. \A x \in 1 .. N + 1 : d.bb[x].used = (g.bb[x].used /\ ~ (x = q /\ Left(g, p, q)))
    BY <1>1, <1>4, <2>2 DEF PredGone
  <2>4. \A x \in 1 .. N + 1 : \A y : y \in d.bb[x].pred <=>
                   /\ y \in g.bb[x].pred
                   /\ ~ (x = q /\ y = p)
                   /\ ~ (Left(g, p, q) /\ x \in Succ(g, q) /\ y = q)
    BY <1>1, <2>2 DEF PredGone
  <2> QED
    BY <1>1, <1>2, <2>1, <2>3, <2>4 DEF PredGone, HasLeft
<1> QED
  BY <1>5, <1>6
-----------------------------------------------------------------------------
(* The graph is as Exact says, if the blocks p leads to were those of T.   *)
Toward(g, p, T) ==
  \A q \in Used(g) :
    /\ g.bb[q].pred \subseteq Used(g)
    /\ \A x \in Used(g) : x # p => (x \in g.bb[q].pred <=> q \in Succ(g, x))
    /\ p \in Used(g) => (p \in g.bb[q].pred <=> q \in T)
    /\ IF q = p THEN T \subseteq Used(g) ELSE Succ(g, q) \subseteq Used(g)

(* Exact is Toward with the edges p has.                                   *)
LEMMA ExactToward ==
  ASSUME NEW g, NEW p, Exact(g)
  PROVE  Toward(g, p, Succ(g, p))
  BY DEF Exact, Toward

LEMMA TowardExact ==
  ASSUME NEW g, NEW p, Toward(g, p, Succ(g, p))
  PROVE  Exact(g)
  BY DEF Exact, Toward

(* When p leaves q, all is as if q were no block p leads to any more: a    *)
(* block that goes takes no link along that another needs.                 *)
LEMMA LeaveToward ==
  ASSUME NEW N \in Nat, NEW g \in Graph(N), NEW p \in 1 .. N + 1, NEW q \in Used(g),
         NEW T, Toward(g, p, T), q = p => T \subseteq Succ(g, p)
  PROVE  Toward(Leave(g, p, q), p, T \ {q})
<1> DEFINE h == Leave(g, p, q)
<1>1. DOMAIN g.bb = 1 .. N + 1 /\ q \in 1 .. N + 1
  BY GraphFacts DEF Used
<1>2. HasLeft(N, g, h, p, q)
  BY <1>1, LeaveFacts
<1> HIDE DEF h
<1>3. DOMAIN h.bb = 1 .. N + 1
  BY <1>2, GraphFacts DEF HasLeft, Relinked
<1>4. \A x \in 1 .. N + 1 : Succ(h, x) = Succ(g, x)
  BY <1>2, RelinkedSucc DEF HasLeft
<1>5. \A x : x \in Used(h) <=> x \in Used(g) /\ ~ (x = q /\ Left(g, p, q))
  BY <1>1, <1>2, <1>3 DEF Used, HasLeft
<1>6. Left(g, p, q) => \A y \in g.bb[q].pred : y = p
  BY DEF Left
<1>7. \A z \in Used(g) : z \in 1 .. N + 1
  BY <1>1 DEF Used
<1>8. ASSUME NEW z \in Used(h)
      PROVE  h.bb[z].pred \subseteq Used(h)
  <2>1. SUFFICES ASSUME NEW y \in h.bb[z].pred, y = q, Left(g, p, q)
                 PROVE  FALSE
    BY <1>2, <1>5, <1>7 DEF Toward, HasLeft
  <2>2. y \in g.bb[z].pred /\ z \notin Succ(g, q) /\ z \in Used(g) /\ z # q
    BY <1>2, <1>5, <1>7, <2>1 DEF HasLeft
  <2>3. CASE q # p
    BY <2>1, <2>2, <2>3 DEF Toward
  <2>4. CASE q = p
    BY <2>1, <2>2, <2>4 DEF Toward
  <2> QED
    BY <2>3, <2>4
<1>9. ASSUME NEW z \in Used(h), NEW x \in Used(h), x # p
      PROVE  x \in h.bb[z].pred <=> z \in Succ(h, x)
  <2>1. x \in g.bb[z].pred <=> z \in Succ(g, x)
    BY <1>5, <1>9 DEF Toward
  <2>2. ~ (Left(g, p, q) /\ x = q)
    BY <1>5
  <2> QED
    BY <1>2, <1>4, <1>5, <1>7, <1>9, <2>1, <2>2 DEF HasLeft
<1>10. ASSUME NEW z \in Used(h), p \in Used(h)
       PROVE  p \in h.bb[z].pred <=> z \in T \ {q}
  <2>1. p \in g.bb[z].pred <=> z \in T
    BY <1>5, <1>10 DEF Toward
  <2>2. ~ (Left(g, p, q) /\ p = q)
    BY <1>5, <1>10
  <2> QED
    BY <1>2, <1>5, <1>7, <2>1, <2>2 DEF HasLeft
<1>11. ASSUME NEW z \in Used(h), z = p
       PROVE  T \ {q} \subseteq Used(h)
  BY <1>5, <1>11 DEF Toward
<1>12. ASSUME NEW z \in Used(h), z # p
       PROVE  Succ(h, z) \subseteq Used(h)
  <2>1. z \in Used(g) /\ Succ(g, z) \subseteq Used(g)
    BY <1>5, <1>12 DEF Toward
  <2>2. q \in Succ(g, z) => z \in g.bb[q].pred
    BY <1>12, <2>1 DEF Toward
  <2> QED
    BY <1>4, <1>5, <1>6, <1>7, <1>12, <2>1, <2>2
<1> QED
  BY <1>8, <1>9, <1>10, <1>11, <1>12 DEF Toward, h

(* What is said of p alone does not matter.                                *)
LEMMA EditToward ==
  ASSUME NEW N \in Nat, NEW g \in Graph(N), NEW h \in Graph(N), NEW p \in 1 .. N + 1,
         NEW T, Toward(g, p, T),
         \A x \in 1 .. N + 1 :
           /\ Links(g.bb[x], h.bb[x]) /\ Frame(g.bb[x], h.bb[x])
           /\ x # p => Rest(g.bb[x], h.bb[x])
  PROVE  Toward(h, p, T)
<1>1. DOMAIN g.bb = 1 .. N + 1 /\ DOMAIN h.bb = 1 .. N + 1
  BY GraphFacts
<1>2. \A x \in 1 .. N + 1 : x # p => Succ(h, x) = Succ(g, x)
  BY SuccIs DEF Frame, Rest
<1>3. Used(h) = Used(g) /\ Used(g) \subseteq 1 .. N + 1
  BY <1>1 DEF Used, Links
<1>4. \A x \in Used(g) : h.bb[x].pred = g.bb[x].pred
  BY <1>3 DEF Links
<1> QED
  BY <1>2, <1>3, <1>4 DEF Toward

(* ... and r is one when it has p as a predecessor.                        *)
LEMMA AddPredToward ==
  ASSUME NEW N \in Nat, NEW g \in Graph(N), NEW p \in 1 .. N + 1, NEW r \in 1 .. N + 1,
         NEW T, Toward(g, p, T), p \in Used(g) <=> r \in Used(g)
  PROVE  Toward(AddPred(g, r, p), p, T \cup {r})
<1> DEFINE h == AddPred(g, r, p)
<1>1. DOMAIN g.bb = 1 .. N + 1
  BY GraphFacts
<1>2. PredAdded(N, g, h, r, p)
  BY AddPredFacts
<1> HIDE DEF h
<1>3. DOMAIN h.bb = 1 .. N + 1
  BY <1>2, GraphFacts DEF PredAdded, Relinked
<1>4. \A x \in 1 .. N + 1 : Succ(h, x) = Succ(g, x)
  BY <1>2, RelinkedSucc DEF PredAdded
<1>5. Used(h) = Used(g) /\ Used(g) \subseteq 1 .. N + 1
  BY <1>1, <1>2, <1>3 DEF Used, PredAdded
<1>6. \A z \in Used(g) : \A y : y \in h.bb[z].pred <=> y \in g.bb[z].pred \/ (z = r /\ y = p)
  BY <1>2, <1>5 DEF PredAdded
<1>7. \A z \in Used(h) : h.bb[z].pred \subseteq Used(h)
  BY <1>5, <1>6 DEF Toward
<1>8. \A z, x \in Used(h) : x # p => (x \in h.bb[z].pred <=> z \in Succ(h, x))
  BY <1>4, <1>5, <1>6 DEF Toward
<1>9. \A z \in Used(h) : p \in Used(h) => (p \in h.bb[z].pred <=> z \in T \cup {r})
  BY <1>5, <1>6 DEF Toward
<1>10. \A z \in Used(h) :
         IF z = p THEN T \cup {r} \subseteq Used(h) ELSE Succ(h, z) \subseteq Used(h)
  BY <1>4, <1>5 DEF Toward
<1> QED
  BY <1>7, <1>8, <1>9, <1>10 DEF Toward, h

(* Sound, but for what the blocks know of each other.                      *)
Shaped(g, P, C) ==
  /\ InOrder(g, P) /\ Disjoint(g, P) /\ JumpsLast(g, P)
  /\ \A p \in Used(g) : EdgesFit(g, p, C) /\ Protected(g, p, C)

(* Sound in two halves.                                                    *)
LEMMA SoundParts ==
  ASSUME NEW g, NEW P, NEW C
  PROVE  Sound(g, P, C) <=> Shaped(g, P, C) /\ Exact(g)
  BY DEF Sound, Shaped

(* h is g, but for the jump at the end of p and where that leads to, and   *)
(* for the blocks in use, which are no more than there were.               *)
Near(N, g, h, p) ==
  /\ h \in Graph(N)
  /\ \A x \in 1 .. N + 1 :
       /\ Frame(g.bb[x], h.bb[x])
       /\ h.bb[x].used => g.bb[x].used
       /\ x # p => Rest(g.bb[x], h.bb[x])
  /\ \A i \in 1 .. N : i # LastLine(g.bb[p]) => h.ops[i] = g.ops[i]

(* Where the blocks of the list are.                                       *)
LEMMA UsedFacts ==
  ASSUME NEW N \in Nat, NEW g \in Graph(N), NEW P, NEW C, Sound(g, P, C), NEW x \in P
  PROVE  /\ x \in 1 .. N /\ g.bb[x].start = x /\ g.bb[x].len \in Nat
         /\ x + g.bb[x].len <= N + 1
         /\ LastLine(g.bb[x]) = x + g.bb[x].len - 1
<1>1. x \in DOMAIN g.ops /\ g.bb[x].start = x /\ x + g.bb[x].len <= Len(g.ops) + 1
  BY DEF Sound, InOrder, Disjoint
<1>2. x \in 1 .. N /\ g.bb[x] \in BasicBlock /\ Len(g.ops) = N
  BY <1>1, GraphFacts
<1>3. g.bb[x].len \in Nat
  BY <1>2 DEF BasicBlock
<1> QED
  BY <1>1, <1>2, <1>3 DEF LastLine

LEMMA UsedListed ==
  ASSUME NEW g, NEW P, NEW C, Sound(g, P, C), NEW x \in Used(g)
  PROVE  x \in P
  BY DEF Sound, InOrder

(* The lines of different blocks.                                          *)
LEMMA Apart ==
  ASSUME NEW N \in Nat, NEW g \in Graph(N), NEW P, NEW C, Sound(g, P, C),
         NEW p \in P, NEW x \in P, x # p, g.bb[p].len > 0, g.bb[x].len > 0 \/ g.bb[x].used
  PROVE  /\ LastLine(g.bb[p]) \in p .. N /\ x \notin p .. LastLine(g.bb[p])
         /\ g.bb[x].len > 0 => LastLine(g.bb[x]) \notin p .. LastLine(g.bb[p])
<1>1. /\ x \in 1 .. N /\ p \in 1 .. N /\ g.bb[x].len \in Nat /\ g.bb[p].len \in Nat
      /\ LastLine(g.bb[x]) = x + g.bb[x].len - 1
      /\ LastLine(g.bb[p]) = p + g.bb[p].len - 1 /\ p + g.bb[p].len <= N + 1
  BY UsedFacts
<1>2. /\ p < x => p + g.bb[p].len <= x
      /\ x < p => x + g.bb[x].len <= p
  BY DEF Sound, Disjoint
<1>3. CASE p < x
  BY <1>1, <1>2, <1>3
<1>4. CASE x < p
  BY <1>1, <1>2, <1>4
<1> QED
  BY <1>1, <1>3, <1>4

(* The list and the lines of the blocks, when no block grows.              *)
LEMMA OrderKept ==
  ASSUME NEW N \in Nat, NEW g \in Graph(N), NEW h \in Graph(N), NEW P,
         InOrder(g, P), Disjoint(g, P),
         \A x \in 1 .. N + 1 :
           /\ Frame(g.bb[x], h.bb[x])
           /\ h.bb[x].used => g.bb[x].used
           /\ h.bb[x].len <= g.bb[x].len
  PROVE  InOrder(h, P) /\ Disjoint(h, P)
<1>1. /\ DOMAIN g.bb = 1 .. N + 1 /\ DOMAIN h.bb = 1 .. N + 1
      /\ DOMAIN g.ops = 1 .. N /\ DOMAIN h.ops = 1 .. N /\ Len(h.ops) = N /\ Len(g.ops) = N
      /\ \A x \in 1 .. N + 1 : g.bb[x].len \in Nat /\ h.bb[x].len \in Nat
  BY GraphFacts DEF BasicBlock
<1>2. InOrder(h, P)
  BY <1>1 DEF InOrder, Frame, Used
<1>3. P \subseteq 1 .. N
  BY <1>1 DEF InOrder
<1>4. ASSUME NEW p \in P
      PROVE  p + h.bb[p].len <= N + 1
  <2>1. p + g.bb[p].len <= N + 1
    BY <1>1 DEF Disjoint
  <2> QED
    BY <1>1, <1>3, <2>1
<1>5. ASSUME NEW p \in P, NEW q \in P, p < q, h.bb[q].used \/ h.bb[q].len > 0
      PROVE  p + h.bb[p].len <= q
  <2>1. g.bb[q].used \/ g.bb[q].len > 0
    BY <1>1, <1>3, <1>5
  <2>2. p + g.bb[p].len <= q
    BY <1>5, <2>1 DEF Disjoint
  <2> QED
    BY <1>1, <1>3, <2>2
<1>6. Disjoint(h, P)
  BY <1>1, <1>4, <1>5 DEF Disjoint
<1> QED
  BY <1>2, <1>6

(* What does not change for the other blocks in use.                       *)
LEMMA OthersKept ==
  ASSUME NEW N \in Nat, NEW g \in Graph(N), NEW P, NEW C, Sound(g, P, C),
         NEW p \in Used(g), g.bb[p].len > 0, NEW h, Near(N, g, h, p),
         NEW x \in Used(h), x # p
  PROVE  EdgesFit(h, x, C) /\ Protected(h, x, C)
<1>1. DOMAIN g.bb = 1 .. N + 1 /\ DOMAIN h.bb = 1 .. N + 1
  BY GraphFacts DEF Near
<1>2. x \in 1 .. N + 1 /\ x \in Used(g) /\ Used(h) \subseteq Used(g)
  BY <1>1 DEF Used, Near
<1>3. x \in P /\ p \in P
  BY <1>2, UsedListed
<1>4. /\ x \in 1 .. N /\ g.bb[x].start = x /\ g.bb[x].len \in Nat
      /\ x + g.bb[x].len <= N + 1 /\ LastLine(g.bb[x]) = x + g.bb[x].len - 1
  BY <1>3, UsedFacts
<1>5. Frame(g.bb[x], h.bb[x]) /\ Rest(g.bb[x], h.bb[x])
  BY <1>2 DEF Near
<1>6. /\ x # LastLine(g.bb[p])
      /\ g.bb[x].len > 0 => LastLine(g.bb[x]) # LastLine(g.bb[p])
  BY <1>2, <1>3, Apart DEF Used
<1>7. g.bb[x].len > 0 => LastOp(h, x) = LastOp(g, x)
  BY <1>4, <1>5, <1>6 DEF Near, LastOp, LastLine, Frame, Rest
<1>8. FirstOp(h, x) = FirstOp(g, x)
  BY <1>4, <1>5, <1>6 DEF Near, FirstOp, Frame
<1>9. EdgesFit(g, x, C) /\ Protected(g, x, C)
  BY <1>2 DEF Sound
<1>10. EdgesFit(h, x, C)
  BY <1>2, <1>4, <1>5, <1>7, <1>9 DEF EdgesFit, Rest
<1>11. g.bb[x].jmp_tc # 0 => g.bb[x].jmp_tc \in 1 .. N + 1
  BY <1>1, <1>2, SuccIs DEF Sound, Exact, Used
<1>12. Protected(h, x, C)
  BY <1>2, <1>4, <1>5, <1>8, <1>9, <1>11 DEF Protected, Frame, Near
<1> QED
  BY <1>10, <1>12

LEMMA NearOrder ==
  ASSUME NEW N \in Nat, NEW g \in Graph(N), NEW P, NEW C, Sound(g, P, C),
         NEW p \in Used(g), NEW h, Near(N, g, h, p), h.bb[p].len <= g.bb[p].len
  PROVE  InOrder(h, P) /\ Disjoint(h, P)
<1>1. \A x \in 1 .. N + 1 : g.bb[x].len \in Nat
  BY GraphFacts DEF BasicBlock
<1>2. \A x \in 1 .. N + 1 :
           /\ Frame(g.bb[x], h.bb[x])
           /\ h.bb[x].used => g.bb[x].used
           /\ h.bb[x].len <= g.bb[x].len
  BY <1>1 DEF Near, Rest
<1> QED
  BY <1>2, OrderKept DEF Sound, Near

(* The jump is rewritten, or gives way to an instruction that is none.     *)
LEMMA JumpKept ==
  ASSUME NEW N \in Nat, NEW g \in Graph(N), NEW P, NEW C, Sound(g, P, C),
         NEW p \in Used(g), g.bb[p].len > 0, NEW h, Near(N, g, h, p),
         h.bb[p].len = g.bb[p].len,
         LastOp(h, p).code = "FREE" => LastOp(h, p) = LastOp(g, p),
         p \in Used(h) => EdgesFit(h, p, C)
  PROVE  Shaped(h, P, C)
<1>1. h \in Graph(N) /\ DOMAIN g.bb = 1 .. N + 1 /\ DOMAIN h.bb = 1 .. N + 1
      /\ DOMAIN h.ops = 1 .. N /\ DOMAIN g.ops = 1 .. N
  BY GraphFacts DEF Near
<1>2. p \in P /\ p \in 1 .. N + 1 /\ Used(h) \subseteq Used(g)
  BY <1>1, UsedListed DEF Used, Near
<1>3. InOrder(h, P) /\ Disjoint(h, P)
  BY <1>1, <1>2, NearOrder, GraphFacts DEF BasicBlock
<1>4. /\ p \in 1 .. N /\ g.bb[p].start = p /\ g.bb[p].len \in Nat
      /\ p + g.bb[p].len <= N + 1 /\ LastLine(g.bb[p]) = p + g.bb[p].len - 1
  BY <1>2, UsedFacts
<1>5. LastLine(h.bb[p]) = LastLine(g.bb[p]) /\ h.bb[p].start = p
  BY <1>2, <1>4 DEF Near, Frame, LastLine
<1>6. JumpsLast(h, P)
  <2>1. SUFFICES ASSUME NEW i \in 1 .. N, h.ops[i].code \in Jumps
                 PROVE  \E q \in P : h.bb[q].len > 0 /\ i = LastLine(h.bb[q])
    BY <1>1 DEF JumpsLast
  <2>2. CASE i = LastLine(g.bb[p])
    BY <1>2, <1>5, <2>2
  <2>3. CASE i # LastLine(g.bb[p])
    <3>1. g.ops[i].code \in Jumps
      BY <2>1, <2>3 DEF Near
    <3>2. PICK q \in P : g.bb[q].len > 0 /\ i = LastLine(g.bb[q])
      BY <1>1, <3>1 DEF Sound, JumpsLast
    <3>3. q \in 1 .. N + 1 /\ q # p
      BY <2>3, <3>2, UsedFacts
    <3> QED
      BY <3>2, <3>3 DEF Near, Rest, Frame, LastLine
  <2> QED
    BY <2>2, <2>3
<1>7. \A x \in Used(h) : x # p => EdgesFit(h, x, C) /\ Protected(h, x, C)
  BY OthersKept
<1>8. ASSUME p \in Used(h)
      PROVE  Protected(h, p, C)
  <2>1. Protected(g, p, C) /\ Succ(g, p) \subseteq Used(g)
    BY DEF Sound, Exact
  <2>2. h.bb[p].jmp_tc = g.bb[p].jmp_tc /\ h.bb[p].protect = g.bb[p].protect
    BY <1>2 DEF Near, Frame
  <2>3. h.bb[p].jmp_tc # 0 => h.bb[p].jmp_tc \in C /\ h.bb[p].protect
            /\ h.bb[h.bb[p].jmp_tc].protect
    <3>1. g.bb[p].jmp_tc # 0 => g.bb[p].jmp_tc \in 1 .. N + 1
      BY <1>1, <2>1, SuccIs DEF Used
    <3> QED
      BY <2>1, <2>2, <3>1 DEF Protected, Near, Frame
  <2>4. h.bb[p].protect => FirstOp(h, p).code # "FREE"
    <3>1. CASE g.bb[p].len = 1
      <4>1. FirstOp(h, p) = LastOp(h, p) /\ FirstOp(g, p) = LastOp(g, p)
        BY <1>4, <1>5, <3>1 DEF FirstOp, LastOp
      <4> QED
        BY <2>1, <2>2, <4>1 DEF Protected
    <3>2. CASE g.bb[p].len # 1
      <4>1. FirstOp(h, p) = FirstOp(g, p)
        BY <1>4, <1>5, <3>2 DEF FirstOp, Near
      <4> QED
        BY <2>1, <2>2, <4>1 DEF Protected
    <3> QED
      BY <3>1, <3>2
  <2> QED
    BY <2>3, <2>4 DEF Protected
<1> QED
  BY <1>3, <1>6, <1>7, <1>8 DEF Shaped

(* The jump is gone: the block falls through.                              *)
LEMMA JumpGone ==
  ASSUME NEW N \in Nat, NEW g \in Graph(N), NEW P, NEW C, Sound(g, P, C),
         NEW p \in Used(g), g.bb[p].len > 0, NEW h, Near(N, g, h, p),
         h.bb[p].len = g.bb[p].len - 1,
         h.ops[LastLine(g.bb[p])].code = "NOP",
         h.bb[p].follow \notin C \cup {0}
  PROVE  Shaped(h, P, C)
<1>1. h \in Graph(N) /\ DOMAIN g.bb = 1 .. N + 1 /\ DOMAIN h.bb = 1 .. N + 1
      /\ DOMAIN h.ops = 1 .. N /\ DOMAIN g.ops = 1 .. N
  BY GraphFacts DEF Near
<1>2. p \in P /\ p \in 1 .. N + 1 /\ Used(h) \subseteq Used(g)
  BY <1>1, UsedListed DEF Used, Near
<1>4. /\ p \in 1 .. N /\ g.bb[p].start = p /\ g.bb[p].len \in Nat
      /\ p + g.bb[p].len <= N + 1 /\ LastLine(g.bb[p]) = p + g.bb[p].len - 1
  BY <1>2, UsedFacts
<1>3. InOrder(h, P) /\ Disjoint(h, P)
  BY <1>1, <1>2, <1>4, NearOrder
<1>5. LastLine(h.bb[p]) = LastLine(g.bb[p]) - 1 /\ h.bb[p].start = p
  BY <1>2, <1>4 DEF Near, Frame, LastLine
<1>6. JumpsLast(h, P)
  <2>1. SUFFICES ASSUME NEW i \in 1 .. N, h.ops[i].code \in Jumps
                 PROVE  \E q \in P : h.bb[q].len > 0 /\ i = LastLine(h.bb[q])
    BY <1>1 DEF JumpsLast
  <2>3. i # LastLine(g.bb[p])
    BY <2>1 DEF Jumps, CondJumps
  <2>4. g.ops[i].code \in Jumps
    BY <2>1, <2>3 DEF Near
  <2>5. PICK q \in P : g.bb[q].len > 0 /\ i = LastLine(g.bb[q])
    BY <1>1, <2>4 DEF Sound, JumpsLast
  <2>6. q \in 1 .. N + 1 /\ q # p
    BY <2>3, <2>5, UsedFacts
  <2> QED
    BY <2>5, <2>6 DEF Near, Rest, Frame, LastLine
<1>7. \A x \in Used(h) : x # p => EdgesFit(h, x, C) /\ Protected(h, x, C)
  BY OthersKept
<1>8. ASSUME p \in Used(h)
      PROVE  Protected(h, p, C)
  <2>1. Protected(g, p, C) /\ Succ(g, p) \subseteq Used(g)
    BY DEF Sound, Exact
  <2>2. h.bb[p].jmp_tc = g.bb[p].jmp_tc /\ h.bb[p].protect = g.bb[p].protect
    BY <1>2 DEF Near, Frame
  <2>3. h.bb[p].jmp_tc # 0 => h.bb[p].jmp_tc \in C /\ h.bb[p].protect
            /\ h.bb[h.bb[p].jmp_tc].protect
    <3>1. g.bb[p].jmp_tc # 0 => g.bb[p].jmp_tc \in 1 .. N + 1
      BY <1>1, <2>1, SuccIs DEF Used
    <3> QED
      BY <2>1, <2>2, <3>1 DEF Protected, Near, Frame
  <2>4. h.bb[p].protect => FirstOp(h, p).code # "FREE"
    <3>1. CASE g.bb[p].len = 1
      <4>1. FirstOp(h, p).code = "NOP"
        BY <1>4, <1>5, <3>1 DEF FirstOp
      <4> QED
        BY <4>1
    <3>2. CASE g.bb[p].len # 1
      <4>1. FirstOp(h, p) = FirstOp(g, p)
        BY <1>4, <1>5, <3>2 DEF FirstOp, Near
      <4> QED
        BY <2>1, <2>2, <4>1 DEF Protected
    <3> QED
      BY <3>1, <3>2
  <2> QED
    BY <2>3, <2>4 DEF Protected
<1>9. ASSUME h.bb[p].len > 0
      PROVE  LastOp(h, p).code \notin Jumps
  <2>1. SUFFICES ASSUME LastOp(h, p).code \in Jumps
                 PROVE  FALSE
    OBVIOUS
  <2>2. g.ops[LastLine(g.bb[p]) - 1].code \in Jumps
    BY <1>4, <1>5, <1>9, <2>1 DEF Near, LastOp
  <2>3. PICK q \in P : g.bb[q].len > 0 /\ LastLine(g.bb[p]) - 1 = LastLine(g.bb[q])
    BY <1>1, <1>4, <1>9, <2>2 DEF Sound, JumpsLast
  <2>4. CASE q = p
    BY <1>4, <2>3, <2>4
  <2>5. CASE q # p
    BY <1>2, <1>4, <1>9, <2>3, <2>5, Apart
  <2> QED
    BY <2>4, <2>5
<1>10. EdgesFit(h, p, C)
  <2>1. /\ "JMP" \in Jumps /\ "JMPZNZ" \in Jumps /\ CondJumps \subseteq Jumps
    BY DEF Jumps
  <2> QED
    BY <1>4, <1>9, <2>1 DEF EdgesFit
<1> QED
  BY <1>3, <1>6, <1>7, <1>8, <1>10 DEF Shaped

(* h is g, but for the last line of p and where p leads to.                *)
Edited(N, g, h, p) ==
  /\ h \in Graph(N)
  /\ \A x \in 1 .. N + 1 :
       Frame(g.bb[x], h.bb[x]) /\ Links(g.bb[x], h.bb[x]) /\ (x # p => Rest(g.bb[x], h.bb[x]))
  /\ \A i \in 1 .. N : i # LastLine(g.bb[p]) => h.ops[i] = g.ops[i]

Leads(b, len, j1, j2, je, f) ==
  b.len = len /\ b.jmp_1 = j1 /\ b.jmp_2 = j2 /\ b.jmp_ext = je /\ b.follow = f

(* ... they are o, and the given edges.                                    *)
Becomes(N, g, h, p, o, len, j1, j2, je, f) ==
  /\ Edited(N, g, h, p) /\ h.ops[LastLine(g.bb[p])] = o
  /\ Leads(h.bb[p], len, j1, j2, je, f)

(* Op makes an instruction.                                                *)
LEMMA OpTyped ==
  ASSUME NEW code \in Codes
  PROVE  Op(code) \in Instruction /\ Op(code).code = code
<1> DEFINE V == [t : {"undef", "str", "bool"}, s : Seq(STRING)]
           O == [k : {"UNUSED", "CONST", "TMP", "VAR", "CV"}, v : Nat, c : V]
<1>1. <<>> \in Seq(STRING)
  OBVIOUS
<1>2. Undef \in V
  BY <1>1 DEF Undef
<1> HIDE DEF V
<1>3. Unused \in O
  BY <1>2 DEF Unused, Operand
<1> HIDE DEF O
<1>4. Op(code) \in [code : Codes, op1 : O, op2 : O, res : O, drop : BOOLEAN, to : Nat,
                    ext : Nat, mark : BOOLEAN]
  BY <1>3 DEF Op
<1>5. Op(code).code = code
  BY DEF Op
<1> QED
  BY <1>4, <1>5 DEF Instruction, O, V

LEMMA OpsTyped == \A code \in {"NOP", "JMP"} : Op(code) \in Instruction /\ Op(code).code = code
  BY OpTyped DEF Codes

Edit(g, p, o, c) == [SetLast(g, p, o) EXCEPT !.bb[p] = c]

(* A last line and a block for p: what the rules make of a graph.          *)
LEMMA EditFacts ==
  ASSUME NEW N \in Nat, NEW g \in Graph(N), NEW p \in 1 .. N + 1,
         LastLine(g.bb[p]) \in 1 .. N, NEW o \in Instruction, NEW c \in BasicBlock,
         Frame(g.bb[p], c), Links(g.bb[p], c)
  PROVE  Becomes(N, g, Edit(g, p, o, c), p, o, c.len, c.jmp_1, c.jmp_2, c.jmp_ext, c.follow)
<1> DEFINE s == SetLast(g, p, o)
           B == [s.bb EXCEPT ![p] = c]
           h == Edit(g, p, o, c)
<1>1. /\ s \in Graph(N) /\ s.bb = g.bb /\ s.ops[LastLine(g.bb[p])] = o
      /\ \A j \in 1 .. N : j # LastLine(g.bb[p]) => s.ops[j] = g.ops[j]
  BY WithOp DEF SetLast
<1>2. h = [s EXCEPT !.bb = B]
  BY <1>1 DEF Edit
<1> HIDE DEF s, h
<1>3. \A x \in 1 .. N + 1 : s.bb[x] \in BasicBlock
  BY <1>1, GraphFacts
<1>4. B \in [1 .. N + 1 -> BasicBlock] /\ B[p] = c /\ \A x \in 1 .. N + 1 : x # p => B[x] = s.bb[x]
  BY <1>1, <1>3 DEF Graph
<1> HIDE DEF B
<1>5. h \in Graph(N) /\ h.ops = s.ops /\ h.bb = B
  BY <1>1, <1>2, <1>4, WithBlocks
<1>6. Edited(N, g, h, p) /\ h.bb[p] = c /\ h.ops[LastLine(g.bb[p])] = o
  BY <1>1, <1>4, <1>5 DEF Edited, Frame, Rest, Links
<1>7. Becomes(N, g, h, p, o, c.len, c.jmp_1, c.jmp_2, c.jmp_ext, c.follow)
  BY <1>6 DEF Becomes, Leads
<1> QED
  BY <1>7 DEF h

(* The forms the rules write it in: the JMP is dropped, ...                *)
LEMMA JumpFalls ==
  ASSUME NEW N \in Nat, NEW g \in Graph(N), NEW p \in 1 .. N + 1, LastLine(g.bb[p]) \in 1 .. N,
         NEW f \in Nat, g.bb[p].len > 0
  PROVE  Becomes(N, g, [DropJump(g, p) EXCEPT !.bb[p].follow = f, !.bb[p].jmp_1 = 0], p, Op("NOP"),
                 g.bb[p].len - 1, 0, g.bb[p].jmp_2, g.bb[p].jmp_ext, f)
<1>1. g.bb[p] \in BasicBlock
  BY GraphFacts
<1>2. g.bb[p].len - 1 \in Nat
  BY <1>1 DEF BasicBlock
<1> DEFINE b == g.bb[p]
           c == [b EXCEPT !.len = b.len - 1, !.follow = f, !.jmp_1 = 0]
<1>3. /\ c \in BasicBlock /\ Frame(g.bb[p], c) /\ Links(g.bb[p], c)
      /\ Leads(c, g.bb[p].len - 1, 0, g.bb[p].jmp_2, g.bb[p].jmp_ext, f)
  BY <1>1, <1>2 DEF BasicBlock, Frame, Links, Leads
<1>4. [DropJump(g, p) EXCEPT !.bb[p].follow = f, !.bb[p].jmp_1 = 0] = Edit(g, p, Op("NOP"), c)
  BY <1>1 DEF DropJump, SetToNop, SetLast, Graph, BasicBlock, Edit
<1> HIDE DEF c
<1>5. Becomes(N, g, Edit(g, p, Op("NOP"), c), p, Op("NOP"), c.len, c.jmp_1, c.jmp_2, c.jmp_ext,
          c.follow)
  BY <1>3, EditFacts, OpsTyped
<1> QED
  BY <1>3, <1>4, <1>5 DEF Leads

(* ... a conditional jump is dropped, ...                                  *)
LEMMA CondFalls ==
  ASSUME NEW N \in Nat, NEW g \in Graph(N), NEW p \in 1 .. N + 1, LastLine(g.bb[p]) \in 1 .. N,
         g.bb[p].len > 0
  PROVE  Becomes(N, g, [DropJump(g, p) EXCEPT !.bb[p].jmp_2 = 0], p, Op("NOP"),
                 g.bb[p].len - 1, g.bb[p].jmp_1, 0, g.bb[p].jmp_ext, g.bb[p].follow)
<1>1. g.bb[p] \in BasicBlock
  BY GraphFacts
<1>2. g.bb[p].len - 1 \in Nat
  BY <1>1 DEF BasicBlock
<1> DEFINE b == g.bb[p]
           c == [b EXCEPT !.len = b.len - 1, !.jmp_2 = 0]
<1>3. /\ c \in BasicBlock /\ Frame(g.bb[p], c) /\ Links(g.bb[p], c)
      /\ Leads(c, g.bb[p].len - 1, g.bb[p].jmp_1, 0, g.bb[p].jmp_ext, g.bb[p].follow)
  BY <1>1, <1>2 DEF BasicBlock, Frame, Links, Leads
<1>4. [DropJump(g, p) EXCEPT !.bb[p].jmp_2 = 0] = Edit(g, p, Op("NOP"), c)
  BY <1>1 DEF DropJump, SetToNop, SetLast, Graph, BasicBlock, Edit
<1> HIDE DEF c
<1>5. Becomes(N, g, Edit(g, p, Op("NOP"), c), p, Op("NOP"), c.len, c.jmp_1, c.jmp_2, c.jmp_ext,
          c.follow)
  BY <1>3, EditFacts, OpsTyped
<1> QED
  BY <1>3, <1>4, <1>5 DEF Leads

(* ... becomes a JMP, ...                                                  *)
LEMMA JmpMade ==
  ASSUME NEW N \in Nat, NEW g \in Graph(N), NEW p \in 1 .. N + 1, LastLine(g.bb[p]) \in 1 .. N,
         NEW r \in Nat
  PROVE  Becomes(N, g, MakeJmp(g, p, r), p, Op("JMP"), g.bb[p].len, r, 0, 0, 0)
<1>1. g.bb[p] \in BasicBlock
  BY GraphFacts
<1> DEFINE b == g.bb[p]
           c == [b EXCEPT !.jmp_1 = r, !.jmp_2 = 0, !.jmp_ext = 0, !.follow = 0]
<1>3. /\ c \in BasicBlock /\ Frame(g.bb[p], c) /\ Links(g.bb[p], c)
      /\ Leads(c, g.bb[p].len, r, 0, 0, 0)
  BY <1>1 DEF BasicBlock, Frame, Links, Leads
<1>4. MakeJmp(g, p, r) = Edit(g, p, Op("JMP"), c)
  BY <1>1 DEF MakeJmp, SetLast, Graph, BasicBlock, Edit
<1> HIDE DEF c
<1>5. Becomes(N, g, Edit(g, p, Op("JMP"), c), p, Op("JMP"), c.len, c.jmp_1, c.jmp_2, c.jmp_ext,
          c.follow)
  BY <1>3, EditFacts, OpsTyped
<1> QED
  BY <1>3, <1>4, <1>5 DEF Leads

(* ... another jump with other edges, ...                                  *)
LEMMA JumpReplaced ==
  ASSUME NEW N \in Nat, NEW g \in Graph(N), NEW p \in 1 .. N + 1, LastLine(g.bb[p]) \in 1 .. N,
         NEW o \in Instruction, NEW f \in Nat, NEW j2 \in Nat, NEW je \in Nat
  PROVE  Becomes(N, g, [SetLast(g, p, o) EXCEPT !.bb[p] =
                          [@ EXCEPT !.follow = f, !.jmp_2 = j2, !.jmp_ext = je]], p, o,
                 g.bb[p].len, g.bb[p].jmp_1, j2, je, f)
<1>1. g.bb[p] \in BasicBlock
  BY GraphFacts
<1> DEFINE b == g.bb[p]
           c == [b EXCEPT !.follow = f, !.jmp_2 = j2, !.jmp_ext = je]
<1>3. /\ c \in BasicBlock /\ Frame(g.bb[p], c) /\ Links(g.bb[p], c)
      /\ Leads(c, g.bb[p].len, g.bb[p].jmp_1, j2, je, f)
  BY <1>1 DEF BasicBlock, Frame, Links, Leads
<1>4. [SetLast(g, p, o) EXCEPT !.bb[p] =
                          [@ EXCEPT !.follow = f, !.jmp_2 = j2, !.jmp_ext = je]] = Edit(g, p, o, c)
  BY <1>1 DEF SetLast, Graph, BasicBlock, Edit
<1> HIDE DEF c
<1>5. Becomes(N, g, Edit(g, p, o, c), p, o, c.len, c.jmp_1, c.jmp_2, c.jmp_ext, c.follow)
  BY <1>3, EditFacts
<1> QED
  BY <1>3, <1>4, <1>5 DEF Leads

(* ... or one without the edge jmp_ext.                                    *)
LEMMA JumpNarrowed ==
  ASSUME NEW N \in Nat, NEW g \in Graph(N), NEW p \in 1 .. N + 1, LastLine(g.bb[p]) \in 1 .. N,
         NEW o \in Instruction, NEW f \in Nat
  PROVE  Becomes(N, g, [SetLast(g, p, o) EXCEPT !.bb[p] =
                          [@ EXCEPT !.follow = f, !.jmp_ext = 0]], p, o,
                 g.bb[p].len, g.bb[p].jmp_1, g.bb[p].jmp_2, 0, f)
<1>1. g.bb[p] \in BasicBlock
  BY GraphFacts
<1> DEFINE b == g.bb[p]
           c == [b EXCEPT !.follow = f, !.jmp_ext = 0]
<1>3. /\ c \in BasicBlock /\ Frame(g.bb[p], c) /\ Links(g.bb[p], c)
      /\ Leads(c, g.bb[p].len, g.bb[p].jmp_1, g.bb[p].jmp_2, 0, f)
  BY <1>1 DEF BasicBlock, Frame, Links, Leads
<1>4. [SetLast(g, p, o) EXCEPT !.bb[p] =
                          [@ EXCEPT !.follow = f, !.jmp_ext = 0]] = Edit(g, p, o, c)
  BY <1>1 DEF SetLast, Graph, BasicBlock, Edit
<1> HIDE DEF c
<1>5. Becomes(N, g, Edit(g, p, o, c), p, o, c.len, c.jmp_1, c.jmp_2, c.jmp_ext, c.follow)
  BY <1>3, EditFacts
<1> QED
  BY <1>3, <1>4, <1>5 DEF Leads

(* With another last line, edge e leads to r.                              *)
LEMMA EdgeMoved ==
  ASSUME NEW N \in Nat, NEW g \in Graph(N), NEW p \in 1 .. N + 1, LastLine(g.bb[p]) \in 1 .. N,
         NEW o \in Instruction, NEW e \in {"jmp_1", "jmp_2", "jmp_ext"}, NEW r \in Nat
  PROVE  Becomes(N, g, [SetLast(g, p, o) EXCEPT !.bb[p][e] = r], p, o, g.bb[p].len,
                 IF e = "jmp_1" THEN r ELSE g.bb[p].jmp_1,
                 IF e = "jmp_2" THEN r ELSE g.bb[p].jmp_2,
                 IF e = "jmp_ext" THEN r ELSE g.bb[p].jmp_ext, g.bb[p].follow)
<1>1. g.bb[p] \in BasicBlock
  BY GraphFacts
<1> DEFINE b == g.bb[p]
           c == [b EXCEPT ![e] = r]
<1>3. /\ c \in BasicBlock /\ Frame(g.bb[p], c) /\ Links(g.bb[p], c)
      /\ Leads(c, g.bb[p].len, IF e = "jmp_1" THEN r ELSE g.bb[p].jmp_1,
                 IF e = "jmp_2" THEN r ELSE g.bb[p].jmp_2,
                 IF e = "jmp_ext" THEN r ELSE g.bb[p].jmp_ext, g.bb[p].follow)
  BY <1>1 DEF BasicBlock, Frame, Links, Leads
<1>4. [SetLast(g, p, o) EXCEPT !.bb[p][e] = r] = Edit(g, p, o, c)
  BY <1>1 DEF SetLast, Graph, BasicBlock, Edit
<1> HIDE DEF c
<1>5. Becomes(N, g, Edit(g, p, o, c), p, o, c.len, c.jmp_1, c.jmp_2, c.jmp_ext, c.follow)
  BY <1>3, EditFacts
<1> QED
  BY <1>3, <1>4, <1>5 DEF Leads

(* Writing the last line anew changes nothing.                             *)
LEMMA SetSame ==
  ASSUME NEW N \in Nat, NEW g \in Graph(N), NEW p \in 1 .. N + 1, LastLine(g.bb[p]) \in 1 .. N
  PROVE  SetLast(g, p, LastOp(g, p)) = g /\ LastOp(g, p) \in Instruction
  BY DEF SetLast, LastOp, Graph

-----------------------------------------------------------------------------
(* d is g, or what p has left of it, and knows what leads to the blocks of *)
(* T as if p did.                                                          *)
Base(N, g, d, p, T) ==
  /\ Relinked(N, g, d) /\ Toward(d, p, T)
  /\ \A x \in 1 .. N + 1 : d.bb[x].used => g.bb[x].used

(* The graph itself, and what p has left.                                  *)
LEMMA BaseSelf ==
  ASSUME NEW N \in Nat, NEW g \in Graph(N), NEW p, Exact(g)
  PROVE  Base(N, g, g, p, Succ(g, p))
  BY ExactToward DEF Base, Relinked, Frame, Rest

LEMMA BaseLeave ==
  ASSUME NEW N \in Nat, NEW g \in Graph(N), NEW p \in 1 .. N + 1, Exact(g), NEW q \in Used(g)
  PROVE  Base(N, g, Leave(g, p, q), p, Succ(g, p) \ {q})
<1>1. q \in 1 .. N + 1
  BY GraphFacts DEF Used
<1>2. HasLeft(N, g, Leave(g, p, q), p, q)
  BY <1>1, LeaveFacts
<1>3. Toward(Leave(g, p, q), p, Succ(g, p) \ {q})
  BY ExactToward, LeaveToward
<1> QED
  BY <1>2, <1>3 DEF Base, HasLeft

(* What is edited in either is near the graph, ...                         *)
LEMMA EditedNear ==
  ASSUME NEW N \in Nat, NEW g \in Graph(N), NEW p \in 1 .. N + 1, NEW d, NEW T,
         Base(N, g, d, p, T), NEW h, Edited(N, d, h, p)
  PROVE  Near(N, g, h, p)
<1>1. LastLine(d.bb[p]) = LastLine(g.bb[p])
  BY DEF Base, Relinked, Frame, Rest, LastLine
<1> QED
  BY <1>1 DEF Near, Base, Relinked, Edited, Frame, Rest, Links

(* ... and exact when p then leads to what is known of it, ...             *)
LEMMA BaseStay ==
  ASSUME NEW N \in Nat, NEW g \in Graph(N), NEW p \in 1 .. N + 1, NEW d, NEW T,
         Base(N, g, d, p, T), NEW h, Edited(N, d, h, p), Succ(h, p) = T
  PROVE  Near(N, g, h, p) /\ Exact(h)
<1>1. d \in Graph(N) /\ h \in Graph(N)
  BY DEF Base, Relinked, Edited
<1>2. Toward(h, p, T)
  BY <1>1, EditToward DEF Base, Edited
<1>3. Exact(h)
  BY <1>2, TowardExact
<1> QED
  BY <1>3, EditedNear

(* ... or to one block more, which hears of it.                            *)
LEMMA BaseAdd ==
  ASSUME NEW N \in Nat, NEW g \in Graph(N), NEW p \in 1 .. N + 1, NEW d, NEW T,
         Base(N, g, d, p, T), NEW k, Edited(N, d, k, p), NEW r \in 1 .. N + 1,
         Succ(k, p) = T \cup {r}, p \in Used(d) <=> r \in Used(d)
  PROVE  /\ Near(N, g, AddPred(k, r, p), p) /\ Exact(AddPred(k, r, p))
         /\ Rest(k.bb[p], AddPred(k, r, p).bb[p]) /\ AddPred(k, r, p).ops = k.ops
<1> DEFINE h == AddPred(k, r, p)
<1>1. d \in Graph(N) /\ k \in Graph(N)
  BY DEF Base, Relinked, Edited
<1>2. Toward(k, p, T)
  BY <1>1, EditToward DEF Base, Edited
<1>3. Used(k) = Used(d)
  BY <1>1, GraphFacts DEF Used, Edited, Links
<1>4. Toward(h, p, T \cup {r})
  BY <1>1, <1>2, <1>3, AddPredToward
<1>5. PredAdded(N, k, h, r, p)
  BY <1>1, AddPredFacts
<1> HIDE DEF h
<1>6. Succ(h, p) = Succ(k, p)
  BY <1>5, RelinkedSucc DEF PredAdded
<1>7. Exact(h)
  BY <1>4, <1>6, TowardExact
<1>8. Near(N, g, k, p)
  BY EditedNear
<1>10. h.ops = k.ops /\ \A x \in 1 .. N + 1 :
         Frame(k.bb[x], h.bb[x]) /\ Rest(k.bb[x], h.bb[x]) /\ h.bb[x].used = k.bb[x].used
  BY <1>5 DEF PredAdded, Relinked
<1>11. \A x \in 1 .. N + 1 : Frame(g.bb[x], h.bb[x]) /\ (x # p => Rest(g.bb[x], h.bb[x]))
  BY <1>8, <1>10 DEF Near, Frame, Rest
<1>12. h \in Graph(N)
  BY <1>5 DEF PredAdded, Relinked
<1>13. Near(N, g, h, p)
  BY <1>8, <1>10, <1>11, <1>12 DEF Near
<1> QED
  BY <1>5, <1>7, <1>13 DEF h, PredAdded, Relinked

(* p, which leaves q for a block that q leads to, is in use after that if  *)
(* that block is.                                                          *)
LEMMA StillUsed ==
  ASSUME NEW N \in Nat, NEW g \in Graph(N), Exact(g), NEW p \in Used(g), NEW q \in Succ(g, p),
         NEW r \in Succ(g, q), q = p => r = p
  PROVE  /\ q \in Used(g) /\ r \in Used(g)
         /\ p \in Used(Leave(g, p, q)) <=> r \in Used(Leave(g, p, q))
<1>1. q \in Used(g) /\ r \in Used(g)
  BY DEF Exact
<1>2. q \in 1 .. N + 1 /\ p \in 1 .. N + 1 /\ r \in 1 .. N + 1 /\ DOMAIN g.bb = 1 .. N + 1
  BY <1>1, GraphFacts DEF Used
<1> DEFINE h == Leave(g, p, q)
<1>3. HasLeft(N, g, h, p, q)
  BY <1>2, LeaveFacts
<1> HIDE DEF h
<1>4. DOMAIN h.bb = 1 .. N + 1
  BY <1>3, GraphFacts DEF HasLeft, Relinked
<1>5. r = q => q = p \/ q \in g.bb[q].pred
  BY <1>1 DEF Exact
<1>6. r = q /\ q # p => ~ Left(g, p, q)
  BY <1>5 DEF Left
<1>7. p \in Used(h) <=> r \in Used(h)
  BY <1>1, <1>2, <1>3, <1>4, <1>6 DEF HasLeft, Used
<1> QED
  BY <1>1, <1>7 DEF h

(* EdgesFit, for an instruction and edges that p of graph g gets.          *)
Fit(g, p, C, code, j1, j2, je, f) ==
  LET free == C \cup {0} IN
  /\ Falls(code) => f \notin free
  /\ code = "JMP" =>
       /\ j1 \notin free /\ j2 = 0 /\ je = 0 /\ f \in free
       /\ f # 0 => p < f /\ \A q \in Used(g) : q <= p \/ f <= q
  /\ code = "JMPZNZ" => j2 \notin free /\ je \notin free /\ j1 = 0 /\ f = 0
  /\ code \in CondJumps => j2 \notin free /\ f \notin free /\ j1 = 0 /\ je = 0

To(g, p, j1, j2, je, f) == {j1, j2, je, g.bb[p].jmp_tc, f} \ {0}

(* EdgesFit of a rewritten block.                                          *)
LEMMA FitEdges ==
  ASSUME NEW g, NEW h, NEW p, NEW C, NEW len, len > 0, NEW o, NEW j1, NEW j2, NEW je, NEW f,
         Used(h) \subseteq Used(g), Leads(h.bb[p], len, j1, j2, je, f), LastOp(h, p) = o,
         Fit(g, p, C, o.code, j1, j2, je, f), len \in Nat
  PROVE  EdgesFit(h, p, C)
  BY DEF Fit, EdgesFit, Leads

(* What is known of the block whose jump is rewritten.                     *)
LEMMA LastIn ==
  ASSUME NEW N \in Nat, NEW g \in Graph(N), NEW P, NEW C, Sound(g, P, C), NEW p \in Used(g),
         g.bb[p].len > 0
  PROVE  /\ p \in 1 .. N + 1 /\ p \in P /\ LastLine(g.bb[p]) \in 1 .. N
         /\ LastOp(g, p) \in Instruction
         /\ g.bb[p].len \in Nat /\ g.bb[p] \in BasicBlock
         /\ EdgesFit(g, p, C) /\ Protected(g, p, C) /\ Exact(g)
<1>1. p \in P
  BY UsedListed
<1>2. /\ p \in 1 .. N /\ g.bb[p].start = p /\ g.bb[p].len \in Nat
         /\ p + g.bb[p].len <= N + 1
         /\ LastLine(g.bb[p]) = p + g.bb[p].len - 1
  BY <1>1, UsedFacts
<1>3. LastLine(g.bb[p]) \in 1 .. N /\ p \in 1 .. N + 1
  BY <1>2
<1>4. LastOp(g, p) \in Instruction
  BY <1>3, GraphFacts DEF LastOp
<1>5. g.bb[p] \in BasicBlock
  BY <1>3, GraphFacts
<1> QED
  BY <1>1, <1>2, <1>3, <1>4, <1>5 DEF Sound

(* After which the graph is sound: a jump that becomes another, ...        *)
LEMMA StaySound ==
  ASSUME NEW N \in Nat, NEW g \in Graph(N), NEW P, NEW C, Sound(g, P, C), NEW p \in Used(g),
         g.bb[p].len > 0, NEW d, NEW T, Base(N, g, d, p, T),
         NEW h, NEW o, NEW j1, NEW j2, NEW je, NEW f,
         Becomes(N, d, h, p, o, g.bb[p].len, j1, j2, je, f),
         o.code # "FREE", Fit(g, p, C, o.code, j1, j2, je, f), To(g, p, j1, j2, je, f) = T
  PROVE  h \in Graph(N) /\ Sound(h, P, C)
<1>1. p \in 1 .. N + 1 /\ LastLine(g.bb[p]) \in 1 .. N /\ g.bb[p].len \in Nat
  BY LastIn
<1>2. Edited(N, d, h, p) /\ Leads(h.bb[p], g.bb[p].len, j1, j2, je, f)
          /\ h.ops[LastLine(d.bb[p])] = o
  BY DEF Becomes
<1>3. Frame(d.bb[p], h.bb[p]) /\ Frame(g.bb[p], d.bb[p]) /\ Rest(g.bb[p], d.bb[p])
  BY <1>1, <1>2 DEF Base, Relinked, Edited
<1>4. Succ(h, p) = T
  BY <1>2, <1>3, SuccIs DEF To, Leads, Frame
<1>5. Near(N, g, h, p) /\ Exact(h)
  BY <1>1, <1>2, <1>4, BaseStay
<1>6. LastLine(h.bb[p]) = LastLine(g.bb[p]) /\ h.bb[p].len = g.bb[p].len /\ LastOp(h, p) = o
  BY <1>2, <1>3 DEF LastLine, LastOp, Leads, Frame, Rest
<1>7. h \in Graph(N)
  BY <1>5 DEF Near
<1>8. Used(h) \subseteq Used(g)
  BY <1>5, <1>7, GraphFacts DEF Near, Used
<1>9. EdgesFit(h, p, C)
  BY <1>1, <1>2, <1>6, <1>8, FitEdges
<1>10. Shaped(h, P, C)
  BY <1>5, <1>6, <1>9, JumpKept
<1> QED
  BY <1>5, <1>7, <1>10, SoundParts

(* ... one that leads to one block more, ...                               *)
LEMMA AddSound ==
  ASSUME NEW N \in Nat, NEW g \in Graph(N), NEW P, NEW C, Sound(g, P, C), NEW p \in Used(g),
         g.bb[p].len > 0, NEW d, NEW T, Base(N, g, d, p, T),
         NEW k, NEW o, NEW j1, NEW j2, NEW je, NEW f,
         Becomes(N, d, k, p, o, g.bb[p].len, j1, j2, je, f),
         o.code # "FREE", Fit(g, p, C, o.code, j1, j2, je, f),
         NEW r \in Used(g), To(g, p, j1, j2, je, f) = T \cup {r}, p \in Used(d) <=> r \in Used(d)
  PROVE  AddPred(k, r, p) \in Graph(N) /\ Sound(AddPred(k, r, p), P, C)
<1> DEFINE h == AddPred(k, r, p)
<1>1. /\ p \in 1 .. N + 1 /\ LastLine(g.bb[p]) \in 1 .. N /\ g.bb[p].len \in Nat
      /\ r \in 1 .. N + 1
  BY LastIn, GraphFacts DEF Used
<1>2. Edited(N, d, k, p) /\ Leads(k.bb[p], g.bb[p].len, j1, j2, je, f)
          /\ k.ops[LastLine(d.bb[p])] = o
  BY DEF Becomes
<1>3. Frame(d.bb[p], k.bb[p]) /\ Frame(g.bb[p], d.bb[p]) /\ Rest(g.bb[p], d.bb[p])
  BY <1>1, <1>2 DEF Base, Relinked, Edited
<1>4. Succ(k, p) = T \cup {r}
  BY <1>2, <1>3, SuccIs DEF To, Leads, Frame
<1>5. Near(N, g, h, p) /\ Exact(h) /\ Rest(k.bb[p], h.bb[p]) /\ h.ops = k.ops
  BY <1>1, <1>2, <1>4, BaseAdd
<1> HIDE DEF h
<1>6. /\ LastLine(h.bb[p]) = LastLine(g.bb[p]) /\ h.bb[p].len = g.bb[p].len /\ LastOp(h, p) = o
      /\ Leads(h.bb[p], g.bb[p].len, j1, j2, je, f)
  BY <1>1, <1>2, <1>3, <1>5 DEF LastLine, LastOp, Leads, Frame, Rest, Near
<1>7. h \in Graph(N)
  BY <1>5 DEF Near
<1>8. Used(h) \subseteq Used(g)
  BY <1>5, <1>7, GraphFacts DEF Near, Used
<1>9. EdgesFit(h, p, C)
  BY <1>1, <1>6, <1>8, FitEdges
<1>10. Shaped(h, P, C)
  BY <1>5, <1>6, <1>9, JumpKept
<1>11. h \in Graph(N) /\ Sound(h, P, C)
  BY <1>5, <1>7, <1>10, SoundParts
<1> QED
  BY <1>11 DEF h

(* ... and one that is dropped, so that the block falls through.           *)
LEMMA DropSound ==
  ASSUME NEW N \in Nat, NEW g \in Graph(N), NEW P, NEW C, Sound(g, P, C), NEW p \in Used(g),
         g.bb[p].len > 0, NEW d, NEW T, Base(N, g, d, p, T),
         NEW h, NEW j1, NEW j2, NEW je, NEW f,
         Becomes(N, d, h, p, Op("NOP"), g.bb[p].len - 1, j1, j2, je, f),
         f \notin C \cup {0}, To(g, p, j1, j2, je, f) = T
  PROVE  h \in Graph(N) /\ Sound(h, P, C)
<1>1. p \in 1 .. N + 1 /\ LastLine(g.bb[p]) \in 1 .. N /\ g.bb[p].len \in Nat
  BY LastIn
<1>2. /\ Edited(N, d, h, p) /\ Leads(h.bb[p], g.bb[p].len - 1, j1, j2, je, f)
      /\ h.ops[LastLine(d.bb[p])] = Op("NOP")
  BY DEF Becomes
<1>3. Frame(d.bb[p], h.bb[p]) /\ Frame(g.bb[p], d.bb[p]) /\ Rest(g.bb[p], d.bb[p])
  BY <1>1, <1>2 DEF Base, Relinked, Edited
<1>4. Succ(h, p) = T
  BY <1>2, <1>3, SuccIs DEF To, Leads, Frame
<1>5. Near(N, g, h, p) /\ Exact(h)
  BY <1>1, <1>2, <1>4, BaseStay
<1>6. h.bb[p].len = g.bb[p].len - 1 /\ h.bb[p].follow \notin C \cup {0}
  BY <1>2 DEF Leads
<1>7. h.ops[LastLine(g.bb[p])].code = "NOP"
  <2>1. LastLine(d.bb[p]) = LastLine(g.bb[p])
    BY <1>3 DEF LastLine, Frame, Rest
  <2> QED
    BY <1>2, <2>1, OpsTyped
<1>8. h \in Graph(N)
  BY <1>5 DEF Near
<1>9. Shaped(h, P, C)
  BY <1>5, <1>6, <1>7, JumpGone
<1> QED
  BY <1>5, <1>8, <1>9, SoundParts
-----------------------------------------------------------------------------
(* The kinds of instructions.                                              *)
LEMMA JumpCodes ==
  /\ \A code \in Jumps : ~ Falls(code)
  /\ "JMP" \notin CondJumps /\ "JMPZNZ" \notin CondJumps
  /\ {"JMPZ", "JMPNZ", "JMPZ_EX", "JMPNZ_EX"} \subseteq CondJumps
  /\ CondJumps \subseteq Jumps /\ "JMP" \in Jumps /\ "JMPZNZ" \in Jumps
  /\ "FREE" \notin Jumps /\ Falls("FREE") /\ Falls("BOOL")
  BY DEF Falls, Jumps, CondJumps, Ends

(* A JMP to the next block is dropped.  The edge "follow" it may have left *)
(* is none: it would be the very block the JMP goes to, and no JMP has it. *)
LEMMA RuleJmpSound ==
  ASSUME NEW N \in Nat, NEW g \in Graph(N), NEW P, NEW C, Sound(g, P, C), NEW p \in Used(g),
         g.bb[p].len > 0, LastOp(g, p).code = "JMP"
  PROVE  RuleJmp(g, p) \in Graph(N) /\ Sound(RuleJmp(g, p), P, C)
<1> DEFINE b == g.bb[p]
<1>1. CASE b.jmp_1 # b.next
  <2>1. RuleJmp(g, p) = g
    BY <1>1 DEF RuleJmp
  <2> QED
    BY <2>1
<1>2. CASE b.jmp_1 = b.next
  <2>1. /\ p \in 1 .. N + 1 /\ p \in P /\ LastLine(b) \in 1 .. N /\ b \in BasicBlock
        /\ EdgesFit(g, p, C) /\ Exact(g)
    BY LastIn
  <2>2. /\ b.jmp_1 \notin C \cup {0} /\ b.jmp_2 = 0 /\ b.jmp_ext = 0 /\ b.follow \in C \cup {0}
        /\ b.follow # 0 => p < b.follow /\ \A q \in Used(g) : q <= p \/ b.follow <= q
    BY <2>1 DEF EdgesFit
  <2>3. b.follow = 0
    <3>1. SUFFICES ASSUME b.follow # 0
                   PROVE  FALSE
      OBVIOUS
    <3>2. b.follow \in Used(g) /\ b.jmp_1 \in Used(g)
      BY <2>2, <3>1, SuccIs DEF Sound, Exact
    <3>3. b.next \in P /\ p < b.next /\ \A q \in P : q <= p \/ b.next <= q
      BY <1>2, <2>1, <2>2 DEF Sound, InOrder
    <3>4. b.follow \in P
      BY <3>2, UsedListed
    <3>5. b.next <= b.follow /\ b.follow <= b.next
      BY <1>2, <2>1, <2>2, <3>1, <3>2, <3>3, <3>4 DEF BasicBlock
    <3>6. b.next = b.follow
      BY <2>1, <3>5 DEF BasicBlock
    <3> QED
      BY <1>2, <2>2, <3>1, <3>6
  <2> DEFINE h == [DropJump(g, p) EXCEPT !.bb[p].follow = b.jmp_1, !.bb[p].jmp_1 = 0]
  <2>4. RuleJmp(g, p) = h
    BY <1>2, <2>3 DEF RuleJmp
  <2>5. b.jmp_1 \in Nat
    BY <2>1 DEF BasicBlock
  <2>6. Becomes(N, g, h, p, Op("NOP"), b.len - 1, 0, b.jmp_2, b.jmp_ext, b.jmp_1)
    BY <2>1, <2>5, JumpFalls
  <2> HIDE DEF h
  <2>7. To(g, p, 0, b.jmp_2, b.jmp_ext, b.jmp_1) = Succ(g, p)
    BY <2>3, SuccIs DEF To
  <2>8. Base(N, g, g, p, Succ(g, p))
    BY <2>1, BaseSelf
  <2>9. h \in Graph(N) /\ Sound(h, P, C)
    BY <2>2, <2>6, <2>7, <2>8, DropSound
  <2> QED
    BY <2>4, <2>9
<1> QED
  BY <1>1, <1>2

(* A conditional jump whose condition is known is a JMP, or nothing.       *)
LEMMA LeaveMakeJmp ==
  ASSUME NEW N \in Nat, NEW g \in Graph(N), NEW P, NEW C, Sound(g, P, C), NEW p \in Used(g),
         g.bb[p].len > 0, NEW q \in Succ(g, p), NEW r \in Nat, r \notin C \cup {0},
         To(g, p, r, 0, 0, 0) = Succ(g, p) \ {q}
  PROVE  /\ MakeJmp(Leave(g, p, q), p, r) \in Graph(N)
         /\ Sound(MakeJmp(Leave(g, p, q), p, r), P, C)
<1> DEFINE d == Leave(g, p, q)
           h == MakeJmp(d, p, r)
<1>1. /\ p \in 1 .. N + 1 /\ LastLine(g.bb[p]) \in 1 .. N /\ Exact(g) /\ q \in Used(g)
  BY LastIn DEF Exact
<1>2. Base(N, g, d, p, Succ(g, p) \ {q})
  BY <1>1, BaseLeave
<1> HIDE DEF d
<1>3. d \in Graph(N) /\ LastLine(d.bb[p]) = LastLine(g.bb[p]) /\ d.bb[p].len = g.bb[p].len
  BY <1>1, <1>2 DEF Base, Relinked, Frame, Rest, LastLine
<1>4. Becomes(N, d, h, p, Op("JMP"), g.bb[p].len, r, 0, 0, 0)
  BY <1>1, <1>3, JmpMade
<1> HIDE DEF h
<1>5. Fit(g, p, C, Op("JMP").code, r, 0, 0, 0) /\ Op("JMP").code # "FREE"
  BY OpsTyped, JumpCodes DEF Fit
<1>6. h \in Graph(N) /\ Sound(h, P, C)
  BY <1>2, <1>4, <1>5, StaySound
<1> QED
  BY <1>6 DEF d, h

LEMMA LeaveDrop ==
  ASSUME NEW N \in Nat, NEW g \in Graph(N), NEW P, NEW C, Sound(g, P, C), NEW p \in Used(g),
         g.bb[p].len > 0, g.bb[p].jmp_2 \in Succ(g, p), g.bb[p].follow \notin C \cup {0},
         g.bb[p].jmp_2 \notin {g.bb[p].jmp_1, g.bb[p].jmp_ext, g.bb[p].jmp_tc, g.bb[p].follow}
  PROVE  LET h == [DropJump(Leave(g, p, g.bb[p].jmp_2), p) EXCEPT !.bb[p].jmp_2 = 0] IN
         h \in Graph(N) /\ Sound(h, P, C)
<1> DEFINE q == g.bb[p].jmp_2
           d == Leave(g, p, q)
           h == [DropJump(d, p) EXCEPT !.bb[p].jmp_2 = 0]
           b == g.bb[p]
<1>1. /\ p \in 1 .. N + 1 /\ LastLine(g.bb[p]) \in 1 .. N /\ Exact(g) /\ q \in Used(g)
  BY LastIn DEF Exact
<1>2. Base(N, g, d, p, Succ(g, p) \ {q})
  BY <1>1, BaseLeave
<1> HIDE DEF d
<1>3. d \in Graph(N) /\ LastLine(d.bb[p]) = LastLine(g.bb[p]) /\ d.bb[p].len = g.bb[p].len
      /\ d.bb[p].jmp_1 = b.jmp_1 /\ d.bb[p].jmp_ext = b.jmp_ext /\ d.bb[p].follow = b.follow
  BY <1>1, <1>2 DEF Base, Relinked, Frame, Rest, LastLine
<1>4. Becomes(N, d, h, p, Op("NOP"), d.bb[p].len - 1, d.bb[p].jmp_1, 0, d.bb[p].jmp_ext,
          d.bb[p].follow)
  BY <1>1, <1>3, CondFalls
<1> HIDE DEF h
<1>7. Becomes(N, d, h, p, Op("NOP"), b.len - 1, b.jmp_1, 0, b.jmp_ext, b.follow)
  BY <1>3, <1>4
<1>5. To(g, p, b.jmp_1, 0, b.jmp_ext, b.follow) = Succ(g, p) \ {q}
  BY SuccIs DEF To
<1>6. h \in Graph(N) /\ Sound(h, P, C)
  BY <1>2, <1>5, <1>7, DropSound
<1> QED
  BY <1>6 DEF d, h

(* A conditional jump both ways of which are the same is dropped.          *)
LEMMA DropAlike ==
  ASSUME NEW N \in Nat, NEW g \in Graph(N), NEW P, NEW C, Sound(g, P, C), NEW p \in Used(g),
         g.bb[p].len > 0, g.bb[p].follow \notin C \cup {0}, g.bb[p].jmp_2 = g.bb[p].follow
  PROVE  LET h == [DropJump(g, p) EXCEPT !.bb[p].jmp_2 = 0] IN
         h \in Graph(N) /\ Sound(h, P, C)
<1> DEFINE h == [DropJump(g, p) EXCEPT !.bb[p].jmp_2 = 0]
           b == g.bb[p]
<1>1. /\ p \in 1 .. N + 1 /\ LastLine(g.bb[p]) \in 1 .. N /\ Exact(g)
  BY LastIn
<1>2. Base(N, g, g, p, Succ(g, p))
  BY <1>1, BaseSelf
<1>4. Becomes(N, g, h, p, Op("NOP"), b.len - 1, b.jmp_1, 0, b.jmp_ext, b.follow)
  BY <1>1, CondFalls
<1> HIDE DEF h
<1>5. To(g, p, b.jmp_1, 0, b.jmp_ext, b.follow) = Succ(g, p)
  BY SuccIs DEF To
<1>6. h \in Graph(N) /\ Sound(h, P, C)
  BY <1>2, <1>4, <1>5, DropSound
<1> QED
  BY <1>6 DEF h

(* The last line of p becomes o, which leads where the one before did.     *)
LEMMA SetLastFacts ==
  ASSUME NEW N \in Nat, NEW g \in Graph(N), NEW P, NEW C, Sound(g, P, C), NEW p \in Used(g),
         g.bb[p].len > 0, NEW o \in Instruction, o.code # "FREE",
         Fit(g, p, C, o.code, g.bb[p].jmp_1, g.bb[p].jmp_2, g.bb[p].jmp_ext, g.bb[p].follow)
  PROVE  /\ SetLast(g, p, o) \in Graph(N) /\ Sound(SetLast(g, p, o), P, C)
         /\ SetLast(g, p, o).bb = g.bb /\ LastOp(SetLast(g, p, o), p) = o
<1> DEFINE h == SetLast(g, p, o)
           b == g.bb[p]
<1>1. /\ p \in 1 .. N + 1 /\ LastLine(g.bb[p]) \in 1 .. N /\ Exact(g)
  BY LastIn
<1>2. Base(N, g, g, p, Succ(g, p))
  BY <1>1, BaseSelf
<1>3. /\ h \in Graph(N) /\ h.bb = g.bb /\ h.ops[LastLine(b)] = o
      /\ \A j \in 1 .. N : j # LastLine(b) => h.ops[j] = g.ops[j]
  BY <1>1, WithOp DEF SetLast
<1> HIDE DEF h
<1>4. Becomes(N, g, h, p, o, b.len, b.jmp_1, b.jmp_2, b.jmp_ext, b.follow)
  BY <1>3 DEF Becomes, Edited, Leads, Frame, Rest, Links
<1>5. To(g, p, b.jmp_1, b.jmp_2, b.jmp_ext, b.follow) = Succ(g, p)
  BY SuccIs DEF To
<1>6. Sound(h, P, C)
  BY <1>2, <1>4, <1>5, StaySound
<1> QED
  BY <1>3, <1>6 DEF h, LastOp

(* Retarget: an edge of p leads past the block it led to.                  *)
LEMMA RetargetSound ==
  ASSUME NEW N \in Nat, NEW g \in Graph(N), NEW P, NEW C, Sound(g, P, C), NEW p \in Used(g),
         g.bb[p].len > 0, NEW e, NEW other, NEW r,
         \/ LastOp(g, p).code \in CondJumps /\ e = "jmp_2" /\ other = "follow"
         \/ LastOp(g, p).code = "JMPZNZ" /\ e = "jmp_2" /\ other = "jmp_ext"
         \/ LastOp(g, p).code = "JMPZNZ" /\ e = "jmp_ext" /\ other = "jmp_2",
         r \in Succ(g, g.bb[p][e]), r \notin C, g.bb[p][e] = p => r = p
  PROVE  Retarget(g, p, e, other, r) \in Graph(N) /\ Sound(Retarget(g, p, e, other, r), P, C)
<1> DEFINE b == g.bb[p]
           q == b[e]
           o == LastOp(g, p)
           j2 == IF e = "jmp_2" THEN r ELSE b.jmp_2
           je == IF e = "jmp_ext" THEN r ELSE b.jmp_ext
           d == LeaveBy(g, p, e, other)
           T == IF q = b[other] THEN Succ(g, p) ELSE Succ(g, p) \ {q}
           k == [d EXCEPT !.bb[p][e] = r]
<1>1. /\ p \in 1 .. N + 1 /\ LastLine(b) \in 1 .. N /\ Exact(g) /\ o \in Instruction
      /\ EdgesFit(g, p, C) /\ Protected(g, p, C) /\ b \in BasicBlock
  BY LastIn
<1>2. e \in {"jmp_2", "jmp_ext"} /\ other \in {"jmp_2", "jmp_ext", "follow"}
  OBVIOUS
<1>3. /\ q \notin C \cup {0} /\ b.jmp_1 = 0
      /\ q \in {b.jmp_2, b.jmp_ext} /\ b.jmp_tc \in C \cup {0}
      /\ Fit(g, p, C, o.code, b.jmp_1, b.jmp_2, b.jmp_ext, b.follow)
  BY <1>1, JumpCodes DEF EdgesFit, Fit, Protected
<1>4. q \in Succ(g, p)
  BY <1>3, SuccIs
<1>5. q \in Used(g) /\ r \in Used(g) /\ (p \in Used(Leave(g, p, q)) <=> r \in Used(Leave(g, p, q)))
  BY <1>1, <1>4, StillUsed
<1>6. r \in Nat /\ r # 0
  BY <1>5, GraphFacts DEF Used
<1>7. Base(N, g, d, p, T) /\ (p \in Used(d) <=> r \in Used(d))
  <2>1. CASE q = b[other]
    <3>1. d = g /\ T = Succ(g, p)
      BY <2>1 DEF LeaveBy
    <3> QED
      BY <1>1, <1>5, <3>1, BaseSelf
  <2>2. CASE q # b[other]
    <3>1. d = Leave(g, p, q) /\ T = Succ(g, p) \ {q}
      BY <2>2 DEF LeaveBy
    <3>2. Base(N, g, Leave(g, p, q), p, Succ(g, p) \ {q})
      BY <1>1, <1>5, BaseLeave
    <3> HIDE DEF d, T
    <3> QED
      BY <1>5, <3>1, <3>2
  <2> QED
    BY <2>1, <2>2
<1> HIDE DEF d
<1>8. /\ d \in Graph(N) /\ LastLine(d.bb[p]) = LastLine(b) /\ LastOp(d, p) = o
      /\ d.bb[p].len = b.len /\ d.bb[p].jmp_1 = b.jmp_1 /\ d.bb[p].jmp_2 = b.jmp_2
      /\ d.bb[p].jmp_ext = b.jmp_ext /\ d.bb[p].follow = b.follow
  BY <1>1, <1>7 DEF Base, Relinked, Frame, Rest, LastLine, LastOp
<1>9. k = [SetLast(d, p, o) EXCEPT !.bb[p][e] = r]
  BY <1>1, <1>8, SetSame
<1>10. Becomes(N, d, k, p, o, d.bb[p].len, d.bb[p].jmp_1,
               IF e = "jmp_2" THEN r ELSE d.bb[p].jmp_2,
               IF e = "jmp_ext" THEN r ELSE d.bb[p].jmp_ext, d.bb[p].follow)
  <2> HIDE DEF k
  <2>1. \A x \in {"jmp_1", "jmp_2", "jmp_ext"} :
          Becomes(N, d, [SetLast(d, p, o) EXCEPT !.bb[p][x] = r], p, o, d.bb[p].len,
                 IF x = "jmp_1" THEN r ELSE d.bb[p].jmp_1,
                 IF x = "jmp_2" THEN r ELSE d.bb[p].jmp_2,
                 IF x = "jmp_ext" THEN r ELSE d.bb[p].jmp_ext, d.bb[p].follow)
    BY <1>1, <1>6, <1>8, EdgeMoved
  <2>2. e # "jmp_1"
    BY <1>2
  <2> QED
    BY <1>2, <1>9, <2>1, <2>2
<1> HIDE DEF k
<1>11. Becomes(N, d, k, p, o, b.len, b.jmp_1, j2, je, b.follow)
  BY <1>8, <1>10
<1>12. Fit(g, p, C, o.code, b.jmp_1, j2, je, b.follow) /\ o.code # "FREE"
  BY <1>2, <1>3, <1>6, JumpCodes DEF Fit
<1>13. To(g, p, b.jmp_1, j2, je, b.follow) = T \cup {r}
  <2>1. CASE o.code \in CondJumps /\ e = "jmp_2" /\ other = "follow"
    <3>1. b.jmp_ext = 0 /\ b.follow # 0
      BY <1>3, <2>1 DEF Fit
    <3> QED
      BY <1>3, <1>6, <2>1, <3>1, SuccIs DEF To
  <2>2. CASE o.code = "JMPZNZ" /\ e = "jmp_2" /\ other = "jmp_ext"
    <3>1. b.jmp_ext # 0 /\ b.follow = 0
      BY <1>3, <2>2 DEF Fit
    <3> QED
      BY <1>3, <1>6, <2>2, <3>1, SuccIs DEF To
  <2>3. CASE o.code = "JMPZNZ" /\ e = "jmp_ext" /\ other = "jmp_2"
    <3>1. b.jmp_2 # 0 /\ b.follow = 0
      BY <1>3, <2>3 DEF Fit
    <3> QED
      BY <1>3, <1>6, <2>3, <3>1, SuccIs DEF To
  <2> QED
    BY <2>1, <2>2, <2>3
<1> HIDE DEF T, j2, je
<1>14. AddPred(k, r, p) \in Graph(N) /\ Sound(AddPred(k, r, p), P, C)
  BY <1>5, <1>7, <1>11, <1>12, <1>13, AddSound
<1> QED
  BY <1>14 DEF Retarget, k, d
-----------------------------------------------------------------------------
(* A block that begins with a jump has no other line.                      *)
LEMMA FirstJump ==
  ASSUME NEW N \in Nat, NEW g \in Graph(N), NEW P, NEW C, Sound(g, P, C), NEW q \in Used(g),
         FirstOp(g, q).code \in Jumps
  PROVE  g.bb[q].len = 1 /\ LastOp(g, q) = FirstOp(g, q)
<1>1. q \in P /\ DOMAIN g.ops = 1 .. N /\ g.bb[q].used
  BY UsedListed, GraphFacts DEF Used
<1>2. q \in 1 .. N /\ g.bb[q].start = q /\ g.bb[q].len \in Nat
          /\ LastLine(g.bb[q]) = q + g.bb[q].len - 1
  BY <1>1, UsedFacts
<1>3. PICK x \in P : g.bb[x].len > 0 /\ q = LastLine(g.bb[x])
  BY <1>1, <1>2 DEF Sound, JumpsLast, FirstOp
<1>4. x = q
  <2>1. SUFFICES ASSUME x # q
                 PROVE  FALSE
    OBVIOUS
  <2>2. q \notin x .. LastLine(g.bb[x]) /\ LastLine(g.bb[x]) \in x .. N
    BY <1>1, <1>3, <2>1, Apart
  <2>3. x \in 1 .. N
    BY UsedFacts
  <2> QED
    BY <1>2, <1>3, <2>2, <2>3
<1>5. g.bb[q].len = 1
  BY <1>2, <1>3, <1>4
<1> QED
  BY <1>2, <1>5 DEF FirstOp, LastOp

(* Where such a jump leads.                                                *)
LEMMA FirstEdges ==
  ASSUME NEW N \in Nat, NEW g \in Graph(N), NEW P, NEW C, Sound(g, P, C), NEW q \in Used(g)
  PROVE  /\ FirstOp(g, q).code = "JMP" => g.bb[q].jmp_1 \in Succ(g, q) \ C
         /\ FirstOp(g, q).code = "JMPZNZ" =>
              g.bb[q].jmp_2 \in Succ(g, q) \ C /\ g.bb[q].jmp_ext \in Succ(g, q) \ C
         /\ FirstOp(g, q).code \in CondJumps =>
              g.bb[q].jmp_2 \in Succ(g, q) \ C /\ g.bb[q].follow \in Succ(g, q) \ C
<1>1. EdgesFit(g, q, C)
  BY DEF Sound
<1>2. FirstOp(g, q).code \in Jumps => g.bb[q].len > 0 /\ LastOp(g, q) = FirstOp(g, q)
  BY FirstJump
<1> QED
  BY <1>1, <1>2, JumpCodes, SuccIs DEF EdgesFit

(* What Through finds is an edge of the block it looks at.                 *)
WayOut(o, val, t) ==
  /\ o.code \in {"JMPZ", "JMPZ_EX"} => t = IF val THEN "follow" ELSE "jmp_2"
  /\ o.code \in {"JMPNZ", "JMPNZ_EX"} => t = IF val THEN "jmp_2" ELSE "follow"
  /\ o.code = "JMPZNZ" => t = IF val THEN "jmp_ext" ELSE "jmp_2"
  /\ o.code \in {"JMPZ", "JMPZ_EX", "JMPNZ", "JMPNZ_EX", "JMPZNZ"}

LEMMA ThroughCases ==
  ASSUME NEW o, NEW v, NEW val \in BOOLEAN, NEW ex \in BOOLEAN, Through(o, v, val, ex) # "none"
  PROVE  WayOut(o, val, Through(o, v, val, ex))
  BY DEF Through, WayOut

(* The way that Through finds is one the block has, to no handler.         *)
LEMMA ThroughFacts ==
  ASSUME NEW N \in Nat, NEW g \in Graph(N), NEW P, NEW C, Sound(g, P, C), NEW q \in Used(g),
         NEW v, NEW val \in BOOLEAN, NEW ex \in BOOLEAN,
         Through(FirstOp(g, q), v, val, ex) # "none"
  PROVE  g.bb[q][Through(FirstOp(g, q), v, val, ex)] \in Succ(g, q) \ C
<1> DEFINE o == FirstOp(g, q)
           e == Through(o, v, val, ex)
<1> HIDE DEF o
<1>1. e # "none"
  BY DEF o
<1>2. WayOut(o, val, e)
  BY <1>1, ThroughCases
<1> HIDE DEF e
<1>3. /\ o.code = "JMPZNZ" =>
              g.bb[q].jmp_2 \in Succ(g, q) \ C /\ g.bb[q].jmp_ext \in Succ(g, q) \ C
      /\ o.code \in CondJumps =>
              g.bb[q].jmp_2 \in Succ(g, q) \ C /\ g.bb[q].follow \in Succ(g, q) \ C
  BY FirstEdges DEF o
<1>4. g.bb[q][e] \in Succ(g, q) \ C
  BY <1>2, <1>3, JumpCodes DEF WayOut
<1> QED
  BY <1>4 DEF e, o

(* A jump that tests what the jump it leads to tests.                      *)
LEMMA ThreadSound ==
  ASSUME NEW N \in Nat, NEW g \in Graph(N), NEW P, NEW C, Sound(g, P, C), NEW p \in Used(g),
         g.bb[p].len > 0, NEW e, NEW other, NEW v, NEW val \in BOOLEAN, NEW ex \in BOOLEAN,
         \/ /\ LastOp(g, p).code \in {"JMPZ", "JMPZ_EX", "JMPNZ", "JMPNZ_EX"}
            /\ val <=> LastOp(g, p).code \in {"JMPNZ", "JMPNZ_EX"}
            /\ e = "jmp_2" /\ other = "follow"
         \/ LastOp(g, p).code = "JMPZNZ" /\ val = FALSE /\ e = "jmp_2" /\ other = "jmp_ext"
         \/ LastOp(g, p).code = "JMPZNZ" /\ val = TRUE /\ e = "jmp_ext" /\ other = "jmp_2",
         Through(FirstOp(g, g.bb[p][e]), v, val, ex) # "none"
  PROVE  LET q == g.bb[p][e]
             h == Retarget(g, p, e, other, g.bb[q][Through(FirstOp(g, q), v, val, ex)]) IN
         h \in Graph(N) /\ Sound(h, P, C)
<1> DEFINE q == g.bb[p][e]
           t == Through(FirstOp(g, q), v, val, ex)
           r == g.bb[q][t]
<1>1. EdgesFit(g, p, C) /\ Exact(g)
  BY LastIn
<1>2. q \in Succ(g, p)
  BY <1>1, JumpCodes, SuccIs DEF EdgesFit
<1>3. q \in Used(g)
  BY <1>1, <1>2 DEF Exact
<1>4. r \in Succ(g, q) \ C
  BY <1>3, ThroughFacts
<1>5. q = p => t = e
  <2>1. SUFFICES ASSUME q = p
                 PROVE  t = e
    OBVIOUS
  <2>2. WayOut(FirstOp(g, q), val, t)
    BY ThroughCases
  <2>3. FirstOp(g, q).code \in Jumps
    BY <2>2, JumpCodes DEF WayOut
  <2>4. FirstOp(g, q) = LastOp(g, p)
    BY <2>1, <2>3, FirstJump
  <2> HIDE DEF t
  <2> QED
    BY <2>2, <2>4 DEF WayOut
<1>6. q = p => r = p
  BY <1>5
<1>7. \/ LastOp(g, p).code \in CondJumps /\ e = "jmp_2" /\ other = "follow"
      \/ LastOp(g, p).code = "JMPZNZ" /\ e = "jmp_2" /\ other = "jmp_ext"
      \/ LastOp(g, p).code = "JMPZNZ" /\ e = "jmp_ext" /\ other = "jmp_2"
  <2>1. {"JMPZ", "JMPZ_EX", "JMPNZ", "JMPNZ_EX"} \subseteq CondJumps
    BY JumpCodes
  <2> QED
    BY <2>1
<1> HIDE DEF r
<1>8. Retarget(g, p, e, other, r) \in Graph(N) /\ Sound(Retarget(g, p, e, other, r), P, C)
  BY <1>4, <1>6, <1>7, RetargetSound
<1> QED
  BY <1>8 DEF r

(* Instructions of another code.                                           *)
LEMMA Renamed ==
  ASSUME NEW o \in Instruction, NEW code \in Codes
  PROVE  [o EXCEPT !.code = code] \in Instruction /\ [o EXCEPT !.code = code].code = code
  BY DEF Instruction

(* The rules for JMPZNZ.                                                   *)
LEMMA RuleJmpZnzSound ==
  ASSUME NEW N \in Nat, NEW g \in Graph(N), NEW P, NEW C, Sound(g, P, C), NEW p \in Used(g),
         g.bb[p].len > 0, LastOp(g, p).code = "JMPZNZ"
  PROVE  RuleJmpZnz(g, p) \in Graph(N) /\ Sound(RuleJmpZnz(g, p), P, C)
<1> DEFINE b == g.bb[p]
           o == LastOp(g, p)
           false == Through(FirstOp(g, b.jmp_2), o.op1.v, FALSE, FALSE)
           true == Through(FirstOp(g, b.jmp_ext), o.op1.v, TRUE, FALSE)
           threads == o.op1.k = "TMP" /\ g.bb[b.jmp_2].len = 1
<1>1. /\ p \in 1 .. N + 1 /\ LastLine(b) \in 1 .. N /\ b \in BasicBlock /\ o \in Instruction
      /\ EdgesFit(g, p, C) /\ Protected(g, p, C) /\ Exact(g)
  BY LastIn
<1>2. /\ b.jmp_2 \notin C \cup {0} /\ b.jmp_ext \notin C \cup {0} /\ b.jmp_1 = 0 /\ b.follow = 0
      /\ b.jmp_tc \in C \cup {0} /\ b.jmp_2 \in Nat /\ b.jmp_ext \in Nat
  BY <1>1 DEF EdgesFit, Protected, BasicBlock
<1>3. Succ(g, p) = {b.jmp_2, b.jmp_ext, b.jmp_tc} \ {0}
  BY <1>2, SuccIs
<1>4. Base(N, g, g, p, Succ(g, p))
  BY <1>1, BaseSelf
<1>5. CASE b.jmp_ext = b.jmp_2
  <2>1. RuleJmpZnz(g, p) = MakeJmp(g, p, b.jmp_2)
    BY <1>5 DEF RuleJmpZnz
  <2>2. Becomes(N, g, MakeJmp(g, p, b.jmp_2), p, Op("JMP"), b.len, b.jmp_2, 0, 0, 0)
    BY <1>1, <1>2, JmpMade
  <2>3. Becomes(N, g, RuleJmpZnz(g, p), p, Op("JMP"), b.len, b.jmp_2, 0, 0, 0)
    BY <2>1, <2>2
  <2>4. Fit(g, p, C, Op("JMP").code, b.jmp_2, 0, 0, 0) /\ Op("JMP").code # "FREE"
    BY <1>2, OpsTyped, JumpCodes DEF Fit
  <2>5. To(g, p, b.jmp_2, 0, 0, 0) = Succ(g, p)
    BY <1>3, <1>5 DEF To
  <2> QED
    BY <1>4, <2>3, <2>4, <2>5, StaySound
<1>6. CASE b.jmp_ext # b.jmp_2 /\ o.op1.k = "CONST" /\ IsTrue(o.op1.c)
  <2>1. RuleJmpZnz(g, p) = MakeJmp(Leave(g, p, b.jmp_2), p, b.jmp_ext)
    BY <1>6 DEF RuleJmpZnz
  <2>2. To(g, p, b.jmp_ext, 0, 0, 0) = Succ(g, p) \ {b.jmp_2} /\ b.jmp_2 \in Succ(g, p)
    BY <1>2, <1>3, <1>6 DEF To
  <2> QED
    BY <1>2, <2>1, <2>2, LeaveMakeJmp
<1>7. CASE b.jmp_ext # b.jmp_2 /\ o.op1.k = "CONST" /\ ~ IsTrue(o.op1.c)
  <2>1. RuleJmpZnz(g, p) = MakeJmp(Leave(g, p, b.jmp_ext), p, b.jmp_2)
    BY <1>7 DEF RuleJmpZnz
  <2>2. To(g, p, b.jmp_2, 0, 0, 0) = Succ(g, p) \ {b.jmp_ext} /\ b.jmp_ext \in Succ(g, p)
    BY <1>2, <1>3, <1>7 DEF To
  <2> QED
    BY <1>2, <2>1, <2>2, LeaveMakeJmp
<1>8. CASE b.jmp_ext # b.jmp_2 /\ o.op1.k # "CONST" /\ b.jmp_ext = b.next
  <2> DEFINE c == [o EXCEPT !.code = "JMPZ"]
             k == [SetLast(g, p, c) EXCEPT !.bb[p] = [@ EXCEPT !.follow = b.jmp_ext, !.jmp_ext = 0]]
  <2>1. RuleJmpZnz(g, p) = k
    BY <1>8 DEF RuleJmpZnz
  <2>2. c \in Instruction /\ c.code = "JMPZ"
    BY <1>1, Renamed DEF Codes
  <2> HIDE DEF c
  <2>3. Becomes(N, g, k, p, c, b.len, b.jmp_1, b.jmp_2, 0, b.jmp_ext)
    BY <1>1, <1>2, <2>2, JumpNarrowed
  <2> HIDE DEF k
  <2>4. Fit(g, p, C, c.code, b.jmp_1, b.jmp_2, 0, b.jmp_ext) /\ c.code # "FREE"
    BY <1>2, <2>2, JumpCodes DEF Fit
  <2>5. To(g, p, b.jmp_1, b.jmp_2, 0, b.jmp_ext) = Succ(g, p)
    BY <1>2, <1>3 DEF To
  <2> QED
    BY <1>4, <2>1, <2>3, <2>4, <2>5, StaySound
<1>9. CASE b.jmp_ext # b.jmp_2 /\ o.op1.k # "CONST" /\ b.jmp_ext # b.next /\ b.jmp_2 = b.next
  <2> DEFINE c == [o EXCEPT !.code = "JMPNZ"]
             k == [SetLast(g, p, c) EXCEPT !.bb[p] =
                     [@ EXCEPT !.follow = b.jmp_2, !.jmp_2 = b.jmp_ext, !.jmp_ext = 0]]
  <2>1. RuleJmpZnz(g, p) = k
    BY <1>9 DEF RuleJmpZnz
  <2>2. c \in Instruction /\ c.code = "JMPNZ"
    BY <1>1, Renamed DEF Codes
  <2> HIDE DEF c
  <2>3. Becomes(N, g, k, p, c, b.len, b.jmp_1, b.jmp_ext, 0, b.jmp_2)
    BY <1>1, <1>2, <2>2, JumpReplaced
  <2> HIDE DEF k
  <2>4. Fit(g, p, C, c.code, b.jmp_1, b.jmp_ext, 0, b.jmp_2) /\ c.code # "FREE"
    BY <1>2, <2>2, JumpCodes DEF Fit
  <2>5. To(g, p, b.jmp_1, b.jmp_ext, 0, b.jmp_2) = Succ(g, p)
    BY <1>2, <1>3 DEF To
  <2> QED
    BY <1>4, <2>1, <2>3, <2>4, <2>5, StaySound
<1>10. CASE /\ b.jmp_ext # b.jmp_2 /\ o.op1.k # "CONST" /\ b.jmp_ext # b.next /\ b.jmp_2 # b.next
            /\ threads /\ false # "none"
  <2> DEFINE k == Retarget(g, p, "jmp_2", "jmp_ext", g.bb[b.jmp_2][false])
  <2>1. RuleJmpZnz(g, p) = k
    BY <1>10 DEF RuleJmpZnz
  <2>2. k \in Graph(N) /\ Sound(k, P, C)
    BY <1>10, ThreadSound
  <2> QED
    BY <2>1, <2>2
<1>11. CASE /\ b.jmp_ext # b.jmp_2 /\ o.op1.k # "CONST" /\ b.jmp_ext # b.next /\ b.jmp_2 # b.next
            /\ ~ (threads /\ false # "none") /\ threads /\ true # "none"
  <2> DEFINE k == Retarget(g, p, "jmp_ext", "jmp_2", g.bb[b.jmp_ext][true])
  <2>1. RuleJmpZnz(g, p) = k
    BY <1>11 DEF RuleJmpZnz
  <2>2. k \in Graph(N) /\ Sound(k, P, C)
    BY <1>11, ThreadSound
  <2> QED
    BY <2>1, <2>2
<1>12. CASE /\ b.jmp_ext # b.jmp_2 /\ o.op1.k # "CONST" /\ b.jmp_ext # b.next /\ b.jmp_2 # b.next
            /\ ~ (threads /\ false # "none") /\ ~ (threads /\ true # "none")
  <2>1. RuleJmpZnz(g, p) = g
    BY <1>12 DEF RuleJmpZnz
  <2> QED
    BY <2>1
<1> HIDE DEF false, true, threads
<1> QED
  BY <1>5, <1>6, <1>7, <1>8, <1>9, <1>10, <1>11, <1>12

(* A conditional jump over a lone JMP takes that one's way, too.           *)
LEMMA OverJmpSound ==
  ASSUME NEW N \in Nat, NEW g \in Graph(N), NEW P, NEW C, Sound(g, P, C), NEW p \in Used(g),
         g.bb[p].len > 0, LastOp(g, p).code \in CondJumps,
         g.bb[p].follow # g.bb[p].jmp_2, FirstOp(g, g.bb[p].follow).code = "JMP",
         NEW j2, NEW je,
         LET on == g.bb[g.bb[p].follow].jmp_1 IN
           (j2 = on /\ je = g.bb[p].jmp_2) \/ (j2 = g.bb[p].jmp_2 /\ je = on)
  PROVE  LET x == g.bb[p].follow
             on == g.bb[x].jmp_1
             h == AddPred([SetLast(Leave(g, p, x), p, [LastOp(g, p) EXCEPT !.code = "JMPZNZ"])
                           EXCEPT !.bb[p] = [@ EXCEPT !.follow = 0, !.jmp_2 = j2, !.jmp_ext = je]],
                          on, p) IN
         h \in Graph(N) /\ Sound(h, P, C)
<1> DEFINE b == g.bb[p]
           x == b.follow
           on == g.bb[x].jmp_1
           o == LastOp(g, p)
           c == [o EXCEPT !.code = "JMPZNZ"]
           d == Leave(g, p, x)
           k == [SetLast(d, p, c) EXCEPT !.bb[p] =
                   [@ EXCEPT !.follow = 0, !.jmp_2 = j2, !.jmp_ext = je]]
<1>1. /\ p \in 1 .. N + 1 /\ LastLine(b) \in 1 .. N /\ b \in BasicBlock /\ o \in Instruction
      /\ EdgesFit(g, p, C) /\ Protected(g, p, C) /\ Exact(g)
  BY LastIn
<1>2. /\ b.jmp_2 \notin C \cup {0} /\ x \notin C \cup {0} /\ b.jmp_1 = 0 /\ b.jmp_ext = 0
      /\ b.jmp_tc \in C \cup {0} /\ b.jmp_2 \in Nat
  BY <1>1 DEF EdgesFit, Protected, BasicBlock
<1>3. x \in Succ(g, p)
  BY <1>2, SuccIs
<1>4. x \in Used(g)
  BY <1>1, <1>3 DEF Exact
<1>5. on \in Succ(g, x) \ C
  BY <1>4, FirstEdges
<1>6. x # p
  <2>1. x = p => FirstOp(g, x) = o
    BY FirstJump, JumpCodes
  <2> QED
    BY <2>1, JumpCodes
<1>7. on \in Used(g) /\ (p \in Used(d) <=> on \in Used(d))
  BY <1>1, <1>3, <1>5, <1>6, StillUsed
<1>8. on \in Nat /\ on # 0
  BY <1>7, GraphFacts DEF Used
<1>9. Base(N, g, d, p, Succ(g, p) \ {x})
  BY <1>1, <1>4, BaseLeave
<1> HIDE DEF d
<1>10. d \in Graph(N) /\ LastLine(d.bb[p]) = LastLine(b) /\ d.bb[p].len = b.len /\ d.bb[p].jmp_1 = 0
  BY <1>1, <1>2, <1>9 DEF Base, Relinked, Frame, Rest, LastLine
<1>11. c \in Instruction /\ c.code = "JMPZNZ"
  BY <1>1, Renamed DEF Codes
<1> HIDE DEF c
<1>12. j2 \in Nat /\ je \in Nat /\ j2 \notin C \cup {0} /\ je \notin C \cup {0}
  BY <1>2, <1>5, <1>8
<1>13. Becomes(N, d, k, p, c, d.bb[p].len, d.bb[p].jmp_1, j2, je, 0)
  <2> HIDE DEF on, o, b, x
  <2>1. p \in 1 .. N + 1 /\ LastLine(d.bb[p]) \in 1 .. N /\ d \in Graph(N) /\ 0 \in Nat
    BY <1>1, <1>10
  <2> QED
    BY <1>11, <1>12, <2>1, JumpReplaced
<1> HIDE DEF k
<1>14. Becomes(N, d, k, p, c, b.len, 0, j2, je, 0)
  BY <1>10, <1>13
<1>15. Fit(g, p, C, c.code, 0, j2, je, 0) /\ c.code # "FREE"
  BY <1>11, <1>12, JumpCodes DEF Fit
<1>16. To(g, p, 0, j2, je, 0) = (Succ(g, p) \ {x}) \cup {on}
  BY <1>2, <1>8, SuccIs DEF To
<1> HIDE DEF on
<1>17. AddPred(k, on, p) \in Graph(N) /\ Sound(AddPred(k, on, p), P, C)
  BY <1>7, <1>9, <1>14, <1>15, <1>16, AddSound
<1> QED
  BY <1>17 DEF k, d, c, on

(* The rules for JMPZ and JMPNZ.                                           *)
LEMMA RuleCondSound ==
  ASSUME NEW N \in Nat, NEW g \in Graph(N), NEW P, NEW C, Sound(g, P, C), NEW p \in Used(g),
         g.bb[p].len > 0, NEW val \in BOOLEAN,
         LastOp(g, p).code = IF val THEN "JMPNZ" ELSE "JMPZ"
  PROVE  RuleCond(g, p, val) \in Graph(N) /\ Sound(RuleCond(g, p, val), P, C)
<1> DEFINE b == g.bb[p]
           o == LastOp(g, p)
           x == b.follow
           on == g.bb[x].jmp_1
           thru == Through(FirstOp(g, b.jmp_2), o.op1.v, val, FALSE)
           k == RuleCond(g, p, val)
<1>1. /\ EdgesFit(g, p, C) /\ Protected(g, p, C) /\ o.code \in CondJumps
      /\ o.code \in {"JMPZ", "JMPNZ"} /\ (val <=> o.code = "JMPNZ")
  BY LastIn, JumpCodes
<1>2. /\ b.jmp_2 \notin C \cup {0} /\ x \notin C \cup {0} /\ b.jmp_1 = 0 /\ b.jmp_ext = 0
      /\ b.jmp_tc \in C \cup {0}
  BY <1>1 DEF EdgesFit, Protected
<1>3. b.jmp_2 \in Succ(g, p) /\ x \in Succ(g, p) /\ Succ(g, p) = {b.jmp_2, b.jmp_tc, x} \ {0}
  BY <1>2, SuccIs
<1>4. CASE x = b.jmp_2
  <2>1. k = [DropJump(g, p) EXCEPT !.bb[p].jmp_2 = 0]
    BY <1>4 DEF RuleCond
  <2> QED
    BY <1>2, <1>4, <2>1, DropAlike
<1>5. CASE x # b.jmp_2 /\ o.op1.k = "CONST" /\ IsTrue(o.op1.c) = val
  <2>1. k = MakeJmp(Leave(g, p, x), p, b.jmp_2)
    BY <1>5 DEF RuleCond
  <2>2. To(g, p, b.jmp_2, 0, 0, 0) = Succ(g, p) \ {x}
    BY <1>2, <1>3, <1>5 DEF To
  <2>3. b.jmp_2 \in Nat
    BY LastIn DEF BasicBlock
  <2> HIDE DEF k
  <2>4. k \in Graph(N) /\ Sound(k, P, C)
    BY <1>2, <1>3, <2>1, <2>2, <2>3, LeaveMakeJmp
  <2> QED
    BY <2>4 DEF k
<1>6. CASE x # b.jmp_2 /\ o.op1.k = "CONST" /\ IsTrue(o.op1.c) # val
  <2>1. k = [DropJump(Leave(g, p, b.jmp_2), p) EXCEPT !.bb[p].jmp_2 = 0]
    BY <1>6 DEF RuleCond
  <2>2. b.jmp_2 \notin {b.jmp_1, b.jmp_ext, b.jmp_tc, b.follow}
    BY <1>2, <1>6
  <2> HIDE DEF k
  <2>3. k \in Graph(N) /\ Sound(k, P, C)
    BY <1>2, <1>3, <2>1, <2>2, LeaveDrop
  <2> QED
    BY <2>3 DEF k
<1>7. CASE x # b.jmp_2 /\ o.op1.k # "CONST" /\ Alone(g, x, "JMP")
  <2> DEFINE j2 == IF val THEN on ELSE b.jmp_2
             je == IF val THEN b.jmp_2 ELSE on
  <2>1. k = AddPred([SetLast(Leave(g, p, x), p, [o EXCEPT !.code = "JMPZNZ"])
                     EXCEPT !.bb[p] = [@ EXCEPT !.follow = 0, !.jmp_2 = j2, !.jmp_ext = je]],
                    on, p)
    BY <1>7 DEF RuleCond
  <2>2. (j2 = on /\ je = b.jmp_2) \/ (j2 = b.jmp_2 /\ je = on)
    OBVIOUS
  <2>3. FirstOp(g, x).code = "JMP"
    BY <1>7 DEF Alone
  <2> HIDE DEF k, j2, je
  <2>4. k \in Graph(N) /\ Sound(k, P, C)
    BY <1>1, <1>7, <2>1, <2>2, <2>3, OverJmpSound
  <2> QED
    BY <2>4 DEF k
<1>8. CASE /\ x # b.jmp_2 /\ o.op1.k # "CONST" /\ ~ Alone(g, x, "JMP")
           /\ thru # "none" /\ o.op1.k = "TMP" /\ g.bb[b.jmp_2].len = 1
  <2>1. k = Retarget(g, p, "jmp_2", "follow", g.bb[b.jmp_2][thru])
    BY <1>8 DEF RuleCond
  <2> HIDE DEF k
  <2>3. /\ o.code \in {"JMPZ", "JMPZ_EX", "JMPNZ", "JMPNZ_EX"}
        /\ val <=> o.code \in {"JMPNZ", "JMPNZ_EX"}
    BY <1>1
  <2>2. k \in Graph(N) /\ Sound(k, P, C)
    BY <1>8, <2>1, <2>3, ThreadSound
  <2> QED
    BY <2>2 DEF k
<1>9. CASE /\ x # b.jmp_2 /\ o.op1.k # "CONST" /\ ~ Alone(g, x, "JMP")
           /\ ~ (thru # "none" /\ o.op1.k = "TMP" /\ g.bb[b.jmp_2].len = 1)
  <2>1. k = g
    BY <1>9 DEF RuleCond
  <2> QED
    BY <2>1
<1> HIDE DEF k, thru
<1>10. k \in Graph(N) /\ Sound(k, P, C)
  BY <1>4, <1>5, <1>6, <1>7, <1>8, <1>9 DEF k
<1> QED
  BY <1>10 DEF k
-----------------------------------------------------------------------------
Divided(N, g, h, q) ==
  LET b == g.bb[q]
      n == q + 1 IN
  /\ h \in Graph(N) /\ h.ops = g.ops
  /\ \A x \in 1 .. N + 1 :
       /\ h.bb[x].used = (g.bb[x].used \/ x = n)
       /\ x \notin {q, n} => Frame(g.bb[x], h.bb[x]) /\ Rest(g.bb[x], h.bb[x])
       /\ x # n => h.bb[x].pred = IF x \in Succ(g, q) THEN (g.bb[x].pred \cup {n}) \ {q}
                                                      ELSE g.bb[x].pred
  /\ h.bb[q].start = q /\ h.bb[q].protect = b.protect /\ h.bb[q].jmp_tc = 0 /\ h.bb[q].next = n
  /\ Leads(h.bb[q], 1, 0, 0, 0, n)
  /\ h.bb[n].start = n /\ ~ h.bb[n].protect /\ h.bb[n].jmp_tc = 0 /\ h.bb[n].next = b.next
  /\ Leads(h.bb[n], b.len - 1, b.jmp_1, b.jmp_2, b.jmp_ext, b.follow)
  /\ h.bb[n].pred = {q}

(* What Split makes of the block, ...                                      *)
LEMMA FrontBlock ==
  ASSUME NEW b \in BasicBlock, NEW n \in Nat
  PROVE  LET c == UpTo(b, n) IN
         /\ c \in BasicBlock /\ c.start = b.start /\ c.protect = b.protect /\ c.jmp_tc = b.jmp_tc
         /\ c.next = n /\ Leads(c, 1, 0, 0, 0, n) /\ c.used = b.used /\ c.pred = b.pred
  BY DEF BasicBlock, Leads, UpTo

LEMMA BackBlock ==
  ASSUME NEW b \in BasicBlock, b.len > 1
  PROVE  LET c == Behind(b, NoBlock) IN
         /\ c \in BasicBlock /\ c.start = b.start + 1 /\ c.protect = FALSE /\ c.jmp_tc = 0
         /\ c.next = b.next /\ Leads(c, b.len - 1, b.jmp_1, b.jmp_2, b.jmp_ext, b.follow)
         /\ c.used = TRUE /\ c.pred = {}
<1>1. b.len - 1 \in Nat /\ b.start + 1 \in Nat /\ b.next \in Nat /\ b.jmp_1 \in Nat
          /\ b.jmp_2 \in Nat
      /\ b.jmp_ext \in Nat /\ b.follow \in Nat
  BY DEF BasicBlock
<1>0. NoBlock \in BasicBlock /\ NoBlock.protect = FALSE /\ NoBlock.jmp_tc = 0
  BY DEF NoBlock, BasicBlock
<1> DEFINE x == [start |-> b.start + 1, len |-> b.len - 1, used |-> TRUE, protect |-> FALSE,
         jmp_1 |-> b.jmp_1, jmp_2 |-> b.jmp_2, jmp_ext |-> b.jmp_ext, jmp_tc |-> 0,
         follow |-> b.follow, pred |-> {}, next |-> b.next]
<1>4. Behind(b, NoBlock) = [NoBlock EXCEPT !.used = TRUE, !.start = b.start + 1,
          !.len = b.len - 1, !.next = b.next,
            !.pred = {}, !.jmp_1 = b.jmp_1, !.jmp_2 = b.jmp_2,
            !.jmp_ext = b.jmp_ext, !.follow = b.follow]
  BY DEF Behind, NoBlock
<1>5. Behind(b, NoBlock) = x
  BY <1>4 DEF NoBlock
<1>6. /\ x \in BasicBlock /\ x.start = b.start + 1 /\ ~ x.protect /\ x.jmp_tc = 0
         /\ x.next = b.next /\ Leads(x, b.len - 1, b.jmp_1, b.jmp_2, b.jmp_ext, b.follow)
         /\ x.used /\ x.pred = {}
  BY <1>1 DEF BasicBlock, Leads
<1> QED
  BY <1>5, <1>6

(* A block that n leads to, instead of q.                                  *)
Passed(b, n, q) == [b EXCEPT !.pred = (@ \cup {n}) \ {q}]

LEMMA PassedFacts ==
  ASSUME NEW b \in BasicBlock, NEW n \in Nat, NEW q
  PROVE  /\ Passed(b, n, q) \in BasicBlock /\ Frame(b, Passed(b, n, q)) /\ Rest(b, Passed(b, n, q))
         /\ Passed(b, n, q).used = b.used /\ Passed(b, n, q).pred = (b.pred \cup {n}) \ {q}
  BY DEF BasicBlock, Frame, Rest, Passed

(* ... and of the graph.                                                   *)
LEMMA SplitFacts ==
  ASSUME NEW N \in Nat, NEW g \in Graph(N), NEW q \in 1 .. N, g.bb[q].start = q, g.bb[q].len > 1,
         g.bb[q].used, g.bb[q].jmp_tc = 0, q \notin g.bb[q + 1].pred, q + 1 \notin Succ(g, q),
         g.bb[q + 1] = NoBlock
  PROVE  Divided(N, g, Split(g, q), q)
<1> DEFINE b == g.bb[q]
           n == q + 1
           new == Behind(b, g.bb[n])
           link(r) == IF r \in Succ(g, q) THEN Passed(g.bb[r], n, q) ELSE g.bb[r]
           moved == [r \in DOMAIN g.bb |-> link(r)]
           cut == UpTo(link(q), n)
           split == [moved EXCEPT ![n] = new, ![q] = cut]
           s == [g EXCEPT !.bb = split]
           h == AddPred(s, n, q)
<1>1. /\ DOMAIN g.bb = 1 .. N + 1 /\ n \in 1 .. N + 1 /\ q \in 1 .. N + 1 /\ q # n
      /\ \A x \in 1 .. N + 1 : g.bb[x] \in BasicBlock
  BY GraphFacts
<1>2. \A r \in 1 .. N + 1 : r \in {b.jmp_1, b.jmp_2, b.jmp_ext, b.follow} <=> r \in Succ(g, q)
  BY SuccIs
<1>3. Split(g, q) = h
  <2>1. moved = [r \in DOMAIN g.bb |->
                  IF r \in {b.jmp_1, b.jmp_2, b.jmp_ext, b.follow}
                    THEN [g.bb[r] EXCEPT !.pred = (@ \cup {n}) \ {q}] ELSE g.bb[r]]
    BY <1>1, <1>2 DEF Passed
  <2>2. moved[q] = link(q) /\ DOMAIN moved = 1 .. N + 1
    BY <1>1
  <2> HIDE DEF link, moved
  <2>3. split = [moved EXCEPT ![n] = new, ![q] = UpTo(@, n)]
    BY <1>1, <2>2
  <2> HIDE DEF split
  <2> QED
    BY <2>1, <2>3 DEF Split
<1>4. ASSUME NEW r \in 1 .. N + 1
      PROVE  /\ link(r) \in BasicBlock /\ Frame(g.bb[r], link(r)) /\ Rest(g.bb[r], link(r))
             /\ link(r).used = g.bb[r].used
             /\ link(r).pred = IF r \in Succ(g,
                       q) THEN (g.bb[r].pred \cup {n}) \ {q} ELSE g.bb[r].pred
  <2>1. n \in Nat /\ g.bb[r] \in BasicBlock
    BY <1>1
  <2> HIDE DEF n
  <2>2. CASE r \in Succ(g, q)
    <3>1. link(r) = Passed(g.bb[r], n, q)
      BY <2>2
    <3> HIDE DEF link
    <3> QED
      BY <2>1, <2>2, <3>1, PassedFacts
  <2>3. CASE r \notin Succ(g, q)
    BY <2>1, <2>3 DEF Frame, Rest
  <2> QED
    BY <2>2, <2>3
<1>20. link(q).start = q /\ link(q).protect = b.protect /\ link(q).jmp_tc = 0
  BY <1>1, <1>4 DEF Frame
<1> HIDE DEF link
<1>5. /\ cut \in BasicBlock /\ cut.start = q /\ cut.protect = b.protect /\ cut.jmp_tc = 0
      /\ cut.next = n /\ Leads(cut, 1, 0, 0, 0, n) /\ cut.used = b.used /\ cut.pred = link(q).pred
  <2>2. n \in Nat
    BY <1>1
  <2>1. link(q) \in BasicBlock /\ link(q).used = b.used
    BY <1>1, <1>4
  <2> HIDE DEF n
  <2> QED
    BY <1>20, <2>1, <2>2, FrontBlock
<1> HIDE DEF cut
<1>6. /\ new \in BasicBlock /\ new.start = n /\ ~ new.protect /\ new.jmp_tc = 0
      /\ new.next = b.next /\ Leads(new, b.len - 1, b.jmp_1, b.jmp_2, b.jmp_ext, b.follow)
      /\ new.used /\ new.pred = {}
  <2>1. b \in BasicBlock
    BY <1>1
  <2> QED
    BY <2>1, BackBlock
<1> HIDE DEF new
<1>7. /\ split \in [1 .. N + 1 -> BasicBlock] /\ split[n] = new /\ split[q] = cut
      /\ \A x \in 1 .. N + 1 : x \notin {q, n} => split[x] = link(x)
  <2>1. moved \in [1 .. N + 1 -> BasicBlock] /\ \A x \in 1 .. N + 1 : moved[x] = link(x)
    BY <1>1, <1>4
  <2> HIDE DEF moved, n
  <2> QED
    BY <1>1, <1>5, <1>6, <2>1
<1> HIDE DEF split
<1>8. s \in Graph(N) /\ s.ops = g.ops /\ s.bb = split
  BY <1>7, WithBlocks
<1> HIDE DEF s
<1>9. PredAdded(N, s, h, n, q)
  BY <1>1, <1>8, AddPredFacts
<1> HIDE DEF h
<1>10. /\ h \in Graph(N) /\ h.ops = g.ops
       /\ \A x \in 1 .. N + 1 :
            /\ Frame(split[x], h.bb[x]) /\ Rest(split[x], h.bb[x]) /\ h.bb[x].used = split[x].used
            /\ h.bb[x].pred = IF x = n THEN split[x].pred \cup {q} ELSE split[x].pred
  BY <1>8, <1>9 DEF PredAdded, Relinked
<1> HIDE DEF b
<1>11. /\ h.bb[n].start = n /\ ~ h.bb[n].protect /\ h.bb[n].jmp_tc = 0 /\ h.bb[n].next = b.next
       /\ Leads(h.bb[n], b.len - 1, b.jmp_1, b.jmp_2, b.jmp_ext, b.follow)
       /\ h.bb[n].pred = {q} /\ h.bb[n].used
  <2>1. Frame(new, h.bb[n]) /\ Rest(new, h.bb[n]) /\ h.bb[n].used = new.used /\ h.bb[n].pred = {q}
    BY <1>1, <1>6, <1>7, <1>10
  <2> HIDE DEF n
  <2> QED
    BY <1>6, <2>1 DEF Frame, Rest, Leads
<1>12. /\ h.bb[q].start = q /\ h.bb[q].protect = b.protect /\ h.bb[q].jmp_tc = 0 /\ h.bb[q].next = n
       /\ Leads(h.bb[q], 1, 0, 0, 0, n) /\ h.bb[q].used = b.used /\ h.bb[q].pred = link(q).pred
  <2>1. Frame(cut, h.bb[q]) /\ Rest(cut, h.bb[q]) /\ h.bb[q].used = cut.used
        /\ h.bb[q].pred = cut.pred
    BY <1>1, <1>7, <1>10
  <2> HIDE DEF n
  <2> QED
    BY <1>5, <2>1 DEF Frame, Rest, Leads
<1>13. ASSUME NEW x \in 1 .. N + 1, x \notin {q, n}
       PROVE  /\ Frame(g.bb[x], h.bb[x]) /\ Rest(g.bb[x], h.bb[x]) /\ h.bb[x].used = g.bb[x].used
              /\ h.bb[x].pred = link(x).pred
  <2>1. Frame(link(x), h.bb[x]) /\ Rest(link(x), h.bb[x]) /\ h.bb[x].used = link(x).used
        /\ h.bb[x].pred = link(x).pred
    BY <1>7, <1>10, <1>13
  <2>2. Frame(g.bb[x], link(x)) /\ Rest(g.bb[x], link(x)) /\ link(x).used = g.bb[x].used
    BY <1>4
  <2> QED
    BY <2>1, <2>2 DEF Frame, Rest
<1>14. \A x \in 1 .. N + 1 : g.bb[x].used \in BOOLEAN /\ h.bb[x].used \in BOOLEAN
  BY <1>1, <1>10, GraphFacts DEF BasicBlock
<1>21. \A x \in 1 .. N + 1 : h.bb[x].used = (g.bb[x].used \/ x = n)
  <2> HIDE DEF n
  <2>1. h.bb[q].used = g.bb[q].used
    BY <1>12 DEF b
  <2> QED
    BY <1>1, <1>11, <2>1, <1>13, <1>14
<1>15. ASSUME NEW x \in 1 .. N + 1, x # n
       PROVE  h.bb[x].pred = IF x \in Succ(g, q) THEN (g.bb[x].pred \cup {n}) \ {q}
                                                      ELSE g.bb[x].pred
  <2>1. h.bb[x].pred = link(x).pred
    BY <1>12, <1>13, <1>15
  <2> QED
    BY <1>4, <2>1
<1>16. Divided(N, g, h, q)
  BY <1>10, <1>11, <1>12, <1>13, <1>15, <1>21 DEF Divided, b
<1> QED
  BY <1>3, <1>16

(* The list, when block n has come in behind q.                            *)
LEMMA DividedOrder ==
  ASSUME NEW N \in Nat, NEW g \in Graph(N), NEW P, NEW C, Sound(g, P, C), NEW q \in Used(g),
         g.bb[q].len > 1, q + 1 \notin P, NEW h, Divided(N, g, h, q)
  PROVE  InOrder(h, P \cup {q + 1}) /\ Disjoint(h, P \cup {q + 1})
<1> DEFINE n == q + 1
           b == g.bb[q]
<1>1. q \in P
  BY UsedListed
<1>2. q \in 1 .. N /\ b.start = q /\ b.len \in Nat /\ q + b.len <= N + 1
  BY <1>1, UsedFacts
<1>3. n \in 1 .. N /\ n # q /\ n \notin P /\ P \subseteq 1 .. N /\ q \in 1 .. N + 1
  BY <1>2, UsedFacts
<1>4. /\ DOMAIN h.bb = 1 .. N + 1 /\ DOMAIN h.ops = 1 .. N /\ Len(h.ops) = N /\ Len(g.ops) = N
      /\ DOMAIN g.bb = 1 .. N + 1
  BY GraphFacts DEF Divided
<1>5. \A x \in P : x # q => /\ h.bb[x].start = g.bb[x].start /\ h.bb[x].next = g.bb[x].next
                            /\ h.bb[x].len = g.bb[x].len /\ h.bb[x].used = g.bb[x].used
  <2>1. ASSUME NEW x \in P, x # q
        PROVE  x \in 1 .. N + 1 /\ x \notin {q, n} /\ g.bb[x].used \in BOOLEAN
    BY <1>3, <2>1, GraphFacts DEF BasicBlock
  <2>2. ASSUME NEW x \in P, x # q
        PROVE  /\ h.bb[x].start = g.bb[x].start /\ h.bb[x].next = g.bb[x].next
               /\ h.bb[x].len = g.bb[x].len
    BY <2>1, <2>2 DEF Divided, Frame, Rest
  <2>3. ASSUME NEW x \in P, x # q
        PROVE  h.bb[x].used = g.bb[x].used
    <3> HIDE DEF n
    <3>1. h.bb[x].used = (g.bb[x].used \/ x = n)
      BY <2>1, <2>3 DEF Divided, n
    <3> QED
      BY <2>1, <2>3, <3>1
  <2> QED
    BY <2>2, <2>3
<1>6. /\ h.bb[q].start = q /\ h.bb[q].next = n /\ h.bb[q].len = 1
      /\ h.bb[n].start = n /\ h.bb[n].next = b.next /\ h.bb[n].len = b.len - 1
  BY DEF Divided, Leads
<1>7. InOrder(g, P) /\ Disjoint(g, P)
  BY DEF Sound
<1>8. \A x \in P : IF g.bb[x].next = 0 THEN \A y \in P : y <= x
                   ELSE g.bb[x].next \in P /\ x < g.bb[x].next
                        /\ \A y \in P : y <= x \/ g.bb[x].next <= y
  BY <1>7 DEF InOrder
<1>9. Used(h) \subseteq P \cup {n}
  <2>1. \A x \in 1 .. N + 1 : h.bb[x].used = (g.bb[x].used \/ x = n)
    BY DEF Divided
  <2>2. Used(g) \subseteq P
    BY <1>7 DEF InOrder
  <2> HIDE DEF n
  <2> QED
    BY <1>4, <2>1, <2>2 DEF Used
<1>10. ASSUME NEW x \in P \cup {n}
       PROVE  IF h.bb[x].next = 0 THEN \A y \in P \cup {n} : y <= x
                   ELSE h.bb[x].next \in P \cup {n} /\ x < h.bb[x].next
                        /\ \A y \in P \cup {n} : y <= x \/ h.bb[x].next <= y
  <2>1. CASE x = q
    BY <1>3, <1>6, <2>1
  <2>2. CASE x = n
    <3>1. \A y \in P : y <= q => y <= n
      BY <1>3
    <3>2. CASE b.next = 0
      BY <1>1, <1>3, <1>6, <1>8, <2>2, <3>1, <3>2
    <3>3. CASE b.next # 0
      <4>1. b.next \in P /\ q < b.next /\ \A y \in P : y <= q \/ b.next <= y
        BY <1>1, <1>8, <3>3
      <4>3. b.next \in 1 .. N /\ b.next # n
        BY <1>3, <4>1
      <4>2. n < b.next
        BY <1>3, <4>1, <4>3
      <4> QED
        BY <1>3, <1>6, <2>2, <3>1, <3>3, <4>1, <4>2
    <3> QED
      BY <3>2, <3>3
  <2>3. CASE x \in P /\ x # q
    <3>1. h.bb[x].next = g.bb[x].next
      BY <1>5, <2>3
    <3>2. q <= x => n <= x
      BY <1>3, <2>3
    <3>3. CASE g.bb[x].next = 0
      BY <1>1, <1>8, <2>3, <3>1, <3>2, <3>3
    <3>4. CASE g.bb[x].next # 0
      <4>1. g.bb[x].next \in P /\ x < g.bb[x].next /\ \A y \in P : y <= x \/ g.bb[x].next <= y
        BY <1>8, <2>3, <3>4
      <4>3. q <= x \/ g.bb[x].next <= q
        BY <1>1, <4>1
      <4>4. x \in 1 .. N /\ g.bb[x].next \in 1 .. N
        BY <1>3, <2>3, <4>1
      <4>2. n <= x \/ g.bb[x].next <= n
        BY <1>3, <3>2, <4>3, <4>4
      <4> QED
        BY <3>1, <3>4, <4>1, <4>2
    <3> QED
      BY <3>3, <3>4
  <2> QED
    BY <2>1, <2>2, <2>3
<1>11. \A x \in P \cup {n} : h.bb[x].start = x
  BY <1>5, <1>6, UsedFacts
<1>12. InOrder(h, P \cup {n})
  <2>1. 1 \in P
    BY <1>7 DEF InOrder
  <2> QED
    BY <1>3, <1>4, <1>9, <1>10, <1>11, <2>1 DEF InOrder
<1>13. \A x \in P : /\ g.bb[x].len \in Nat /\ x + g.bb[x].len <= N + 1
                    /\ \A y \in P : x < y /\ (g.bb[y].used \/ g.bb[y].len > 0)
                              => x + g.bb[x].len <= y
  BY <1>4, <1>7, UsedFacts DEF Disjoint
<1>14. ASSUME NEW x \in P \cup {n}
       PROVE  x + h.bb[x].len <= N + 1
  <2>1. CASE x = q \/ x = n
    BY <1>2, <1>6, <2>1
  <2>2. CASE x \in P /\ x # q
    BY <1>5, <1>13, <2>2
  <2> QED
    BY <2>1, <2>2
<1>15. ASSUME NEW x \in P \cup {n}, NEW y \in P \cup {n}, x < y, h.bb[y].used \/ h.bb[y].len > 0
       PROVE  x + h.bb[x].len <= y
  <2>1. CASE x = q
    BY <1>3, <1>6, <1>15, <2>1
  <2>2. CASE x = n
    <3>1. y \in P /\ y # q /\ q < y
      BY <1>3, <1>15, <2>2
    <3>2. g.bb[y].used \/ g.bb[y].len > 0
      BY <1>5, <1>15, <3>1
    <3>3. q + b.len <= y
      BY <1>1, <1>13, <3>1, <3>2
    <3> QED
      BY <1>2, <1>3, <1>6, <2>2, <3>3
  <2>3. CASE x \in P /\ x # q /\ y = n
    <3>1. x < q
      BY <1>3, <1>15, <2>3
    <3>2. x + g.bb[x].len <= q
      BY <1>1, <1>13, <2>3, <3>1 DEF Used
    <3> QED
      BY <1>3, <1>5, <1>13, <2>3, <3>2
  <2>4. CASE x \in P /\ x # q /\ y \in P
    <3>1. g.bb[y].used \/ g.bb[y].len > 0
      BY <1>5, <1>15, <2>4 DEF Used
    <3> QED
      BY <1>5, <1>13, <1>15, <2>4, <3>1
  <2> QED
    BY <2>1, <2>2, <2>3, <2>4
<1>16. Disjoint(h, P \cup {n})
  BY <1>4, <1>14, <1>15 DEF Disjoint
<1> QED
  BY <1>12, <1>16

(* The links when a block is divided: those behind q now lead from n.      *)
LEMMA DividedExact ==
  ASSUME NEW N \in Nat, NEW g \in Graph(N), Exact(g), NEW q \in 1 .. N, q \in Used(g),
         q + 1 \notin Used(g), g.bb[q].jmp_tc = 0, NEW h, Divided(N, g, h, q)
  PROVE  Exact(h) /\ Used(h) = Used(g) \cup {q + 1}
<1> DEFINE n == q + 1
<1>1. /\ DOMAIN h.bb = 1 .. N + 1 /\ DOMAIN g.bb = 1 .. N + 1 /\ n \in 1 .. N + 1
      /\ q \in 1 .. N + 1 /\ n # q
  BY GraphFacts DEF Divided
<1>2. \A x \in 1 .. N + 1 :
       /\ h.bb[x].used = (g.bb[x].used \/ x = n)
       /\ x \notin {q, n} => Frame(g.bb[x], h.bb[x]) /\ Rest(g.bb[x], h.bb[x])
       /\ x # n => h.bb[x].pred = IF x \in Succ(g, q) THEN (g.bb[x].pred \cup {n}) \ {q}
                                                      ELSE g.bb[x].pred
  BY DEF Divided
<1>3. Succ(h, q) = {n} /\ Succ(h, n) = Succ(g, q) /\ h.bb[n].pred = {q}
  <2>1. /\ Leads(h.bb[q], 1, 0, 0, 0, n) /\ h.bb[q].jmp_tc = 0 /\ h.bb[n].jmp_tc = 0
        /\ Leads(h.bb[n], g.bb[q].len - 1, g.bb[q].jmp_1, g.bb[q].jmp_2, g.bb[q].jmp_ext,
                  g.bb[q].follow)
        /\ h.bb[n].pred = {q} /\ n # 0
    BY <1>1 DEF Divided
  <2> HIDE DEF n
  <2> QED
    BY <2>1, SuccIs DEF Leads
<1> HIDE DEF n
<1>4. \A x \in 1 .. N + 1 : x \notin {q, n} => Succ(h, x) = Succ(g, x)
  BY <1>2, SuccIs DEF Frame, Rest
<1>5. Used(h) = Used(g) \cup {n}
  BY <1>1, <1>2 DEF Used
<1>6. Used(g) \subseteq 1 .. N + 1 /\ n \notin Used(g)
  BY <1>1 DEF Used, n
<1>7. \A x \in Used(g) : /\ g.bb[x].pred = {y \in Used(g) : x \in Succ(g, y)}
                         /\ Succ(g, x) \subseteq Used(g)
  BY DEF Exact
<1>8. ASSUME NEW x \in Used(h)
      PROVE  Succ(h, x) \subseteq Used(h)
  BY <1>3, <1>4, <1>5, <1>6, <1>7
<1>9. ASSUME NEW x \in Used(h), NEW y
      PROVE  y \in h.bb[x].pred <=> y \in Used(h) /\ x \in Succ(h, y)
  <2>1. CASE x = n
    <3>1. y \in Used(h) /\ n \in Succ(h, y) <=> y = q
      BY <1>1, <1>3, <1>4, <1>5, <1>6, <1>7
    <3> QED
      BY <1>3, <2>1, <3>1
  <2>2. CASE x # n /\ y = q
    <3>1. x \in Used(g) /\ x \in 1 .. N + 1
      BY <1>5, <1>6, <2>2
    <3>4. q \in g.bb[x].pred => x \in Succ(g, q)
      BY <1>7, <3>1
    <3>5. h.bb[x].pred = IF x \in Succ(g, q) THEN (g.bb[x].pred \cup {n}) \ {q} ELSE g.bb[x].pred
      BY <1>2, <2>2, <3>1
    <3>2. x \notin Succ(h, q)
      BY <1>3, <2>2
    <3>3. q \notin h.bb[x].pred
      BY <3>4, <3>5
    <3> QED
      BY <2>2, <3>2, <3>3
  <2>3. CASE x # n /\ y = n
    <3>1. n \notin g.bb[x].pred
      BY <1>5, <1>6, <1>7, <2>3
    <3>2. n \in h.bb[x].pred <=> x \in Succ(g, q)
      BY <1>1, <1>2, <1>5, <1>6, <2>3, <3>1
    <3> QED
      BY <1>3, <1>5, <2>3, <3>2
  <2>4. CASE x # n /\ y \notin {q, n}
    <3>1. y \in h.bb[x].pred <=> y \in g.bb[x].pred
      BY <1>2, <1>5, <1>6, <2>4
    <3>2. y \in g.bb[x].pred <=> y \in Used(g) /\ x \in Succ(g, y)
      BY <1>5, <1>7, <2>4
    <3> QED
      BY <1>4, <1>5, <1>6, <2>4, <3>1, <3>2
  <2> QED
    BY <2>1, <2>2, <2>3, <2>4
<1>10. \A x \in Used(h) : h.bb[x].pred = {y \in Used(h) : x \in Succ(h, y)}
  BY <1>9
<1> QED
  BY <1>5, <1>8, <1>10 DEF Exact, n

LEMMA DividedSound ==
  ASSUME NEW N \in Nat, NEW g \in Graph(N), NEW P, NEW C, Sound(g, P, C), NEW q \in Used(g),
         g.bb[q].len > 1, FirstOp(g, q).code = "FREE", q + 1 \notin P \cup C,
         NEW h, Divided(N, g, h, q)
  PROVE  Sound(h, P \cup {q + 1}, C)
<1> DEFINE n == q + 1
           b == g.bb[q]
<1>1. q \in P /\ Protected(g, q, C) /\ EdgesFit(g, q, C)
  BY UsedListed DEF Sound
<1>2. /\ q \in 1 .. N /\ b.start = q /\ b.len \in Nat /\ q + b.len <= N + 1
      /\ LastLine(b) = q + b.len - 1
  BY <1>1, UsedFacts
<1>3. ~ b.protect /\ b.jmp_tc = 0
  BY <1>1 DEF Protected
<1>4. n \notin Used(g) /\ Used(g) \subseteq P
  BY UsedListed
<1>5. Exact(h) /\ Used(h) = Used(g) \cup {n}
  BY <1>2, <1>3, <1>4, DividedExact DEF Sound
<1>6. InOrder(h, P \cup {n}) /\ Disjoint(h, P \cup {n})
  BY DividedOrder
<1>7. /\ h.ops = g.ops
      /\ h.bb[q].start = q /\ ~ h.bb[q].protect /\ h.bb[q].jmp_tc = 0
      /\ Leads(h.bb[q], 1, 0, 0, 0, n)
      /\ h.bb[n].start = n /\ ~ h.bb[n].protect /\ h.bb[n].jmp_tc = 0
      /\ Leads(h.bb[n], b.len - 1, b.jmp_1, b.jmp_2, b.jmp_ext, b.follow)
      /\ \A x \in 1 .. N + 1 : x \notin {q, n} => Frame(g.bb[x], h.bb[x]) /\ Rest(g.bb[x], h.bb[x])
  BY <1>3 DEF Divided
<1>8. LastLine(h.bb[n]) = LastLine(b) /\ LastLine(h.bb[q]) = q /\ h.bb[n].len > 0
  BY <1>2, <1>7 DEF LastLine, Leads
<1>9. LastOp(h, n) = LastOp(g, q) /\ LastOp(h, q) = FirstOp(g, q)
  BY <1>2, <1>7, <1>8 DEF LastOp, FirstOp
<1>10. \A x \in P : x \in 1 .. N + 1 /\ x # n
  BY UsedFacts
<1>11. JumpsLast(h, P \cup {n})
  <2>1. SUFFICES ASSUME NEW i \in DOMAIN g.ops, g.ops[i].code \in Jumps
                 PROVE  \E x \in P \cup {n} : h.bb[x].len > 0 /\ i = LastLine(h.bb[x])
    BY <1>7 DEF JumpsLast
  <2>2. PICK x \in P : g.bb[x].len > 0 /\ i = LastLine(g.bb[x])
    BY <2>1 DEF Sound, JumpsLast
  <2>3. CASE x = q
    BY <1>8, <2>2, <2>3
  <2>4. CASE x # q
    <3>1. Frame(g.bb[x], h.bb[x]) /\ Rest(g.bb[x], h.bb[x])
      BY <1>7, <1>10, <2>4
    <3> QED
      BY <2>2, <3>1 DEF Frame, Rest, LastLine
  <2> QED
    BY <2>3, <2>4
<1>12. EdgesFit(h, q, C) /\ Protected(h, q, C)
  <2>1. h.bb[q].len = 1 /\ h.bb[q].follow = n
    BY <1>7 DEF Leads
  <2>2. n \notin C \cup {0} /\ LastOp(h, q).code = "FREE"
    BY <1>2, <1>9
  <2>3. "FREE" \notin CondJumps
    BY JumpCodes
  <2> HIDE DEF n
  <2>4. EdgesFit(h, q, C)
    BY <2>1, <2>2, <2>3 DEF EdgesFit
  <2> QED
    BY <1>7, <2>4 DEF Protected
<1>13. EdgesFit(h, n, C) /\ Protected(h, n, C)
  <2>1. /\ h.bb[n].len > 0 /\ h.bb[n].jmp_1 = b.jmp_1 /\ h.bb[n].jmp_2 = b.jmp_2
        /\ h.bb[n].jmp_ext = b.jmp_ext /\ h.bb[n].follow = b.follow
    BY <1>7, <1>8 DEF Leads
  <2>2. ASSUME LastOp(g, q).code = "JMP", b.follow # 0
        PROVE  n < b.follow /\ \A x \in Used(h) : x <= n \/ b.follow <= x
    <3>1. q < b.follow /\ \A x \in Used(g) : x <= q \/ b.follow <= x
      BY <1>1, <1>2, <2>2 DEF EdgesFit
    <3>2. b.follow \in Used(g)
      BY <2>2, SuccIs DEF Sound, Exact
    <3>3. b.follow \in 1 .. N + 1 /\ b.follow # n
      BY <1>4, <1>10, <3>2
    <3>4. n < b.follow
      BY <1>2, <3>1, <3>3
    <3>5. \A x \in Used(g) : x \in 1 .. N + 1
      BY <1>4, <1>10
    <3> QED
      BY <1>2, <1>5, <3>1, <3>4, <3>5
  <2>3. EdgesFit(h, n, C)
    <3>1. b.len > 0
      BY <1>2
    <3> HIDE DEF n, b
    <3> QED
      BY <1>1, <1>9, <2>1, <2>2, <3>1 DEF EdgesFit, b
  <2> QED
    BY <1>7, <2>3 DEF Protected
<1>14. ASSUME NEW x \in Used(g), x # q
       PROVE  EdgesFit(h, x, C) /\ Protected(h, x, C)
  <2>1. /\ x \in P /\ x \in 1 .. N + 1 /\ x # n
        /\ EdgesFit(g, x, C) /\ Protected(g, x, C) /\ g.bb[x] \in BasicBlock
    BY <1>4, <1>10, GraphFacts DEF Sound
  <2>2. Frame(g.bb[x], h.bb[x]) /\ Rest(g.bb[x], h.bb[x])
    BY <1>7, <1>14, <2>1
  <2>3. LastOp(h, x) = LastOp(g, x) /\ FirstOp(h, x) = FirstOp(g, x)
    BY <1>7, <2>2 DEF LastOp, FirstOp, LastLine, Frame, Rest
  <2>4. ASSUME x < g.bb[x].follow, \A y \in Used(g) : y <= x \/ g.bb[x].follow <= y
        PROVE  \A y \in Used(h) : y <= x \/ g.bb[x].follow <= y
    <3>1. q <= x \/ g.bb[x].follow <= q
      BY <2>4
    <3>2. g.bb[x].follow \in Nat
      BY <2>1 DEF BasicBlock
    <3>3. n <= x \/ g.bb[x].follow <= n
      BY <1>2, <1>14, <2>1, <3>1, <3>2
    <3> QED
      BY <1>5, <2>4, <3>3
  <2>5. EdgesFit(h, x, C)
    BY <2>1, <2>2, <2>3, <2>4 DEF EdgesFit, Rest
  <2>6. g.bb[x].jmp_tc # 0 => g.bb[x].jmp_tc \in P
    BY <1>4, SuccIs DEF Sound, Exact
  <2>7. g.bb[x].jmp_tc # 0 => h.bb[g.bb[x].jmp_tc].protect = g.bb[g.bb[x].jmp_tc].protect
    <3>1. g.bb[x].jmp_tc # 0 => g.bb[g.bb[x].jmp_tc].protect
      BY <2>1 DEF Protected
    <3>2. g.bb[x].jmp_tc # 0 => g.bb[x].jmp_tc # q
      BY <1>3, <3>1
    <3> QED
      BY <1>7, <1>10, <2>6, <3>2 DEF Frame
  <2>8. Protected(h, x, C)
    BY <2>1, <2>2, <2>3, <2>7 DEF Protected, Frame
  <2> QED
    BY <2>5, <2>8
<1>15. \A x \in Used(h) : EdgesFit(h, x, C) /\ Protected(h, x, C)
  BY <1>5, <1>12, <1>13, <1>14
<1> QED
  BY <1>5, <1>6, <1>11, <1>15 DEF Sound

(* A block that begins with FREE can be split behind it, as the JMPZ_EX    *)
(* and JMPNZ_EX rules do: the new block n = q + 1 is one of the list, and  *)
(* the graph is sound, provided n is the place of no other block           *)
(* (optimize_jmp, "JMPZ_EX ... FREE").                                     *)
THEOREM SplitSound ==
  ASSUME NEW N \in Nat, NEW g \in Graph(N), NEW P, NEW C, Sound(g, P, C), NEW q \in Used(g),
         g.bb[q].len > 1, FirstOp(g, q).code = "FREE", q + 1 \notin P \cup C,
         g.bb[q + 1] = NoBlock
  PROVE  /\ Divided(N, g, Split(g, q), q)
         /\ Split(g, q) \in Graph(N) /\ Sound(Split(g, q), P \cup {q + 1}, C)
<1>1. q \in P /\ Protected(g, q, C) /\ q + 1 \notin Used(g) /\ g.bb[q].used
  BY UsedListed DEF Sound, Used
<1>2. q \in 1 .. N /\ g.bb[q].start = q
  BY <1>1, UsedFacts
<1>3. g.bb[q].jmp_tc = 0 /\ q \notin g.bb[q + 1].pred
  BY <1>1 DEF Protected, NoBlock
<1>4. q + 1 \notin Succ(g, q)
  BY <1>1 DEF Sound, Exact
<1>5. Divided(N, g, Split(g, q), q)
  BY <1>1, <1>2, <1>3, <1>4, SplitFacts
<1> QED
  BY <1>5, DividedSound DEF Divided
-----------------------------------------------------------------------------
(* The jump at the end of p becomes another that goes past the block it    *)
(* leads to.                                                               *)
LEMMA PassSound ==
  ASSUME NEW N \in Nat, NEW g \in Graph(N), NEW P, NEW C, Sound(g, P, C), NEW p \in Used(g),
         g.bb[p].len > 0, LastOp(g, p).code \in CondJumps, NEW o \in Instruction,
                   o.code \in CondJumps,
         g.bb[p].jmp_2 # p, g.bb[g.bb[p].jmp_2].follow \notin C \cup {0}
  PROVE  LET k == Retarget(SetLast(g, p, o), p, "jmp_2", "follow", g.bb[g.bb[p].jmp_2].follow) IN
         k \in Graph(N) /\ Sound(k, P, C)
<1> DEFINE b == g.bb[p]
           q == b.jmp_2
           r == g.bb[q].follow
           s == SetLast(g, p, o)
           k == Retarget(s, p, "jmp_2", "follow", r)
<1>1. EdgesFit(g, p, C)
  BY LastIn
<1>2. Fit(g, p, C, o.code, b.jmp_1, b.jmp_2, b.jmp_ext, b.follow) /\ o.code # "FREE"
  BY <1>1, JumpCodes DEF EdgesFit, Fit
<1>3. s \in Graph(N) /\ Sound(s, P, C) /\ s.bb = g.bb /\ LastOp(s, p) = o
  BY <1>2, SetLastFacts
<1> HIDE DEF s
<1>4. p \in Used(s) /\ s.bb[p].len > 0
  BY <1>3 DEF Used
<1>5. r \in Succ(s, s.bb[p]["jmp_2"]) /\ r \notin C
  <2>1. s.bb[p]["jmp_2"] = q /\ r = s.bb[q].follow /\ r # 0
    BY <1>3
  <2> QED
    BY <2>1, SuccIs
<1>6. s.bb[p]["jmp_2"] # p
  BY <1>3
<1>7. k \in Graph(N) /\ Sound(k, P, C)
  BY <1>3, <1>4, <1>5, <1>6, RetargetSound
<1> QED
  BY <1>7 DEF k, s

(* Instructions with another result.                                       *)
LEMMA Retyped ==
  ASSUME NEW o \in Instruction, NEW t \in Instruction, NEW code \in Codes
  PROVE  /\ [o EXCEPT !.code = code, !.res = Unused] \in Instruction
         /\ [o EXCEPT !.code = code, !.res = Unused].code = code
         /\ [o EXCEPT !.res = t.res] \in Instruction /\ [o EXCEPT !.res = t.res].code = o.code
<1> DEFINE V == [t : {"undef", "str", "bool"}, s : Seq(STRING)]
           O == [k : {"UNUSED", "CONST", "TMP", "VAR", "CV"}, v : Nat, c : V]
           I == [code : Codes, op1 : O, op2 : O, res : O, drop : BOOLEAN, to : Nat,
                 ext : Nat, mark : BOOLEAN]
<1>1. <<>> \in Seq(STRING)
  OBVIOUS
<1>2. Undef \in V
  BY <1>1 DEF Undef
<1> HIDE DEF V
<1>3. Unused \in O
  BY <1>2 DEF Unused, Operand
<1>4. Instruction = I
  BY DEF Instruction, V
<1> HIDE DEF O
<1>5. \A u \in O : [o EXCEPT !.code = code, !.res = u] \in I
          /\ [o EXCEPT !.code = code, !.res = u].code = code
                   /\ [o EXCEPT !.res = u] \in I /\ [o EXCEPT !.res = u].code = o.code
  BY <1>4
<1>6. t.res \in O
  BY <1>4
<1> HIDE DEF I
<1> QED
  BY <1>3, <1>4, <1>5, <1>6

(* The rules for JMPZ_EX and JMPNZ_EX, which may split the block they go   *)
(* past.                                                                   *)
LEMMA RuleExSound ==
  ASSUME NEW N \in Nat, NEW g \in Graph(N), NEW P, NEW C, Sound(g, P, C), NEW p \in Used(g),
         g.bb[p].len > 0, NEW val \in BOOLEAN, CanSplit(g, P, C, p),
         LastOp(g, p).code = IF val THEN "JMPNZ_EX" ELSE "JMPZ_EX"
  PROVE  /\ RuleEx(g, p, val) \in Graph(N)
         /\ \/ Sound(RuleEx(g, p, val), P, C)
            \/ Sound(RuleEx(g, p, val), P \cup {g.bb[p].jmp_2 + 1}, C)
<1> DEFINE b == g.bb[p]
           o == LastOp(g, p)
           q == b.jmp_2
           t == FirstOp(g, q)
           mine == o.res.k = "TMP" /\ t.op1 = o.res
           thru == Through(t, o.res.v, val, TRUE)
           plain == [o EXCEPT !.code = IF val THEN "JMPNZ" ELSE "JMPZ", !.res = Unused]
           k == RuleEx(g, p, val)
           Goal == k \in Graph(N) /\ (Sound(k, P, C) \/ Sound(k, P \cup {q + 1}, C))
<1>0. SUFFICES Goal
  OBVIOUS
<1>1. /\ EdgesFit(g, p, C) /\ Protected(g, p, C) /\ o.code \in CondJumps /\ Exact(g)
      /\ o.code \in {"JMPZ_EX", "JMPNZ_EX"} /\ (val <=> o.code = "JMPNZ_EX")
      /\ p \in P /\ p \in 1 .. N + 1 /\ LastLine(b) \in 1 .. N /\ o \in Instruction
  BY LastIn, JumpCodes
<1>2. /\ q \notin C \cup {0} /\ b.follow \notin C \cup {0} /\ b.jmp_1 = 0 /\ b.jmp_ext = 0
      /\ b.jmp_tc \in C \cup {0}
  BY <1>1 DEF EdgesFit, Protected
<1>3. q \in Used(g)
  BY <1>1, <1>2, SuccIs DEF Exact
<1>4. q \in P /\ EdgesFit(g, q, C)
  BY <1>3, UsedListed DEF Sound
<1>5. q \in 1 .. N /\ g.bb[q].start = q /\ g.bb[q].len \in Nat
          /\ LastLine(g.bb[q]) = q + g.bb[q].len - 1
  BY <1>4, UsedFacts
<1>6. t \in Instruction
  BY <1>5, GraphFacts DEF FirstOp
<1>7. g.bb[q].len = 1 => LastOp(g, q) = t
  BY <1>5 DEF LastOp, FirstOp
<1>16. t.code \in {"FREE", "BOOL"} => thru = "none"
  BY DEF Through
<1> HIDE DEF t
<1>8. /\ plain \in Instruction /\ plain.code \in CondJumps
      /\ [o EXCEPT !.res = t.res] \in Instruction /\ [o EXCEPT !.res = t.res].code = o.code
  <2>1. (IF val THEN "JMPNZ" ELSE "JMPZ") \in Codes \cap CondJumps
    BY DEF Codes, CondJumps
  <2> DEFINE code == IF val THEN "JMPNZ" ELSE "JMPZ"
  <2> HIDE DEF code
  <2>2. code \in Codes /\ code \in CondJumps /\ plain = [o EXCEPT !.code = code, !.res = Unused]
    BY <2>1 DEF code
  <2> HIDE DEF plain, o
  <2>3. plain \in Instruction /\ plain.code = code
    BY <1>1, <1>6, <2>2, Retyped
  <2>4. [o EXCEPT !.res = t.res] \in Instruction /\ [o EXCEPT !.res = t.res].code = o.code
    BY <1>1, <1>6, <2>2, Retyped
  <2> QED
    BY <2>2, <2>3, <2>4
<1> HIDE DEF plain
<1>9. CASE b.follow = q /\ o.op1 = o.res
  <2>1. k = [DropJump(g, p) EXCEPT !.bb[p].jmp_2 = 0]
    BY <1>9 DEF RuleEx
  <2> HIDE DEF k
  <2>2. k \in Graph(N) /\ Sound(k, P, C)
    BY <1>2, <1>9, <2>1, DropAlike
  <2> QED
    BY <2>2
<1>10. CASE b.follow = q /\ o.op1 # o.res
  <2> DEFINE c == [o EXCEPT !.code = "BOOL"]
  <2>1. k = [SetLast(g, p, c) EXCEPT !.bb[p].jmp_2 = 0]
    BY <1>10 DEF RuleEx
  <2>2. c \in Instruction /\ c.code = "BOOL"
    BY <1>1, Renamed DEF Codes
  <2> HIDE DEF k, c
  <2>3. \A e \in {"jmp_1", "jmp_2", "jmp_ext"} :
          Becomes(N, g, [SetLast(g, p, c) EXCEPT !.bb[p][e] = 0], p, c, b.len,
                 IF e = "jmp_1" THEN 0 ELSE b.jmp_1,
                 IF e = "jmp_2" THEN 0 ELSE b.jmp_2,
                 IF e = "jmp_ext" THEN 0 ELSE b.jmp_ext, b.follow)
    BY <1>1, <2>2, EdgeMoved
  <2>4. Becomes(N, g, k, p, c, b.len, b.jmp_1, 0, b.jmp_ext, b.follow)
    BY <2>1, <2>3
  <2>5. Fit(g, p, C, c.code, b.jmp_1, 0, b.jmp_ext, b.follow) /\ c.code # "FREE"
    BY <1>2, <2>2 DEF Fit, CondJumps
  <2>6. To(g, p, b.jmp_1, 0, b.jmp_ext, b.follow) = Succ(g, p)
    BY <1>10, SuccIs DEF To
  <2>7. Base(N, g, g, p, Succ(g, p))
    BY <1>1, BaseSelf
  <2>8. k \in Graph(N) /\ Sound(k, P, C)
    BY <2>4, <2>5, <2>6, <2>7, StaySound
  <2> QED
    BY <2>8
<1>11. CASE b.follow # q /\ mine /\ t.code = "FREE" /\ g.bb[q].len > 1
  <2> DEFINE h == Split(g, q)
             n == q + 1
  <2>1. k = Retarget(SetLast(h, p, plain), p, "jmp_2", "follow", h.bb[q].follow)
    BY <1>11, <1>16 DEF RuleEx, t, plain
  <2>2. q # p /\ n \notin P \cup C /\ g.bb[n] = NoBlock
    BY <1>1, <1>11 DEF CanSplit, t, Used
  <2>3. Divided(N, g, h, q) /\ h \in Graph(N) /\ Sound(h, P \cup {n}, C)
    BY <1>3, <1>11, <2>2, SplitSound DEF t
  <2> HIDE DEF k, h
  <2>4. p \notin {q, n} /\ n # 0
    BY <1>1, <1>5, <2>2
  <2>5. /\ Frame(b, h.bb[p]) /\ Rest(b, h.bb[p]) /\ h.bb[p].used /\ h.ops = g.ops
        /\ h.bb[q].follow = n
    BY <1>1, <2>3, <2>4 DEF Divided, Used, Leads
  <2>6. /\ p \in Used(h) /\ h.bb[p].len > 0 /\ LastOp(h, p) = o /\ h.bb[p].jmp_2 = q
    BY <1>1, <2>3, <2>5, GraphFacts DEF Used, Frame, Rest, LastOp, LastLine
  <2> HIDE DEF n
  <2>7. k \in Graph(N) /\ Sound(k, P \cup {n}, C)
    BY <1>1, <1>8, <2>1, <2>2, <2>3, <2>4, <2>5, <2>6, PassSound
  <2> QED
    BY <2>7 DEF n
<1>12. CASE b.follow # q /\ mine /\ t.code = "FREE" /\ ~ (g.bb[q].len > 1)
  <2>1. k = Retarget(SetLast(g, p, plain), p, "jmp_2", "follow", g.bb[q].follow)
    BY <1>12, <1>16 DEF RuleEx, t, plain
  <2>2. q # p
    BY <1>1, <1>12 DEF CanSplit, t, Used
  <2>3. g.bb[q].follow \notin C \cup {0}
    BY <1>4, <1>5, <1>7, <1>12, JumpCodes DEF EdgesFit
  <2> HIDE DEF k
  <2>4. k \in Graph(N) /\ Sound(k, P, C)
    BY <1>1, <1>8, <2>1, <2>2, <2>3, PassSound
  <2> QED
    BY <2>4
<1>13. CASE b.follow # q /\ mine /\ t.code = "BOOL" /\ g.bb[q].len = 1
  <2>1. k = Retarget(SetLast(g, p, [o EXCEPT !.res = t.res]), p, "jmp_2", "follow", g.bb[q].follow)
    BY <1>13, <1>16 DEF RuleEx, t
  <2>2. q # p
    BY <1>1, <1>7, <1>13
  <2>3. g.bb[q].follow \notin C \cup {0}
    BY <1>4, <1>7, <1>13, JumpCodes DEF EdgesFit
  <2> HIDE DEF k
  <2>4. k \in Graph(N) /\ Sound(k, P, C)
    BY <1>1, <1>8, <2>1, <2>2, <2>3, PassSound
  <2> QED
    BY <2>4
<1>14. CASE b.follow # q /\ mine /\ t.code \notin {"FREE", "BOOL"} /\ thru # "none"
          /\ g.bb[q].len = 1
  <2>1. k = Retarget(g, p, "jmp_2", "follow", g.bb[q][thru])
    BY <1>14 DEF RuleEx, t
  <2> HIDE DEF k
  <2>2. /\ o.code \in {"JMPZ", "JMPZ_EX", "JMPNZ", "JMPNZ_EX"}
        /\ val <=> o.code \in {"JMPNZ", "JMPNZ_EX"}
    BY <1>1
  <2>3. k \in Graph(N) /\ Sound(k, P, C)
    BY <1>14, <2>1, <2>2, ThreadSound DEF t
  <2> QED
    BY <2>3
<1>15. CASE /\ b.follow # q /\ ~ (mine /\ t.code = "FREE")
            /\ ~ (mine /\ t.code = "BOOL" /\ g.bb[q].len = 1)
            /\ ~ (mine /\ t.code \notin {"FREE", "BOOL"} /\ thru # "none" /\ g.bb[q].len = 1)
  <2>2. ~ (mine /\ thru # "none" /\ g.bb[q].len = 1)
    BY <1>15, <1>16
  <2>3. k = g
    BY <1>15, <2>2 DEF RuleEx, t
  <2> QED
    BY <2>3
<1> HIDE DEF k, thru, mine
<1> QED
  BY <1>9, <1>10, <1>11, <1>12, <1>13, <1>14, <1>15
-----------------------------------------------------------------------------
(* Whatever rule rewrites the jump that ends p, it leaves the graph sound: *)
(* every block in use still knows exactly the blocks in use that lead to   *)
(* it, so that none is taken for dead that can be reached and none is      *)
(* reached that is gone; the list follows the code; every jump ends its    *)
(* block and has just the edges its code knows (optimize_jmp).  The list   *)
(* is the same, or has the block a split has made.                         *)
THEOREM RewriteSound ==
  ASSUME NEW N \in Nat, NEW g \in Graph(N), NEW P, NEW C, Sound(g, P, C), NEW p \in 1 .. N + 1,
         CanSplit(g, P, C, p)
  PROVE  /\ Rewrite(g, p) \in Graph(N)
         /\ \/ Sound(Rewrite(g, p), P, C)
            \/ Sound(Rewrite(g, p), P \cup {g.bb[p].jmp_2 + 1}, C)
<1> DEFINE code == LastOp(g, p).code
           k == Rewrite(g, p)
           Goal == k \in Graph(N) /\ (Sound(k, P, C) \/ Sound(k, P \cup {g.bb[p].jmp_2 + 1}, C))
<1>1. SUFFICES Goal
  OBVIOUS
<1>2. CASE ~ g.bb[p].used \/ g.bb[p].len = 0
  <2>1. k = g
    BY <1>2 DEF Rewrite
  <2> QED
    BY <2>1
<1>3. CASE g.bb[p].used /\ g.bb[p].len # 0
  <2>1. p \in Used(g) /\ g.bb[p].len > 0
    BY <1>3, GraphFacts DEF Used, BasicBlock
  <2>2. CASE code = "JMP"
    <3>1. k = RuleJmp(g, p)
      BY <1>3, <2>2 DEF Rewrite
    <3> HIDE DEF k
    <3> QED
      BY <2>1, <2>2, <3>1, RuleJmpSound
  <2>3. CASE code = "JMPZNZ"
    <3>1. k = RuleJmpZnz(g, p)
      BY <1>3, <2>3 DEF Rewrite
    <3> HIDE DEF k
    <3> QED
      BY <2>1, <2>3, <3>1, RuleJmpZnzSound
  <2>4. CASE code = "JMPZ"
    <3>1. k = RuleCond(g, p, FALSE)
      BY <1>3, <2>4 DEF Rewrite
    <3> HIDE DEF k
    <3> QED
      BY <2>1, <2>4, <3>1, RuleCondSound
  <2>5. CASE code = "JMPNZ"
    <3>1. k = RuleCond(g, p, TRUE)
      BY <1>3, <2>5 DEF Rewrite
    <3> HIDE DEF k
    <3> QED
      BY <2>1, <2>5, <3>1, RuleCondSound
  <2>6. CASE code = "JMPZ_EX"
    <3>1. k = RuleEx(g, p, FALSE)
      BY <1>3, <2>6 DEF Rewrite
    <3> HIDE DEF k
    <3> QED
      BY <2>1, <2>6, <3>1, RuleExSound
  <2>7. CASE code = "JMPNZ_EX"
    <3>1. k = RuleEx(g, p, TRUE)
      BY <1>3, <2>7 DEF Rewrite
    <3> HIDE DEF k
    <3> QED
      BY <2>1, <2>7, <3>1, RuleExSound
  <2>8. CASE code \notin {"JMP", "JMPZNZ", "JMPZ", "JMPNZ", "JMPZ_EX", "JMPNZ_EX"}
    <3>1. k = g
      BY <1>3, <2>8 DEF Rewrite
    <3> QED
      BY <3>1
  <2> HIDE DEF k
  <2> QED
    BY <2>2, <2>3, <2>4, <2>5, <2>6, <2>7, <2>8
<1> QED
  BY <1>2, <1>3

(* One step along a chain of JMPs leaves the graph sound (optimize_jmp,    *)
(* the while loops on JMP targets), however blocks lead to each other; the *)
(* jump's own block among them.                                            *)
THEOREM ChaseSound ==
  ASSUME NEW N \in Nat, NEW g \in Graph(N), NEW P, NEW C, Sound(g, P, C), NEW p \in 1 .. N + 1,
         CanChase(g, p)
  PROVE  Chase(g, p) \in Graph(N) /\ Sound(Chase(g, p), P, C)
<1> DEFINE b == g.bb[p]
           o == LastOp(g, p)
           h == Chase(g, p)
<1>1. b.used /\ b.len > 0 /\ p \in Used(g)
  BY GraphFacts DEF CanChase, Used
<1>2. /\ LastLine(b) \in 1 .. N /\ b \in BasicBlock /\ o \in Instruction
      /\ EdgesFit(g, p, C) /\ Protected(g, p, C) /\ Exact(g)
  BY <1>1, LastIn
<1>3. b.jmp_tc \in C \cup {0}
  BY <1>2 DEF Protected
<1>4. ASSUME NEW q \in Succ(g, p), Alone(g, q, "JMP")
      PROVE  /\ q \in Used(g) /\ g.bb[q].jmp_1 \in Succ(g, q) \ C
             /\ o.code # "JMP" => q # p
  <2>1. q \in Used(g) /\ FirstOp(g, q).code = "JMP"
    BY <1>1, <1>2, <1>4 DEF Exact, Alone
  <2>2. LastOp(g, q) = FirstOp(g, q)
    BY <2>1, FirstJump, JumpCodes
  <2> QED
    BY <2>1, <2>2, FirstEdges
<1>5. CASE o.code = "JMP"
  <2> DEFINE q == b.jmp_1
             on == g.bb[q].jmp_1
             d == Leave(g, p, q)
             k == [d EXCEPT !.bb[p].jmp_1 = on]
  <2>1. Alone(g, q, "JMP") /\ q # p
    BY <1>5, JumpCodes DEF CanChase
  <2>2. h = AddPred(k, on, p)
    BY <1>5 DEF Chase
  <2> HIDE DEF h
  <2>3. /\ q \notin C \cup {0} /\ b.jmp_2 = 0 /\ b.jmp_ext = 0 /\ b.follow \in C \cup {0}
        /\ b.follow # 0 => p < b.follow /\ \A y \in Used(g) : y <= p \/ b.follow <= y
    BY <1>1, <1>2, <1>5 DEF EdgesFit
  <2>4. q \in Succ(g, p)
    BY <2>3, SuccIs
  <2>5. q \in Used(g) /\ on \in Succ(g, q) \ C
    BY <1>4, <2>1, <2>4
  <2>6. on \in Used(g) /\ (p \in Used(d) <=> on \in Used(d))
    BY <1>1, <1>2, <2>1, <2>4, <2>5, StillUsed
  <2>7. on \in Nat /\ on # 0
    BY <2>6, GraphFacts DEF Used
  <2>8. Base(N, g, d, p, Succ(g, p) \ {q})
    BY <1>2, <2>5, BaseLeave
  <2> HIDE DEF d
  <2>9. /\ d \in Graph(N) /\ LastLine(d.bb[p]) = LastLine(b) /\ LastOp(d, p) = o
        /\ d.bb[p].len = b.len /\ d.bb[p].jmp_2 = 0 /\ d.bb[p].jmp_ext = 0
        /\ d.bb[p].follow = b.follow
    BY <1>2, <2>3, <2>8 DEF Base, Relinked, Frame, Rest, LastLine, LastOp
  <2>10. k = [SetLast(d, p, o) EXCEPT !.bb[p].jmp_1 = on]
    BY <1>2, <2>9, SetSame
  <2> HIDE DEF k
  <2>11. \A e \in {"jmp_1", "jmp_2", "jmp_ext"} :
          Becomes(N, d, [SetLast(d, p, o) EXCEPT !.bb[p][e] = on], p, o, d.bb[p].len,
                 IF e = "jmp_1" THEN on ELSE d.bb[p].jmp_1,
                 IF e = "jmp_2" THEN on ELSE d.bb[p].jmp_2,
                 IF e = "jmp_ext" THEN on ELSE d.bb[p].jmp_ext, d.bb[p].follow)
    BY <1>2, <2>7, <2>9, EdgeMoved
  <2>12. Becomes(N, d, k, p, o, b.len, on, 0, 0, b.follow)
    BY <2>9, <2>10, <2>11
  <2>13. Fit(g, p, C, o.code, on, 0, 0, b.follow) /\ o.code # "FREE"
    BY <1>5, <2>3, <2>5, <2>7, JumpCodes DEF Fit
  <2>14. To(g, p, on, 0, 0, b.follow) = (Succ(g, p) \ {q}) \cup {on}
    BY <1>3, <2>3, <2>7, SuccIs DEF To
  <2> HIDE DEF on
  <2>15. h \in Graph(N) /\ Sound(h, P, C)
    BY <1>1, <2>2, <2>6, <2>8, <2>12, <2>13, <2>14, AddSound
  <2> QED
    BY <2>15 DEF h
<1>6. CASE o.code = "JMPZNZ"
  <2>1. b.jmp_2 \in Succ(g, p) /\ b.jmp_ext \in Succ(g, p)
    BY <1>1, <1>2, <1>6, SuccIs DEF EdgesFit
  <2>2. CASE Alone(g, b.jmp_2, "JMP")
    <3>1. h = Retarget(g, p, "jmp_2", "jmp_ext", g.bb[b.jmp_2].jmp_1)
      BY <1>6, <2>2 DEF Chase
    <3> HIDE DEF h
    <3>2. /\ g.bb[b["jmp_2"]].jmp_1 \in Succ(g, b["jmp_2"]) /\ g.bb[b["jmp_2"]].jmp_1 \notin C
          /\ b["jmp_2"] # p
      BY <1>4, <1>6, <2>1, <2>2
    <3>3. h \in Graph(N) /\ Sound(h, P, C)
      BY <1>1, <1>6, <3>1, <3>2, RetargetSound
    <3> QED
      BY <3>3 DEF h
  <2>3. CASE ~ Alone(g, b.jmp_2, "JMP")
    <3>1. h = Retarget(g, p, "jmp_ext", "jmp_2", g.bb[b.jmp_ext].jmp_1)
      BY <1>6, <2>3 DEF Chase
    <3>4. Alone(g, b.jmp_ext, "JMP")
      BY <1>6, <2>3, JumpCodes DEF CanChase
    <3> HIDE DEF h
    <3>2. /\ g.bb[b["jmp_ext"]].jmp_1 \in Succ(g, b["jmp_ext"]) /\ g.bb[b["jmp_ext"]].jmp_1 \notin C
          /\ b["jmp_ext"] # p
      BY <1>4, <1>6, <2>1, <3>4
    <3>3. h \in Graph(N) /\ Sound(h, P, C)
      BY <1>1, <1>6, <3>1, <3>2, RetargetSound
    <3> QED
      BY <3>3 DEF h
  <2> QED
    BY <2>2, <2>3
<1>7. CASE o.code \in CondJumps
  <2>1. b.jmp_2 \in Succ(g, p) /\ o.code \notin {"JMP", "JMPZNZ"}
    BY <1>1, <1>2, <1>7, SuccIs, JumpCodes DEF EdgesFit
  <2>2. Alone(g, b.jmp_2, "JMP")
    BY <1>7, <2>1 DEF CanChase
  <2>3. h = Retarget(g, p, "jmp_2", "follow", g.bb[b.jmp_2].jmp_1)
    BY <2>1 DEF Chase
  <2> HIDE DEF h
  <2>4. /\ g.bb[b["jmp_2"]].jmp_1 \in Succ(g, b["jmp_2"]) /\ g.bb[b["jmp_2"]].jmp_1 \notin C
        /\ b["jmp_2"] # p
    BY <1>4, <2>1, <2>2
  <2>5. h \in Graph(N) /\ Sound(h, P, C)
    BY <1>1, <1>7, <2>3, <2>4, RetargetSound
  <2> QED
    BY <2>5 DEF h
<1> HIDE DEF h
<1>8. o.code = "JMP" \/ o.code = "JMPZNZ" \/ o.code \in CondJumps
  BY DEF CanChase
<1>9. h \in Graph(N) /\ Sound(h, P, C)
  BY <1>5, <1>6, <1>7, <1>8 DEF h
<1> QED
  BY <1>9 DEF h

LEMMA Unmarked ==
  ASSUME NEW o \in Instruction
  PROVE  [o EXCEPT !.mark = FALSE] \in Instruction /\ [o EXCEPT !.mark = FALSE].code = o.code
  BY DEF Instruction

(* Copying a lone RETURN or EXIT over the JMP to it leaves the graph       *)
(* sound, with that block gone if nobody else leads there ("Eliminate JMP  *)
(* to RETURN or EXIT").                                                    *)
THEOREM CopyReturnSound ==
  ASSUME NEW N \in Nat, NEW g \in Graph(N), NEW P, NEW C, Sound(g, P, C), NEW p \in 1 .. N + 1
  PROVE  CopyReturn(g, p) \in Graph(N) /\ Sound(CopyReturn(g, p), P, C)
<1> DEFINE b == g.bb[p]
           o == LastOp(g, p)
           q == b.jmp_1
           r == FirstOp(g, q)
           h == CopyReturn(g, p)
           copies == o.code = "JMP" /\ g.bb[q].len = 1 /\ r.code \in {"RETURN", "EXIT"}
<1>1. CASE ~ (b.used /\ b.len > 0)
  <2>1. h = g
    BY <1>1 DEF CopyReturn
  <2> QED
    BY <2>1
<1>2. CASE b.used /\ b.len > 0 /\ ~ copies
  <2>1. h = g
    BY <1>2 DEF CopyReturn
  <2> QED
    BY <2>1
<1>3. CASE b.used /\ b.len > 0 /\ copies
  <2>1. p \in Used(g)
    BY <1>3, GraphFacts DEF Used
  <2>2. /\ LastLine(b) \in 1 .. N /\ b \in BasicBlock /\ o \in Instruction
        /\ EdgesFit(g, p, C) /\ Protected(g, p, C) /\ Exact(g)
    BY <1>3, <2>1, LastIn
  <2>3. /\ q \notin C \cup {0} /\ b.jmp_2 = 0 /\ b.jmp_ext = 0 /\ b.follow \in C \cup {0}
        /\ b.jmp_tc \in C \cup {0}
        /\ b.follow # 0 => p < b.follow /\ \A y \in Used(g) : y <= p \/ b.follow <= y
    BY <1>3, <2>2 DEF EdgesFit, Protected
  <2>4. q \in Succ(g, p)
    BY <2>3, SuccIs
  <2>5. q \in Used(g) /\ q \in P
    BY <2>1, <2>2, <2>4, UsedListed DEF Exact
  <2>6. r \in Instruction
    BY <2>5, UsedFacts, GraphFacts DEF FirstOp
  <2>7. CASE o.mark
    <3> DEFINE c == [o EXCEPT !.mark = FALSE]
    <3>1. h = SetLast(g, p, c)
      BY <1>3, <2>7 DEF CopyReturn
    <3>2. c \in Instruction /\ c.code = "JMP"
      BY <1>3, <2>2, Unmarked
    <3> HIDE DEF h, c
    <3>3. Fit(g, p, C, c.code, b.jmp_1, b.jmp_2, b.jmp_ext, b.follow) /\ c.code # "FREE"
      BY <2>3, <3>2, JumpCodes DEF Fit
    <3>4. h \in Graph(N) /\ Sound(h, P, C)
      BY <1>3, <2>1, <3>1, <3>2, <3>3, SetLastFacts
    <3> QED
      BY <3>4 DEF h
  <2>8. CASE ~ o.mark
    <3> DEFINE d == Leave(g, p, q)
    <3>1. h = [SetLast(d, p, r) EXCEPT !.bb[p].jmp_1 = 0]
      BY <1>3, <2>8 DEF CopyReturn
    <3>2. Base(N, g, d, p, Succ(g, p) \ {q})
      BY <2>2, <2>5, BaseLeave
    <3>0. r.code \in {"RETURN", "EXIT"}
      BY <1>3
    <3> HIDE DEF h, d, r
    <3>3. /\ d \in Graph(N) /\ LastLine(d.bb[p]) = LastLine(b)
          /\ d.bb[p].len = b.len /\ d.bb[p].jmp_2 = 0 /\ d.bb[p].jmp_ext = 0
          /\ d.bb[p].follow = b.follow
      BY <2>2, <2>3, <3>2 DEF Base, Relinked, Frame, Rest, LastLine
    <3>4. \A e \in {"jmp_1", "jmp_2", "jmp_ext"} :
            Becomes(N, d, [SetLast(d, p, r) EXCEPT !.bb[p][e] = 0], p, r, d.bb[p].len,
                   IF e = "jmp_1" THEN 0 ELSE d.bb[p].jmp_1,
                   IF e = "jmp_2" THEN 0 ELSE d.bb[p].jmp_2,
                   IF e = "jmp_ext" THEN 0 ELSE d.bb[p].jmp_ext, d.bb[p].follow)
      BY <2>2, <2>6, <3>3, EdgeMoved
    <3>5. Becomes(N, d, h, p, r, b.len, 0, 0, 0, b.follow)
      BY <3>1, <3>3, <3>4
    <3>6. Fit(g, p, C, r.code, 0, 0, 0, b.follow) /\ r.code # "FREE"
      BY <3>0 DEF Fit, Falls, CondJumps, Ends
    <3>7. To(g, p, 0, 0, 0, b.follow) = Succ(g, p) \ {q}
      BY <2>3, SuccIs DEF To
    <3>8. h \in Graph(N) /\ Sound(h, P, C)
      BY <1>3, <2>1, <3>2, <3>5, <3>6, <3>7, StaySound
    <3> QED
      BY <3>8 DEF h
  <2> QED
    BY <2>7, <2>8
<1> QED
  BY <1>1, <1>2, <1>3
-----------------------------------------------------------------------------
Merged(N, g, h, x, p) ==
  LET b == g.bb[p] IN
  /\ h \in Graph(N) /\ h.ops = g.ops
  /\ \A y \in 1 .. N + 1 :
       /\ Frame(g.bb[y], h.bb[y])
       /\ h.bb[y].used = (g.bb[y].used /\ y # p)
       /\ y \notin {x, p} => Rest(g.bb[y], h.bb[y])
       /\ y # p => h.bb[y].pred = IF y \in Succ(g, p) THEN (g.bb[y].pred \ {p}) \cup {x}
                                                      ELSE g.bb[y].pred
  /\ Leads(h.bb[x], p + b.len - x, b.jmp_1, b.jmp_2, b.jmp_ext, b.follow)
  /\ h.bb[p].len = 0

(* What the two blocks, and those behind them, become.                     *)
Taken(b, p, x) == [b EXCEPT !.pred = (@ \ {p}) \cup {x}]
Joined(c, b, len) ==
  [c EXCEPT !.len = len, !.jmp_1 = b.jmp_1, !.jmp_2 = b.jmp_2, !.jmp_ext = b.jmp_ext,
            !.follow = b.follow]
Emptied(c, preds) == [c EXCEPT !.pred = preds, !.used = FALSE, !.len = 0]

LEMMA TakenFacts ==
  ASSUME NEW b \in BasicBlock, NEW p, NEW x \in Nat
  PROVE  /\ Taken(b, p, x) \in BasicBlock /\ Frame(b, Taken(b, p, x)) /\ Rest(b, Taken(b, p, x))
         /\ Taken(b, p, x).used = b.used /\ Taken(b, p, x).pred = (b.pred \ {p}) \cup {x}
  BY DEF BasicBlock, Frame, Rest, Taken

LEMMA JoinedFacts ==
  ASSUME NEW c \in BasicBlock, NEW b \in BasicBlock, NEW len \in Nat
  PROVE  LET d == Joined(c, b, len) IN
         /\ d \in BasicBlock /\ Frame(c, d) /\ d.used = c.used /\ d.pred = c.pred
         /\ Leads(d, len, b.jmp_1, b.jmp_2, b.jmp_ext, b.follow)
<1>1. b.jmp_1 \in Nat /\ b.jmp_2 \in Nat /\ b.jmp_ext \in Nat /\ b.follow \in Nat
  BY DEF BasicBlock
<1> QED
  BY <1>1 DEF BasicBlock, Frame, Leads, Joined

LEMMA EmptiedFacts ==
  ASSUME NEW c \in BasicBlock, NEW preds \in SUBSET Nat
  PROVE  LET d == Emptied(c, preds) IN
         /\ d \in BasicBlock /\ Frame(c, d) /\ d.used = FALSE /\ d.len = 0 /\ d.pred = preds
  BY DEF BasicBlock, Frame, Emptied

(* What merging does to the graph.                                         *)
LEMMA MergeFacts ==
  ASSUME NEW N \in Nat, NEW g \in Graph(N), NEW p \in 1 .. N + 1, NEW x \in 1 .. N + 1, x < p,
         g.bb[p].pred = {x}, g.bb[p].start = p, g.bb[x].start = x, g.bb[p].jmp_tc = 0
  PROVE  Merged(N, g, Merge(g, p), x, p)
<1> DEFINE b == g.bb[p]
           len == p + b.len - x
           link(r) == IF r \in Succ(g, p) THEN Taken(g.bb[r], p, x) ELSE g.bb[r]
           bb == [r \in DOMAIN g.bb |-> link(r)]
           joined == Joined(link(x), b, len)
           gone == Emptied(link(p), b.pred \ {x})
           B == [bb EXCEPT ![x] = joined, ![p] = gone]
           h == [g EXCEPT !.bb = B]
<1>1. /\ DOMAIN g.bb = 1 .. N + 1 /\ x # p
      /\ \A y \in 1 .. N + 1 : g.bb[y] \in BasicBlock
  BY GraphFacts
<1>2. len \in Nat
  <2>1. b.len \in Nat
    BY <1>1 DEF BasicBlock
  <2> QED
    BY <2>1
<1>3. ASSUME NEW r \in 1 .. N + 1
      PROVE  /\ link(r) \in BasicBlock /\ Frame(g.bb[r], link(r)) /\ Rest(g.bb[r], link(r))
             /\ link(r).used = g.bb[r].used
             /\ link(r).pred = IF r \in Succ(g,
                       p) THEN (g.bb[r].pred \ {p}) \cup {x} ELSE g.bb[r].pred
  <2>2. CASE r \in Succ(g, p)
    <3>1. link(r) = Taken(g.bb[r], p, x)
      BY <2>2
    <3>2. g.bb[r] \in BasicBlock /\ x \in Nat
      BY <1>1
    <3> HIDE DEF link
    <3> QED
      BY <2>2, <3>1, <3>2, TakenFacts
  <2>3. CASE r \notin Succ(g, p)
    BY <1>1, <2>3 DEF Frame, Rest
  <2> QED
    BY <2>2, <2>3
<1>4. Merge(g, p) = h
  <2>1. (CHOOSE y \in b.pred : TRUE) = x
    OBVIOUS
  <2>2. \A r \in DOMAIN g.bb : r \in {b.jmp_1, b.jmp_2, b.jmp_ext,
            b.follow} \ {0} <=> r \in Succ(g, p)
    BY <1>1, SuccIs
  <2>3. bb = [r \in DOMAIN g.bb |->
               IF r \in {b.jmp_1, b.jmp_2, b.jmp_ext, b.follow} \ {0}
                 THEN [g.bb[r] EXCEPT !.pred = (@ \ {p}) \cup {x}] ELSE g.bb[r]]
    BY <2>2 DEF Taken
  <2>4. bb[x] = link(x) /\ bb[p] = link(p) /\ DOMAIN bb = 1 .. N + 1 /\ bb[x].start = x
    BY <1>1, <1>3 DEF Frame
  <2> HIDE DEF bb, link
  <2>5. B = [bb EXCEPT ![x] = [@ EXCEPT !.len = b.start + b.len - bb[x].start,
                                        !.jmp_1 = b.jmp_1, !.jmp_2 = b.jmp_2,
                                        !.jmp_ext = b.jmp_ext, !.follow = b.follow],
                       ![p] = [@ EXCEPT !.pred = b.pred \ {x}, !.used = FALSE, !.len = 0]]
    BY <1>1, <2>4 DEF Joined, Emptied
  <2> HIDE DEF B
  <2> QED
    BY <2>1, <2>3, <2>5 DEF Merge
<1> HIDE DEF link
<1>5. /\ joined \in BasicBlock /\ Frame(g.bb[x], joined) /\ joined.used = g.bb[x].used
      /\ joined.pred = link(x).pred /\ Leads(joined, len, b.jmp_1, b.jmp_2, b.jmp_ext, b.follow)
  <2>1. link(x) \in BasicBlock /\ Frame(g.bb[x], link(x)) /\ link(x).used = g.bb[x].used
            /\ b \in BasicBlock
    BY <1>1, <1>3
  <2> HIDE DEF len, b
  <2>2. /\ joined \in BasicBlock /\ Frame(link(x), joined) /\ joined.used = link(x).used
        /\ joined.pred = link(x).pred /\ Leads(joined, len, b.jmp_1, b.jmp_2, b.jmp_ext, b.follow)
    BY <1>2, <2>1, JoinedFacts
  <2> HIDE DEF joined
  <2> QED
    BY <2>1, <2>2 DEF Frame
<1> HIDE DEF joined
<1>6. gone \in BasicBlock /\ Frame(b, gone) /\ gone.used = FALSE /\ gone.len = 0
  <2>1. link(p) \in BasicBlock /\ Frame(b, link(p)) /\ b.pred \ {x} \in SUBSET Nat
    BY <1>1, <1>3
  <2>2. gone \in BasicBlock /\ Frame(link(p), gone) /\ gone.used = FALSE /\ gone.len = 0
    BY <2>1, EmptiedFacts
  <2> HIDE DEF gone
  <2> QED
    BY <2>1, <2>2 DEF Frame
<1> HIDE DEF gone
<1>7. /\ B \in [1 .. N + 1 -> BasicBlock] /\ B[x] = joined /\ B[p] = gone
      /\ \A y \in 1 .. N + 1 : y \notin {x, p} => B[y] = link(y)
  <2>1. bb \in [1 .. N + 1 -> BasicBlock] /\ \A y \in 1 .. N + 1 : bb[y] = link(y)
    BY <1>1, <1>3
  <2> HIDE DEF bb
  <2> QED
    BY <1>1, <1>5, <1>6, <2>1
<1> HIDE DEF B
<1>8. h \in Graph(N) /\ h.ops = g.ops /\ h.bb = B
  BY <1>7, WithBlocks
<1> HIDE DEF h
<1>9. ASSUME NEW y \in 1 .. N + 1
      PROVE  /\ Frame(g.bb[y], h.bb[y])
             /\ y # p => h.bb[y].used = g.bb[y].used
             /\ y = p => h.bb[y].used = FALSE
             /\ y \notin {x, p} => Rest(g.bb[y], h.bb[y])
             /\ y # p => h.bb[y].pred = link(y).pred
  <2>1. CASE y = x
    BY <1>1, <1>5, <1>7, <1>8, <2>1
  <2>2. CASE y = p
    BY <1>1, <1>6, <1>7, <1>8, <2>2
  <2>3. CASE y \notin {x, p}
    BY <1>3, <1>7, <1>8, <2>3
  <2> QED
    BY <2>1, <2>2, <2>3
<1>10. \A y \in 1 .. N + 1 : g.bb[y].used \in BOOLEAN
  BY <1>1 DEF BasicBlock
<1>11. \A y \in 1 .. N + 1 : h.bb[y].used = (g.bb[y].used /\ y # p)
  BY <1>9, <1>10
<1>12. \A y \in 1 .. N + 1 : y # p =>
         h.bb[y].pred = IF y \in Succ(g, p) THEN (g.bb[y].pred \ {p}) \cup {x} ELSE g.bb[y].pred
  BY <1>3, <1>9
<1>13. /\ Leads(h.bb[x], p + b.len - x, b.jmp_1, b.jmp_2, b.jmp_ext, b.follow)
       /\ h.bb[p].len = 0
  BY <1>5, <1>6, <1>7, <1>8
<1>14. Merged(N, g, h, x, p)
  BY <1>8, <1>9, <1>11, <1>12, <1>13 DEF Merged
<1> QED
  BY <1>4, <1>14

(* What Mergeable says of the two blocks of a sound graph.                 *)
Joins(N, g, P, C, x, p) ==
  /\ x \in Used(g) /\ p \in Used(g) /\ x \in P /\ p \in P /\ x \in 1 .. N /\ p \in 1 .. N /\ x < p
  /\ \A y \in P : y <= x \/ p <= y
  /\ g.bb[x].start = x /\ g.bb[p].start = p /\ g.bb[p].pred = {x}
  /\ g.bb[p].jmp_tc = 0 /\ g.bb[x].jmp_tc # p /\ g.bb[x].follow = p
  /\ g.bb[x].len > 0 => LastOp(g, x).code \notin Jumps
  /\ Succ(g, x) = {p, g.bb[x].jmp_tc} \ {0}

LEMMA JoinsFacts ==
  ASSUME NEW N \in Nat, NEW g \in Graph(N), NEW P, NEW C, Sound(g, P, C), NEW p \in 1 .. N + 1,
         Mergeable(g, p)
  PROVE  \E x : Joins(N, g, P, C, x, p)
<1>1. PICK x \in g.bb[p].pred :
        /\ g.bb[p].pred = {x} /\ g.bb[x].used
        /\ g.bb[x].follow = p /\ g.bb[x].next = p
        /\ g.bb[x].jmp_1 = 0 /\ g.bb[x].jmp_2 = 0 /\ g.bb[x].jmp_ext = 0
  BY DEF Mergeable
<1>2. p \in Used(g) /\ ~ g.bb[p].protect
  BY GraphFacts DEF Mergeable, Used
<1>3. x \in Used(g)
  BY <1>1, <1>2 DEF Sound, Exact
<1>4. x \in P /\ p \in P
  BY <1>2, <1>3, UsedListed
<1>5. x \in 1 .. N /\ p \in 1 .. N /\ g.bb[x].start = x /\ g.bb[p].start = p
  BY <1>4, UsedFacts
<1>6. x < p /\ \A y \in P : y <= x \/ p <= y
  BY <1>1, <1>4, <1>5 DEF Sound, InOrder
<1>7. EdgesFit(g, x, C) /\ Protected(g, x, C) /\ Protected(g, p, C)
  BY <1>2, <1>3 DEF Sound
<1>8. g.bb[p].jmp_tc = 0 /\ g.bb[x].jmp_tc # p
  BY <1>2, <1>5, <1>7 DEF Protected
<1>9. g.bb[x].len > 0 => LastOp(g, x).code \notin Jumps
  BY <1>1, <1>7 DEF EdgesFit, Jumps
<1>10. Succ(g, x) = {p, g.bb[x].jmp_tc} \ {0}
  BY <1>1, SuccIs
<1> QED
  BY <1>1, <1>2, <1>3, <1>4, <1>5, <1>6, <1>8, <1>9, <1>10 DEF Joins

(* The lines when the blocks are one: those between them were no block's.  *)
LEMMA MergedOrder ==
  ASSUME NEW N \in Nat, NEW g \in Graph(N), NEW P, NEW C, Sound(g, P, C), NEW x, NEW p,
         Joins(N, g, P, C, x, p), NEW h, Merged(N, g, h, x, p)
  PROVE  InOrder(h, P) /\ Disjoint(h, P)
<1>1. /\ x \in P /\ p \in P /\ x \in 1 .. N /\ p \in 1 .. N /\ x < p
      /\ \A y \in P : y <= x \/ p <= y
      /\ x \in Used(g) /\ p \in Used(g)
  BY DEF Joins
<1>2. /\ DOMAIN h.bb = 1 .. N + 1 /\ DOMAIN g.bb = 1 .. N + 1 /\ h.ops = g.ops /\ Len(g.ops) = N
      /\ DOMAIN g.ops = 1 .. N
  BY GraphFacts DEF Merged
<1>3. /\ \A y \in 1 .. N + 1 : Frame(g.bb[y], h.bb[y]) /\ h.bb[y].used = (g.bb[y].used /\ y # p)
                               /\ (y \notin {x, p} => Rest(g.bb[y], h.bb[y]))
      /\ h.bb[x].len = p + g.bb[p].len - x /\ h.bb[p].len = 0
  BY DEF Merged, Leads
<1>4. InOrder(g, P) /\ \A y \in P : y \in 1 .. N /\ y \in 1 .. N + 1 /\ g.bb[y].len \in Nat
  <2>1. InOrder(g, P)
    BY DEF Sound
  <2>2. \A y \in P : y \in 1 .. N /\ y \in 1 .. N + 1 /\ g.bb[y].len \in Nat
    BY UsedFacts
  <2> QED
    BY <2>1, <2>2
<1>5. \A y \in P : h.bb[y].start = g.bb[y].start /\ h.bb[y].next = g.bb[y].next
  BY <1>3, <1>4 DEF Frame
<1>6. Used(h) \subseteq P
  <2>1. Used(h) \subseteq Used(g)
    BY <1>2, <1>3 DEF Used
  <2> QED
    BY <1>4, <2>1 DEF InOrder
<1>7. InOrder(h, P)
  BY <1>2, <1>4, <1>5, <1>6 DEF InOrder
<1>8. \A y \in P : /\ y + g.bb[y].len <= N + 1
                   /\ \A z \in P : y < z /\ (g.bb[z].used \/ g.bb[z].len > 0)
                             => y + g.bb[y].len <= z
  BY <1>2 DEF Sound, Disjoint
<1>9. \A y \in P : y \notin {x, p} => h.bb[y].len = g.bb[y].len /\ (h.bb[y].used => g.bb[y].used)
  BY <1>3, <1>4 DEF Rest
<1>10. ASSUME NEW y \in P
       PROVE  y + h.bb[y].len <= N + 1
  <2>1. CASE y = x
    BY <1>1, <1>3, <1>4, <1>8, <2>1
  <2>2. CASE y = p
    BY <1>1, <1>3, <2>2
  <2>3. CASE y \notin {x, p}
    BY <1>8, <1>9, <2>3
  <2> QED
    BY <2>1, <2>2, <2>3
<1>11. ASSUME NEW y \in P, NEW z \in P, y < z, h.bb[z].used \/ h.bb[z].len > 0
       PROVE  y + h.bb[y].len <= z
  <2>1. z # p
    <3>1. ~ h.bb[p].used
      BY <1>1, <1>3, <1>4
    <3> QED
      BY <1>3, <1>11, <3>1
  <2>2. g.bb[z].used \/ g.bb[z].len > 0
    BY <1>1, <1>9, <1>11, <2>1 DEF Used
  <2>3. CASE y = x
    <3>1. p < z
      BY <1>1, <1>4, <1>11, <2>1, <2>3
    <3>2. p + g.bb[p].len <= z
      BY <1>1, <1>8, <2>2, <3>1
    <3> QED
      BY <1>1, <1>3, <1>4, <2>3, <3>2
  <2>4. CASE y = p
    BY <1>1, <1>3, <1>4, <1>11, <2>4
  <2>5. CASE y \notin {x, p}
    BY <1>8, <1>9, <1>11, <2>2, <2>5
  <2> QED
    BY <2>3, <2>4, <2>5
<1>12. Disjoint(h, P)
  BY <1>2, <1>10, <1>11 DEF Disjoint
<1> QED
  BY <1>7, <1>12

(* The links when the blocks are one.                                      *)
LEMMA MergedExact ==
  ASSUME NEW N \in Nat, NEW g \in Graph(N), NEW P, NEW C, Sound(g, P, C), NEW x, NEW p,
         Joins(N, g, P, C, x, p), NEW h, Merged(N, g, h, x, p)
  PROVE  Exact(h) /\ Used(h) = Used(g) \ {p}
<1>1. /\ x \in Used(g) /\ p \in Used(g) /\ x \in 1 .. N + 1 /\ p \in 1 .. N + 1 /\ x # p
      /\ g.bb[p].pred = {x} /\ g.bb[p].jmp_tc = 0 /\ g.bb[x].jmp_tc # p /\ p # 0
      /\ Succ(g, x) = {p, g.bb[x].jmp_tc} \ {0}
  BY DEF Joins
<1>2. DOMAIN h.bb = 1 .. N + 1 /\ DOMAIN g.bb = 1 .. N + 1
  BY GraphFacts DEF Merged
<1>3. \A y \in 1 .. N + 1 :
       /\ Frame(g.bb[y], h.bb[y])
       /\ h.bb[y].used = (g.bb[y].used /\ y # p)
       /\ y \notin {x, p} => Rest(g.bb[y], h.bb[y])
       /\ y # p => h.bb[y].pred = IF y \in Succ(g, p) THEN (g.bb[y].pred \ {p}) \cup {x}
                                                      ELSE g.bb[y].pred
  BY DEF Merged
<1>4. Succ(h, x) = Succ(g, p) \cup ({g.bb[x].jmp_tc} \ {0})
  <2>1. /\ h.bb[x].jmp_1 = g.bb[p].jmp_1 /\ h.bb[x].jmp_2 = g.bb[p].jmp_2
        /\ h.bb[x].jmp_ext = g.bb[p].jmp_ext /\ h.bb[x].follow = g.bb[p].follow
        /\ h.bb[x].jmp_tc = g.bb[x].jmp_tc
    BY <1>1, <1>3 DEF Merged, Leads, Frame
  <2> QED
    BY <1>1, <2>1, SuccIs
<1>5. \A y \in 1 .. N + 1 : y \notin {x, p} => Succ(h, y) = Succ(g, y)
  BY <1>3, SuccIs DEF Frame, Rest
<1>6. Used(h) = Used(g) \ {p} /\ Used(g) \subseteq 1 .. N + 1
  BY <1>2, <1>3 DEF Used
<1>7. \A y \in Used(g) : /\ g.bb[y].pred = {z \in Used(g) : y \in Succ(g, z)}
                         /\ Succ(g, y) \subseteq Used(g)
  BY DEF Sound, Exact
<1>8. \A y \in Used(g) : y # x => p \notin Succ(g, y)
  BY <1>1, <1>7
<1>9. ASSUME NEW y \in Used(h)
      PROVE  Succ(h, y) \subseteq Used(h)
  <2>1. CASE y = x
    BY <1>1, <1>4, <1>6, <1>7, <1>8, <2>1
  <2>2. CASE y # x
    BY <1>5, <1>6, <1>7, <1>8, <2>2
  <2> QED
    BY <2>1, <2>2
<1>10. ASSUME NEW y \in Used(h), NEW z
       PROVE  z \in h.bb[y].pred <=> z \in Used(h) /\ y \in Succ(h, z)
  <2>1. y \in Used(g) /\ y # p /\ y \in 1 .. N + 1
    BY <1>6
  <2>2. h.bb[y].pred = IF y \in Succ(g, p) THEN (g.bb[y].pred \ {p}) \cup {x} ELSE g.bb[y].pred
    BY <1>3, <2>1
  <2>3. \A w : w \in g.bb[y].pred <=> w \in Used(g) /\ y \in Succ(g, w)
    BY <1>7, <2>1
  <2>4. CASE z = p
    <3>1. p \notin h.bb[y].pred
      BY <1>1, <2>2, <2>3
    <3> QED
      BY <1>6, <2>4, <3>1
  <2>5. CASE z = x
    <3>1. x \in h.bb[y].pred <=> y \in Succ(g, p) \/ y \in Succ(g, x)
      BY <1>1, <2>2, <2>3
    <3>2. y \in Succ(g, x) <=> y \in {g.bb[x].jmp_tc} \ {0}
      BY <1>1, <2>1
    <3> QED
      BY <1>1, <1>4, <1>6, <2>5, <3>1, <3>2
  <2>6. CASE z \notin {x, p}
    <3>1. z \in h.bb[y].pred <=> z \in Used(g) /\ y \in Succ(g, z)
      BY <2>2, <2>3, <2>6
    <3> QED
      BY <1>5, <1>6, <2>6, <3>1
  <2> QED
    BY <2>4, <2>5, <2>6
<1>11. \A y \in Used(h) : h.bb[y].pred = {z \in Used(h) : y \in Succ(h, z)}
  BY <1>10
<1> QED
  BY <1>6, <1>9, <1>11 DEF Exact

LEMMA MergedSound ==
  ASSUME NEW N \in Nat, NEW g \in Graph(N), NEW P, NEW C, Sound(g, P, C), NEW x, NEW p,
         Joins(N, g, P, C, x, p), NEW h, Merged(N, g, h, x, p)
  PROVE  Sound(h, P, C)
<1> DEFINE b == g.bb[p]
<1>1. /\ x \in Used(g) /\ p \in Used(g) /\ x \in P /\ p \in P /\ x \in 1 .. N /\ p \in 1 .. N
          /\ x < p
      /\ \A y \in P : y <= x \/ p <= y
      /\ g.bb[x].start = x /\ b.start = p /\ b.jmp_tc = 0
      /\ g.bb[x].len > 0 => LastOp(g, x).code \notin Jumps
  BY DEF Joins
<1>2. InOrder(h, P) /\ Disjoint(h, P) /\ Exact(h) /\ Used(h) = Used(g) \ {p}
  BY MergedOrder, MergedExact
<1>3. /\ h.ops = g.ops
      /\ \A y \in 1 .. N + 1 : Frame(g.bb[y], h.bb[y]) /\ (y \notin {x, p}
                => Rest(g.bb[y], h.bb[y]))
      /\ Leads(h.bb[x], p + b.len - x, b.jmp_1, b.jmp_2, b.jmp_ext, b.follow)
  BY DEF Merged
<1>4. \A y \in P : /\ y \in 1 .. N /\ y \in 1 .. N + 1 /\ g.bb[y].start = y /\ g.bb[y].len \in Nat
                   /\ LastLine(g.bb[y]) = y + g.bb[y].len - 1 /\ y + g.bb[y].len <= N + 1
  BY UsedFacts
<1>5. /\ h.bb[x].start = x /\ h.bb[x].len = p + b.len - x /\ h.bb[x].len > 0
      /\ LastLine(h.bb[x]) = p + b.len - 1 /\ b.len \in Nat
  BY <1>1, <1>3, <1>4 DEF Leads, LastLine, Frame
<1>6. DOMAIN g.ops = 1 .. N
  BY GraphFacts
<1>7. \A i \in 1 .. N : g.ops[i].code \in Jumps =>
        \E y \in P : y # x /\ g.bb[y].len > 0 /\ i = LastLine(g.bb[y])
  BY <1>1, <1>6 DEF Sound, JumpsLast, LastOp
<1>8. JumpsLast(h, P)
  <2>1. SUFFICES ASSUME NEW i \in 1 .. N, g.ops[i].code \in Jumps
                 PROVE  \E y \in P : h.bb[y].len > 0 /\ i = LastLine(h.bb[y])
    BY <1>3, <1>6 DEF JumpsLast
  <2>2. PICK y \in P : y # x /\ g.bb[y].len > 0 /\ i = LastLine(g.bb[y])
    BY <1>7, <2>1
  <2>3. CASE y = p
    BY <1>1, <1>4, <1>5, <2>2, <2>3
  <2>4. CASE y # p
    BY <1>3, <1>4, <2>2, <2>4 DEF Frame, Rest, LastLine
  <2> QED
    BY <2>3, <2>4
<1>9. ASSUME NEW y \in Used(h), y # x
      PROVE  EdgesFit(h, y, C)
  <2>1. y \in Used(g) /\ y # p /\ y \in P /\ y \in 1 .. N + 1
    BY <1>2, <1>4, UsedListed
  <2>2. EdgesFit(g, y, C) /\ Frame(g.bb[y], h.bb[y]) /\ Rest(g.bb[y], h.bb[y])
    BY <1>3, <1>9, <2>1 DEF Sound
  <2>3. LastOp(h, y) = LastOp(g, y)
    BY <1>3, <2>2 DEF LastOp, LastLine, Frame, Rest
  <2>4. Used(h) \subseteq Used(g)
    BY <1>2
  <2> QED
    BY <2>2, <2>3, <2>4 DEF EdgesFit, Rest
<1>10. EdgesFit(h, x, C)
  <2>1. /\ h.bb[x].jmp_1 = b.jmp_1 /\ h.bb[x].jmp_2 = b.jmp_2
        /\ h.bb[x].jmp_ext = b.jmp_ext /\ h.bb[x].follow = b.follow
    BY <1>3 DEF Leads
  <2>2. EdgesFit(g, p, C)
    BY <1>1 DEF Sound
  <2>3. CASE b.len > 0
    <3>1. LastOp(h, x) = LastOp(g, p)
      BY <1>1, <1>3, <1>4, <1>5 DEF LastOp
    <3>2. ASSUME LastOp(g, p).code = "JMP", b.follow # 0
          PROVE  x < b.follow /\ \A y \in Used(h) : y <= x \/ b.follow <= y
      <4>1. p < b.follow /\ \A y \in Used(g) : y <= p \/ b.follow <= y
        BY <2>2, <2>3, <3>2 DEF EdgesFit
      <4>2. b.follow \in P
        <5>1. b.follow \in Used(g)
          BY <1>1, <3>2, SuccIs DEF Sound, Exact
        <5> QED
          BY <5>1, UsedListed
      <4>3. x < b.follow
        BY <1>1, <1>4, <4>1, <4>2
      <4>4. ASSUME NEW y \in Used(h)
            PROVE  y <= x \/ b.follow <= y
        <5>1. y \in Used(g) /\ y # p /\ y \in P
          BY <1>2, UsedListed
        <5> QED
          BY <1>1, <1>4, <4>1, <5>1
      <4> QED
        BY <4>3, <4>4
    <3> HIDE DEF b
    <3> QED
      BY <1>5, <2>1, <2>2, <2>3, <3>1, <3>2 DEF EdgesFit, b
  <2>4. CASE b.len = 0
    <3>1. LastLine(h.bb[x]) = p - 1 /\ p - 1 \in 1 .. N
      BY <1>1, <1>5, <2>4
    <3>2. LastOp(h, x).code \notin Jumps
      <4>1. SUFFICES ASSUME g.ops[p - 1].code \in Jumps
                     PROVE  FALSE
        BY <1>3, <3>1 DEF LastOp
      <4>2. PICK y \in P : y # x /\ g.bb[y].len > 0 /\ p - 1 = LastLine(g.bb[y])
        BY <1>7, <3>1, <4>1
      <4>3. CASE y < x
        <5>1. y + g.bb[y].len <= x
          BY <1>1, <4>3 DEF Sound, Disjoint, Used
        <5> QED
          BY <1>1, <1>4, <4>2, <5>1
      <4>4. CASE x < y
        <5>1. p <= y
          BY <1>1, <1>4, <4>4
        <5> QED
          BY <1>1, <1>4, <4>2, <5>1
      <4> QED
        BY <1>1, <1>4, <4>2, <4>3, <4>4
    <3>3. h.bb[x].follow \notin C \cup {0}
      BY <2>1, <2>2, <2>4 DEF EdgesFit
    <3> QED
      BY <1>5, <3>2, <3>3, JumpCodes DEF EdgesFit
  <2> QED
    BY <1>5, <2>3, <2>4
<1>11. ASSUME NEW y \in Used(h)
       PROVE  Protected(h, y, C)
  <2>1. y \in Used(g) /\ y \in P /\ y \in 1 .. N + 1
    BY <1>2, <1>4, UsedListed
  <2>2. Protected(g, y, C) /\ Frame(g.bb[y], h.bb[y])
    BY <1>3, <2>1 DEF Sound
  <2>3. FirstOp(h, y) = FirstOp(g, y)
    BY <1>3, <2>2 DEF FirstOp, Frame
  <2>4. g.bb[y].jmp_tc # 0 => g.bb[y].jmp_tc \in 1 .. N + 1
    <3>1. g.bb[y].jmp_tc # 0 => g.bb[y].jmp_tc \in Used(g)
      BY <2>1, SuccIs DEF Sound, Exact
    <3> QED
      BY <1>4, <3>1, UsedListed
  <2> QED
    BY <1>3, <2>2, <2>3, <2>4 DEF Protected, Frame
<1> QED
  BY <1>2, <1>8, <1>9, <1>10, <1>11 DEF Sound

(* A block that only the one before it falls into can become part of that  *)
(* one: the joined block spans the lines between the two, which were       *)
(* merged away or NOPs, ends with the second one's jump and has its edges; *)
(* the graph stays sound and the emptied block is not used any more        *)
(* (optimize_jmp, "Merge").                                                *)
THEOREM MergeSound ==
  ASSUME NEW N \in Nat, NEW g \in Graph(N), NEW P, NEW C, Sound(g, P, C), NEW p \in 1 .. N + 1,
         Mergeable(g, p)
  PROVE  Merge(g, p) \in Graph(N) /\ Sound(Merge(g, p), P, C)
<1>1. PICK x : Joins(N, g, P, C, x, p)
  BY JoinsFacts
<1>2. Merged(N, g, Merge(g, p), x, p)
  BY <1>1, MergeFacts DEF Joins
<1>3. Merge(g, p) \in Graph(N)
  BY <1>2 DEF Merged
<1> DEFINE h == Merge(g, p)
<1>4. Merged(N, g, h, x, p)
  BY <1>2
<1> HIDE DEF h
<1>5. Sound(h, P, C)
  BY <1>1, <1>4, MergedSound
<1> QED
  BY <1>3, <1>5 DEF h
-----------------------------------------------------------------------------
(* h is g when the block q behind p is gone, and its lines with it.        *)
Unlinked(N, g, h, p, q) ==
  /\ h \in Graph(N)
  /\ \A x \in 1 .. N + 1 :
       /\ h.bb[x].start = g.bb[x].start /\ h.bb[x].protect = g.bb[x].protect
       /\ h.bb[x].jmp_tc = g.bb[x].jmp_tc
       /\ h.bb[x].next = IF x = p THEN g.bb[q].next ELSE g.bb[x].next
       /\ x # q => Rest(g.bb[x], h.bb[x])
       /\ h.bb[x].used = (g.bb[x].used /\ x # q)
       /\ x # q => h.bb[x].pred = IF g.bb[q].used /\ x \in Succ(g, q)
                                    THEN g.bb[x].pred \ {q} ELSE g.bb[x].pred
  /\ \A i \in 1 .. N :
       h.ops[i] = IF i \in g.bb[q].start .. LastLine(g.bb[q]) THEN Op("NOP") ELSE g.ops[i]

(* What the two blocks become.                                             *)
Cleared(b) == [b EXCEPT !.len = 0, !.used = FALSE]
Relisted(b, n) == [b EXCEPT !.next = n]

LEMMA ClearedFacts ==
  ASSUME NEW b \in BasicBlock
  PROVE  /\ Cleared(b) \in BasicBlock /\ Frame(b, Cleared(b))
         /\ Cleared(b).len = 0 /\ Cleared(b).used = FALSE
  BY DEF BasicBlock, Frame, Cleared

LEMMA RelistedFacts ==
  ASSUME NEW b \in BasicBlock, NEW n \in Nat
  PROVE  LET c == Relisted(b, n) IN
         /\ c \in BasicBlock /\ c.next = n /\ Rest(b, c)
         /\ c.start = b.start /\ c.protect = b.protect /\ c.jmp_tc = b.jmp_tc
         /\ c.used = b.used /\ c.pred = b.pred
  BY DEF BasicBlock, Rest, Relisted

(* What removing a block does to the graph.                                *)
LEMMA UnlinkFacts ==
  ASSUME NEW N \in Nat, NEW g \in Graph(N), NEW p \in 1 .. N + 1, NEW q \in 1 .. N + 1,
         p # q, g.bb[p].next = q
  PROVE  Unlinked(N, g, Unlink(g, p), p, q)
<1> DEFINE r == Rm(g, q)
           n == g.bb[q].next
           line(i) == IF i \in g.bb[q].start .. LastLine(g.bb[q]) THEN Op("NOP") ELSE g.ops[i]
           lines == [i \in 1 .. N |-> line(i)]
           cleared == Cleared(r.bb[q])
           listed == Relisted(r.bb[p], n)
           B == [r.bb EXCEPT ![q] = cleared, ![p] = listed]
           s == [r EXCEPT !.ops = lines]
           h == [s EXCEPT !.bb = B]
<1>1. BlockGone(N, g, r, q)
  BY RmFacts
<1>2. Unlink(g, p) =
        [r EXCEPT !.ops = [i \in DOMAIN r.ops |->
                             IF i \in g.bb[q].start .. LastLine(g.bb[q]) THEN Op("NOP")
                                       ELSE r.ops[i]],
                  !.bb = [r.bb EXCEPT ![q] = [@ EXCEPT !.len = 0, !.used = FALSE],
                                      ![p] = [@ EXCEPT !.next = n]]]
  BY DEF Unlink
<1> HIDE DEF r, n
<1>3. /\ r \in Graph(N) /\ r.ops = g.ops /\ DOMAIN r.bb = 1 .. N + 1 /\ DOMAIN r.ops = 1 .. N
      /\ \A x \in 1 .. N + 1 : r.bb[x] \in BasicBlock
  BY <1>1, GraphFacts DEF BlockGone, Relinked
<1>4. n \in Nat /\ \A x \in 1 .. N + 1 : g.bb[x].used \in BOOLEAN
  BY GraphFacts DEF n, BasicBlock
<1>5. Unlink(g, p) = h
  <2>1. lines = [i \in DOMAIN r.ops |->
                  IF i \in g.bb[q].start .. LastLine(g.bb[q]) THEN Op("NOP") ELSE r.ops[i]]
    BY <1>3
  <2>2. B = [r.bb EXCEPT ![q] = [@ EXCEPT !.len = 0, !.used = FALSE],
                         ![p] = [@ EXCEPT !.next = n]]
    BY <1>3 DEF Cleared, Relisted
  <2> HIDE DEF lines, B
  <2> QED
    BY <1>2, <2>1, <2>2
<1>6. lines \in [1 .. N -> Instruction] /\ \A i \in 1 .. N : lines[i] = line(i)
  <2>1. \A i \in 1 .. N : line(i) \in Instruction
    BY OpsTyped, GraphFacts
  <2> HIDE DEF line
  <2> QED
    BY <2>1
<1> HIDE DEF lines
<1>7. s \in Graph(N) /\ s.bb = r.bb /\ s.ops = lines
  BY <1>3, <1>6 DEF Graph
<1>8. /\ cleared \in BasicBlock /\ Frame(r.bb[q], cleared)
      /\ cleared.len = 0 /\ cleared.used = FALSE
  BY <1>3, ClearedFacts
<1>9. /\ listed \in BasicBlock /\ listed.next = n /\ Rest(r.bb[p], listed)
      /\ listed.start = r.bb[p].start /\ listed.protect = r.bb[p].protect
      /\ listed.jmp_tc = r.bb[p].jmp_tc
      /\ listed.used = r.bb[p].used /\ listed.pred = r.bb[p].pred
  BY <1>3, <1>4, RelistedFacts
<1> HIDE DEF cleared, listed, s
<1>10. /\ B \in [1 .. N + 1 -> BasicBlock] /\ B[q] = cleared /\ B[p] = listed
       /\ \A x \in 1 .. N + 1 : x \notin {p, q} => B[x] = r.bb[x]
  BY <1>3, <1>8, <1>9
<1> HIDE DEF B
<1>11. h \in Graph(N) /\ h.ops = lines /\ h.bb = B
  BY <1>7, <1>10, WithBlocks
<1> HIDE DEF h
<1>12. ASSUME NEW x \in 1 .. N + 1
       PROVE  /\ h.bb[x].start = g.bb[x].start /\ h.bb[x].protect = g.bb[x].protect
              /\ h.bb[x].jmp_tc = g.bb[x].jmp_tc
              /\ h.bb[x].next = IF x = p THEN g.bb[q].next ELSE g.bb[x].next
              /\ x # q => Rest(g.bb[x], h.bb[x])
              /\ h.bb[x].used = (g.bb[x].used /\ x # q)
              /\ x # q => h.bb[x].pred = IF g.bb[q].used /\ x \in Succ(g, q)
                                           THEN g.bb[x].pred \ {q} ELSE g.bb[x].pred
  <2>1. /\ Frame(g.bb[x], r.bb[x]) /\ Rest(g.bb[x], r.bb[x])
        /\ r.bb[x].used = (g.bb[x].used /\ x # q) /\ g.bb[x].used \in BOOLEAN
        /\ r.bb[x].pred = IF g.bb[q].used
                  /\ x \in Succ(g, q) THEN g.bb[x].pred \ {q} ELSE g.bb[x].pred
    BY <1>1, <1>4 DEF BlockGone, Relinked
  <2>2. CASE x = q
    BY <1>8, <1>10, <1>11, <2>1, <2>2 DEF Frame
  <2>3. CASE x = p
    BY <1>9, <1>10, <1>11, <2>1, <2>3 DEF Frame, Rest, n
  <2>4. CASE x \notin {p, q}
    BY <1>10, <1>11, <2>1, <2>4 DEF Frame
  <2> QED
    BY <2>2, <2>3, <2>4
<1>13. Unlinked(N, g, h, p, q)
  BY <1>6, <1>11, <1>12 DEF Unlinked
<1> QED
  BY <1>5, <1>13

(* What leads to the block that goes.                                      *)
LEMMA DeadFacts ==
  ASSUME NEW N \in Nat, NEW g \in Graph(N), NEW P, NEW C, Sound(g, P, C), NEW p \in P,
         Dead(g, g.bb[p].next)
  PROVE  LET q == g.bb[p].next IN
         /\ p \in 1 .. N /\ q \in 1 .. N /\ q \in P /\ 1 < q /\ p < q
         /\ \A x \in P : (x <= p \/ q <= x) /\ (g.bb[x].next = q => x = p)
         /\ \A x \in Used(g) : q \notin Succ(g, x)
<1> DEFINE q == g.bb[p].next
<1>1. \A x \in P : x \in 1 .. N
  BY UsedFacts
<1>2. /\ q # 0 /\ q \in P /\ p < q
      /\ \A x \in P : x <= p \/ q <= x
  BY DEF Dead, Sound, InOrder
<1>3. ASSUME NEW x \in P, g.bb[x].next = q
      PROVE  x = p
  <2>1. x < q /\ \A y \in P : y <= x \/ q <= y
    BY <1>2, <1>3 DEF Sound, InOrder
  <2> QED
    BY <1>1, <1>2, <2>1
<1>4. ASSUME NEW x \in Used(g), q \in Succ(g, x)
      PROVE  FALSE
  <2>1. q \in Used(g) /\ x \in g.bb[q].pred
    BY <1>4 DEF Sound, Exact
  <2> QED
    BY <2>1 DEF Dead, Used
<1> QED
  BY <1>1, <1>2, <1>3, <1>4

LEMMA UnlinkedSound ==
  ASSUME NEW N \in Nat, NEW g \in Graph(N), NEW P, NEW C, Sound(g, P, C), NEW p \in P, NEW q,
         q = g.bb[p].next, Dead(g, q), NEW h, Unlinked(N, g, h, p, q)
  PROVE  Sound(h, P \ {q}, C)
<1>1. /\ p \in 1 .. N /\ q \in 1 .. N /\ q \in P /\ 1 < q /\ p < q
      /\ \A x \in P : (x <= p \/ q <= x) /\ (g.bb[x].next = q => x = p)
      /\ \A x \in Used(g) : q \notin Succ(g, x)
  BY DeadFacts
<1>2. /\ DOMAIN h.bb = 1 .. N + 1 /\ DOMAIN g.bb = 1 .. N + 1
      /\ DOMAIN h.ops = 1 .. N /\ DOMAIN g.ops = 1 .. N /\ Len(h.ops) = N /\ Len(g.ops) = N
  BY GraphFacts DEF Unlinked
<1>3. \A x \in P : /\ x \in 1 .. N /\ x \in 1 .. N + 1 /\ g.bb[x].start = x /\ g.bb[x].len \in Nat
                   /\ LastLine(g.bb[x]) = x + g.bb[x].len - 1
  BY UsedFacts
<1>4. \A x \in 1 .. N + 1 :
        /\ h.bb[x].start = g.bb[x].start /\ h.bb[x].protect = g.bb[x].protect
        /\ h.bb[x].jmp_tc = g.bb[x].jmp_tc
        /\ h.bb[x].next = IF x = p THEN g.bb[q].next ELSE g.bb[x].next
        /\ x # q => Rest(g.bb[x], h.bb[x])
        /\ h.bb[x].used = (g.bb[x].used /\ x # q)
        /\ x # q => h.bb[x].pred = IF g.bb[q].used /\ x \in Succ(g, q)
                                     THEN g.bb[x].pred \ {q} ELSE g.bb[x].pred
  BY DEF Unlinked
<1>5. \A i \in 1 .. N : h.ops[i] = IF i \in q .. LastLine(g.bb[q]) THEN Op("NOP") ELSE g.ops[i]
  BY <1>1, <1>3 DEF Unlinked
<1>6. Used(h) = Used(g) \ {q}
  BY <1>2, <1>4 DEF Used
<1>7. \A x \in Used(g) : x \in P /\ x \in 1 .. N + 1
  BY <1>3, UsedListed
<1>8. InOrder(h, P \ {q})
  <2>1. InOrder(g, P)
    BY DEF Sound
  <2>2. 1 \in P \ {q} /\ P \ {q} \subseteq DOMAIN h.ops /\ Used(h) \subseteq P \ {q}
    <3>1. 1 \in P /\ P \subseteq DOMAIN g.ops /\ Used(g) \subseteq P
      BY <2>1 DEF InOrder
    <3>2. 1 # q
      BY <1>1
    <3> QED
      BY <1>2, <1>6, <3>1, <3>2
  <2>3. ASSUME NEW x \in P \ {q}
        PROVE  /\ h.bb[x].start = x
               /\ LET n == h.bb[x].next IN
                  IF n = 0 THEN \A y \in P \ {q} : y <= x
                  ELSE n \in P \ {q} /\ x < n /\ \A y \in P \ {q} : y <= x \/ n <= y
    <3>1. h.bb[x].start = x
      BY <1>3, <1>4
    <3>2. CASE x = p
      <4>1. h.bb[x].next = g.bb[q].next
        BY <1>3, <1>4, <3>2
      <4>2. LET n == g.bb[q].next IN
            IF n = 0 THEN \A y \in P : y <= q
            ELSE n \in P /\ q < n /\ \A y \in P : y <= q \/ n <= y
        BY <1>1, <2>1 DEF InOrder
      <4>3. \A y \in P \ {q} : y <= q => y <= p
        BY <1>1, <1>3
      <4>4. CASE g.bb[q].next = 0
        BY <3>1, <3>2, <4>1, <4>2, <4>3, <4>4
      <4>5. CASE g.bb[q].next # 0
        <5>1. /\ g.bb[q].next \in P /\ q < g.bb[q].next /\ g.bb[q].next \in 1 .. N
              /\ \A y \in P : y <= q \/ g.bb[q].next <= y
          BY <1>3, <4>2, <4>5
        <5>2. g.bb[q].next \in P \ {q} /\ p < g.bb[q].next
          BY <1>1, <5>1
        <5> QED
          BY <3>1, <3>2, <4>1, <4>3, <4>5, <5>1, <5>2
      <4> QED
        BY <4>4, <4>5
    <3>3. CASE x # p
      <4>1. h.bb[x].next = g.bb[x].next /\ g.bb[x].next # q
        BY <1>1, <1>3, <1>4, <3>3
      <4>2. LET n == g.bb[x].next IN
            IF n = 0 THEN \A y \in P : y <= x
            ELSE n \in P /\ x < n /\ \A y \in P : y <= x \/ n <= y
        BY <2>1 DEF InOrder
      <4> QED
        BY <3>1, <4>1, <4>2
    <3> QED
      BY <3>2, <3>3
  <2> QED
    BY <2>2, <2>3 DEF InOrder
<1>9. Disjoint(h, P \ {q})
  <2>1. \A x \in P \ {q} : h.bb[x].len = g.bb[x].len /\ (h.bb[x].used => g.bb[x].used)
    BY <1>3, <1>4 DEF Rest
  <2> QED
    BY <1>2, <2>1 DEF Sound, Disjoint
<1>10. \A x \in P \ {q} : g.bb[x].len > 0 \/ g.bb[x].used =>
         /\ x \notin q .. LastLine(g.bb[q])
         /\ g.bb[x].len > 0 => LastLine(g.bb[x]) \notin q .. LastLine(g.bb[q])
  <2>1. CASE g.bb[q].len > 0
    BY <1>1, <2>1, Apart
  <2>2. CASE ~ (g.bb[q].len > 0)
    BY <1>1, <1>3, <2>2
  <2> QED
    BY <2>1, <2>2
<1>11. JumpsLast(h, P \ {q})
  <2>1. SUFFICES ASSUME NEW i \in 1 .. N, h.ops[i].code \in Jumps
                 PROVE  \E y \in P \ {q} : h.bb[y].len > 0 /\ i = LastLine(h.bb[y])
    BY <1>2 DEF JumpsLast
  <2>2. i \notin q .. LastLine(g.bb[q]) /\ h.ops[i] = g.ops[i]
    BY <1>5, <2>1, OpsTyped DEF Jumps, CondJumps
  <2>3. PICK y \in P : g.bb[y].len > 0 /\ i = LastLine(g.bb[y])
    BY <1>2, <2>1, <2>2 DEF Sound, JumpsLast
  <2>4. y # q
    BY <1>1, <1>3, <2>2, <2>3
  <2> QED
    BY <1>3, <1>4, <2>3, <2>4 DEF Rest, LastLine
<1>12. ASSUME NEW y \in Used(h)
       PROVE  EdgesFit(h, y, C) /\ Protected(h, y, C)
  <2>1. /\ y \in Used(g) /\ y # q /\ y \in P \ {q} /\ y \in 1 .. N /\ y \in 1 .. N + 1
        /\ g.bb[y].used /\ g.bb[y].start = y
        /\ LastLine(g.bb[y]) = y + g.bb[y].len - 1
    BY <1>3, <1>6, <1>7 DEF Used
  <2>2. /\ EdgesFit(g, y, C) /\ Protected(g, y, C) /\ Rest(g.bb[y], h.bb[y])
        /\ h.bb[y].start = y /\ h.bb[y].protect = g.bb[y].protect
        /\ h.bb[y].jmp_tc = g.bb[y].jmp_tc
    BY <1>4, <2>1 DEF Sound
  <2>3. g.bb[y].len > 0 => LastOp(h, y) = LastOp(g, y)
    <3>1. LastLine(h.bb[y]) = LastLine(g.bb[y])
      BY <2>1, <2>2 DEF LastLine, Rest
    <3>2. g.bb[y].len > 0 => /\ LastLine(g.bb[y]) \in 1 .. N
                             /\ LastLine(g.bb[y]) \notin q .. LastLine(g.bb[q])
      BY <1>10, <2>1, UsedFacts
    <3> QED
      BY <1>5, <3>1, <3>2 DEF LastOp
  <2>4. FirstOp(h, y) = FirstOp(g, y)
    BY <1>5, <1>10, <2>1, <2>2 DEF FirstOp
  <2>5. Used(h) \subseteq Used(g)
    BY <1>6
  <2>6. EdgesFit(h, y, C)
    BY <2>2, <2>3, <2>5 DEF EdgesFit, Rest
  <2>7. g.bb[y].jmp_tc # 0 => g.bb[y].jmp_tc \in 1 .. N + 1
    <3>1. g.bb[y].jmp_tc # 0 => g.bb[y].jmp_tc \in Used(g)
      BY <2>1, SuccIs DEF Sound, Exact
    <3> QED
      BY <1>7, <3>1
  <2>8. Protected(h, y, C)
    BY <1>4, <2>2, <2>4, <2>7 DEF Protected
  <2> QED
    BY <2>6, <2>8
<1>13. Exact(h)
  <2>1. \A x \in Used(g) : /\ g.bb[x].pred = {z \in Used(g) : x \in Succ(g, z)}
                           /\ Succ(g, x) \subseteq Used(g)
    BY DEF Sound, Exact
  <2>2. \A x \in 1 .. N + 1 : x # q => Succ(h, x) = Succ(g, x)
    BY <1>4, SuccIs DEF Rest
  <2>3. ASSUME NEW y \in Used(h)
        PROVE  /\ \A z : z \in h.bb[y].pred <=> z \in Used(h) /\ y \in Succ(h, z)
               /\ Succ(h, y) \subseteq Used(h)
    <3>1. y \in Used(g) /\ y # q /\ y \in 1 .. N + 1
      BY <1>6, <1>7
    <3>2. Succ(h, y) \subseteq Used(h)
      BY <1>1, <1>6, <2>1, <2>2, <3>1
    <3>3. \A z : z \in g.bb[y].pred <=> z \in Used(g) /\ y \in Succ(g, z)
      BY <2>1, <3>1
    <3>4. h.bb[y].pred = IF g.bb[q].used /\ y \in Succ(g, q)
                           THEN g.bb[y].pred \ {q} ELSE g.bb[y].pred
      BY <1>4, <3>1
    <3>5. q \in Used(g) <=> g.bb[q].used
      BY <1>1, <1>2 DEF Used
    <3>6. \A z : z \in h.bb[y].pred <=> z \in Used(g) /\ y \in Succ(g, z) /\ z # q
      BY <3>3, <3>4, <3>5
    <3>7. \A z : z \in Used(g) /\ z # q => Succ(h, z) = Succ(g, z)
      BY <1>7, <2>2
    <3> QED
      BY <1>6, <3>2, <3>6, <3>7
  <2>4. \A y \in Used(h) : h.bb[y].pred = {z \in Used(h) : y \in Succ(h, z)}
    BY <2>3
  <2> QED
    BY <2>3, <2>4 DEF Exact
<1> QED
  BY <1>8, <1>9, <1>11, <1>12, <1>13 DEF Sound

(* Removing the dead block behind p leaves the graph sound: nothing in use *)
(* led to that block, no block in use loses a link or a line that is its   *)
(* own, and the list closes over the gap (del_bb and rm_bb as optimize_jmp *)
(* calls them).                                                            *)
THEOREM UnlinkSound ==
  ASSUME NEW N \in Nat, NEW g \in Graph(N), NEW P, NEW C, Sound(g, P, C), NEW p \in P,
         Dead(g, g.bb[p].next)
  PROVE  Unlink(g, p) \in Graph(N) /\ Sound(Unlink(g, p), P \ {g.bb[p].next}, C)
<1> DEFINE q == g.bb[p].next
           h == Unlink(g, p)
<1>1. p \in 1 .. N + 1 /\ q \in 1 .. N + 1 /\ p # q
  <2>1. p \in 1 .. N /\ q \in 1 .. N /\ p < q
    BY DeadFacts
  <2> QED
    BY <2>1
<1>2. Unlinked(N, g, h, p, q)
  BY <1>1, UnlinkFacts
<1> HIDE DEF h
<1>3. h \in Graph(N)
  BY <1>2 DEF Unlinked
<1>4. Sound(h, P \ {q}, C)
  BY <1>2, UnlinkedSound
<1> QED
  BY <1>3, <1>4 DEF h
=============================================================================
