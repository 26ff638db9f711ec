------------------------------ MODULE ZendClass ------------------------------
(***************************************************************************)
(* What is outside eAccelerator when it stores and restores scripts: the   *)
(* op_arrays and the classes PHP 5.3 and 5.4 make of a file, and what PHP  *)
(* does when it binds a class to its parent.  A hash table is the sequence *)
(* of its buckets; names are in lower case.                                *)
(***************************************************************************)
EXTENDS Integers, Sequences, SequencesExt, Loops

Nil == "NULL"       \* the string that is not there

(* Values.  An array holds the buckets of its table in a; own tells the    *)
(* zvals of static members apart: the class that declared it.              *)
Zval(t, v)  == [t |-> t, v |-> v, a |-> <<>>, own |-> Nil]
Array(h)    == [t |-> "array", v |-> "", a |-> h, own |-> Nil]
Undef       == Zval("undef", "")

(* A bucket; name is the name of a member without the class that a private *)
(* member's key also carries.                                              *)
Bucket(k, x) == [key |-> k, name |-> k, val |-> x]

Has(h, k) == \E i \in DOMAIN h : h[i].key = k
At(h, k)  == h[CHOOSE i \in DOMAIN h : h[i].key = k].val

(* The table h and what it has not of g.                                   *)
Merge(h, g) == h \o SelectSeq(g, LAMBDA b : ~Has(h, b.key))

Magic == {"__destruct", "__clone", "__get", "__set", "__call", "__tostring"}

(* The constructor and the magic methods of class c: of each, the class it *)
(* comes from and its name.                                                *)
None == <<Nil, Nil>>
Specials(c) ==
  [ctor  |-> IF Has(c.methods, "__construct") THEN <<c.key, "__construct">>
             ELSE IF Has(c.methods, c.name) THEN <<c.key, c.name>> ELSE None,
   magic |-> [n \in Magic |-> IF Has(c.methods, n) THEN <<c.key, n>> ELSE None]]

InheritSpecials(s, p) ==
  [ctor  |-> IF s.ctor = None THEN p.ctor ELSE s.ctor,
   magic |-> [n \in Magic |-> IF s.magic[n] = None THEN p.magic[n] ELSE s.magic[n]]]

(* Members of PHP 5.4 have slots in two tables.  The parent's slots come   *)
(* first; a member that the child declares again takes its parent's slot   *)
(* and leaves its own empty.                                               *)
Shifted(c, p) ==
  [i \in DOMAIN c.infos |->
     [c.infos[i] EXCEPT !.val.off =
        @ + (IF c.infos[i].val.static THEN Len(p.statics) ELSE Len(p.defaults))]]

Takes(b, p) ==
  /\ ~b.val.static
  /\ Has(p.infos, b.key)
  /\ ~At(p.infos, b.key).static /\ ~At(p.infos, b.key).private

(* The slots, when the members in infos that p has, take p's.              *)
Retaken(infos, slots, p) ==
  LET takes(s) == {i \in DOMAIN infos : Takes(infos[i], p) /\ At(p.infos, infos[i].key).off = s}
      left(s)  == {i \in DOMAIN infos : Takes(infos[i], p) /\ infos[i].val.off = s}
  IN [s \in DOMAIN slots |->
        IF takes(s) # {} THEN slots[infos[CHOOSE i \in takes(s) : TRUE].val.off]
        ELSE IF left(s) # {} THEN Undef ELSE slots[s]]

InheritSlots(c, p) ==
  With(Shifted(c, p), LAMBDA infos :
    [c EXCEPT
      !.infos = Merge([i \in DOMAIN infos |->
                         IF Takes(infos[i], p) THEN [infos[i] EXCEPT !.val.off = At(p.infos, infos[i].key).off]
                         ELSE infos[i]], p.infos),
      !.defaults = With(p.defaults \o @, LAMBDA slots : Retaken(infos, slots, p)),
      !.statics = p.statics \o @])

InheritHashes(c, p) ==
  [c EXCEPT !.infos    = Merge(@, p.infos),
            !.defaults = Merge(@, p.defaults),
            !.statics  = Merge(@, p.statics)]

(* Interfaces; a place is Nil until an instruction adds the interface.     *)
MergeInterfaces(own, inherited) ==
  own \o Reverse(SelectSeq(inherited, LAMBDA i : i \notin ToSet(own)))

(* zend_do_inheritance.                                                    *)
InheritFrom(php, c, p) ==
  [(IF php = "5.4" THEN InheritSlots(c, p) ELSE InheritHashes(c, p)) EXCEPT
     !.parent   = p.name,
     !.ifs      = MergeInterfaces(@, p.ifs),
     !.consts   = Merge(@, p.consts),
     !.methods  = Merge(@, p.methods),
     !.specials = InheritSpecials(@, p.specials)]

Inherit(php, c, p) ==
  With(c, LAMBDA child : With(p, LAMBDA parent : InheritFrom(php, child, parent)))

(* What a script can tell of class c: its constants, its members with the  *)
(* class that declares each and the zval behind it, and its methods, each  *)
(* seen through view.                                                      *)
ClassView(php, c, view(_)) ==
  LET table(m) == IF m.static THEN c.statics ELSE c.defaults
      zval(m)  == IF php = "5.4" THEN table(m)[m.off] ELSE At(table(m), m.name)
  IN [name |-> c.name, parent |-> c.parent, ifs |-> c.ifs, specials |-> c.specials,
      consts |-> c.consts, file |-> c.file, doc |-> c.doc,
      members |-> [k \in {b.key : b \in ToSet(c.infos)} |->
                     LET m == At(c.infos, k) IN
                     [ce |-> m.ce, static |-> m.static, doc |-> m.doc, zval |-> zval(m)]],
      methods |-> [k \in {b.key : b \in ToSet(c.methods)} |-> view(At(c.methods, k))]]
=============================================================================
