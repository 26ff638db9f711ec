---------------------------- MODULE ScriptImage ----------------------------
(***************************************************************************)
(* How a compiled script gets into the shared memory and back into the     *)
(* requests (ea_store.c, ea_restore.c): calc_size adds up the bytes that   *)
(* eaccelerator_store_int will use for a copy in one block; the block may  *)
(* go to a file and come back at another address, where eaccelerator_fixup *)
(* corrects every pointer; and each request restores op_arrays, classes    *)
(* and functions that share what nobody changes with the block.            *)
(*                                                                         *)
(* The block is mem, a function from addresses to objects; a string is the *)
(* object at its address; 0 is NULL.  A hash table keeps the list of its   *)
(* buckets; its chains, which every restore builds anew, only take their   *)
(* room.  Internal functions, which PHP 5.3 and 5.4 never leave for the    *)
(* store, and numbers that are copied as they are (lines, flags, counts of *)
(* registers) are left out.                                                *)
(***************************************************************************)
EXTENDS ZendClass, FiniteSets, TLC

CONSTANTS Files,      \* what may be compiled: [php, op_array, functions, classes]
          Hidden,     \* the keys that begin with a NUL
          Bases,      \* the addresses where the block may lie
          Requests,
          Worlds(_),  \* class tables a request may have before it includes a file
          MaxInclude, \* bound: how often a request includes the script
          Align,      \* EACCELERATOR_PLATFORM_ALIGNMENT
          MaxDup      \* MAX_DUP_STR_LEN

ASSUME ImageAssumption ==
  /\ Align \in Nat \ {0}
  /\ \A b \in Bases : b \in Nat \ {0} /\ b % Align = 0

VARIABLES file,       \* the compiled script
          stage,      \* "compiled", "sized", "stored"
          base,       \* where the block lies, and ...
          size,       \* ... what calc_size said it needs
          im,         \* the block as far as it is written: [mem, at, strs, p]
          disk,       \* the block as hash_add_file wrote it: [base, mem]
          reqs        \* what each request has: see NewRequest

vars == <<file, stage, base, size, im, disk, reqs>>

php == file.php

Indices(s) == [k \in DOMAIN s |-> k]

(* Bytes of the structures, and of the distances in them.  The last three  *)
(* lie within an object: the key of a table of classes or functions, a     *)
(* constant operand, the tables of a class.                                *)
Sizeof ==
  [entry |-> 8, fc |-> 8, op_array |-> 40, class |-> 48, zval |-> 8, hash |-> 16,
   bucket |-> 12, slot |-> 4, arg |-> 8, op |-> 12, literal |-> 8, brk |-> 8,
   try |-> 8, var |-> 8, info |-> 12]
TableSize == 2
OffKey == 8
OffOp(j) == 4 * j
Off == [consts |-> 4, infos |-> 8, defaults |-> 12, statics |-> 16, methods |-> 20]

(* The hash tables of a class, and what is in each.                        *)
Kind == [consts |-> "zval", infos |-> "info", defaults |-> "zval", statics |-> "zval",
         methods |-> "op_array"]

AlignUp(n) == ((n + Align - 1) \div Align) * Align
Bytes(s) == Len(s) + 1

-----------------------------------------------------------------------------
(* A bug: the bytes that alignment costs are forgotten.                    *)
AddSizeBug(c, n) == [c EXCEPT !.sum = @ + n]

(* The size.  A calculation has a sum and the strings it has met.          *)
AddSize(c, n) == [c EXCEPT !.sum = @ + AlignUp(n)]

CalcString(c, s) ==
  IF s = Nil \/ (Bytes(s) <= MaxDup /\ s \in c.strs) THEN c
  ELSE [AddSize(c, Bytes(s)) EXCEPT !.strs = IF Bytes(s) <= MaxDup THEN @ \cup {s} ELSE @]

CalcStrings(c, ss) == Loop(CalcString, c, ss)

RECURSIVE CalcHash(_, _, _)

CalcZval(c, z) ==
  CASE z.t \in {"string", "constant"} -> CalcString(c, z.v)
    [] z.t = "array" -> CalcHash(AddSize(c, Sizeof.hash), z.a, "zval")
    [] OTHER -> c

CalcZvalPtr(c, z) == CalcZval(AddSize(c, Sizeof.zval), z)

CalcPropertyInfo(c, info) ==
  CalcStrings(AddSize(c, Sizeof.info), <<info.name, info.doc>>)

(* The constants among the operands, in the order of the literals.         *)
Operands(f) == FlattenSeq([k \in DOMAIN f.ops |-> <<f.ops[k].op1, f.ops[k].op2>>])
IsConst(z) == z # Undef
Literals(f) == SelectSeq(Operands(f), IsConst)
LiteralTable(f) == IF php = "5.4" THEN Literals(f) ELSE <<>>

CalcArray(c, n, bytes) == IF n = 0 THEN c ELSE AddSize(c, n * bytes)

CalcOpArray(c, f) ==
  LET args == CalcStrings(CalcArray(AddSize(c, Sizeof.op_array), Len(f.args), Sizeof.arg),
                          FlattenSeq([k \in DOMAIN f.args |-> <<f.args[k].name, f.args[k].class>>]))
      names == CalcStrings(args, <<f.name, f.scope>>)
      ops == CalcArray(names, Len(f.ops), Sizeof.op)
      lits == Loop(CalcZval, CalcArray(ops, Len(LiteralTable(f)), Sizeof.literal), Literals(f))
      nums == CalcArray(CalcArray(lits, Len(f.brk), Sizeof.brk), Len(f.tries), Sizeof.try)
      statics == IF f.statics = <<>> THEN nums
                 ELSE CalcHash(AddSize(nums, Sizeof.hash), f.statics, "zval")
  IN CalcStrings(CalcArray(statics, Len(f.vars), Sizeof.var), f.vars \o <<f.file, f.doc>>)

CalcBucket(c, b, kind) ==
  LET key == IF php = "5.4" THEN AddSize(AddSize(c, Sizeof.bucket), Bytes(b.key))
                            ELSE AddSize(c, Sizeof.bucket + Bytes(b.key)) IN
  CASE kind = "zval"     -> CalcZvalPtr(key, b.val)
    [] kind = "info"     -> CalcPropertyInfo(key, b.val)
    [] kind = "op_array" -> CalcOpArray(key, b.val)

CalcHash(c, h, kind) ==
  IF h = <<>> THEN c
  ELSE Loop(LAMBDA d, b : CalcBucket(d, b, kind), AddSize(c, TableSize * Sizeof.slot), h)

(* A table of members: zvals, or NULL where a member has moved.            *)
CalcSlots(c, t) ==
  Loop(LAMBDA d, z : IF z = Undef THEN d ELSE CalcZvalPtr(d, z),
           CalcArray(c, Len(t), Sizeof.slot), t)

Slots == IF php = "5.4" THEN {"defaults", "statics"} ELSE {}

CalcClassEntry(c, ce) ==
  Loop(LAMBDA d, part : IF part \in Slots THEN CalcSlots(d, ce[part]) ELSE CalcHash(d, ce[part], Kind[part]),
       CalcStrings(AddSize(c, Sizeof.class), <<ce.name, ce.parent, ce.file, ce.doc>>),
       <<"consts", "infos", "defaults", "statics", "methods">>)

(* The keys of classes and functions and the name of the script lie in the *)
(* entries themselves, and count as strings the script already has.        *)
Keys(f) == [i \in 1 .. Len(f.classes) + Len(f.functions) |-> (f.classes \o f.functions)[i].key]

CalcSize(f) ==
  LET entry == AddSize([sum |-> 0, strs |-> {}], Sizeof.entry + Bytes(f.op_array.file))
      fcs == Loop(LAMBDA c, k : AddSize(c, Sizeof.fc + Bytes(k)), entry, Keys(f))
      start == [fcs EXCEPT !.strs = {s \in {f.op_array.file} \cup ToSet(Keys(f)) : Bytes(s) <= MaxDup}]
      classes == Loop(LAMBDA c, b : CalcClassEntry(c, b.val), start, f.classes)
      functions == Loop(LAMBDA c, b : CalcOpArray(c, b.val), classes, f.functions)
  IN CalcOpArray(functions, f.op_array).sum

-----------------------------------------------------------------------------
(* A bug: the next structure begins where this one ends.                   *)
AllocBug(i, n) == [i EXCEPT !.p = i.at, !.at = @ + n]

(* The copy.  Each step returns the block with what it stored, and in p    *)
(* where that is; what is allocated next begins at i.at.                   *)
Alloc(i, n) == [i EXCEPT !.p = i.at, !.at = AlignUp(@ + n)]
Put(i, a, x) == [i EXCEPT !.mem = (a :> x) @@ @]

StoreString(i, s) ==
  With(i, LAMBDA j :
    IF s = Nil THEN [j EXCEPT !.p = 0]
    ELSE IF Bytes(s) > MaxDup THEN Put(Alloc(j, Bytes(s)), j.at, s)
    ELSE IF s \in DOMAIN j.strs THEN [j EXCEPT !.p = j.strs[s]]
    ELSE [Put(Alloc(j, Bytes(s)), j.at, s) EXCEPT !.strs = (s :> j.at) @@ @])

(* The object x at a, whose fields are then stored and set in turn.        *)
Fields(i, a, x, fields, store(_, _)) ==
  Loop(LAMBDA j, f : With(store(j, f), LAMBDA k : [k EXCEPT !.mem[a][f] = k.p]), Put(i, a, x), fields)

Structure(i, bytes, x, fields, store(_, _)) ==
  With(Alloc(i, bytes), LAMBDA j : [Fields(j, j.p, x, fields, store) EXCEPT !.p = j.p])

(* An array of n elements, each put where it belongs.                      *)
StoreArray(i, n, bytes, put(_, _, _)) ==
  IF n = 0 THEN [i EXCEPT !.p = 0]
  ELSE With(Alloc(i, n * bytes), LAMBDA j :
         [Loop(LAMBDA k, e : put(k, j.p + (e - 1) * bytes, e), j, [e \in 1 .. n |-> e])
            EXCEPT !.p = j.p])

RECURSIVE StoreHash(_, _, _, _, _)

StoreTable(i, h) ==
  With(Alloc(i, Sizeof.hash), LAMBDA j : [StoreHash(j, j.p, h, h, "zval") EXCEPT !.p = j.p])

StoreZval(i, a, z) ==
  CASE z.t \in {"string", "constant"} ->
         With(StoreString(i, z.v), LAMBDA j : Put(j, a, [t |-> z.t, v |-> "", p |-> j.p]))
    [] z.t = "array" ->
         With(StoreTable(i, z.a), LAMBDA j : Put(j, a, [t |-> z.t, v |-> "", p |-> j.p]))
    [] OTHER -> Put(i, a, [t |-> z.t, v |-> z.v, p |-> 0])

StoreZvalPtr(i, z) ==
  With(Alloc(i, Sizeof.zval), LAMBDA j : [StoreZval(j, j.p, z) EXCEPT !.p = j.p])

StorePropertyInfo(i, info) ==
  Structure(i, Sizeof.info, [info EXCEPT !.name = 0, !.doc = 0], <<"name", "doc">>,
            LAMBDA j, f : StoreString(j, info[f]))

(* The operands of f that are constants before operand n of instruction k. *)
LiteralsBefore(f, k, n) ==
  Cardinality({o \in 1 .. 2 * (k - 1) + n - 1 : IsConst(Operands(f)[o])})

Jumps == {"GOTO", "JMP", "JMPZ", "JMPNZ", "JMPZ_EX", "JMPNZ_EX", "JMP_SET"}
         \cup (IF php = "5.4" THEN {"JMP_SET_VAR"} ELSE {})

(* An instruction: PHP 5.3 keeps constants in it (1 says that an operand   *)
(* is one), PHP 5.4 a pointer to the literal.  Jumps lead to the copy of   *)
(* the instruction they led to; the number of another instruction stays.   *)
StoreOp(i, f, a, k, opcodes, literals) ==
  LET o == f.ops[k]
      inline(j, n, z) == IF php = "5.4" \/ ~IsConst(z) THEN j ELSE StoreZval(j, a + OffOp(n), z)
      pointer(n, z) == IF ~IsConst(z) THEN 0
                       ELSE IF php = "5.4" THEN literals + LiteralsBefore(f, k, n) * Sizeof.literal
                       ELSE 1
  IN Put(inline(inline(i, 1, o.op1), 2, o.op2), a,
         [code |-> o.code, op1 |-> pointer(1, o.op1), op2 |-> pointer(2, o.op2),
          to |-> IF o.code \in Jumps THEN opcodes + (o.to - 1) * Sizeof.op ELSE o.to])

(* The parts of an op_array, in the order in which they are stored.        *)
StorePart(i, f, a, part) ==
  LET arg(j, b, k) == Fields(j, b, [name |-> 0, class |-> 0], <<"name", "class">>,
                             LAMBDA l, x : StoreString(l, f.args[k][x]))
      var(j, b, k) == Fields(j, b, [name |-> 0], <<"name">>, LAMBDA l, x : StoreString(l, f.vars[k]))
      literals == LiteralTable(f)
  IN CASE part \in {"name", "scope", "doc", "file"} -> StoreString(i, f[part])
       [] part = "args"  -> StoreArray(i, Len(f.args), Sizeof.arg, arg)
       [] part = "literals" ->
            StoreArray(i, Len(literals), Sizeof.literal, LAMBDA j, b, k : StoreZval(j, b, literals[k]))
       [] part = "ops"   ->
            StoreArray(i, Len(f.ops), Sizeof.op,
                       LAMBDA j, b, k : StoreOp(j, f, b, k, i.at, i.mem[a].literals))
       [] part = "tries" -> StoreArray(i, Len(f.tries), Sizeof.try, LAMBDA j, b, k : Put(j, b, f.tries[k]))
       [] part = "brk"   -> StoreArray(i, Len(f.brk), Sizeof.brk, LAMBDA j, b, k : Put(j, b, f.brk[k]))
       [] part = "statics" -> IF f.statics = <<>> THEN [i EXCEPT !.p = 0] ELSE StoreTable(i, f.statics)
       [] part = "vars"  -> StoreArray(i, Len(f.vars), Sizeof.var, var)

Parts == <<"args", "name", "scope", "literals", "ops", "tries", "brk", "statics", "vars", "doc", "file">>

StoreOpArray(i, f) ==
  With(i, LAMBDA j :
    Structure(j, Sizeof.op_array,
      [x \in ToSet(Parts) |-> 0] @@
      [num_args |-> Len(f.args), last_literal |-> Len(LiteralTable(f)), last |-> Len(f.ops),
       early |-> f.early, last_try |-> Len(f.tries), last_brk |-> Len(f.brk), last_var |-> Len(f.vars)],
      Parts, LAMBDA k, part : StorePart(k, f, j.at, part)))

(* The key of a bucket: behind it, or in PHP 5.4 on its own.               *)
StoreKey(i, key) ==
  IF php = "5.4" THEN Alloc(Alloc(i, Sizeof.bucket), Bytes(key))
  ELSE [Alloc(i, Sizeof.bucket + Bytes(key)) EXCEPT !.p = @ + Sizeof.bucket]

StoreData(i, x, kind) ==
  CASE kind = "zval"     -> StoreZvalPtr(i, x)
    [] kind = "info"     -> StorePropertyInfo(i, x)
    [] kind = "op_array" -> StoreOpArray(i, x)

(* A bucket at the end of the list.  A table of pointers (zvals) keeps     *)
(* them in the bucket itself, and pData leads there.                       *)
StoreBucket(i, table, b, kind) ==
  LET a == i.at
      last == i.mem[table].tail
      linked(j) == IF last = 0 THEN [j EXCEPT !.mem[table].head = a, !.mem[table].tail = a]
                   ELSE [j EXCEPT !.mem[last].next = a, !.mem[table].tail = a]
      new(key, p) == [key |-> key, name |-> b.name, next |-> 0,
                      ptr |-> IF kind = "zval" THEN p ELSE 0, data |-> IF kind = "zval" THEN a ELSE p]
  IN With(StoreKey(i, b.key), LAMBDA j :
       With(StoreData(Put(j, j.p, b.key), b.val, kind), LAMBDA k :
         Put(linked(k), a, new(j.p, k.p))))

(* The buckets kept of table h, for which there is room at a.              *)
StoreHash(i, a, h, kept, kind) ==
  LET table == [n |-> Len(kept), buckets |-> 0, head |-> 0, tail |-> 0] IN
  IF h = <<>> THEN Put(i, a, table)
  ELSE With(Alloc(i, TableSize * Sizeof.slot), LAMBDA j :
         Loop(LAMBDA k, b : StoreBucket(k, a, b, kind), Put(j, a, [table EXCEPT !.buckets = j.p]), kept))

(* A bug: inherited methods are stored with the class.                     *)
OwnMethodsBug(ce) == ce.methods

(* The checks: what a class has from its parent is left to the restore,    *)
(* which inherits it anew: members, methods and the static members that    *)
(* are still the parent's.                                                 *)
OwnInfos(ce) == SelectSeq(ce.infos, LAMBDA b : b.val.ce = ce.key)

OwnMethods(ce) == SelectSeq(ce.methods, LAMBDA b : b.val.scope = ce.key)

OwnStatics(ce, p) ==
  SelectSeq(ce.statics,
    LAMBDA b : ~(/\ ce.parent # Nil
                 /\ Has(p.infos, b.name) /\ Has(ce.infos, b.name)
                 /\ Has(p.statics, b.key)
                 /\ At(p.statics, b.key).own = b.val.own))

Own(ce, part) ==
  CASE part = "infos"   -> OwnInfos(ce)
    [] part = "statics" -> OwnStatics(ce, At(file.classes, ce.parent))
    [] part = "methods" -> OwnMethods(ce)
    [] OTHER            -> ce[part]

(* A table of members in slots.                                            *)
StoreSlots(i, t) ==
  StoreArray(i, Len(t), Sizeof.slot, LAMBDA j, a, k :
    IF t[k] = Undef THEN Put(j, a, 0) ELSE With(StoreZvalPtr(j, t[k]), LAMBDA l : Put(l, a, l.p)))

(* The parts of a class.  Tables lie in the class; static_members leads to *)
(* one of them.                                                            *)
StoreClassPart(i, ce, a, part) ==
  CASE part \in {"name", "parent", "file", "doc"} -> StoreString(i, ce[part])
    [] part \in Slots -> StoreSlots(i, ce[part])
    [] OTHER -> [StoreHash(i, a + Off[part], ce[part], Own(ce, part), Kind[part]) EXCEPT
                   !.p = IF part = "statics" THEN a + Off.statics ELSE 0]

ClassParts == <<"name", "parent", "file", "doc", "consts", "defaults", "infos", "statics", "methods">>

(* Interfaces: the places of those that instructions will add (Nil), up to *)
(* the first that is there.                                                *)
OwnInterfaces(ifs) ==
  Cardinality({k \in DOMAIN ifs : \A j \in 1 .. k : ifs[j] = Nil})

StoreClassEntry(i, ce) ==
  With(i, LAMBDA j :
    Structure(j, Sizeof.class,
      [x \in ToSet(ClassParts) |-> 0] @@
      [ifs |-> OwnInterfaces(ce.ifs), ndefaults |-> Len(ce.defaults), nstatics |-> Len(ce.statics)],
      ClassParts, LAMBDA k, part : StoreClassPart(k, ce, j.at, part)))

(* The entries of the classes or functions of table h, not yet stored; p   *)
(* is the first.                                                           *)
StoreEntries(i, h) ==
  With(i, LAMBDA first :
    [Loop(LAMBDA j, k :
        LET key == h[k].key
            e == Alloc(j, Sizeof.fc + Bytes(key))
            new == [fc |-> 0, key |-> j.at + OffKey, next |-> IF k < Len(h) THEN e.at ELSE 0]
        IN [Put(Put(e, j.at, new), j.at + OffKey, key) EXCEPT
              !.strs = IF Bytes(key) <= MaxDup THEN @ @@ (key :> j.at + OffKey) ELSE @],
      first, Indices(h)) EXCEPT !.p = IF h = <<>> THEN 0 ELSE first.at])

(* What the entries from a on are for is stored, in their order.           *)
FillEntries(i, a, h, store(_, _)) ==
  With(a, LAMBDA first :
    LET fill[j \in Any, e \in Any, k \in Any] ==
          IF e = 0 THEN j
          ELSE fill[With(store(j, h[k].val), LAMBDA l : [l EXCEPT !.mem[e].fc = l.p]), j.mem[e].next, k + 1]
    IN fill[i, first, 1])

(* eaccelerator_store_int.                                                 *)
StoreScript(f, b) ==
  LET name == f.op_array.file
      start == [mem |-> b + OffKey :> name, p |-> b, at |-> AlignUp(b + Sizeof.entry + Bytes(name)),
                strs |-> IF Bytes(name) <= MaxDup THEN name :> b + OffKey ELSE <<>>]
  IN With(StoreEntries(start, f.classes), LAMBDA cs :
     With(StoreEntries(cs, f.functions), LAMBDA fs :
     With(FillEntries(fs, cs.p, f.classes, StoreClassEntry), LAMBDA classes :
     With(FillEntries(classes, fs.p, f.functions, StoreOpArray), LAMBDA functions :
     With(StoreOpArray(functions, f.op_array), LAMBDA all :
       Put(all, b, [next |-> b, op_array |-> all.p, c_head |-> cs.p, f_head |-> fs.p]))))))

-----------------------------------------------------------------------------
(* The correction of the pointers of a block that has moved by d.          *)
Moved(p, d) == IF p = 0 THEN 0 ELSE p + d

FixElements(m, a, n, bytes, fix(_, _)) ==
  Loop(LAMBDA l, k : fix(l, a + (k - 1) * bytes), m, [k \in 1 .. n |-> k])

(* The pointers among the fields of the object at a.                       *)
FixFields(m, a, d, fields) ==
  [m EXCEPT ![a] = [x \in DOMAIN @ |-> IF x \in fields THEN Moved(@[x], d) ELSE @[x]]]

RECURSIVE FixHash(_, _, _, _)

FixZval(m, a, d) ==
  With(m, LAMBDA l :
    CASE l[a].t \in {"string", "constant"} -> FixFields(l, a, d, {"p"})
      [] l[a].t = "array" -> FixHash(FixFields(l, a, d, {"p"}), l[a].p + d, d, "zval")
      [] OTHER -> l)

FixPropertyInfo(m, a, d) == FixFields(m, a, d, {"name", "doc"})

FixOp(m, a, d) ==
  LET fix(l, n, x) == IF x = 0 THEN l ELSE FixZval(l, a + OffOp(n), d)
      operands(l) == IF php = "5.4" THEN FixFields(l, a, d, {"op1", "op2"})
                     ELSE fix(fix(l, 1, l[a].op1), 2, l[a].op2)
  IN With(m, LAMBDA l :
       IF l[a].code \in Jumps THEN FixFields(operands(l), a, d, {"to"}) ELSE operands(l))

(* Each array of an op_array, after the pointers of the op_array itself.   *)
FixOpArray(m, at, d) ==
  With(at, LAMBDA a :
    LET args(l) == FixElements(l, l[a].args, l[a].num_args, Sizeof.arg,
                     LAMBDA k, b : FixFields(k, b, d, {"name", "class"}))
        literals(l) == FixElements(l, l[a].literals, l[a].last_literal, Sizeof.literal,
                         LAMBDA k, b : FixZval(k, b, d))
        ops(l) == FixElements(l, l[a].ops, l[a].last, Sizeof.op, LAMBDA k, b : FixOp(k, b, d))
        statics(l) == IF l[a].statics = 0 THEN l ELSE FixHash(l, l[a].statics, d, "zval")
        variables(l) == FixElements(l, l[a].vars, l[a].last_var, Sizeof.var,
                          LAMBDA k, b : FixFields(k, b, d, {"name"}))
    IN With(With(With(With(With(FixFields(m, a, d, ToSet(Parts)),
         args), literals), ops), statics), variables))

(* A bucket's key lies behind it, and a pointer it holds lies in it.       *)
FixBucket(m, p, d) ==
  LET b == m[p] IN
  [m EXCEPT ![p].key  = IF php = "5.4" THEN Moved(@, d) ELSE p + Sizeof.bucket,
            ![p].next = Moved(@, d), ![p].ptr = Moved(@, d),
            ![p].data = IF b.ptr # 0 THEN p ELSE Moved(@, d)]

FixData(m, b, d, kind) ==
  CASE kind = "zval"     -> FixZval(m, b.ptr, d)
    [] kind = "info"     -> FixPropertyInfo(m, b.data, d)
    [] kind = "op_array" -> FixOpArray(m, b.data, d)

FixHash(m, a, d, kind) ==
  LET walk[l \in Any, p \in Any] ==
        IF p = 0 THEN l
        ELSE walk[With(FixBucket(l, p, d), LAMBDA k : FixData(k, k[p], d, kind)), Moved(l[p].next, d)]
  IN With(m, LAMBDA l :
       IF l[a].n = 0 THEN l
       ELSE walk[FixFields(l, a, d, {"buckets", "head", "tail"}), Moved(l[a].head, d)])

FixSlots(m, a, n, d) ==
  FixElements(m, a, n, Sizeof.slot,
    LAMBDA l, b : IF l[b] = 0 THEN l ELSE FixZval([l EXCEPT ![b] = Moved(@, d)], Moved(l[b], d), d))

FixClassEntry(m, at, d) ==
  With(at, LAMBDA a :
    LET fix(l, part) == IF part = "defaults" /\ part \in Slots
                        THEN FixSlots(l, l[a].defaults, l[a].ndefaults, d)
                        ELSE IF part \in Slots THEN FixSlots(l, l[a].statics, l[a].nstatics, d)
                        ELSE FixHash(l, a + Off[part], d, Kind[part])
    IN Loop(fix, FixFields(m, a, d, {"name", "parent", "file", "doc", "statics"} \cup Slots),
            <<"consts", "infos", "defaults", "statics", "methods">>))

FixEntries(m, first, d, fix(_, _, _)) ==
  LET walk[l \in Any, p \in Any] ==
        IF p = 0 THEN l
        ELSE walk[fix(FixFields(l, p, d, {"fc", "next"}), Moved(l[p].fc, d), d), Moved(l[p].next, d)]
  IN walk[m, first]

(* eaccelerator_fixup of the block that is now at b.                       *)
FixScript(m, b) ==
  LET d == b - m[b].next
      main(l) == FixOpArray(l, l[b].op_array, d)
      functions(l) == FixEntries(l, l[b].f_head, d, FixOpArray)
      classes(l) == FixEntries(l, l[b].c_head, d, FixClassEntry)
      start == FixFields([m EXCEPT ![b].next = 0], b, d, {"op_array", "c_head", "f_head"})
  IN With(With(With(start, main), functions), classes)

-----------------------------------------------------------------------------
(* What a request makes of the block.  A restored op_array shares with the *)
(* block all but its static variables (statics_at is 0 for a copy).        *)
StringOf(m, p) == IF p = 0 THEN Nil ELSE m[p]

RECURSIVE RestoreHash(_, _, _, _)

RestoreZval(m, a) ==
  CASE m[a].t \in {"string", "constant"} -> Zval(m[a].t, StringOf(m, m[a].p))
    [] m[a].t = "array" -> Array(RestoreHash(m, m[a].p, "zval", Nil))
    [] OTHER -> Zval(m[a].t, m[a].v)

RestorePropertyInfo(m, a, ce) ==
  [m[a] EXCEPT !.ce = ce, !.name = StringOf(m, @), !.doc = StringOf(m, @)]

(* The scope of a method is the class being restored, ce: the name that    *)
(* was stored is looked up, but into a variable nobody reads.              *)
RestoreOpArray(m, a, ce) ==
  [shared     |-> a,
   scope      |-> IF m[a].scope = 0 THEN Nil ELSE ce,
   statics    |-> IF m[a].statics = 0 THEN <<>> ELSE RestoreHash(m, m[a].statics, "zval", Nil),
   statics_at |-> 0]

RestoreData(m, b, kind, ce) ==
  CASE kind = "zval"     -> RestoreZval(m, b.ptr)
    [] kind = "info"     -> RestorePropertyInfo(m, b.data, ce)
    [] kind = "op_array" -> RestoreOpArray(m, b.data, ce)

RestoreHash(m, a, kind, ce) ==
  LET from[p \in Any] ==
        IF p = 0 THEN <<>>
        ELSE <<[key |-> StringOf(m, m[p].key), name |-> m[p].name,
                val |-> RestoreData(m, m[p], kind, ce)]>> \o from[m[p].next]
  IN from[m[a].head]

RestoreSlots(m, a, n) ==
  [k \in 1 .. n |-> LET p == m[a + (k - 1) * Sizeof.slot] IN
                    IF p = 0 THEN Undef ELSE RestoreZval(m, p)]

(* restore_class_methods: the constructor is __construct, or else what is  *)
(* called like the class.                                                  *)
RestoreSpecials(m, name, ce, methods) ==
  LET step(s, b) ==
        LET n == StringOf(m, m[b.val.shared].name) IN
        IF n = name /\ s.ctor = None THEN [s EXCEPT !.ctor = <<ce, n>>]
        ELSE IF n = "__construct" THEN [s EXCEPT !.ctor = <<ce, n>>]
        ELSE IF n \in Magic THEN [s EXCEPT !.magic[n] = <<ce, n>>]
        ELSE s
  IN Loop(step, [ctor |-> None, magic |-> [n \in Magic |-> None]], methods)

(* The class at a of the block, for the table in which its parent is       *)
(* looked up.  A parent that is not there is reported to the log.          *)
RestoreClassEntry(m, a, ce, classes) ==
  LET e == m[a]
      statics == IF php = "5.4"
                 THEN LET t == RestoreSlots(m, e.statics, e.nstatics) IN
                      [k \in DOMAIN t |-> [t[k] EXCEPT !.own = ce]]
                 ELSE LET h == RestoreHash(m, e.statics, "zval", Nil) IN
                      [k \in DOMAIN h |-> [h[k] EXCEPT !.val.own = ce]]
      own(methods) ==
        [key |-> ce, name |-> StringOf(m, e.name), parent |-> Nil, ifs |-> [k \in 1 .. e.ifs |-> Nil],
         file |-> StringOf(m, e.file), doc |-> StringOf(m, e.doc),
         consts |-> RestoreHash(m, a + Off.consts, "zval", Nil),
         infos |-> RestoreHash(m, a + Off.infos, "info", ce),
         defaults |-> IF php = "5.4" THEN RestoreSlots(m, e.defaults, e.ndefaults)
                      ELSE RestoreHash(m, a + Off.defaults, "zval", Nil),
         statics |-> statics, methods |-> methods,
         specials |-> RestoreSpecials(m, StringOf(m, e.name), ce, methods)]
      parent == StringOf(m, e.parent)
  IN With(With(RestoreHash(m, a + Off.methods, "op_array", ce), own), LAMBDA c :
       IF parent \in DOMAIN classes THEN Inherit(php, c, classes[parent]) ELSE c)

(* Entry e of a list goes into a table of the request.  What has a hidden  *)
(* key may be there already; any other key that is there is fatal.         *)
Enter(req, table, key, x) ==
  IF req.fate = "fatal" \/ (key \in Hidden /\ key \in DOMAIN req[table]) THEN req
  ELSE IF key \in DOMAIN req[table] THEN [req EXCEPT !.fate = "fatal"]
  ELSE [req EXCEPT ![table] = (key :> x) @@ @]

RestoreEntries(m, first, table, req) ==
  LET from[p \in Any, r \in Any] ==
        IF p = 0 THEN r
        ELSE LET key == m[p + OffKey]
                 new == IF table = "classes" THEN RestoreClassEntry(m, m[p].fc, key, r.classes)
                                             ELSE RestoreOpArray(m, m[p].fc, Nil)
             IN from[m[p].next, Enter(r, table, key, new)]
  IN from[first, req]

(* What an op_array, compiled or restored, looks like to a request.        *)
View(f) ==
  IF "shared" \notin DOMAIN f THEN f
  ELSE LET m == im.mem
           o == m[f.shared]
           str(p) == StringOf(m, p)
           op(a) == LET x == m[a]
                        zval(p, n) == IF p = 0 THEN Undef
                                      ELSE RestoreZval(m, IF php = "5.4" THEN p ELSE a + OffOp(n))
                    IN [code |-> x.code, op1 |-> zval(x.op1, 1), op2 |-> zval(x.op2, 2),
                        to |-> IF x.code \in Jumps THEN (x.to - o.ops) \div Sizeof.op + 1 ELSE x.to]
           elements(a, n, bytes, get(_)) == [k \in 1 .. n |-> get(a + (k - 1) * bytes)]
       IN [name |-> str(o.name), scope |-> f.scope, statics |-> f.statics,
           args |-> elements(o.args, o.num_args, Sizeof.arg,
                      LAMBDA a : [name |-> str(m[a].name), class |-> str(m[a].class)]),
           ops   |-> elements(o.ops, o.last, Sizeof.op, op),
           brk   |-> elements(o.brk, o.last_brk, Sizeof.brk, LAMBDA a : m[a]),
           tries |-> elements(o.tries, o.last_try, Sizeof.try, LAMBDA a : m[a]),
           vars  |-> elements(o.vars, o.last_var, Sizeof.var, LAMBDA a : str(m[a].name)),
           early |-> o.early, file |-> str(o.file), doc |-> str(o.doc)]

(* zend_do_delayed_early_binding: the classes whose parents the compiler   *)
(* did not know lie under hidden keys; the first instruction that declares *)
(* one is f.early, and each knows the next.  Whose parent is there by now  *)
(* is bound and gets its name.                                             *)
BindDelayed(req, f) ==
  LET from[r \in Any, n \in Any] ==
        IF n = 0 \/ r.fate = "fatal" THEN r
        ELSE LET key    == f.ops[n].op1.v
                 name   == f.ops[n].op2.v
                 parent == f.ops[n - 1].op2.v
                 bound  == Inherit(php, r.classes[key], r.classes[parent])
             IN from[IF {key, parent} \subseteq DOMAIN r.classes
                       THEN Enter([r EXCEPT !.classes[key] = bound], "classes", name, bound)
                       ELSE r,
                     f.ops[n].to]
  IN from[req, f.early]

(* eaccelerator_restore: classes and functions the first time only.        *)
RestoreScript(m, b, req) ==
  LET main == [req EXCEPT !.main = Append(@, RestoreOpArray(m, m[b].op_array, Nil))]
      classes(r) == RestoreEntries(m, m[b].c_head, "classes", r)
      functions(r) == RestoreEntries(m, m[b].f_head, "functions", r)
      first == With(With(main, classes), functions)
      restored == IF req.restored THEN main ELSE [first EXCEPT !.restored = @ \/ first.fate # "fatal"]
  IN With(restored, LAMBDA r : BindDelayed(r, View(Last(r.main))))

-----------------------------------------------------------------------------
NewRequest ==
  [classes |-> <<>>, functions |-> <<>>, main |-> <<>>, had |-> <<>>,
   restored |-> FALSE, compiled |-> FALSE, dirty |-> FALSE, fate |-> "running"]

Init ==
  /\ file \in Files
  /\ stage = "compiled" /\ base \in Bases /\ size = 0
  /\ im = [mem |-> <<>>, at |-> base, strs |-> <<>>, p |-> 0]
  /\ disk = [base |-> base, mem |-> <<>>]
  /\ reqs = [r \in Requests |-> NewRequest]

Size ==
  /\ stage = "compiled"
  /\ size' = CalcSize(file)
  /\ stage' = "sized"
  /\ UNCHANGED <<file, base, im, disk, reqs>>

(* The block is filled, and its size in bytes go to the cache directory.   *)
Store ==
  /\ stage = "sized"
  /\ LET i == StoreScript(file, base) IN
     /\ im' = [i EXCEPT !.strs = <<>>]
     /\ disk' = [base |-> base,
                 mem |-> [a \in {x \in DOMAIN i.mem : x < base + size} |-> i.mem[a]]]
  /\ stage' = "stored"
  /\ UNCHANGED <<file, base, size, reqs>>

(* The block is dropped, which nobody uses, and a look-up finds the script *)
(* in the cache directory and reads it in at b.                            *)
Reload(b) ==
  /\ stage = "stored"
  /\ reqs = [r \in Requests |-> NewRequest]
  /\ LET d == b - disk.base IN
     im' = [im EXCEPT !.mem = FixScript([a \in {x + d : x \in DOMAIN disk.mem} |-> disk.mem[a - d]], b),
                      !.at = @ + b - base]
  /\ base' = b
  /\ UNCHANGED <<file, stage, size, disk, reqs>>

(* What a request was before it first included the script: classes of      *)
(* other files, or of PHP, may be there.                                   *)
Knowing(w) == [NewRequest EXCEPT !.classes = w, !.had = w]
Before(req) == IF req = NewRequest THEN {Knowing(w) : w \in Worlds(file)} ELSE {req}

(* The request includes the script, and the entry is found.                *)
Include(r) ==
  /\ stage = "stored"
  /\ reqs[r].fate = "running" /\ Len(reqs[r].main) < MaxInclude
  /\ \E req \in Before(reqs[r]) :
       reqs' = [reqs EXCEPT ![r] = RestoreScript(im.mem, base, req)]
  /\ UNCHANGED <<file, stage, base, size, im, disk>>

(* The end of eaccelerator_compile_file: what the compiler made of the     *)
(* file goes into the tables of the request.                               *)
Compiled(req) ==
  LET enter(table, r) == Loop(LAMBDA q, b : Enter(q, table, b.key, b.val), r, file[table])
      functions == enter("functions", [req EXCEPT !.main = <<file.op_array>>, !.compiled = TRUE])
  IN With(enter("classes", functions), LAMBDA r : BindDelayed(r, file.op_array))

(* The request included it before the entry was there, and compiled it.    *)
Compile(r) ==
  /\ reqs[r] = NewRequest
  /\ \E req \in Before(reqs[r]) : reqs' = [reqs EXCEPT ![r] = Compiled(req)]
  /\ UNCHANGED <<file, stage, base, size, im, disk>>

(* The request runs what it has: static variables change, where they are.  *)
Owned(req) ==
  ToSet(req.main) \cup {req.functions[k] : k \in DOMAIN req.functions}
  \cup UNION {{b.val : b \in ToSet(req.classes[k].methods)} : k \in DOMAIN req.classes}

Dirty == [t |-> "long", v |-> "dirty", p |-> 0]

Run(r) ==
  /\ reqs[r].restored /\ ~reqs[r].dirty
  /\ LET tables == {f.statics_at : f \in {g \in Owned(reqs[r]) : "shared" \in DOMAIN g}} \ {0}
         zvals == {im.mem[im.mem[a].head].ptr : a \in tables}
     IN im' = [im EXCEPT !.mem = [a \in DOMAIN @ |-> IF a \in zvals THEN Dirty ELSE @[a]]]
  /\ reqs' = [reqs EXCEPT ![r].dirty = TRUE]
  /\ UNCHANGED <<file, stage, base, size, disk>>

Finish(r) ==
  /\ reqs[r] # NewRequest
  /\ reqs' = [reqs EXCEPT ![r] = NewRequest]
  /\ UNCHANGED <<file, stage, base, size, im, disk>>

Next ==
  \/ Size
  \/ Store
  \/ \E b \in Bases : Reload(b)
  \/ \E r \in Requests : Include(r) \/ Compile(r) \/ Run(r) \/ Finish(r)

Spec == Init /\ [][Next]_vars

-----------------------------------------------------------------------------
(* What lies in the block lies in it where the platform wants it.          *)
TypeOK ==
  /\ file \in Files
  /\ stage \in {"compiled", "sized", "stored"}
  /\ base \in Bases /\ size \in Nat
  /\ \A a \in DOMAIN im.mem : a \in Nat /\ a >= base /\ a % Align = 0
  /\ \A r \in Requests : reqs[r].fate \in {"running", "fatal"}

(* eaccelerator_store_int writes nothing behind the bytes that calc_size   *)
(* asked for, although the two walk over the script apart (ea_store.c).    *)
FitsSize ==
  stage = "stored" => im.at <= base + size

(* What a request has of a restored script is what it would have if it had *)
(* compiled the file: all its code, jumps and constants, and the classes   *)
(* with their members, the static ones that they share with their parents  *)
(* included, bound to parents of this file and others; from whatever       *)
(* address the entry was read again, and whatever requests before it did   *)
(* to the static variables.  Nothing is declared twice that compiling      *)
(* would not, but when the request compiled it before or includes a script *)
(* again whose classes were bound late.                                    *)
RestoredLikeCompiled ==
  \A r \in Requests :
    LET req  == reqs[r]
        want == Compiled(Knowing(req.had))
        late == \E o \in ToSet(file.op_array.ops) :
                  /\ o.code = "DECLARE_INHERITED_CLASS_DELAYED"
                  /\ o.op2.v \in DOMAIN want.classes
    IN
    /\ req.fate = "fatal" =>
         req.compiled \/ want.fate = "fatal" \/ (Len(req.main) > 1 /\ late)
    /\ req.restored /\ req.fate = "running" /\ ~req.dirty =>
        /\ want.fate = "running"
        /\ \A f \in ToSet(req.main) : View(f) = file.op_array
        /\ DOMAIN req.functions = DOMAIN want.functions
        /\ \A k \in DOMAIN want.functions : View(req.functions[k]) = want.functions[k]
        /\ DOMAIN req.classes = DOMAIN want.classes
        /\ \A k \in DOMAIN want.classes :
              ClassView(php, req.classes[k], View) = ClassView(php, want.classes[k], View)
=============================================================================
