--------------------------- MODULE MCScriptImage ---------------------------
(* Files for ScriptImage: short and long strings that repeat, constants    *)
(* in instructions and in tables, every kind of jump, and classes that     *)
(* redeclare, hide and share what their parents have, or extend a class    *)
(* that is not in the file.                                                *)
EXTENDS ScriptImage

Long == "a_comment_that_is_not_shared"
S(v) == Zval("string", v)
N(v) == Zval("long", v)

Op(code, op1, op2, to) == [code |-> code, op1 |-> op1, op2 |-> op2, to |-> to]
OpArray(name, scope, args, ops, statics, doc) ==
  [early |-> 0, name |-> name, scope |-> scope, args |-> args, ops |-> ops, statics |-> statics, doc |-> doc,
   vars |-> <<"this">> \o [k \in DOMAIN args |-> args[k].name], file |-> "/f.php",
   brk |-> IF Len(ops) > 3 THEN <<[brk |-> 3, cont |-> 1]>> ELSE <<>>,
   tries |-> IF Len(ops) > 4 THEN <<[try |-> 1, catch |-> 4], [try |-> 2, catch |-> 5]>> ELSE <<>>]

Ret == Op("RETURN", N("1"), Undef, 0)
Echo(v) == Op("ECHO", v, Undef, 0)
Codes(php_) ==
  {<<Ret>>,
   <<Echo(S("x")), Op("JMP", Undef, Undef, 1), Op("CONCAT", S("x"), S(Long), 0), Ret>>,
   <<Op("JMPZ", S("x"), Undef, 4), Op("JMPNZ_EX", Undef, Undef, 6),
     Op("GOTO", Undef, Undef, 2), Op("ADD_ARRAY", Array(<<Bucket("k", S("x")), Bucket("l", Array(<<Bucket("x", N("2"))>>))>>), S(""), 0),
     Op(IF php_ = "5.4" THEN "JMP_SET_VAR" ELSE "JMP_SET", S("y"), Undef, 1), Ret>>}

Arg(n, c) == [name |-> n, class |-> c]
Counter == <<Bucket("n", Zval("long", "0")), Bucket("s", S("x"))>>

Member(k, static, private, v) == [k |-> k, static |-> static, private |-> private, v |-> v]
Class(php_, key, name, members, methods, ifs) ==
  LET mangled(m) == IF m.private THEN "^" \o key \o "^" \o m.k ELSE m.k
      kind(b) == SelectSeq(members, LAMBDA m : m.static = b)
      off(i) == Cardinality({j \in 1 .. i : members[j].static = members[i].static})
      zval(m) == IF m.static THEN [m.v EXCEPT !.own = key] ELSE m.v
      table(b) == [i \in DOMAIN kind(b) |->
                     IF php_ = "5.4" THEN zval(kind(b)[i])
                     ELSE [key |-> mangled(kind(b)[i]), name |-> kind(b)[i].k, val |-> zval(kind(b)[i])]]
      c == [key |-> key, name |-> name, parent |-> Nil, ifs |-> ifs, file |-> "/f.php", doc |-> Long,
            consts |-> <<Bucket(name \o "c", Array(Counter))>>,
            infos |-> [i \in DOMAIN members |->
               Bucket(members[i].k,
                 [ce |-> key, static |-> members[i].static, private |-> members[i].private,
                  off |-> off(i), name |-> mangled(members[i]), doc |-> IF i = 1 THEN "d" ELSE Nil])],
            defaults |-> table(FALSE), statics |-> table(TRUE),
            methods |-> [i \in DOMAIN methods |->
               Bucket(methods[i], OpArray(methods[i], key, <<Arg("a", name)>>, <<Echo(S(name)), Ret>>,
                                          IF i = 1 THEN Counter ELSE <<>>, Nil))]]
  IN With(c, LAMBDA d : [specials |-> Specials(d)] @@ d)

Parent(php_) ==
  Class(php_, "p", "p",
        <<Member("a", FALSE, FALSE, S("x")), Member("b", FALSE, TRUE, N("1")),
          Member("s", TRUE, FALSE, N("5")), Member("t", TRUE, TRUE, S("x"))>>,
        <<"p", "__get", "m">>, <<>>)
Members ==
  {<<>>, <<Member("a", FALSE, FALSE, N("7"))>>,
   <<Member("b", FALSE, FALSE, N("8")), Member("z", FALSE, FALSE, N("9")), Member("a", FALSE, FALSE, S("y"))>>,
   <<Member("s", TRUE, FALSE, N("6"))>>,
   <<Member("t", TRUE, TRUE, N("3")), Member("u", TRUE, FALSE, S("x"))>>}
Bound(c) == <<[key |-> c.key, val |-> c]>>
Classes(php_) ==
  {<<>>, Bound(Class(php_, "^i", "i", <<Member("a", FALSE, FALSE, S(""))>>, <<"i", "__construct", "__get">>, <<Nil, Nil>>))}
  \cup {Bound(Parent(php_))}
  \cup {Bound(Parent(php_)) \o Bound(Inherit(php_, Class(php_, "c", "c", m, ms, <<>>), Parent(php_))) :
        m \in Members, ms \in {<<>>, <<"m", "__construct", "c">>}}
  \cup {Bound(Parent(php_)) \o Bound(Inherit(php_, Class(php_, "c", "c", m, <<>>, <<>>), Parent(php_)))
        \o Bound(Inherit(php_, Class(php_, "g", "g", <<Member("a", FALSE, FALSE, N("4"))>>, <<>>, <<>>),
             Inherit(php_, Class(php_, "c", "c", m, <<>>, <<>>), Parent(php_)))) : m \in Members}

Functions == {<<>>, <<Bucket("f", OpArray("f", Nil, <<Arg("a", Nil), Arg("x", "p")>>, <<Ret>>, Counter, Long)),
                      Bucket("^l", OpArray("x", Nil, <<>>, <<Echo(S("f")), Ret>>, <<>>, Nil))>>}

(* Class d extends o, which is in no file here, and e extends d.           *)
DeclareLate(op, next) ==
  <<Op("FETCH_CLASS", Undef, S(op[3]), 0),
    Op("DECLARE_INHERITED_CLASS_DELAYED", S(op[1]), S(op[2]), next)>>
LateCode == DeclareLate(<<"^d", "d", "o">>, 4) \o DeclareLate(<<"^e", "e", "d">>, 0) \o <<Ret>>
LateClasses(php_) ==
  {Bound(Class(php_, "^d", "d", m, <<"m", "d">>, <<>>))
     \o Bound(Class(php_, "^e", "e", <<Member("s", TRUE, FALSE, N("6"))>>, <<"m">>, <<>>)) :
   m \in Members}

Other(php_) ==
  [Class(php_, "o", "o", <<Member("a", FALSE, FALSE, N("3")), Member("s", TRUE, FALSE, N("4"))>>,
         <<"__construct", "m">>, <<>>) EXCEPT !.ifs = <<"J", "I">>]
(* A request may know o before it includes a file where a class extends o, *)
(* and a class p before it includes a file with a p and nothing else.      *)
MCWorlds(f) ==
  {<<>>} \cup (IF f.op_array.early # 0 THEN {"o" :> Other(f.php)} ELSE {})
         \cup (IF f.classes = Bound(Parent(f.php)) THEN {"p" :> Parent(f.php)} ELSE {})

File(php_, code, f, c) ==
  [php |-> php_, op_array |-> OpArray(Nil, Nil, <<>>, code, Counter, Nil), functions |-> f, classes |-> c]
LateFiles(php_) ==
  {[File(php_, LateCode, <<>>, c) EXCEPT !.op_array.early = 2] : c \in LateClasses(php_)}
MCFiles ==
  UNION {LateFiles(v) : v \in {"5.3", "5.4"}}
  \cup UNION {{File(v, code, f, <<>>) : code \in Codes(v), f \in Functions} : v \in {"5.3", "5.4"}}
  \cup UNION {{File(v, <<Ret>>, f, c) : c \in Classes(v), f \in {<<>>}} : v \in {"5.3", "5.4"}}
Symmetry == Permutations(Requests)
MCHidden == {"^i", "^l"}
=============================================================================
