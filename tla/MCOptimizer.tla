---------------------------- MODULE MCOptimizer ----------------------------
(* Scripts for Optimizer: every expression of a kind where it may be *)
(* of use to the optimizer, every control structure around and behind      *)
(* every way to leave it.                                                  *)
EXTENDS Optimizer

A == <<"cv", 1>>
B == <<"cv", 2>>
S(c) == <<"const", Str(<<c>>)>>
None == <<"const", Str(<<>>)>>
T == <<"const", Bool(TRUE)>>
F == <<"const", Bool(FALSE)>>
Call == <<"call">>
Echo(c) == <<"echo", S(c)>>
Do(e) == <<"expr", e>>

Not(e) == <<"not", e>>
And(d, e) == <<"and", d, e>>
Or(d, e) == <<"or", d, e>>

Conds ==
  {A, Call, T, F, Not(A), And(A, B), Or(A, Call), <<"==", A, T>>, And(Or(A, B), Call),
   Or(And(A, B), Call), And(And(A, B), Call), Or(Or(A, B), Call),
   Not(And(A, Not(B))), <<"?:", A, F, B>>, <<"set", 1, B>>,
   And(T, B), Or(A, T), Not(Or(F, A)), <<"===", A, B>>, <<"==", And(A, B), F>>}

(* Where a value goes.                                                     *)
Uses(e) == {<<"echo", e>>, Do(e), <<"return", e>>, Do(<<"set", 2, e>>), Do(<<"print", e>>)}

Values == Conds \cup {<<"?", A, Call>>} \cup
  {<<".", d, e>> : d \in {A, None, S("x"), Call}, e \in {B, S("y"), <<".", S("z"), A>>, Call}}
  \cup {<<".", <<".", A, S("x")>>, S("y")>>, <<".", <<".", None, A>>, S("y")>>,
        <<".", A, <<"?:", A, B, S("x")>>>>, <<"===", B, Or(A, B)>>,
        <<"print", A>>, <<"new">>, Not(Not(A)), Not(<<"===", S("x"), S("x")>>)}
Straight == {<<u, Echo("x"), Echo("y")>> : u \in UNION {Uses(e) : e \in Values}}

Leave1 == {<<>>, <<Echo("x")>>, <<<<"return", A>>>>, <<<<"exit">>>>}
Ifs == {<<<<"if", c, s, t>>>> : c \in Conds, s \in Leave1, t \in Leave1}

Bodies == Leave1 \cup
  {<<<<"BRK", 1>>>>, <<<<"CONT", 1>>>>, <<<<"BRK", 2>>>>, <<Do(Call), <<"CONT", 1>>>>,
   <<<<"if", A, <<Echo("x"), <<"BRK", 1>>>>, <<>>>>, Do(<<"set", 1, Call>>)>>,
   <<<<"if", Call, <<<<"CONT", 1>>>>, <<<<"BRK", 1>>>>>>>>}
Loops(C, b) ==
  UNION {{<<<<"while", c, b>>>>, <<<<"do", b, c>>>>, <<<<"for", c, Call, b>>>>} : c \in C}
  \cup (IF \E i \in DOMAIN b : b[i][1] = "return" THEN {} ELSE {<<<<"foreach", 1, 2, b>>>>})

Tries(b) ==
  UNION {{<<<<"try", b, <<<<"E", d>>>>>>, Echo("y")>>,
          <<<<"try", b, <<<<"E", d>>, <<"F", <<Echo("z")>>>>>>>>, Echo("y")>>} :
         d \in {<<>>, <<Echo("x")>>, <<<<"return", A>>>>, <<<<"throw", A>>>>}}

Few == {A, T, And(A, B), Or(A, Call)}

MCScripts == Straight \cup Ifs \cup UNION {Loops(Conds \cup {<<"?", A, Call>>}, b) : b \in Bodies}
  \cup UNION {Tries(b) : b \in Leave1 \cup {<<Do(Call)>>, <<<<"throw", A>>>>}}
  \cup UNION {Tries(b) : b \in UNION {Loops(Few, c) : c \in {<<Do(Call)>>, <<<<"BRK", 1>>>>}}}
  \cup {<<<<"while", Call, s>>>> : s \in UNION {Loops(Few, b) : b \in Bodies}}
(* if ($a ?: f()) {}                                                       *)
JmpSetScripts == {<<<<"if", <<"?", A, Call>>, <<>>, <<>>>>>>}

MCSlots == [1 .. 2 -> {Str(<<>>), Str(<<"a">>)}]
=============================================================================
