------------------------------ MODULE Programs ------------------------------
(***************************************************************************)
(* Small C programs, by what they try: families of trees of Source, over   *)
(* the variables of MC_Compile.                                            *)
(***************************************************************************)
EXTENDS Compiler

TInt == T("int")
TUInt == T("uint")
TChar == T("char")
TUChar == T("uchar")
TLong == T("long")
TULong == T("ulong")
TVoid == T("void")
Pair == Struct(5, [a |-> [off |-> 0, t |-> T("int"), width |-> 0, at |-> 0],
                   b |-> [off |-> 2, t |-> T("char"), width |-> 0, at |-> 0],
                   d |-> [off |-> 3, t |-> T("int"), width |-> 0, at |-> 0]])
Flags == Struct(2, [lo |-> [off |-> 0, t |-> T("uint"), width |-> 3, at |-> 0],
                    hi |-> [off |-> 0, t |-> T("int"), width |-> 2, at |-> 3]])

N(n) == <<"num", n>>
NL(n) == <<"lnum", n>>
V(x) == <<"id", x>>
Str(bytes) == <<"str", bytes>>
List(es) == <<"list", es>>
B(o, a, b) == <<"bin", o, a, b>>
A(o, a, b) == <<"asg", o, a, b>>
Un(o, a) == <<"un", o, a>>
Pre(o, a) == <<"pre", o, a>>
Post(o, a) == <<"post", o, a>>
At(a, b) == <<"idx", a, b>>
Dot(a, x) == <<".", a, x>>
Arrow(a, x) == <<"->", a, x>>
App(f, es) == <<"call", V(f), es>>
Cast(t, a) == <<"cast", t, a>>
SizeofType(t) == <<"sizeof", t>>
Cond(a, b, d) == <<"cond", a, b, d>>
Comma(a, b) == <<"comma", a, b>>
E(e) == <<"expr", e>>
R(e) == <<"return", e>>
ReturnNothing == <<"leave", 0>>
Empty == <<"none", 0>>
Decl(t, x) == <<"decl", t, x>>
Init1(t, x, e) == <<"init", t, x, e>>
Static(t, x, e) == <<"static", t, x, e>>
If(e, s) == <<"if", e, s>>
IfElse(e, s1, s2) == <<"ifelse", e, s1, s2>>
While(e, s) == <<"while", e, s>>
Do(s, e) == <<"do", s, e>>
For(e1, e2, e3, s) == <<"for", e1, e2, e3, s>>
SwitchOn(e, s) == <<"switch", e, s>>
Case(e) == <<"case", e>>
Default == <<"default", 0>>
Break == <<"break", 0>>
Continue == <<"continue", 0>>
GoTo(x) == <<"goto", x>>
Label(x) == <<"label", x>>
Block(ss) == <<"block", ss>>
Fun(name, ret, params, body) ==
  [name |-> name, ret |-> ret, params |-> params, body |-> Block(body), kr |-> FALSE]
OldStyle(f) == [f EXCEPT !.kr = TRUE]
Main(body) == <<Fun("main", TInt, <<>>, body)>>
LongMain(body) == <<Fun("main", TLong, <<>>, body)>>

\* Of(xs, ys): a program for every two of them.
Crossed(xs, ys, Of(_, _)) == FlattenSeq([i \in DOMAIN xs |-> [j \in DOMAIN ys |-> Of(xs[i], ys[j])]])

-----------------------------------------------------------------------------
\* Every binary operator on operands of equal and different types, in memory,
\* in registers and constant.
BinaryOperators == <<"+", "-", "*", "/", "%", "&", "|", "^", "==", "!=", "<", ">", "<=", ">=">>
OperandPairs ==
  <<<<V("i"), V("j")>>, <<V("j"), N(3)>>, <<N(12), V("i")>>, <<V("u"), V("v")>>, <<V("ch"), V("uc")>>,
    <<At(V("arr"), B("-", V("i"), N(4))), Un("*", V("p"))>>, <<V("l"), V("k2")>>, <<V("l"), V("i")>>,
    <<V("j"), V("l")>>, <<V("ul"), N(3)>>, <<N(12), N(5)>>>>
Shifts == <<<<V("j"), N(2)>>, <<N(3), V("i")>>, <<V("v"), V("i")>>, <<V("ch"), N(1)>>, <<V("k2"), N(3)>>,
            <<V("l"), V("i")>>, <<V("ul"), V("u")>>>>
Evaluated(o, ab) == LongMain(<<R(B(o, ab[1], ab[2]))>>)
Binaries == Crossed(BinaryOperators, OperandPairs, Evaluated) \o Crossed(<<"<<", ">>">>, Shifts, Evaluated)

\* BranchTests that are only branched on.
ComparedPairs ==
  <<<<V("i"), N(5)>>, <<V("j"), N(0)>>, <<V("u"), N(0)>>, <<V("k2"), N(0)>>, <<V("ul"), N(0)>>, <<V("l"), V("k2")>>,
    <<V("ch"), V("uc")>>, <<V("u"), V("v")>>, <<V("j"), V("i")>>>>
Branched(o, ab) == Main(<<If(B(o, ab[1], ab[2]), R(N(1))), R(N(2))>>)
BranchTests == Crossed(<<"==", "!=", "<", ">", "<=", ">=">>, ComparedPairs, Branched)

\* a op= 2, and the value of that where it is not cut to the size of a.
Compounds == <<"+=", "-=", "*=", "/=", "%=", "&=", "|=", "^=", "<<=", ">>=">>
Targets == <<V("i"), V("u"), V("ch"), V("uc"), V("l"), V("ul"), At(V("arr"), B("-", V("i"), N(3))), Un("*", V("p")),
             Dot(V("s"), "b"), Dot(V("f"), "lo"), Dot(V("f"), "hi"), At(At(V("m2"), V("cnt")), N(1))>>
CompoundAssigned(o, a) == LongMain(<<E(A(o, a, N(2))), R(a)>>)
WholeTargets == <<V("j"), V("k2"), Dot(V("s"), "d"), Un("*", B("+", V("p"), N(1)))>>
AssignedValue(o, a) == LongMain(<<R(B("+", A(o, a, V("i")), a))>>)
Assignments == Crossed(Compounds, Targets, CompoundAssigned) \o Crossed(Compounds, WholeTargets, AssignedValue)

\* The same on local variables.
LocalTypes == <<TInt, TChar, TLong, TUInt>>
LocallyAssigned(o, t) == LongMain(<<Init1(t, "x", N(7)), E(A(o, V("x"), V("i"))), R(V("x"))>>)
LocallyReturned(o, t) == LongMain(<<Init1(t, "x", N(7)), R(A(o, V("x"), V("i")))>>)
LocalAssignments == Crossed(Compounds, LocalTypes, LocallyAssigned) \o Crossed(Compounds, <<TInt, TLong, TUInt>>, LocallyReturned)

\* Two operators, one in an operand of the other.
Inner == BinaryOperators \o <<"<<", ">>">>
Outer == <<"+", "-", "*", "&", "^", "==", "<", ">=", "&&", "||">>
LeftNested(o1, o2) == LongMain(<<R(B(o1, B(o2, V("j"), N(3)), V("v")))>>)
RightNested(o1, o2) == LongMain(<<R(B(o1, V("i"), B(o2, V("u"), N(2))))>>)
LongNested(o1, o2) == LongMain(<<R(B(o1, B(o2, V("l"), V("i")), Post("++", V("ch"))))>>)
BothNested(o1, o2) == Main(<<R(B(o1, B(o2, V("v"), V("i")), B(o2, At(V("arr"), V("cnt")), N(2))))>>)
LocalNested(o1, o2) ==
  Main(<<Init1(TInt, "x", V("j")), Init1(TInt, "y", N(2)), R(B(o1, V("x"), B(o2, V("y"), B("+", V("x"), V("i")))))>>)
NestedBinaries ==
  Crossed(Outer, Inner, LeftNested) \o Crossed(Outer, Inner, RightNested) \o Crossed(Outer, Inner, LongNested) \o
  Crossed(Outer, Inner, BothNested) \o Crossed(Outer, Inner, LocalNested)
\* The same decided by a branch.
NestedBranched(o1, o2) ==
  Main(<<While(B(o1, B(o2, V("i"), N(3)), V("cnt")), Block(<<E(A("=", V("cnt"), N(200))), Break>>)), R(V("cnt"))>>)
NestedBranches == Crossed(<<"<", ">=", "==", "&&", "||">>, Inner, NestedBranched)

\* Functions longer than the function buffer, with a frame that the end of
\* the function frees.
Repeated(s, n) == [k \in 1..n |-> s]
Adds(x) == E(A("=", V("j"), B("+", V("j"), V(x))))
LongFunctions == <<
  Main(<<Init1(TInt, "x", N(2))>> \o Repeated(Adds("x"), 14) \o <<R(V("j"))>>),
  Main(<<Init1(TInt, "x", N(2)), While(B("<", V("x"), N(9)), Block(Repeated(Adds("x"), 10) \o <<E(Pre("++", V("x")))>>)),
         R(V("j"))>>) >>

\* The same without locals: the argument is used at the beginning only.
LateFrameless == <<
  <<Fun("f", TInt, <<<<TInt, "a">>>>, <<E(A("=", V("i"), V("a")))>> \o Repeated(Adds("i"), 14) \o <<R(V("j"))>>)>> \o
  Main(<<R(App("f", <<N(5)>>))>>) >>

\* Steps: ++ and -- before and behind, on every kind of object.
Steps == <<
  Main(<<E(Post("++", V("i"))), R(V("i"))>>),
  Main(<<E(Pre("++", V("i"))), R(V("i"))>>),
  Main(<<R(Post("++", V("i")))>>),
  Main(<<R(Pre("--", V("i")))>>),
  Main(<<R(B("+", Post("++", V("ch")), V("ch")))>>),
  Main(<<R(Pre("++", V("uc")))>>),
  Main(<<E(Post("++", V("l"))), R(B("==", V("l"), N(264)))>>),
  LongMain(<<R(Post("++", V("l")))>>),
  LongMain(<<R(Pre("--", V("k2")))>>),
  LongMain(<<R(Pre("++", V("ul")))>>),
  Main(<<R(B("+", Un("*", Post("++", V("p"))), Un("*", V("p"))))>>),
  Main(<<R(Un("*", Pre("++", V("p"))))>>),
  Main(<<R(B("+", Post("++", Un("*", V("p"))), Un("*", V("p"))))>>),
  Main(<<E(Post("++", V("cp"))), R(Un("*", V("cp")))>>),
  Main(<<R(B("+", Un("*", Post("++", V("cp"))), Un("*", V("cp"))))>>),
  Main(<<E(Post("++", At(V("arr"), N(1)))), R(At(V("arr"), N(1)))>>),
  Main(<<R(Post("++", At(V("arr"), B("-", V("i"), N(4)))))>>),
  Main(<<R(Pre("--", At(V("arr"), B("-", V("i"), N(4)))))>>),
  Main(<<E(Post("++", Dot(V("s"), "a"))), R(Dot(V("s"), "a"))>>),
  Main(<<R(Post("--", Dot(V("s"), "d")))>>),
  Main(<<R(Pre("++", Dot(V("s"), "b")))>>),
  Main(<<Decl(TInt, "x"), E(A("=", V("x"), N(3))), E(Post("++", V("x"))), R(V("x"))>>),
  Main(<<Decl(TInt, "x"), E(A("=", V("x"), N(3))), R(Post("++", V("x")))>>),
  Main(<<Decl(TInt, "x"), E(A("=", V("x"), N(3))), R(B("+", Post("--", V("x")), V("x")))>>),
  Main(<<Decl(TInt, "x"), E(A("=", V("x"), N(3))), R(Pre("--", V("x")))>>),
  Main(<<Decl(TChar, "x"), E(A("=", V("x"), N(3))), R(Post("++", V("x")))>>),
  LongMain(<<Decl(TLong, "x"), E(A("=", V("x"), N(7))), E(Post("++", V("x"))), R(V("x"))>>),
  LongMain(<<Decl(TLong, "x"), E(A("=", V("x"), N(7))), R(Post("--", V("x")))>>),
  Main(<<Decl(PtrTo(TInt), "q"), E(A("=", V("q"), V("arr"))), R(B("+", Un("*", Post("++", V("q"))), Un("*",
    V("q"))))>>),
  Main(<<Decl(PtrTo(TInt), "q"), E(A("=", V("q"), Un("&", At(V("arr"), N(2))))), E(Post("--", V("q"))),
    R(Un("*", V("q")))>>),
  Main(<<E(Post("++", Dot(V("f"), "lo"))), R(Dot(V("f"), "lo"))>>),
  Main(<<R(Post("++", Dot(V("f"), "hi")))>>),
  Main(<<R(B("+", Pre("++", Dot(V("f"), "lo")), Dot(V("f"), "hi")))>>),
  LongMain(<<Decl(PtrTo(TLong), "q"), E(A("=", V("q"), Un("&", V("l")))), E(Post("++", Un("*", V("q")))),
    R(V("l"))>>),
  <<Fun("f", TInt, <<<<TInt, "x">>>>, <<E(Post("++", V("x"))), R(V("x"))>>)>> \o Main(<<R(App("f", <<N(3)>>))>>) >>

\* Pointers, subscripts, members.
PointerPrograms == <<
  LongMain(<<Decl(PtrTo(TLong), "q"), E(A("=", V("q"), Un("&", V("l")))), E(A("=", Un("*", V("q")), B("+",
    Un("*", V("q")), N(1)))), R(Un("*", V("q")))>>),
  Main(<<E(A("=", V("pp"), Un("&", V("p")))), R(Un("*", Un("*", V("pp"))))>>),
  Main(<<E(Post("++", Un("*", V("pp")))), R(Un("*", V("p")))>>),
  Main(<<R(Un("*", B("+", Un("*", V("pp")), N(1))))>>),
  Main(<<R(At(At(V("pp"), N(0)), N(1)))>>),
  Main(<<R(At(V("p"), B("-", V("i"), N(4))))>>),
  Main(<<R(B("-", Un("&", At(V("arr"), N(3))), V("p")))>>),
  Main(<<R(B("==", V("p"), V("arr")))>>),
  Main(<<R(B("<", V("p"), Un("&", At(V("arr"), N(1)))))>>),
  Main(<<E(A("+=", V("p"), N(2))), R(Un("*", V("p")))>>),
  Main(<<E(A("=", V("p"), B("+", B("-", V("i"), N(4)), V("arr")))), R(Un("*", V("p")))>>),
  Main(<<E(A("=", V("p"), B("+", N(1), V("p")))), R(Un("*", V("p")))>>),
  Main(<<R(At(V("cp"), N(2)))>>),
  Main(<<E(A("+=", V("cp"), B("-", V("i"), N(4)))), R(Un("*", V("cp")))>>),
  Main(<<E(A("=", At(V("ca"), B("-", V("i"), N(3))), N(7))), R(At(V("ca"), N(2)))>>),
  Main(<<R(Un("*", Cond(V("i"), V("p"), V("arr"))))>>),
  Main(<<Decl(PtrTo(Pair), "q"), E(A("=", V("q"), Un("&", V("s")))), E(A("=", Arrow(V("q"), "d"), N(4))),
    R(B("+", Dot(V("s"), "d"), Arrow(V("q"), "a")))>>),
  Main(<<Decl(PtrTo(Pair), "q"), E(A("=", V("q"), Un("&", V("s")))), E(A("+=", Arrow(V("q"), "d"), N(4))),
    R(Dot(V("s"), "d"))>>),
  Main(<<Decl(PtrTo(Pair), "q"), E(A("=", V("q"), Un("&", V("s")))), E(Post("++", V("q"))), R(B("-", V("q"),
    Un("&", V("s"))))>>),
  Main(<<E(A("=", Dot(V("s"), "b"), B("+", Dot(V("s"), "a"), N(2)))), E(A("=", Dot(V("s"), "d"), Dot(V("s"),
    "b"))), R(Dot(V("s"), "d"))>>),
  Main(<<E(A("=", At(At(V("m2"), N(1)), N(0)), N(8))), R(B("+", At(At(V("m2"), N(1)), N(0)), At(At(V("m2"),
    N(0)), N(1))))>>),
  Main(<<E(A("=", At(At(V("m2"), V("cnt")), N(1)), N(8))), R(At(At(V("m2"), N(0)), N(1)))>>),
  Main(<<R(B("+", At(At(V("m2"), N(1)), B("-", V("i"), N(4))), At(At(V("m2"), B("-", V("i"), N(4))),
    V("cnt"))))>>),
  Main(<<Decl(PtrTo(TChar), "q"), E(A("=", V("q"), Str(<<1, 2, 3>>))), R(B("+", At(V("q"), N(1)), Un("*",
    V("q"))))>>),
  Main(<<Decl(PtrTo(TChar), "q"), E(A("=", V("q"), Str(<<1, 2, 3>>))), While(Un("*", V("q")), E(Post("++",
    V("q")))), R(At(V("q"), Un("-", N(1))))>>),
  Main(<<R(At(Str(<<1, 2, 3>>), N(1)))>>),
  Main(<<Decl(TInt, "x"), Decl(PtrTo(TInt), "q"), Decl(PtrTo(PtrTo(TInt)), "r"), E(A("=", V("q"), Un("&",
    V("x")))), E(A("=", V("r"), Un("&", V("q")))), E(A("=", Un("*", Un("*", V("r"))), N(4))), R(V("x"))>>),
  Main(<<E(A("=", At(V("arr"), B("-", V("i"), N(4))), B("*", At(V("arr"), B("-", V("i"), N(3))), At(V("arr"),
    N(1))))), R(At(V("arr"), N(1)))>>),
  Main(<<R(At(V("arr"), B("-", V("l"), N(262))))>>),
  Main(<<R(Un("*", Cast(PtrTo(TChar), V("p"))))>>),
  Main(<<R(A("=", V("i"), N(5)))>>),
  Main(<<R(A("=", At(V("arr"), N(1)), N(0)))>>),
  Main(<<R(A("+=", V("u"), N(2)))>>),
  Main(<<R(A("-=", At(V("arr"), B("+", V("cnt"), N(1))), N(3)))>>),
  Main(<<If(A("=", V("i"), N(0)), R(N(1))), R(N(2))>>),
  Main(<<SwitchOn(A("=", V("j"), N(4)), Block(<<Case(N(4)), R(N(1)), Case(N(5)), R(N(2))>>)), R(N(3))>>),
  Main(<<Block(<<Decl(TInt, "x"), R(A("=", V("x"), N(7)))>>)>>) >>

\* Signs, casts, sizes, commas.
Unaries == <<
  Main(<<R(Un("-", V("i")))>>),
  Main(<<R(B("&", Un("~", V("i")), Un("!", V("j"))))>>),
  Main(<<R(Un("!", Un("!", V("j"))))>>),
  Main(<<R(Un("-", V("ch")))>>),
  Main(<<R(Un("~", V("uc")))>>),
  LongMain(<<R(Un("-", V("l")))>>),
  LongMain(<<R(Un("~", V("k2")))>>),
  Main(<<R(Un("!", V("l")))>>),
  Main(<<R(B("+", Un("-", N(5)), V("i")))>>),
  Main(<<R(B("&", Un("~", N(3)), V("i")))>>),
  Main(<<R(Un("!", N(0)))>>),
  Main(<<R(Un("-", B("+", V("i"), V("j"))))>>),
  Main(<<R(Cast(TChar, V("i")))>>),
  Main(<<R(Cast(TChar, N(300)))>>),
  Main(<<R(Cast(TInt, V("l")))>>),
  LongMain(<<R(B("*", Cast(TLong, V("i")), V("l")))>>),
  LongMain(<<R(Cast(TLong, V("u")))>>),
  LongMain(<<R(Cast(TULong, V("ch")))>>),
  Main(<<R(B(">", Cast(TUInt, V("ch")), N(3)))>>),
  Main(<<R(B("+", SizeofType(TInt), SizeofType(Pair)))>>),
  Main(<<R(B("*", SizeofType(TLong), V("i")))>>),
  Main(<<E(Comma(A("=", V("i"), N(1)), A("=", V("j"), N(2)))), R(B("+", V("i"), V("j")))>>) >>

\* Nested operands: what waits on the stack, and in which order.
Nested == <<
  Main(<<R(B("+", V("i"), B("+", V("j"), B("+", V("u"), B("+", V("v"), N(1))))))>>),
  Main(<<R(B("-", B("+", B("*", B("+", V("i"), V("j")), B("-", V("u"), N(2))), B("&", V("i"), N(4))), B("|",
    V("j"), N(1))))>>),
  Main(<<R(B("%", B("-", B("*", B("+", V("i"), N(2)), N(3)), B("/", B("+", V("j"), N(4)), N(2))), N(7)))>>),
  Main(<<R(B("-", V("i"), B("-", V("j"), B("-", V("i"), V("j")))))>>),
  Main(<<R(B("+", Cond(V("i"), V("j"), V("u")), N(1)))>>),
  LongMain(<<R(B("*", B("+", V("l"), N(1)), B("-", V("k2"), V("i"))))>>),
  LongMain(<<R(B("+", B("/", V("l"), N(3)), B("%", V("l"), N(5))))>>),
  LongMain(<<R(B("+", B("/", V("ul"), N(3)), B("%", V("ul"), N(3))))>>),
  LongMain(<<R(B("|", B("<<", V("l"), N(2)), B(">>", V("k2"), N(1))))>>),
  LongMain(<<R(B("-", V("k2"), B("-", V("l"), B("-", V("k2"), V("l")))))>>),
  Main(<<E(A("=", V("i"), A("=", V("j"), A("=", V("u"), N(4))))), R(B("+", B("+", V("i"), V("j")), V("u")))>>),
  Main(<<E(A("=", V("l"), A("=", V("i"), N(4)))), R(B("+", V("l"), V("i")))>>),
  Main(<<Decl(TChar, "x"), Decl(TChar, "y"), Decl(TChar, "z"), E(A("=", V("x"), N(1))), E(A("=", V("y"), N(2))),
    E(A("=", V("z"), N(3))), R(B("+", V("x"), B("*", V("y"), V("z"))))>>),
  Main(<<Init1(TInt, "x", N(1)), Init1(TInt, "y", N(2)), If(B("<", V("x"), V("y")), Block(<<E(A("=", V("x"),
    V("y"))), E(A("=", V("y"), N(7)))>>)), R(B("+", V("x"), V("y")))>>),
  Main(<<Init1(TInt, "x", N(1)), Init1(TLong, "y", N(2)), E(A("=", V("y"), B("+", V("y"), V("x")))), E(A("=",
    V("x"), V("y"))), R(V("x"))>>),
  Main(<<Init1(TInt, "x", N(1)), Init1(TChar, "y", N(2)), E(A("=", V("y"), B("+", V("y"), V("x")))),
    R(V("y"))>>),
  Main(<<Init1(TInt, "x", N(3)), E(A("=", V("x"), B("+", B("*", V("x"), V("x")), V("x")))), R(V("x"))>>),
  Main(<<Decl(TInt, "x"), Decl(PtrTo(TInt), "q"), E(A("=", V("q"), Un("&", V("x")))), E(A("=", Un("*", V("q")),
    N(4))), E(A("=", V("x"), B("+", B("-", V("x"), Un("*", V("q"))), N(1)))), R(V("x"))>>) >>

\* && and ||, as values and as conditions.
Logic == <<
  Main(<<R(B("&&", V("i"), V("j")))>>),
  Main(<<R(B("||", V("i"), V("cnt")))>>),
  Main(<<R(B("&&", V("cnt"), V("i")))>>),
  Main(<<R(B("&&", B("&&", V("i"), V("j")), V("u")))>>),
  Main(<<R(B("||", B("||", V("i"), V("j")), V("u")))>>),
  Main(<<R(B("||", V("cnt"), B("&&", V("i"), V("u"))))>>),
  Main(<<R(B("&&", B("||", V("cnt"), V("i")), V("u")))>>),
  Main(<<R(B("+", B("&&", V("i"), V("cnt")), B("||", V("cnt"), V("j"))))>>),
  Main(<<If(B("||", B("&&", V("i"), V("cnt")), V("u")), R(N(4))), R(N(5))>>),
  Main(<<If(B("&&", V("i"), B("||", V("cnt"), V("u"))), R(N(4))), R(N(5))>>),
  Main(<<If(Un("!", B("&&", V("i"), V("cnt"))), R(N(4))), R(N(5))>>),
  Main(<<If(B("||", Un("!", V("i")), Un("!", V("cnt"))), R(N(4))), R(N(5))>>),
  Main(<<If(B("&&", V("l"), V("cnt")), R(N(4))), R(N(5))>>),
  Main(<<If(B("||", V("l"), V("cnt")), R(N(4))), R(N(5))>>),
  Main(<<If(B("&&", B("<", V("i"), N(6)), B("<", V("j"), N(0))), R(N(4))), R(N(5))>>),
  Main(<<IfElse(B("||", B(">", V("i"), N(6)), B(">", V("j"), N(0))), R(N(4)), R(N(5)))>>),
  Main(<<If(B("&&", B(">=", V("i"), N(0)), B("<", V("j"), N(0))), R(N(1))), R(N(2))>>),
  Main(<<While(B("&&", V("i"), V("j")), Block(<<E(Post("--", V("i"))), E(Post("++", V("j")))>>)), R(B("+",
    V("i"), V("j")))>>) >>

\* Loops and jumps.
Loops == <<
  Main(<<If(V("i"), IfElse(V("cnt"), R(N(1)), R(N(2)))), R(N(3))>>),
  Main(<<While(B(">", V("i"), N(2)), E(Post("--", V("i")))), R(V("i"))>>),
  Main(<<Decl(TInt, "x"), E(A("=", V("x"), N(2))), While(V("x"), E(Post("--", V("x")))), Do(E(Post("++",
    V("x"))), B("<", V("x"), N(2))), While(B(">", V("x"), N(1)), E(Post("--", V("x")))), While(B("<", V("x"),
    N(3)), E(Post("++", V("x")))), While(V("x"), E(Post("--", V("x")))), R(V("x"))>>),
  Main(<<While(B(">", V("u"), N(0)), E(Post("--", V("u")))), R(V("u"))>>),
  Main(<<While(N(1), Block(<<If(B(">", Post("++", V("i")), N(7)), Break)>>)), R(V("i"))>>),
  Main(<<Do(E(Post("++", V("i"))), B("<", V("i"), N(9))), R(V("i"))>>),
  Main(<<For(A("=", V("i"), N(0)), B("<", V("i"), N(4)), Post("++", V("i")), E(A("+=", V("j"), At(V("arr"),
    V("i"))))), R(V("j"))>>),
  Main(<<For(A("=", V("i"), N(0)), B("<", V("i"), N(9)), Post("++", V("i")), Block(<<If(B("==", V("i"), N(3)),
    Continue), If(B("==", V("i"), N(6)), Break), E(A("+=", V("j"), V("i")))>>)), R(V("j"))>>),
  Main(<<For(A("=", V("i"), N(3)), V("i"), Pre("--", V("i")), E(A("+=", V("u"), V("i")))), R(V("u"))>>),
  Main(<<Decl(TInt, "x"), For(A("=", V("x"), N(0)), B("<", V("x"), N(3)), Post("++", V("x")), E(A("=", V("j"),
    B("+", V("j"), At(V("arr"), V("x")))))), R(V("j"))>>),
  Main(<<Decl(TInt, "x"), E(A("=", V("x"), N(5))), While(Post("--", V("x")), E(Post("++", V("j")))),
    R(V("j"))>>),
  Main(<<Decl(TInt, "x"), E(A("=", V("x"), N(5))), While(Pre("--", V("x")), E(Post("++", V("j")))), R(V("j"))>>),
  Main(<<Decl(TInt, "x"), E(A("=", V("x"), N(5))), Do(Block(<<If(B("==", V("x"), N(2)), Break), E(Post("++",
    V("j")))>>), Post("--", V("x"))), R(V("j"))>>),
  Main(<<Decl(TInt, "x"), E(A("=", V("x"), N(2))), Do(Block(<<If(B("==", V("x"), N(2)), Continue), E(Post("++",
    V("j")))>>), Post("--", V("x"))), R(V("j"))>>),
  Main(<<Label("again"), E(Post("++", V("i"))), If(B("<", V("i"), N(8)), GoTo("again")), R(V("i"))>>),
  Main(<<If(V("i"), GoTo("out")), E(A("=", V("j"), N(2))), Label("out"), R(V("j"))>>),
  <<Fun("f", TInt, <<<<TInt, "a">>>>, <<If(B("==", V("a"), N(1)), R(N(7))), Label("again"), If(B(">", V("a"),
    N(3)), R(V("a"))), E(A("=", V("a"), B("+", V("a"), N(1)))), GoTo("again")>>)>> \o Main(<<R(App("f",
    <<N(2)>>))>>) >>

\* Switches.
SwitchStatements == <<
  Main(<<SwitchOn(V("i"), Block(<<Case(N(1)), E(A("=", V("j"), N(1))), Break, Case(N(5)), E(A("=", V("j"),
    N(50))), Case(N(6)), E(A("=", V("j"), B("+", V("j"), N(2)))), Break, Default, E(A("=", V("j"), N(9)))>>)),
    R(V("j"))>>),
  Main(<<SwitchOn(V("u"), Block(<<Case(N(1)), E(A("=", V("j"), N(1))), Break, Default, E(A("=", V("j"), N(9))),
    Case(N(6)), E(A("=", V("j"), B("+", V("j"), N(2)))), Break>>)), R(V("j"))>>),
  Main(<<SwitchOn(V("l"), Block(<<Case(N(1)), E(A("=", V("j"), N(1))), Break, Case(NL(263)), E(A("=", V("j"),
    N(50))), Break, Case(N(6)), E(A("=", V("j"), B("+", V("j"), N(2))))>>)), R(V("j"))>>),
  Main(<<SwitchOn(V("i"), Block(<<Case(N(1)), R(N(3)), Case(N(5)), R(N(4))>>)), R(N(5))>>),
  Main(<<SwitchOn(V("k2"), Block(<<Case(N(1)), R(N(3)), Case(Un("-", N(6))), R(N(4))>>)), R(N(5))>>),
  Main(<<While(V("i"), Block(<<SwitchOn(V("i"), Block(<<Case(N(3)), E(A("=", V("i"), N(1))), Continue,
    Case(N(1)), E(A("=", V("j"), N(4))), Break, Default, E(A("=", V("j"), N(6)))>>)), E(Post("--", V("i")))>>)),
    R(V("j"))>>),
  Main(<<SwitchOn(V("i"), Block(<<Case(N(5)), SwitchOn(V("u"), Block(<<Case(N(9)), E(A("=", V("j"), N(1))),
    Break, Case(N(5)), E(A("=", V("j"), N(2)))>>)), Break, Case(N(9)), E(A("=", V("j"), N(3)))>>)), R(V("j"))>>) >>

\* Blocks and their locals.
Blocks == <<
  Main(<<Decl(TInt, "x"), E(A("=", V("x"), N(1))), Block(<<Decl(TInt, "y"), E(A("=", V("y"), N(2))), E(A("=",
    V("x"), B("+", V("x"), V("y")))), Block(<<Decl(TInt, "z"), E(A("=", V("z"), N(4))), E(A("=", V("x"), B("+",
    V("x"), V("z"))))>>)>>), Block(<<Decl(TInt, "w"), E(A("=", V("w"), N(9))), E(A("=", V("x"), B("+", V("x"),
    V("w"))))>>), R(V("x"))>>),
  Main(<<Decl(TInt, "x"), E(A("=", V("x"), N(1))), While(B("<", V("x"), N(9)), Block(<<Decl(TInt, "y"), E(A("=",
    V("y"), V("x"))), E(A("=", V("x"), B("+", V("x"), V("y")))), Block(<<Decl(TInt, "z"), E(A("=", V("z"),
    V("y"))), If(B(">", V("z"), N(5)), E(Post("++", V("x"))))>>)>>)), R(V("x"))>>),
  Main(<<Decl(TInt, "x"), E(A("=", V("x"), N(1))), While(B("<", V("x"), N(9)), Block(<<E(A("=", V("x"), B("+",
    V("x"), N(3)))), If(B(">", V("x"), N(5)), Continue), Block(<<Decl(TInt, "y"), E(A("=", V("y"), V("x"))),
    E(A("=", V("x"), B("+", V("y"), N(1))))>>)>>)), R(V("x"))>>),
  Main(<<Decl(TInt, "x"), E(A("=", V("x"), N(1))), Block(<<Decl(TInt, "y"), E(A("=", V("y"), N(2))), If(V("x"),
    R(V("y")))>>), R(V("x"))>>),
  Main(<<Decl(TInt, "x"), E(A("=", V("x"), N(0))), IfElse(V("i"), Block(<<Decl(TInt, "y"), E(A("=", V("y"),
    N(4))), E(A("=", V("x"), V("y")))>>), Block(<<Decl(TInt, "z"), Decl(TInt, "w"), E(A("=", V("w"), N(6))),
    E(A("=", V("z"), V("w"))), E(A("=", V("x"), V("z")))>>)), R(V("x"))>>),
  Main(<<For(A("=", V("i"), N(0)), B("<", V("i"), N(3)), Post("++", V("i")), Block(<<Decl(TInt, "t2"), E(A("=",
    V("t2"), V("i"))), E(A("=", V("j"), B("+", V("j"), V("t2"))))>>)), R(V("j"))>>),
  Main(<<Init1(TInt, "x", N(3)), Block(<<Init1(TInt, "x", N(4)), E(A("=", V("j"), V("x")))>>), R(V("x"))>>) >>

\* cond ? a : b
Conditionals == <<
  Main(<<R(Cond(B("<", V("i"), V("j")), V("u"), V("v")))>>),
  Main(<<R(Cond(V("i"), V("j"), N(3)))>>),
  Main(<<R(Cond(V("cnt"), N(3), N(4)))>>),
  Main(<<R(Cond(V("i"), At(V("arr"), N(1)), At(V("arr"), N(2))))>>),
  Main(<<R(Cond(B(">", V("i"), N(3)), Cond(B("<", V("i"), N(9)), N(1), N(2)), N(3)))>>),
  Main(<<Decl(TInt, "x"), E(A("=", V("x"), Cond(V("i"), V("j"), N(3)))), R(V("x"))>>),
  Main(<<E(A("=", V("i"), Cond(V("cnt"), N(1), Cond(B(">", V("j"), N(3)), N(2), N(7))))), R(V("i"))>>) >>

\* Initialized locals and static ones.
Initializers == <<
  Main(<<Init1(TInt, "x", N(4)), Init1(TInt, "y", N(5)), R(B("+", V("x"), V("y")))>>),
  Main(<<Init1(TInt, "x", V("i")), Init1(TInt, "y", B("+", V("x"), N(1))), R(V("y"))>>),
  Main(<<Init1(TChar, "x", N(4)), R(V("x"))>>),
  LongMain(<<Init1(TLong, "y", N(4)), R(V("y"))>>),
  LongMain(<<Init1(TLong, "y", V("k2")), R(V("y"))>>),
  LongMain(<<Init1(TLong, "y", V("i")), R(V("y"))>>),
  Main(<<Init1(ArrayOf(3, TInt), "a", List(<<N(1)>>)), R(B("+", At(V("a"), N(0)), At(V("a"), N(2))))>>),
  Main(<<Init1(ArrayOf(3, TInt), "a", List(<<N(1), V("i"), V("j")>>)), R(B("+", At(V("a"), B("-", V("i"),
    N(4))), At(V("a"), N(2))))>>),
  Main(<<Init1(ArrayOf(3, TChar), "a", List(<<N(1), N(2), N(3)>>)), R(B("+", At(V("a"), N(0)), At(V("a"),
    N(2))))>>),
  Main(<<Init1(ArrayOf(4, TChar), "a", Str(<<1, 2, 3>>)), R(At(V("a"), N(1)))>>),
  Main(<<Init1(ArrayOf(6, TChar), "a", Str(<<1, 2, 3>>)), R(B("+", At(V("a"), N(1)), At(V("a"), N(4))))>>),
  Main(<<Init1(ArrayOf(2, ArrayOf(2, TInt)), "a", List(<<List(<<N(1), N(2)>>), List(<<N(5)>>)>>)), R(B("+",
    At(At(V("a"), N(1)), N(0)), At(At(V("a"), N(0)), N(1))))>>),
  Main(<<Init1(ArrayOf(3, ArrayOf(2, TInt)), "a", List(<<List(<<N(1), N(2)>>)>>)), R(B("+", At(At(V("a"), N(2)),
    N(0)), At(At(V("a"), N(0)), N(1))))>>),
  Main(<<Init1(ArrayOf(2, TLong), "a", List(<<N(1), N(7)>>)), R(B("==", At(V("a"), N(1)), N(7)))>>),
  Main(<<Init1(Pair, "a", List(<<N(1), N(2), N(3)>>)), R(B("+", B("+", Dot(V("a"), "a"), Dot(V("a"), "b")),
    Dot(V("a"), "d")))>>),
  Main(<<Init1(Pair, "a", List(<<N(1)>>)), R(B("+", B("+", Dot(V("a"), "a"), Dot(V("a"), "b")), Dot(V("a"),
    "d")))>>),
  Main(<<Init1(ArrayOf(2, Pair), "a", List(<<List(<<N(1), N(2), N(3)>>), List(<<N(4), N(5), N(6)>>)>>)),
    R(Dot(At(V("a"), N(1)), "d"))>>),
  Main(<<Init1(ArrayOf(2, PtrTo(TInt)), "a", List(<<Un("&", V("i")), Un("&", V("j"))>>)), R(Un("*", At(V("a"),
    N(1))))>>),
  Main(<<Init1(PtrTo(TInt), "q", Un("&", V("i"))), E(A("=", Un("*", V("q")), N(3))), R(V("i"))>>),
  Main(<<Init1(PtrTo(TChar), "q", Str(<<1, 2, 3>>)), R(At(V("q"), N(1)))>>),
  Main(<<Static(TInt, "n", N(3)), E(Post("++", V("n"))), R(V("n"))>>),
  Main(<<Static(TInt, "n", N(0)), E(Post("++", V("n"))), R(V("n"))>>),
  Main(<<Static(ArrayOf(3, TInt), "n", List(<<N(4), N(5)>>)), R(B("+", At(V("n"), N(1)), At(V("n"), N(2))))>>),
  Main(<<Static(TChar, "n", N(7)), R(V("n"))>>),
  Main(<<Static(TLong, "n", N(7)), R(B("==", V("n"), N(7)))>>),
  Main(<<Static(ArrayOf(2, PtrTo(TInt)), "n", List(<<N(3), N(4)>>)), R(B("==", At(V("n"), N(1)), N(4)))>>),
  Main(<<Init1(TInt, "x", N(3)), Static(TInt, "n", N(7)), R(B("+", V("n"), V("x")))>>) >>

\* Arrays and structs on the stack.
Aggregates == <<
  Main(<<Decl(ArrayOf(2, ArrayOf(2, TInt)), "a"), E(A("=", At(At(V("a"), N(1)), N(0)), N(4))), E(A("=",
    At(At(V("a"), N(0)), N(1)), N(6))), R(B("+", At(At(V("a"), B("-", V("i"), N(4))), N(0)), At(At(V("a"),
    N(0)), N(1))))>>),
  Main(<<Decl(ArrayOf(4, TInt), "a"), E(A("=", At(V("a"), N(0)), V("i"))), E(A("=", At(V("a"), N(1)), B("+",
    At(V("a"), N(0)), N(1)))), R(At(V("a"), B("-", V("i"), N(4))))>>),
  Main(<<Decl(ArrayOf(4, TChar), "a"), E(A("=", At(V("a"), N(0)), V("i"))), E(A("=", At(V("a"), N(1)), B("+",
    At(V("a"), N(0)), N(1)))), R(At(V("a"), B("-", V("i"), N(4))))>>),
  Main(<<Decl(ArrayOf(2, TLong), "a"), E(A("=", At(V("a"), N(0)), V("l"))), E(A("=", At(V("a"), N(1)), B("+",
    At(V("a"), N(0)), N(1)))), R(B("==", At(V("a"), B("-", V("i"), N(4))), N(264)))>>),
  Main(<<Decl(ArrayOf(2, Pair), "a"), E(A("=", Dot(At(V("a"), N(1)), "d"), N(4))), E(A("=", Dot(At(V("a"),
    B("-", V("i"), N(4))), "a"), N(3))), R(B("+", Dot(At(V("a"), N(1)), "a"), Dot(At(V("a"), B("-", V("i"),
    N(4))), "d")))>>),
  Main(<<Decl(ArrayOf(2, PtrTo(TInt)), "a"), E(A("=", At(V("a"), N(0)), Un("&", V("i")))), E(A("=", At(V("a"),
    N(1)), Un("&", V("j")))), R(B("+", Un("*", At(V("a"), N(0))), Un("*", At(V("a"), B("-", V("i"), N(4))))))>>),
  Main(<<Init1(TInt, "x", N(1)), E(A("=", At(At(V("m2"), V("x")), B("-", V("x"), N(1))), N(8))),
    R(At(At(V("m2"), N(1)), N(0)))>>) >>

\* Structs as values; bit-fields.
Structs == <<
  Main(<<E(A("=", V("s"), V("t"))), R(Dot(V("s"), "a"))>>),
  Main(<<Decl(Pair, "z"), E(A("=", V("z"), V("s"))), E(A("=", V("t"), V("z"))), R(Dot(V("t"), "d"))>>),
  Main(<<Decl(PtrTo(Pair), "q"), E(A("=", V("q"), Un("&", V("t")))), E(A("=", Un("*", V("q")), V("s"))),
    E(A("=", V("t"), Un("*", V("q")))), R(Dot(V("t"), "d"))>>),
  <<Fun("f", Pair, <<<<TInt, "n">>>>, <<E(A("=", Dot(V("s"), "a"), V("n"))), R(V("s"))>>)>> \o Main(<<E(A("=",
    V("t"), App("f", <<N(6)>>))), R(Dot(V("t"), "a"))>>),
  <<Fun("f", Pair, <<<<TInt, "n">>>>, <<Decl(Pair, "z"), E(A("=", Dot(V("z"), "a"), V("n"))), E(A("=",
    Dot(V("z"), "d"), N(4))), R(V("z"))>>)>> \o Main(<<E(A("=", V("t"), App("f", <<N(6)>>))), R(B("+",
    Dot(V("t"), "a"), Dot(V("t"), "d")))>>),
  <<Fun("f", Pair, <<<<TInt, "n">>>>, <<E(A("=", Dot(V("s"), "a"), V("n"))),
    R(V("s"))>>)>> \o Main(<<R(Dot(App("f", <<N(6)>>), "a"))>>),
  Main(<<E(A("=", Dot(V("f"), "lo"), N(5))), E(A("=", Dot(V("f"), "hi"), N(1))), R(B("+", B("*", Dot(V("f"),
    "lo"), N(4)), Dot(V("f"), "hi")))>>),
  Main(<<E(A("+=", Dot(V("f"), "lo"), N(3))), R(Dot(V("f"), "lo"))>>),
  Main(<<E(A("=", Dot(V("f"), "hi"), Dot(V("f"), "lo"))), R(Dot(V("f"), "hi"))>>),
  Main(<<If(B("==", Dot(V("f"), "lo"), N(5)), R(Dot(V("f"), "hi"))), R(N(7))>>),
  Main(<<Decl(Flags, "g"), E(A("=", Dot(V("g"), "lo"), N(3))), E(A("=", Dot(V("g"), "hi"), N(1))), R(B("+",
    Dot(V("g"), "lo"), Dot(V("g"), "hi")))>>) >>

\* Functions.
FunctionCalls == <<
  <<Fun("fac", TInt, <<<<TInt, "n">>>>, <<If(B("<", V("n"), N(2)), R(N(1))), R(B("*", V("n"), App("fac",
    <<B("-", V("n"), N(1))>>)))>>)>> \o Main(<<R(App("fac", <<V("i")>>))>>),
  <<Fun("fac", TInt, <<<<TInt, "n">>>>, <<IfElse(B("<", V("n"), N(2)), R(N(1)), R(B("*", V("n"), App("fac",
    <<B("-", V("n"), N(1))>>))))>>)>> \o Main(<<R(App("fac", <<N(4)>>))>>),
  <<OldStyle(Fun("f", TInt, <<<<TInt, "n">>, <<TLong, "q">>, <<TChar, "cc">>>>, <<R(B("+", V("n"), B("-",
    V("q"), V("cc"))))>>))>> \o Main(<<R(App("f", <<V("i"), V("l"), V("ch")>>))>>),
  <<Fun("f", TInt, <<<<TInt, "n">>, <<TLong, "q">>, <<TChar, "cc">>>>, <<R(B("+", V("n"), B("-", V("q"),
    V("cc"))))>>)>> \o Main(<<R(App("f", <<V("i"), V("l"), V("ch")>>))>>),
  <<Fun("f", TLong, <<<<TLong, "a">>, <<TInt, "b">>>>, <<R(B("*", V("a"), V("b")))>>)>> \o LongMain(<<R(App("f",
    <<V("l"), N(3)>>))>>),
  <<Fun("f", TVoid, <<<<PtrTo(TInt), "q">>>>, <<E(A("=", Un("*", V("q")), N(7)))>>)>> \o Main(<<Init1(TInt, "x",
    N(0)), E(App("f", <<Un("&", V("x"))>>)), R(V("x"))>>),
  <<Fun("f", TVoid, <<<<PtrTo(TInt), "q">>>>, <<E(A("=", Un("*", V("q")), N(7))),
    ReturnNothing>>)>> \o Main(<<Init1(TInt, "x", N(0)), E(App("f", <<Un("&", V("x"))>>)), R(V("x"))>>),
  <<Fun("f", TInt, <<<<TInt, "a">>, <<TInt, "b">>>>, <<R(B("-", V("a"), V("b")))>>)>> \o Main(<<R(B("*",
    App("f", <<App("f", <<V("i"), N(2)>>), App("f", <<V("j"), N(4)>>)>>), App("f", <<V("u"), N(1)>>)))>>),
  <<Fun("f", TInt, <<<<TInt, "a">>, <<TInt, "b">>>>, <<R(B("-", V("a"), V("b")))>>)>> \o Main(<<Init1(TInt, "x",
    N(4)), E(A("=", V("x"), App("f", <<V("x"), App("f", <<V("x"), N(2)>>)>>))), R(V("x"))>>),
  <<Fun("f", TInt, <<<<TInt, "a">>>>, <<Decl(TInt, "b"), E(A("=", V("b"), V("a"))), E(Post("++", V("b"))),
    R(V("b"))>>)>> \o Main(<<R(App("f", <<App("f", <<N(3)>>)>>))>>),
  <<Fun("f", TInt, <<<<TInt, "a">>>>, <<E(A("=", V("a"), B("+", V("a"), N(1)))),
    R(V("a"))>>)>> \o Main(<<R(App("f", <<N(3)>>))>>),
  <<Fun("f", TInt, <<<<TChar, "a">>>>, <<R(V("a"))>>)>> \o Main(<<R(B("+", App("f", <<V("ch")>>), App("f",
    <<B("+", V("i"), N(3))>>)))>>),
  <<Fun("f", TInt, <<<<TUChar, "a">>>>, <<R(V("a"))>>)>> \o Main(<<R(App("f", <<V("uc")>>))>>),
  <<Fun("f", TChar, <<<<TInt, "a">>>>, <<R(V("a"))>>)>> \o Main(<<R(App("f", <<N(3)>>))>>),
  <<Fun("f", TLong, <<<<TInt, "a">>>>, <<R(V("a"))>>)>> \o Main(<<R(B("<", App("f", <<V("j")>>), V("l")))>>),
  <<Fun("f", TLong, <<<<TInt, "a">>>>, <<R(V("a"))>>)>> \o LongMain(<<R(B("+", App("f", <<V("j")>>), N(1)))>>),
  <<Fun("f", TULong, <<<<TUInt, "a">>>>, <<R(V("a"))>>)>> \o LongMain(<<R(B("+", App("f", <<V("u")>>),
    V("l")))>>),
  <<Fun("f", PtrTo(TInt), <<<<TInt, "a">>>>, <<R(Un("&", At(V("arr"), V("a"))))>>)>> \o Main(<<R(B("+", Un("*",
    App("f", <<N(1)>>)), At(App("f", <<N(1)>>), N(1))))>>),
  <<Fun("f", TInt, <<<<PtrTo(TInt), "a">>>>, <<R(At(V("a"), N(1)))>>)>> \o Main(<<R(App("f", <<V("arr")>>))>>),
  <<Fun("f", TInt, <<<<PtrTo(Pair), "q">>>>, <<R(Arrow(V("q"), "d"))>>)>> \o Main(<<R(App("f", <<Un("&",
    V("s"))>>))>>),
  <<Fun("f", TInt, <<<<TInt, "a">>>>, <<If(V("a"), Block(<<Decl(TInt, "b"), E(A("=", V("b"), N(4))),
    R(V("b"))>>)), R(V("a"))>>)>> \o Main(<<R(B("+", App("f", <<N(0)>>), App("f", <<N(1)>>)))>>),
  <<Fun("f", TInt, <<<<TInt, "a">>>>, <<While(N(1), Block(<<Decl(TInt, "b"), E(A("=", V("b"), V("a"))),
    If(V("b"), R(V("b"))), E(A("=", V("a"), N(3)))>>))>>)>> \o Main(<<R(App("f", <<N(0)>>))>>),
  <<Fun("f", TInt, <<>>, <<Static(TInt, "n", N(3)), E(Post("++", V("n"))), R(V("n"))>>)>> \o Main(<<E(App("f",
    <<>>)), R(App("f", <<>>))>>),
  Main(<<E(App("next", <<>>)), R(B("+", App("next", <<>>), B("*", App("next", <<>>), N(4))))>>),
  Main(<<R(App("diff", <<V("i"), App("diff", <<V("j"), N(2)>>)>>))>>),
  Main(<<R(B("+", App("diff", <<App("next", <<>>), N(3)>>), V("i")))>>),
  Main(<<E(A("=", V("i"), App("next", <<>>))), If(B(">", App("next", <<>>), N(1)), R(V("i"))), R(N(9))>>),
  Main(<<E(A("=", At(V("arr"), App("next", <<>>)), App("next", <<>>))), R(At(V("arr"), N(1)))>>),
  Main(<<E(A("=", At(V("arr"), N(1)), B("+", App("next", <<>>), At(V("arr"), N(1))))), R(At(V("arr"), N(1)))>>),
  Main(<<E(A("=", At(V("arr"), B("-", V("i"), N(4))), App("next", <<>>))), R(At(V("arr"), N(1)))>>) >>

\* A break or a continue in a block of the loop's body that has locals.
LoopLocals == <<
  Main(<<Decl(TInt, "x"), E(A("=", V("x"), N(1))), While(B("<", V("x"), N(9)), Block(<<Decl(TInt, "y"), E(A("=",
    V("y"), V("x"))), If(B(">", V("y"), N(5)), Break), E(A("=", V("x"), B("+", V("x"), V("y"))))>>)),
    R(V("x"))>>),
  Main(<<Decl(TInt, "x"), E(A("=", V("x"), N(1))), While(B("<", V("x"), N(9)), Block(<<Decl(TInt, "y"), E(A("=",
    V("y"), B("+", V("x"), N(3)))), E(A("=", V("x"), V("y"))), If(B(">", V("y"), N(5)), Continue), E(Post("++",
    V("x")))>>)), R(V("x"))>>) >>

\* A parameter that is stepped through, and no other use of the frame.
ParameterUpdates == <<
  <<Fun("f", TInt, <<<<PtrTo(TChar), "q">>>>, <<R(Un("*", Post("++", V("q"))))>>), Fun("g", TInt, <<<<TInt,
    "x">>>>, <<E(A("=", V("i"), App("f", <<V("ca")>>))), R(V("x"))>>)>> \o Main(<<R(App("g", <<N(5)>>))>>) >>

\* A struct is returned from the middle of a function.
ReturnsEarly == <<
  <<Fun("f", Pair, <<<<TInt, "n">>>>, <<If(V("n"), R(V("s"))), E(A("=", Dot(V("s"), "a"), V("n"))),
    R(V("t"))>>)>> \o Main(<<Decl(Pair, "z"), E(A("=", V("z"), App("f", <<N(0)>>))), R(Dot(V("s"), "a"))>>) >>

\* A block with a local behind one that returns.
ReturnsFromBlocks == <<
  <<Fun("g", TInt, <<>>, <<R(N(3))>>)>> \o
  Main(<<If(Un("!", V("i")), Block(<<Init1(TInt, "x", N(4)), R(V("x"))>>)),
         Block(<<Init1(TInt, "y", N(5)), E(App("g", <<>>)), R(V("y"))>>)>>) >>

\* A branch over code that is longer than code_size[] says.
TightBranches == <<
  Main(<<IfElse(V("i"), E(A("=", V("j"), V("i"))),
                E(Comma(Comma(Pre("++", V("lp")), Pre("++", V("lp"))), A("=", V("j"), V("i"))))), R(V("j"))>>) >>

\* A compound assignment to a local variable, for a compiler without optimizer.
LocalCompound == <<
  Main(<<Init1(TInt, "x", N(4)), E(A("+=", V("x"), N(2))), R(V("x"))>>) >>

=============================================================================
