------------------------------- MODULE Source -------------------------------
(***************************************************************************)
(* What the compiler compiles: programs as trees, their text as the        *)
(* compiler's tokens, and what C says they do.  This is the specification  *)
(* that the compiled code is held against.                                 *)
(*                                                                         *)
(* A type is a record [k, to, n, members]: k is "char", "int", "ptr",      *)
(* "array", "struct" or their like.  An expression or a statement is a     *)
(* tuple with its kind first.  A value is an integer in its type's range.  *)
(***************************************************************************)
EXTENDS Words, Bitwise, SequencesExt

CONSTANTS
  Externs,         \* what the functions of other modules do: "count" or "sub", by name
  CountAt          \* the address that the first kind counts at

-----------------------------------------------------------------------------
(* Types.                                                                  *)

T(k) == [k |-> k, to |-> <<>>, n |-> 0, members |-> <<>>]
PtrTo(t) == [T("ptr") EXCEPT !.to = t]
ArrayOf(n, t) == [T("array") EXCEPT !.to = t, !.n = n]
\* members: a function from names to [off, t, width, at]; width 0 when the
\* member is no bit-field.
Struct(size, members) == [T("struct") EXCEPT !.n = size, !.members = members]

RECURSIVE Size0(_)
Size0(t) ==
  CASE t.k \in {"char", "uchar"} -> 1
    [] t.k \in {"int", "uint", "ptr"} -> 2
    [] t.k \in {"long", "ulong"} -> 4
    [] t.k = "array" -> t.n * Size0(t.to)
    [] t.k = "struct" -> t.n
    [] OTHER -> 1
SignedTypes == {"char", "int", "long"}
Modulus(t) == IF Size0(t) = 1 THEN ByteSize ELSE IF Size0(t) = 2 THEN Word ELSE Long
Fit(v, t) == IF t.k \in SignedTypes THEN Signed(v % Modulus(t), Modulus(t)) ELSE v % Modulus(t)
\* The conversions of the language the compiler says it compiles: an operand
\* shorter than an int is widened, and unsigned-ness infects the operation and
\* its result (cc3.c:2427 and 2660; in C an unsigned char would not infect, nor
\* an unsigned int a long).
IsUnsigned0(t) == t.k \notin SignedTypes
Promoted(t) == CASE t.k = "char" -> T("int") [] t.k = "uchar" -> T("uint") [] OTHER -> t
Common(a, b) ==
  T(CASE 4 \in {Size0(a), Size0(b)} /\ (IsUnsigned0(a) \/ IsUnsigned0(b)) -> "ulong"
      [] 4 \in {Size0(a), Size0(b)} /\ ~(IsUnsigned0(a) \/ IsUnsigned0(b)) -> "long"
      [] 4 \notin {Size0(a), Size0(b)} /\ (IsUnsigned0(a) \/ IsUnsigned0(b)) -> "uint"
      [] OTHER -> "int")

-----------------------------------------------------------------------------
(* The text.                                                               *)

Binary == ("|" :> 5) @@ ("^" :> 6) @@ ("&" :> 7) @@ ("==" :> 8) @@ ("!=" :> 8) @@ ("<=" :> 9) @@ (">=" :> 9) @@
          ("<" :> 9) @@ (">" :> 9) @@ (">>" :> 10) @@ ("<<" :> 10) @@ ("+" :> 11) @@ ("-" :> 11) @@
          ("*" :> 12) @@ ("/" :> 12) @@ ("%" :> 12) @@ ("||" :> 3) @@ ("&&" :> 4)
Level(e) ==
  CASE e[1] = "comma" -> 0
    [] e[1] = "asg" -> 1
    [] e[1] = "cond" -> 2
    [] e[1] = "bin" -> Binary[e[2]]
    [] e[1] \in {"un", "pre", "post", "cast"} -> 13
    [] OTHER -> 14
Mark(x) == <<<<x, 0>>>>
RECURSIVE Base(_), Depth(_), DimsOf(_)
Base(t) == IF t.k \in {"ptr", "array"} THEN Base(t.to) ELSE t
Depth(t) == IF t.k = "ptr" THEN 1 + Depth(t.to) ELSE IF t.k = "array" THEN Depth(t.to) ELSE 0
DimsOf(t) == IF t.k = "array" THEN <<t.n>> \o DimsOf(t.to) ELSE <<>>
Number(n, u, l) == <<<<"num", [n |-> n, decimal |-> TRUE, u |-> u, l |-> l]>>>>
TypeText(t) == (IF Base(t).k = "struct" THEN <<<<"struct", Base(t)>>>> ELSE <<<<"type", Base(t).k>>>>)
Pointers(t) == [i \in 1..Depth(t) |-> <<"*", 0>>]
RECURSIVE Subscripts(_)
Subscripts(dims) ==
  IF dims = <<>> THEN <<>> ELSE Mark("[") \o Number(Head(dims), FALSE, FALSE) \o Mark("]") \o Subscripts(Tail(dims))
Declarator(t, name) == Pointers(t) \o <<<<"id", name>>>> \o Subscripts(DimsOf(t))

RECURSIVE Text(_, _), Listed(_)
\* The tokens of e, in parentheses when an operand of level n is wanted.
Text(e, n) ==
  LET Grouped(body) == IF Level(e) < n THEN Mark("(") \o body \o Mark(")") ELSE body
  IN Grouped(
       CASE e[1] = "num" -> Number(e[2], FALSE, FALSE)
         [] e[1] = "unum" -> Number(e[2], TRUE, FALSE)
         [] e[1] = "lnum" -> Number(e[2], FALSE, TRUE)
         [] e[1] = "str" -> <<<<"str", e[2]>>>>
         [] e[1] = "id" -> <<<<"id", e[2]>>>>
         [] e[1] = "sizeof" -> <<<<"sizeof", Size0(e[2])>>>>
         [] e[1] \in {"un", "pre"} -> Mark(e[2]) \o Text(e[3], 13)
         [] e[1] = "post" -> Text(e[3], 14) \o Mark(e[2])
         [] e[1] = "cast" -> Mark("(") \o TypeText(e[2]) \o Pointers(e[2]) \o Mark(")") \o Text(e[3], 13)
         [] e[1] = "bin" -> Text(e[3], Level(e)) \o Mark(e[2]) \o Text(e[4], Level(e) + 1)
         [] e[1] = "asg" -> Text(e[3], 13) \o Mark(e[2]) \o Text(e[4], 1)
         [] e[1] = "cond" -> Text(e[2], 3) \o Mark("?") \o Text(e[3], 2) \o Mark(":") \o Text(e[4], 2)
         [] e[1] = "comma" -> Text(e[2], 1) \o Mark(",") \o Text(e[3], 0)
         [] e[1] = "idx" -> Text(e[2], 14) \o Mark("[") \o Text(e[3], 1) \o Mark("]")
         [] e[1] \in {".", "->"} -> Text(e[2], 14) \o Mark(e[1]) \o <<<<"id", e[3]>>>>
         [] e[1] = "call" -> Text(e[2], 14) \o Mark("(") \o Listed(e[3]) \o Mark(")")
         [] e[1] = "list" -> Mark("{") \o Listed(e[2]) \o Mark("}"))
Listed(es) ==
  IF es = <<>> THEN <<>>
  ELSE Text(Head(es), 1) \o (IF Len(es) > 1 THEN Mark(",") ELSE <<>>) \o Listed(Tail(es))

RECURSIVE StmtText(_), StmtTexts(_)
StmtText(s) ==
  CASE s[1] = "expr" -> Text(s[2], 0) \o Mark(";")
    [] s[1] \in {"if", "while", "switch"} -> Mark(s[1]) \o Mark("(") \o Text(s[2], 0) \o Mark(")") \o StmtText(s[3])
    [] s[1] = "ifelse" -> StmtText(<<"if", s[2], s[3]>>) \o Mark("else") \o StmtText(s[4])
    [] s[1] = "do" -> Mark("do") \o StmtText(s[2]) \o Mark("while") \o Mark("(") \o Text(s[3], 0) \o Mark(")") \o
                      Mark(";")
    [] s[1] = "for" -> Mark("for") \o Mark("(") \o Text(s[2], 0) \o Mark(";") \o Text(s[3], 0) \o Mark(";") \o
                       Text(s[4], 0) \o Mark(")") \o StmtText(s[5])
    [] s[1] = "case" -> Mark("case") \o Text(s[2], 2) \o Mark(":")
    [] s[1] = "default" -> Mark("default") \o Mark(":")
    [] s[1] = "label" -> <<<<"id", s[2]>>>> \o Mark(":")
    [] s[1] = "goto" -> Mark("goto") \o <<<<"id", s[2]>>>> \o Mark(";")
    [] s[1] = "return" -> Mark("return") \o Text(s[2], 0) \o Mark(";")
    [] s[1] \in {"break", "continue"} -> Mark(s[1]) \o Mark(";")
    [] s[1] = "leave" -> Mark("return") \o Mark(";")
    [] s[1] = "decl" -> TypeText(s[2]) \o Declarator(s[2], s[3]) \o Mark(";")
    [] s[1] = "init" -> TypeText(s[2]) \o Declarator(s[2], s[3]) \o Mark("=") \o Text(s[4], 1) \o Mark(";")
    [] s[1] = "static" -> Mark("static") \o StmtText(<<"init", s[2], s[3], s[4]>>)
    [] s[1] = "block" -> Mark("{") \o StmtTexts(s[2]) \o Mark("}")
    [] s[1] = "none" -> Mark(";")
StmtTexts(ss) == IF ss = <<>> THEN <<>> ELSE StmtText(Head(ss)) \o StmtTexts(Tail(ss))
\* A function is [name, ret, params, body, kr]: a parameter is <<type, name>>;
\* kr tells whether the types are given behind the names.
RECURSIVE Parameters(_), Declarations0(_)
Parameters(ps) ==
  IF ps = <<>> THEN <<>>
  ELSE TypeText(ps[1][1]) \o Declarator(ps[1][1], ps[1][2]) \o (IF Len(ps) > 1 THEN Mark(",") ELSE <<>>) \o
       Parameters(Tail(ps))
Declarations0(ps) == IF ps = <<>> THEN <<>> ELSE Parameters(<<ps[1]>>) \o Mark(";") \o Declarations0(Tail(ps))
FunctionText(f) ==
  Mark("(") \o (IF f.kr THEN Listed([i \in DOMAIN f.params |-> <<"id", f.params[i][2]>>]) ELSE Parameters(f.params)) \o
  Mark(")") \o (IF f.kr THEN Declarations0(f.params) ELSE <<>>) \o StmtText(f.body)

-----------------------------------------------------------------------------
(* The meaning.  A state s: memory by bytes, the names in scope as         *)
(* [t, adr], the next free address, the functions, the value returned,     *)
(* and how the flow goes on: <<"run", 0>>, or looking for a <<"goto",      *)
(* label>> or <<"case", value>>, or leaving a loop or the function.        *)

Running0 == <<"run", 0>>
Seeking(s) == s.how[1] \in {"goto", "case", "default"}
Got(s, v, t) == [s |-> s, v |-> v, t |-> t]

BytesAt(s, adr, n) ==
  LET at[k \in 0..n] == IF k = 0 THEN 0 ELSE at[k - 1] * ByteSize + s.mem[adr + n - k] IN at[n]
Load0(s, adr, t) == IF t.k = "struct" THEN adr ELSE Fit(BytesAt(s, adr, Size0(t)), t)
ByteOf(v, k) == (v \div (IF k = 0 THEN 1 ELSE ByteSize^k)) % ByteSize
Store0(s, adr, t, v) ==
  [s EXCEPT !.mem = [a \in DOMAIN s.mem |->
     IF a < adr \/ a >= adr + Size0(t) THEN s.mem[a]
     ELSE IF t.k = "struct" THEN s.mem[v + a - adr] ELSE ByteOf(v % Modulus(t), a - adr)]]
\* A place: an address, a type, and the width and the bit of a bit-field.
Place0(adr, t) == [adr |-> adr, t |-> t, width |-> 0, at |-> 0]
Fetch0(s, p) ==
  LET bits == (Fit(BytesAt(s, p.adr, 2), T("uint")) \div 2^p.at) % 2^p.width
  IN IF p.width = 0 THEN Load0(s, p.adr, p.t)
     ELSE IF p.t.k = "int" THEN Signed(bits, 2^p.width) ELSE bits
WithBits(old, p, v) ==
  old + ((v % 2^p.width) - ((old \div 2^p.at) % 2^p.width)) * 2^p.at
Put0(s, p, v) ==
  IF p.width = 0 THEN Store0(s, p.adr, p.t, v)
  ELSE Store0(s, p.adr, T("uint"), WithBits(BytesAt(s, p.adr, 2), p, v))
Kept(p, v) == IF p.width = 0 THEN (IF p.t.k = "struct" THEN v ELSE Fit(v, p.t))
              ELSE IF p.t.k = "int" THEN Signed(v % 2^p.width, 2^p.width) ELSE v % 2^p.width

\* a oper b.
Wise(oper, x, y) == CASE oper = "&" -> x & y [] oper = "|" -> x | y [] oper = "^" -> x ^^ y
Truths == {"==", "!=", "<", ">", "<=", ">="}
\* Operands of the type t; the result before it is brought into t's range.
Arith1(oper, t, x, y) ==
  CASE oper = "+" -> x + y
    [] oper = "-" -> x - y
    [] oper = "*" -> x * y
    [] oper = "/" -> Quot(x, y)
    [] oper = "%" -> x - y * Quot(x, y)
    [] oper \in {"&", "|", "^"} ->
         Wise(oper, lo(x % Long), lo(y % Long)) + Word * Wise(oper, hi(x % Long), hi(y % Long))
    [] oper = "==" -> Truth(x = y)
    [] oper = "!=" -> Truth(x /= y)
    [] oper = "<" -> Truth(x < y)
    [] oper = ">" -> Truth(x > y)
    [] oper = "<=" -> Truth(x <= y)
    [] oper = ">=" -> Truth(x >= y)
Plain0(oper, a, b, t) ==
  [v |-> Fit(Arith1(oper, t, Fit(a.v, t), Fit(b.v, t)), t), t |-> IF oper \in Truths THEN T("int") ELSE t]
Shift0(oper, a, n, t) ==
  [v |-> Fit(IF oper = "<<" THEN a * 2^n ELSE a \div 2^n, t), t |-> t]
Arith0(oper, a, b) ==
  CASE a.t.k = "ptr" /\ b.t.k /= "ptr" /\ oper \in {"+", "-"} ->
         [v |-> a.v + (IF oper = "+" THEN b.v ELSE -b.v) * Size0(a.t.to), t |-> a.t]
    [] a.t.k /= "ptr" /\ b.t.k = "ptr" /\ oper = "+" -> [v |-> b.v + a.v * Size0(b.t.to), t |-> b.t]
    [] a.t.k = "ptr" /\ b.t.k = "ptr" /\ oper = "-" -> [v |-> Quot(a.v - b.v, Size0(a.t.to)), t |-> T("int")]
    [] oper \in {"<<", ">>"} -> Shift0(oper, Fit(a.v, Common(a.t, b.t)), b.v, Common(a.t, b.t))
    [] OTHER -> Plain0(oper, a, b, IF a.t.k = "ptr" THEN T("uint") ELSE Common(a.t, b.t))

Allocated0(s, t) == [s EXCEPT !.top = @ + Size0(t)]
Bound(s, name, t, adr) == [s EXCEPT !.env = (name :> [t |-> t, adr |-> adr]) @@ @]

\* What an expression or a statement does.
RECURSIVE Mean(_, _, _), Lval(_, _), Args(_, _), Apply(_, _, _), ExecAll(_, _), Init0(_, _, _, _), Repeat(_, _)
Eval(e, s) == Mean("value", e, s)
Exec(st, s) == Mean("effect", st, s)

Truthy(r) == r.v /= 0
Compound == ("+=" :> "+") @@ ("-=" :> "-") @@ ("*=" :> "*") @@ ("/=" :> "/") @@ ("%=" :> "%") @@ ("&=" :> "&") @@
            ("|=" :> "|") @@ ("^=" :> "^") @@ ("<<=" :> "<<") @@ (">>=" :> ">>")
Keeping(s, p, v) == Got(Put0(s, p, v), v, p.t)
Assign(oper, p, r) ==
  Keeping(r.s, p, Kept(p, IF oper = "=" THEN r.v
                          ELSE Arith0(Compound[oper], [v |-> Fetch0(r.s, p), t |-> p.t], r).v))
Valued(p) ==
  CASE p.t.k = "array" -> Got(p.s, p.adr, PtrTo(p.t.to))
    [] p.t.k = "func" -> Got(p.s, p.adr, PtrTo(p.t))
    [] OTHER -> Got(p.s, Fetch0(p.s, p), p.t)
UnaryOf(oper, r, t) ==
  CASE oper = "-" -> Got(r.s, Fit(-r.v, t), t)
    [] oper = "~" -> Got(r.s, Fit(-r.v - 1, t), t)
    [] oper = "!" -> Got(r.s, Truth(r.v = 0), T("int"))
StepTo(e, p, old, new) == Got(Put0(p.s, p, new), IF e = "pre" THEN new ELSE old, p.t)
StepBy(e, p, old, by) == StepTo(e[1], p, old, Kept(p, IF e[2] = "++" THEN old + by ELSE old - by))
StepAt(e, p) == StepBy(e, p, Fetch0(p.s, p), IF p.t.k = "ptr" THEN Size0(p.t.to) ELSE 1)
TruthOf(r) == Got(r.s, Truth(Truthy(r)), T("int"))
Logical(e, a) == IF Truthy(a) = (e[2] = "||") THEN TruthOf(a) ELSE TruthOf(Eval(e[4], a.s))
Resulting(s, r) == Got(s, r.v, r.t)
Operation(e, a) == LET With(b) == Resulting(b.s, Arith0(e[2], a, b)) IN With(Eval(e[4], a.s))
Calling0(e, f) ==
  LET With(as) == Apply(CHOOSE n \in DOMAIN f.s.funcs : f.s.funcs[n].adr = f.v, as.vs, as.s)
  IN With(Args(e[3], f.s))
LiteralAt(e, s, t) == Got(Init0(e, s.top, t, Allocated0(s, t)), s.top, PtrTo(T("char")))

ValueOf(e, s) ==
  LET Address(p) == Got(p.s, p.adr, PtrTo(p.t))
      Cast(r) == Got(r.s, Fit(r.v, e[2]), e[2])
      Chosen(r) == Eval(IF Truthy(r) THEN e[3] ELSE e[4], r.s)
      Into(p) == Assign(e[2], p, Eval(e[4], p.s))
      Second(r) == Eval(e[3], r.s)
      Unary0(r) == UnaryOf(e[2], r, Promoted(r.t))
  IN CASE e[1] = "num" -> Got(s, e[2], IF e[2] < Word \div 2 THEN T("int") ELSE T("long"))
       [] e[1] = "unum" -> Got(s, e[2], T("uint"))
       [] e[1] = "lnum" -> Got(s, e[2], T("long"))
       [] e[1] = "sizeof" -> Got(s, Size0(e[2]), T("int"))
       [] e[1] = "str" -> LiteralAt(e, s, ArrayOf(Len(e[2]) + 1, T("char")))
       [] e[1] \in {"id", "idx", ".", "->"} \/ (e[1] = "un" /\ e[2] = "*") -> Valued(Lval(e, s))
       [] e[1] = "un" /\ e[2] = "&" -> Address(Lval(e[3], s))
       [] e[1] = "un" /\ e[2] \in {"-", "~", "!"} -> Unary0(Eval(e[3], s))
       [] e[1] \in {"pre", "post"} -> StepAt(e, Lval(e[3], s))
       [] e[1] = "cast" -> Cast(Eval(e[3], s))
       [] e[1] = "asg" -> Into(Lval(e[3], s))
       [] e[1] = "cond" -> Chosen(Eval(e[2], s))
       [] e[1] = "comma" -> Second(Eval(e[2], s))
       [] e[1] = "call" -> Calling0(e, Eval(e[2], s))
       [] e[1] = "bin" /\ e[2] \in {"&&", "||"} -> Logical(e, Eval(e[3], s))
       [] OTHER -> Operation(e, Eval(e[3], s))

\* A place, with the state after what it took to find it.
At0(s, adr, m) == [s |-> s, adr |-> adr, t |-> m.t, width |-> m.width, at |-> m.at]
Lval(e, s) ==
  LET Plain(t, adr, type) == At0(t, adr, [t |-> type, width |-> 0, at |-> 0])
      Behind0(r) == Plain(r.s, r.v, r.t.to)
      Element(a, i) == Plain(i.s, a.v + i.v * Size0(a.t.to), a.t.to)
      Indexed(a) == Element(a, Eval(e[3], a.s))
      In(r, m) == At0(r.s, r.v + m.off, m)
      Member0(r) == In(r, (IF e[1] = "." THEN r.t ELSE r.t.to).members[e[3]])
  IN CASE e[1] = "id" -> Plain(s, s.env[e[2]].adr, s.env[e[2]].t)
       [] e[1] = "un" -> Behind0(Eval(e[3], s))
       [] e[1] = "idx" -> Indexed(Eval(e[2], s))
       [] e[1] \in {".", "->"} -> Member0(Eval(e[2], s))

Args(es, s) ==
  LET Rest(r, v) == [s |-> r.s, vs |-> <<v>> \o r.vs]
      First(r) == Rest(Args(Tail(es), r.s), r.v)
  IN IF es = <<>> THEN [s |-> s, vs |-> <<>>] ELSE First(Eval(Head(es), s))

\* A call: the parameters are variables of their own.
RECURSIVE Passed(_, _, _)
Passed(s, ps, vs) ==
  LET One(t, name, v) ==
        Passed(Store0(Bound(Allocated0(s, t), name, t, s.top), s.top, t, v), Tail(ps), Tail(vs))
  IN IF ps = <<>> THEN s ELSE One(ps[1][1], ps[1][2], vs[1])
RECURSIVE Run0(_, _)
Run0(body, s) == LET Again(r) == IF r.how[1] = "goto" THEN Run0(body, r) ELSE r IN Again(Exec(body, s))
Counted(s, n) == Got(Store0(s, CountAt, T("uint"), n), Fit(n, T("int")), T("int"))
Apply(name, vs, s) ==
  LET Back(r, t) == Got([r EXCEPT !.env = s.env, !.how = Running0],
                        IF t.k \in {"struct", "void"} THEN r.ret ELSE Fit(r.ret, t), t)
      Own(f) == Back(Run0(f.body, Passed([s EXCEPT !.env = s.global], f.params, vs)), f.ret)
  IN CASE name \in DOMAIN Externs /\ Externs[name] = "count" -> Counted(s, BytesAt(s, CountAt, 2) + 1)
       [] name \in DOMAIN Externs /\ Externs[name] = "sub" -> Got(s, Fit(vs[1] - 2 * vs[2], T("int")), T("int"))
       [] OTHER -> Own(s.funcs[name])

\* Initializers: a string, a list, or an expression; what a list leaves out
\* is zero.
RECURSIVE Elements(_, _, _, _, _, _), Members0(_, _, _, _, _)
FirstOf(es) == IF es = <<>> THEN <<"num", 0>> ELSE Head(es)
RestOf(es) == IF es = <<>> THEN es ELSE Tail(es)
Elements(es, adr, t, n, s, k) ==
  IF k = n THEN s ELSE Elements(RestOf(es), adr + Size0(t), t, n, Init0(FirstOf(es), adr, t, s), k + 1)
Members0(es, adr, t, names, s) ==
  LET One(m) == Members0(RestOf(es), adr, t, Tail(names), Init0(FirstOf(es), adr + m.off, m.t, s))
  IN IF names = <<>> THEN s ELSE One(t.members[Head(names)])
InOrder(t) == SetToSortSeq(DOMAIN t.members, LAMBDA x, y : t.members[x].off < t.members[y].off)
Init0(e, adr, t, s) ==
  LET Char(i) == IF i <= Len(e[2]) THEN e[2][i] ELSE 0
      Value0(r) == Store0(r.s, adr, t, IF t.k = "struct" THEN r.v ELSE Fit(r.v, t))
  IN CASE t.k = "array" /\ e[1] = "str" ->
            [s EXCEPT !.mem = [a \in DOMAIN s.mem |->
               IF a >= adr /\ a < adr + t.n THEN Char(a - adr + 1) ELSE s.mem[a]]]
       [] t.k = "array" /\ e[1] = "list" -> Elements(e[2], adr, t.to, t.n, s, 0)
       [] t.k = "array" /\ e[1] = "num" -> Elements(<<>>, adr, t.to, t.n, s, 0)
       [] t.k = "struct" /\ e[1] = "list" -> Members0(e[2], adr, t, InOrder(t), s)
       [] OTHER -> Value0(Eval(e, s))

Runs(s) == [s EXCEPT !.how = Running0]
Goes(s, how) == [s EXCEPT !.how = how]
Declared0(s, t, name) == Bound(Allocated0(s, t), name, t, s.top)
Static0(s, t, name, init) ==
  IF name \in DOMAIN s.statics THEN Bound(s, name, t, s.statics[name])
  ELSE Init0(init, s.low - Size0(t), t,
             [Bound(s, name, t, s.low - Size0(t)) EXCEPT !.low = @ - Size0(t),
                                                         !.statics = (name :> s.low - Size0(t)) @@ @])
\* Statements with others inside, when the flow looks for a label or a case in
\* them and when it does not.
Looking(st, s) ==
  LET Else0(a) == IF a.how = s.how /\ st[1] = "ifelse" THEN Exec(st[4], a) ELSE a
      Loop0(a) == IF a.how = s.how THEN a ELSE Repeat(st, a)
  IN CASE st[1] \in {"if", "ifelse"} -> Else0(Exec(st[3], s))
       [] st[1] = "while" -> Loop0(Exec(st[3], s))
       [] st[1] = "do" -> Loop0(Exec(st[2], s))
       [] OTHER -> s
Switched(body, s) ==
  LET Left(a) == IF a.how[1] \in {"default", "break"} THEN Runs(a) ELSE a
      Found(a) == IF a.how[1] = "case" THEN Exec(body, Goes(a, <<"default", 0>>)) ELSE a
  IN Left(Found(Exec(body, s)))
Tested0(st, c) ==
  CASE st[1] \in {"while", "loop"} -> IF Truthy(c) THEN Repeat(st, Exec(st[3], c.s)) ELSE c.s
    [] st[1] = "if" -> IF Truthy(c) THEN Exec(st[3], c.s) ELSE c.s
    [] st[1] = "ifelse" -> Exec(IF Truthy(c) THEN st[3] ELSE st[4], c.s)
    [] st[1] = "switch" -> Switched(st[3], Goes(c.s, <<"case", c.v>>))
    [] st[1] = "for" -> Exec(<<"loop", st[3], st[5], st[4]>>, c.s)
    [] st[1] = "return" -> [Goes(c.s, <<"return", 0>>) EXCEPT !.ret = c.v]
    [] st[1] = "expr" -> c.s
EffectOf(st, s) ==
  LET run == s.how = Running0
  IN CASE st[1] = "block" -> [ExecAll(st[2], s) EXCEPT !.env = s.env]
       [] st[1] = "label" -> IF s.how = <<"goto", st[2]>> THEN Runs(s) ELSE s
       [] st[1] = "case" -> IF s.how[1] = "case" /\ s.how[2] = Eval(st[2], s).v THEN Runs(s) ELSE s
       [] st[1] = "default" -> IF s.how[1] = "default" THEN Runs(s) ELSE s
       [] st[1] = "decl" -> Declared0(s, st[2], st[3])
       [] st[1] = "static" -> Static0(s, st[2], st[3], st[4])
       [] run /\ st[1] = "init" -> Init0(st[4], s.top, st[2], Declared0(s, st[2], st[3]))
       [] run /\ st[1] = "goto" -> Goes(s, <<"goto", st[2]>>)
       [] run /\ st[1] \in {"break", "continue"} -> Goes(s, <<st[1], 0>>)
       [] run /\ st[1] = "leave" -> Goes(s, <<"return", 0>>)
       [] run /\ st[1] = "do" -> Repeat(st, Exec(st[2], s))
       [] run /\ st[1] \in {"if", "ifelse", "while", "loop", "for", "switch", "return", "expr"} ->
            Tested0(st, Eval(st[2], s))
       [] ~run /\ Seeking(s) -> Looking(st, s)
       [] OTHER -> s
\* Behind the body of a loop, whose third part is the step of a for.
Repeat(st, s) ==
  LET Test0(c) == IF Truthy(c) THEN Exec(st, c.s) ELSE c.s
  IN CASE s.how[1] = "break" -> Runs(s)
       [] s.how[1] \in {"run", "continue"} /\ st[1] = "while" -> Exec(st, Runs(s))
       [] s.how[1] \in {"run", "continue"} /\ st[1] = "loop" -> Exec(st, Eval(st[4], Runs(s)).s)
       [] s.how[1] \in {"run", "continue"} /\ st[1] = "do" -> Test0(Eval(st[3], Runs(s)))
       [] OTHER -> s
ExecAll(ss, s) == IF ss = <<>> THEN s ELSE ExecAll(Tail(ss), Exec(Head(ss), s))
Mean(what, x, s) == IF what = "value" THEN ValueOf(x, s) ELSE EffectOf(x, s)

\* What running the function main leaves: the value returned and the memory.
\* globals: [t, adr] by name; funcs: [params, ret, body, adr] by name.
Meaning(globals, funcs, main, mem, top, low) ==
  LET Left(r) == [ret |-> r.v, mem |-> r.s.mem]
  IN Left(Apply(main, <<>>, [mem |-> mem, env |-> globals, global |-> globals, top |-> top, low |-> low,
                             funcs |-> funcs, ret |-> 0, statics |-> <<>>, how |-> Running0]))
=============================================================================
