---------------------------- MODULE MC_Preprocess ----------------------------
(***************************************************************************)
(* The programs that TLC reads, in families: every sequence of a few       *)
(* directives for the groups and for the macro table, and single programs  *)
(* for files, comments and #asm.  Three slots, two levels of includes.     *)
(***************************************************************************)
EXTENDS CReading

Id(n)      == <<"id", n>>
Num(k)     == <<"num", k>>
Str(p)     == <<"str", p>>
L_         == <<"pre", "__LINE__">>
F_         == <<"pre", "__FILE__">>
IfD(n)     == <<Dir("ifdef"), Id(n)>>
IfN(n)     == <<Dir("ifndef"), Id(n)>>
ElseL      == <<Dir("else")>>
EndL       == <<Dir("endif")>>
ErrorL     == <<Dir("error")>>
Def(n, v)  == <<Dir("define"), Id(n)>> \o v
Und(n)     == <<Dir("undef"), Id(n)>>
LineL(k)   == <<Dir("line"), Num(k)>>
LineF(k, p) == Append(LineL(k), Str(p))
Inc(p)     == <<Dir("include"), <<"file", [angle |-> FALSE, path |-> p]>> >>
IncSys(p)  == <<Dir("include"), <<"file", [angle |-> TRUE, path |-> p]>> >>
Names4     == {"A", "B", "C", "D"}
AllNames   == <<Id("A"), Id("B"), Id("C"), Id("D")>>

m  == <<"m">>
m2 == <<"m2">>
h  == <<"h">>
Sys == <<"bin">>

One(lines) == [args |-> <<m>>, files |-> m :> lines]
Many(args, files) == [args |-> args, files |-> files]

-----------------------------------------------------------------------------
(* Groups that end, each with an #else or without; A is defined, B is not; *)
(* a line of text behind every directive.                                  *)
Level(s, k) == Cardinality({i \in 1 .. k : s[i] \in {IfD("A"), IfN("A")}})
                 - Cardinality({i \in 1 .. k : s[i] = EndL})
Groups(n) ==
  {One(<<Def("A", <<>>)>> \o
       FlattenSeq([i \in 1 .. n |-> <<s[i], <<Num(i)>>>>]))
     : s \in {s \in [1 .. n -> {IfD("A"), IfN("A"), ElseL, EndL}] :
                /\ Level(s, n) = 0
                /\ \A k \in 1 .. n : Level(s, k) >= (IF s[k] = ElseL THEN 1 ELSE 0)}}

(* The table of three slots, from empty and from full; the hashes of A, B  *)
(* and D collide.  No name is defined twice without an #undef.             *)
Updates == {Def(n, <<Num(1)>>) : n \in Names4} \cup {Und(n) : n \in Names4}
Fresh(s) == \A i, j \in DOMAIN s :
              i < j /\ s[i] = s[j] /\ s[i][1] = Dir("define")
                => \E k \in i .. j : s[k] = Und(s[i][2][2])
Tables ==
  {One(s \o <<AllNames>>) : s \in {s \in [1 .. 4 -> Updates] : Fresh(s)}} \cup
  {One(s \o <<AllNames>>) : s \in {s \in {<<Def("A", <<Num(1)>>), Def("B", <<Num(1)>>), Def("C", <<Num(1)>>)>> \o t :
                                            t \in [1 .. 5 -> Updates]} : Fresh(s)}}

(* Texts of other macros, also of ones that are not defined yet.           *)
Texts ==
  {One(s \o <<AllNames>>)
     : s \in [1 .. 3 -> {Def("A", <<Num(1)>>), Def("B", <<Id("A"), Num(2)>>), Def("C", <<Id("B"), Id("A")>>),
                         Def("D", <<>>), Def("A", <<Id("A")>>), Und("A"), AllNames}]}
Filling == {One([i \in 1 .. 2 * k |-> IF i % 2 = 1 THEN Def("A", <<Num(i), Num(i)>>) ELSE Und("A")]
                \o <<Def("B", <<Num(0)>>), AllNames>>) : k \in 1 .. 5}

-----------------------------------------------------------------------------
Where == <<L_, F_>>
Guarded == <<IfN("A"), Def("A", <<Num(1)>>), Where, EndL>>
HeadLines == {Where, LineL(20), LineF(30, h), IfD("A"), EndL}

Includes ==
  {Many(<<m>>, (m :> <<Where, Inc(h), Where>> \o s \o <<Inc(h), Where>>) @@ (h :> t \o <<Where>>))
     : s \in [1 .. 2 -> {Where, LineL(9), LineF(5, m2), Def("A", <<>>), IncSys(h)}],
       t \in [1 .. 2 -> HeadLines]}

Files == {
  \* a header that guards itself, and one that includes itself
  Many(<<m>>, (m :> <<Inc(h), Where, Inc(h), <<Id("A")>>, Where>>) @@ (h :> Guarded)),
  Many(<<m>>, (m :> <<Inc(h), Where>>) @@ (h :> <<Where, Inc(h), Where>>)),
  Many(<<m>>, (m :> <<Inc(h), Where>>) @@ (h :> <<IfN("A"), Def("A", <<>>), Inc(h), ElseL, Where, EndL>>)),
  \* the end of the line of an #include is in a comment
  Many(<<m>>, (m :> <<Append(Inc(h), Open), <<Close>>, Where>>) @@ (h :> Guarded)),
  \* three levels are one too many, and a file may be missing
  Many(<<m>>, (m :> <<Inc(h), Where>>) @@ (h :> <<Inc(m2), Where>>) @@
              (m2 :> <<Where, Inc(<<"k">>), Where>>) @@ (<<"k">> :> <<<<Num(1)>>>>)),
  One(<<Inc(h), Where, IncSys(h)>>),
  \* directories: of the file with the #include, and of the compiler
  Many(<<m>>, (m :> <<Inc(<<"s", "h">>), Inc(<<"k">>), Where>>) @@
              (<<"s", "h">> :> <<LineF(7, <<"s", "y">>), Inc(<<"k">>), IncSys(<<"k">>), Where>>) @@
              (<<"s", "k">> :> <<Where, <<Num(2)>>>>) @@ (<<"k">> :> <<Where, Def("A", <<Id("B")>>)>>) @@
              (<<"bin", "k">> :> <<Where, Def("A", <<Num(3)>>), <<Id("A")>>, Und("A")>>)),
  \* macros live on in the next source file, line numbers and groups do not
  Many(<<m, m2>>, (m :> <<Def("A", <<Num(1)>>), LineL(8), Where>>) @@ (m2 :> <<Where, IfD("A"), AllNames, EndL>>)),
  Many(<<m, m2>>, (m :> <<IfD("A"), ErrorL, <<>>, EndL, Where>>) @@ (m2 :> <<Where, ErrorL, Where>>)),
  \* a group that is left open goes on behind the file; the file is not C
  Many(<<m>>, (m :> <<Inc(h), Where>>) @@ (h :> <<IfD("A")>>)),
  One(<<ElseL, EndL, Where>>),
  \* directives without their name or number
  One(<<<<Dir("undef"), Num(1)>>, <<Dir("line"), Id("A")>>, <<Dir("line")>>, Where>>),
  One(<<<<Dir("ifdef")>>, Where, ElseL, Where, EndL>>),
  \* an empty macro that is defined again: the definition takes the next line
  One(<<Def("A", <<>>), Def("A", <<>>), <<Id("B"), Num(2)>>, AllNames>>),
  One(<<Def("A", <<>>), Def("A", <<>>)>>),
  \* an illegal name takes the next line with it, if it is all there is
  One(<<<<Dir("define"), Num(1)>>, <<>>, Where, Where>>),
  One(<<Def("A", <<Num(1)>>), Def("A", <<>>), Def("B", <<Num(2)>>), Where, AllNames>>),
  One(<<Def("A", <<>>), Def("A", <<>>), <<Num(3)>>, Where, AllNames>>),
  \* names and line numbers beyond those C allows
  One(<<<<Dir("undef"), L_>>, Where>>),
  One(<<LineL(32767), Where, Where>>),
  One(<<LineL(40000), Where>>) }

Comments == {One(s) : s \in {
  << <<Num(1), Open, Num(2), Close, L_, Rest, Num(3), Open>>, <<L_>> >>,
  << <<L_, Open, L_>>, <<>>, <<Num(2), Rest, Open>>, <<L_, Close, L_, Open>>, <<Close, L_>> >>,
  \* the end of a line may be in a comment, also that of a directive
  << <<Dir("define"), Id("A"), Num(1), Open>>, <<Num(2)>>, <<Close, Num(3)>>, <<Id("A"), L_>> >>,
  << <<Open>>, Def("A", <<Num(1)>>), Inc(h), <<Close, Id("A")>>, <<Id("A"), L_>> >>,
  << IfD("A"), <<Open>>, <<Close, Num(1)>>, EndL, <<L_>> >>,
  << <<Dir("ifdef"), Id("A"), Open, Close>>, <<L_>>, <<Dir("endif"), Rest, Num(1)>>, <<L_>> >>,
  \* directives in comments, which Small-C obeys, and comments behind them
  << <<Open>>, Und("A"), IfD("A"), <<Close, L_>>, <<L_>>, EndL >>,
  << IfN("A"), <<Dir("endif"), Open>>, <<Num(1), Close>>, <<L_>> >>,
  << <<Dir("define"), Num(1), Num(2)>>, <<L_>> >>,
  \* comments that stay open: the parser gets part of the last line
  << <<Num(1), Open, Num(2), L_>> >>,
  << <<Open, Id("A")>>, <<>> >>,
  << Def("A", <<>>), Def("A", <<>>), <<Open, Id("B"), Num(2)>> >>,
  << <<Open>>, Def("A", <<Num(1)>>) >>,
  << <<Open>>, Inc(h) >> }}

AsmBlocks == {One(s) : s \in {
  << Def("A", <<Num(1)>>), <<Dir("asm")>>, <<Id("A"), Open>>, <<>>, IfD("B"), <<L_>>, <<Dir("endasm")>>,
     <<Id("A"), L_>> >>,
  << IfD("A"), <<Dir("asm")>>, <<Id("A")>>, <<Dir("endasm")>>, ElseL, <<Dir("asm")>>, <<Id("B")>>,
     <<Dir("endasm")>>, EndL, <<L_>> >>,
  << <<L_>>, <<Dir("asm")>>, <<Id("A")>> >> }}

-----------------------------------------------------------------------------
MCPrograms == Groups(6) \cup Tables \cup Texts \cup Filling \cup Includes \cup Files
                \cup Comments \cup AsmBlocks
MCHash == [n \in Names4 |-> IF n = "C" THEN 1 ELSE 0]
=============================================================================
