------------------------------- MODULE MC_Link -------------------------------
(***************************************************************************)
(* One object file, 1, and three library modules: 2 has the start address  *)
(* and refers to main, as CALL.ASM does; 3 has code, and 4 data.           *)
(***************************************************************************)
EXTENDS Linker, TLC

CONSTANT CodeSizes

(* Names are strings of these characters; "R" is "r" in capitals.          *)
Upper == [ch \in {"", "m", "c", "d", "_", "r", "R", "u"} |-> IF ch = "r" THEN "R" ELSE ch]

Public(x, m, s, a) == [name |-> x, mod |-> m, seg |-> s, addr |-> a]
Read == <<"_", "r">>

(* "r_" begins with the last letter of the name "_r".  No name is the tail  *)
(* of another: MatchName() takes such a tail for the name (see README.md). *)
Publics ==
    <<Public(<<"m">>, 1, "code", 0), Public(<<"c">>, 2, "code", 3), Public(Read, 3, "code", 1),
      Public(<<"r", "_">>, 4, "data", 2),
      Public(<<"d">>, 4, "data", 0)>>

Names == {Publics[p].name : p \in 1 .. 4}
NamesAndMore == Names \cup {<<"_", "R">>, <<"u">>}
Lists(S, n) == UNION {[1 .. j -> S] : j \in 0 .. n}

AllPrograms ==
    {<<main, <<<<"m">>>>, l3, l4>> :
        main \in Lists(NamesAndMore, 2), l3 \in Lists(Names, 1), l4 \in Lists(Names, 1)}

AllSizes ==
    {[m \in 1 .. 4 |-> [code |-> CASE m = 1 -> c [] m = 4 -> 0 [] OTHER -> 17,
                        data |-> IF m \in {1, 4} THEN 3 ELSE 0]] : c \in CodeSizes}

AllSites ==
    {[mod |-> m, ext |-> j, at |-> 3 * j, near |-> (m + j) % 2 = 0] : m \in 1 .. 3, j \in 1 .. 2}

(* Module 2 has its SEGDEFs in the order of CALL.ASM.                       *)
Segs == <<<<"code", "data">>, <<"data", "stack", "code">>, <<"code", "data">>, <<"code", "data">>>>

Ref(m, s, a, t, o, kind) == [mod |-> m, in |-> s, at |-> a, to |-> t, off |-> o, kind |-> kind]
AllSegSites ==
    {Ref(1, "code", 1, 2, 0, "base"), Ref(1, "data", 0, 1, 3, "offset"),
     Ref(2, "code", 9, 1, 0, "base"), Ref(2, "code", 11, 2, 0, "base"), Ref(2, "code", 14, 3, 7, "offset"),
     Ref(3, "code", 9, 1, 0, "near"), Ref(3, "code", 11, 1, 0, "base"), Ref(3, "code", 15, 2, 0, "offset"),
     Ref(4, "data", 1, 2, 2, "offset")}

Starts == 2 :> 5
OvlCheck == <<"d">>
=============================================================================
