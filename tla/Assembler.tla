------------------------------ MODULE Assembler ------------------------------
(***************************************************************************)
(* Small Assembler (asm1.c, asm2.c): a prescan of the source for EXTRN, a  *)
(* pass that tables the symbols, the front matter of the object file, and  *)
(* a second pass that generates code.  One action per kind of line; a line *)
(* comes from the file, or from the macro that is being expanded.          *)
(*                                                                         *)
(* src is the source, a the assembler's variables, w the writer of data    *)
(* records (ObjRecords), obj the rest of the object file, made what pass 2 *)
(* has generated, line by line: it is there to be compared with the object.*)
(***************************************************************************)
EXTENDS AsmDirectives, ObjRecords

CONSTANT Sources   \* the programs to assemble, a sequence

VARIABLES src, a, w, obj, made
vars == <<src, a, w, obj, made>>

Init ==
  /\ \E i \in DOMAIN Sources : src = Sources[i]
  /\ a = [phase |-> "prescan", pass |-> 1, pos |-> 1,
          st |-> ("?" :> [NoSymbol EXCEPT !.fl = {"SET"}]), stp |-> <<"?">>,
          loc |-> 0, iloc |-> 0, et2 |-> NullType, items |-> <<>>, close |-> "",
          segptr |-> "", segndx |-> 0, proptr |-> "", seglast |-> 0, grplast |-> 0,
          exthead |-> "", assume |-> [x \in 1 .. MAXSEG |-> <<>>], CScheck |-> FALSE,
          eom |-> FALSE, start |-> <<>>, lerr |-> {}, errors |-> 0,
          defmode |-> FALSE, expmode |-> FALSE, mt |-> <<>>, mac |-> 0, mline |-> 0,
          par |-> <<>>, mlnext |-> 0, mlnbr |-> [k \in 0 .. 9 |-> 0]]
  /\ w = NoRecords
  /\ obj = [names |-> <<>>, segs |-> <<>>, groups |-> <<>>, exts |-> <<>>, pubs |-> <<>>,
            start |-> <<>>, deleted |-> FALSE]
  /\ made = <<>>

-----------------------------------------------------------------------------
(* prescan: the external names of the whole file, whatever is around them. *)

\* Mutant: the end of the file takes it back to the beginning.
PrescanAgain ==
  /\ a.phase = "prescan"
  /\ a' = IF a.pos > Len(src) THEN [a EXCEPT !.pos = 1]
          ELSE [(IF src[a.pos].op = "EXTRN" THEN doextrn(a, src[a.pos].args) ELSE a)
                  EXCEPT !.pos = @ + 1]
  /\ UNCHANGED <<src, w, obj, made>>

Prescan ==
  /\ a.phase = "prescan"
  /\ a' = IF a.pos > Len(src)
          THEN [a EXCEPT !.phase = "pass", !.pos = 1]
          ELSE [(IF src[a.pos].op = "EXTRN" THEN doextrn(a, src[a.pos].args) ELSE a)
                  EXCEPT !.pos = @ + 1]
  /\ UNCHANGED <<src, w, obj, made>>

-----------------------------------------------------------------------------
(* Macros.                                                                 *)

\* the line that is read next
Fetched == IF a.expmode THEN a.mt[a.mac].body[a.mline] ELSE src[a.pos]
MoreLines == a.phase = "pass" /\ (a.expmode \/ (~a.eom /\ a.pos <= Len(src)))

\* mtfind: the first macro of this name
mtfind(n) == SelectInSeq(a.mt, LAMBDA m : m.name = n)

\* macop: what a line's operation says to the macro facility.  The code looks for
\* it in the second field and then in the first: no label or operand may have the
\* name of a macro
macop(ln) ==
  CASE ln.op \in {"ENDM", "MACRO"} -> ln.op
    [] ~a.expmode /\ ~a.defmode /\ mtfind(ln.op) /= 0 -> "CALL"
    [] OTHER -> ""

\* @0 to @9 stand for labels that every expansion has of its own
AtLabels == [k \in 0 .. 9 |-> "@" \o ToString(k)]
IsAtLabel(n) == n \in Range(AtLabels)
AtLabel(n) == CHOOSE k \in 0 .. 9 : n = AtLabels[k]

RECURSIVE Number(_, _)
\* replace, labels: each gets a number when an expansion first meets it
Number(s, syms) ==
  IF syms = <<>> THEN s
  ELSE LET k == AtLabel(Head(syms))
       IN  Number(IF s.mlnbr[k] /= 0 THEN s
                  ELSE [s EXCEPT !.mlnext = @ + 1, !.mlnbr[k] = s.mlnext + 1],
                  Tail(syms))

Label(s, n) == IF IsAtLabel(n) THEN "@" \o ToString(s.mlnbr[AtLabel(n)]) ELSE n

\* replace, an operand: ?k is the k-th parameter of the call
Parameter(s, op) ==
  CASE op.term = "par" -> IF op.num <= Len(s.par) THEN s.par[op.num] ELSE NoOperand
    [] op.term = "sym" -> [op EXCEPT !.sym = Label(s, @)]
    [] OTHER -> op

\* replace: the line of a macro with labels and parameters put in
replace(s, ln) ==
  LET s1 == Number(s, SelectSeq(<<ln.lab>> \o [i \in DOMAIN ln.args |-> ln.args[i].sym],
                                IsAtLabel))
  IN  [s |-> s1, ln |-> [ln EXCEPT !.lab = Label(s1, @),
                           !.args = [i \in DOMAIN @ |-> Parameter(s1, @[i])]]]

-----------------------------------------------------------------------------
(* The end of a line: its errors are counted in pass 2, what it generated  *)
(* is written, and the next line is fetched.                               *)

RECURSIVE PutItems(_, _)

\* setdata and putLEDATA, putLEDFIX or putLIDATA for each item
PutItems(o, items) ==
  IF items = <<>> THEN o
  ELSE LET i  == Head(items)
           o1 == setdata(o, IF i.kind = "dup" THEN "LIDATA" ELSE "LEDATA", i.seg, i.at)
       IN  PutItems(CASE i.kind = "abs" -> putLEDATA(o1, i.b)
                      [] i.kind = "rel" -> putLEDFIX(o1, i.n, i.fix)
                      [] i.kind = "dup" -> putLIDATA(o1, i.n, i.b), Tail(items))

Closed(o, s) == CASE s.close = "ENDS" -> setdata(o, "", 0, 0)
                  [] s.close = "ORG" /\ o.rec /= "" ->
                       begDATA(endDATA(o), o.rec, s.segndx, s.loc)
                  [] OTHER -> o

gripe(s) == [s EXCEPT !.errors = IF s.pass = 2 /\ s.lerr /= {} THEN @ + 1 ELSE @]

\* getmac or fgets
Next_line(s) == IF s.expmode THEN [s EXCEPT !.mline = IF a.expmode THEN @ + 1 ELSE 1]
                ELSE [s EXCEPT !.pos = @ + 1]

Blank(s) == [s EXCEPT !.lerr = {}, !.items = <<>>, !.close = ""]

\* ln has been processed and left the variables s
EndLine(s, ln) ==
  /\ a' = IF s.phase = "fatal" THEN s ELSE Next_line(gripe(s))
  /\ w' = IF s.pass = 2 /\ s.phase /= "fatal" THEN Closed(PutItems(w, s.items), s) ELSE w
  /\ made' = IF s.pass = 1 \/ a.defmode THEN made
             ELSE Append(made, [ln |-> ln, at |-> a.loc, seg |-> a.segndx, items |-> s.items,
                                open |-> a.segptr /= "", assume |-> s.assume])
  /\ UNCHANGED <<src, obj>>

-----------------------------------------------------------------------------
(* dopass: the lines of macro definitions and calls.                       *)

Reading == MoreLines /\ ~a.defmode

\* a line of a definition: kept in pass 1, as it is
DefinitionLine ==
  /\ MoreLines
  /\ a.defmode
  /\ EndLine([Blank(a) EXCEPT !.defmode = Fetched.op /= "ENDM",
                !.mt = IF a.pass = 2 \/ @ = <<>> THEN @
                       ELSE [@ EXCEPT ![Len(@)].body = Append(@, Fetched)]], Fetched)

\* name MACRO
MacroLine ==
  /\ Reading
  /\ macop(Fetched) = "MACRO"
  /\ EndLine([Blank(a) EXCEPT !.defmode = TRUE,
                !.mt = IF a.pass = 2 THEN @
                       ELSE Append(@, [name |-> Fetched.name, body |-> <<>>])], Fetched)

\* a call: its parameters are kept, its label is an ordinary one
MacroCall ==
  /\ Reading
  /\ macop(Fetched) = "CALL"
  /\ LET s == [Blank(a) EXCEPT !.expmode = TRUE, !.mac = mtfind(Fetched.op),
                  !.par = Fetched.args, !.mlnbr = [k \in DOMAIN @ |-> 0]]
         s1 == IF Len(Fetched.args) > 10 THEN err(s, "PARAMETER") ELSE s
     IN  EndLine(dolabel(s1, Fetched.lab), Fetched)

EndMacro ==
  /\ Reading
  /\ macop(Fetched) = "ENDM"
  /\ EndLine([Blank(a) EXCEPT !.expmode = FALSE], Fetched)

-----------------------------------------------------------------------------
(* dopass: instructions.  A label is processed first.                      *)

\* the fetched line after replace and dolabel
Replaced == IF a.expmode THEN replace(Blank(a), Fetched) ELSE [s |-> Blank(a), ln |-> Fetched]
Labelled == dolabel(Replaced.s, Replaced.ln.lab)

Ordinary(ops) == Reading /\ macop(Fetched) = "" /\ Fetched.op \in ops

\* doasm complains of a label in front of an assembler instruction
Directed == IF Fetched.lab = "" THEN Labelled ELSE err(Labelled, "SYNTAX")

Effect(s) == IF Labelled.phase = "fatal" THEN EndLine(Labelled, Fetched)
             ELSE EndLine(s, Replaced.ln)

LabelLine   == Ordinary({""}) /\ Effect(Labelled)
MachineLine == Ordinary(Mnemonics) /\ Effect(domach(Labelled, Replaced.ln))
DataLine    == Ordinary({"DB", "DW", "DD"}) /\ Effect(dodata(Directed, Replaced.ln))
ExtrnLine   == Ordinary({"EXTRN"}) /\ Effect(doextrn(Directed, Fetched.args))
SetLine     == Ordinary({"="}) /\ Effect(doset(Directed, Replaced.ln))
EquLine     == Ordinary({"EQU"}) /\ Effect(doequ(Directed, Replaced.ln))
GroupLine   == Ordinary({"GROUP"}) /\ Effect(dogroup(Directed, Fetched))
OrgLine     == Ordinary({"ORG"}) /\ Effect(doorg(Directed, Replaced.ln))
PublicLine  == Ordinary({"PUBLIC"}) /\ Effect(dopublic(Directed, Fetched.args))
SegmentLine == Ordinary({"SEGMENT"}) /\ Effect(dosegment(Directed, Fetched))
EndsLine    == Ordinary({"ENDS"}) /\ Effect(doends(Directed, Fetched))
AssumeLine  == Ordinary({"ASSUME"}) /\ Effect(doassume(Directed, Fetched.args))
ProcLine    == Ordinary({"PROC"}) /\ Effect(doproc(Directed, Fetched))
EndpLine    == Ordinary({"ENDP"}) /\ Effect(doendp(Directed))
EndLineOfModule == Ordinary({"END"}) /\ Effect(doend(Directed, Replaced.ln))

Directives == {"", "DB", "DW", "DD", "EXTRN", "=", "EQU", "GROUP", "ORG", "PUBLIC", "SEGMENT",
               "ENDS", "ASSUME", "PROC", "ENDP", "END"}

\* what is neither a machine instruction nor an assembler instruction
InvalidLine ==
  /\ Reading
  /\ macop(Fetched) = ""
  /\ Fetched.op \notin Mnemonics \cup Directives
  /\ Effect(err(Directed, "INVALID"))

-----------------------------------------------------------------------------
(* The front matter, between the passes.                                   *)

SymbolsWith(fl) == SelectSeq(a.stp, LAMBDA n : flags(a, n) \cap fl /= {})

\* Mutant: the null name is not counted.
NameIndexFromZero(n) == SelectInSeq(SymbolsWith({"SEG", "GRP", "CLS"}), LAMBDA m : m = n)

\* the index of a name in LNAMES; the first one is the null name
NameIndex(n) == SelectInSeq(SymbolsWith({"SEG", "GRP", "CLS"}), LAMBDA m : m = n) + 1

EndPass1 ==
  /\ a.phase = "pass" /\ a.pass = 1 /\ ~MoreLines
  /\ a' = [nosegs(a) EXCEPT !.phase = "names"]
  /\ UNCHANGED <<src, w, obj, made>>

\* a class takes the index of its name
putNAMs ==
  /\ a.phase = "names"
  /\ obj' = [obj EXCEPT !.names = <<"">> \o SymbolsWith({"SEG", "GRP", "CLS"})]
  /\ a' = [a EXCEPT !.phase = "segs",
                    !.st = [n \in DOMAIN @ |-> IF "CLS" \in @[n].fl
                                               THEN [@[n] EXCEPT !.x = NameIndex(n)] ELSE @[n]]]
  /\ UNCHANGED <<src, w, made>>

\* Mutant: the counters go on where pass 1 has left them.
putSEGsNoReset ==
  LET segs == SymbolsWith({"SEG"}) IN
  /\ a.phase = "segs"
  /\ obj' = [obj EXCEPT !.segs =
                [i \in DOMAIN segs |->
                   [name |-> NameIndex(segs[i]), len |-> a.st[segs[i]].val,
                    align |-> a.st[segs[i]].align, comb |-> a.st[segs[i]].comb,
                    class |-> IF a.st[segs[i]].link = "" THEN 1
                              ELSE a.st[a.st[segs[i]].link].x]]]
  /\ a' = [a EXCEPT !.phase = "groups"]
  /\ UNCHANGED <<src, w, made>>

\* the location counters are the lengths, and begin again at zero
putSEGs ==
  LET segs == SymbolsWith({"SEG"}) IN
  /\ a.phase = "segs"
  /\ obj' = [obj EXCEPT !.segs =
                [i \in DOMAIN segs |->
                   [name |-> NameIndex(segs[i]), len |-> a.st[segs[i]].val,
                    align |-> a.st[segs[i]].align, comb |-> a.st[segs[i]].comb,
                    class |-> IF a.st[segs[i]].link = "" THEN 1
                              ELSE a.st[a.st[segs[i]].link].x]]]
  /\ a' = [a EXCEPT !.phase = "groups",
                    !.st = [n \in DOMAIN @ |-> IF "SEG" \in @[n].fl
                                               THEN [@[n] EXCEPT !.val = 0] ELSE @[n]]]
  /\ UNCHANGED <<src, w, made>>

putGRPs ==
  LET groups == SymbolsWith({"GRP"}) IN
  /\ a.phase = "groups"
  /\ obj' = [obj EXCEPT !.groups = [i \in DOMAIN groups |->
                [name |-> NameIndex(groups[i]), segs |-> a.st[groups[i]].list]]]
  /\ a' = [a EXCEPT !.phase = "exts"]
  /\ UNCHANGED <<src, w, made>>

RECURSIVE Chain(_)
Chain(n) == IF n = "" THEN <<>> ELSE <<n>> \o Chain(a.st[n].link)

\* the externals are numbered along the chain
putEXTs ==
  LET exts == Chain(a.exthead) IN
  /\ a.phase = "exts"
  /\ obj' = [obj EXCEPT !.exts = exts]
  /\ a' = [a EXCEPT !.phase = "pubs",
                    !.st = [n \in DOMAIN @ |->
                              IF Contains(exts, n)
                              THEN [@[n] EXCEPT !.x = SelectInSeq(exts, LAMBDA m : m = n)]
                              ELSE @[n]]]
  /\ UNCHANGED <<src, w, made>>

\* a record for each run of publics of one segment; the last one is written only
\* if it has a segment
putPUBs ==
  LET pubs == SymbolsWith({"PUB"})
      kept == {i \in DOMAIN pubs : \E j \in i .. Len(pubs) : a.st[pubs[j]].x /= 0}
  IN
  /\ a.phase = "pubs"
  /\ obj' = [obj EXCEPT !.pubs = [i \in 1 .. Cardinality(kept) |->
                [name |-> pubs[i], seg |-> a.st[pubs[i]].x, off |-> a.st[pubs[i]].val]]]
  /\ a' = [a EXCEPT !.phase = "pass", !.pass = 2, !.pos = 1, !.segptr = "", !.proptr = "",
                    !.loc = 0, !.mlnext = 0, !.eom = FALSE]
  /\ UNCHANGED <<src, w, made>>

-----------------------------------------------------------------------------
(* The end of pass 2.                                                      *)

EndPass2 ==
  /\ a.phase = "pass" /\ a.pass = 2 /\ ~MoreLines
  /\ a' = [a EXCEPT !.phase = "modend",
                    !.errors = IF a.defmode \/ ~a.eom THEN @ + 1 ELSE @]
  /\ UNCHANGED <<src, w, obj, made>>

\* the object file is closed, and deleted when there were errors
putMODEND ==
  /\ a.phase = "modend"
  /\ obj' = [obj EXCEPT !.start = a.start, !.deleted = a.errors > 0]
  /\ a' = [a EXCEPT !.phase = "done"]
  /\ UNCHANGED <<src, w, made>>

Over == a.phase \in {"done", "fatal"}

Next ==
  \/ Prescan \/ DefinitionLine \/ MacroLine \/ MacroCall \/ EndMacro
  \/ LabelLine \/ MachineLine \/ DataLine \/ ExtrnLine \/ SetLine \/ EquLine
  \/ GroupLine \/ OrgLine \/ PublicLine \/ SegmentLine \/ EndsLine \/ AssumeLine
  \/ ProcLine \/ EndpLine \/ EndLineOfModule \/ InvalidLine
  \/ EndPass1 \/ putNAMs \/ putSEGs \/ putGRPs \/ putEXTs \/ putPUBs
  \/ EndPass2 \/ putMODEND
  \/ Over /\ UNCHANGED vars

\* The assembler does not stop by itself.  Every phase but the last two has a
\* step, so this is weak fairness of Next, without ENABLED.
Fairness == <>[]~Over => []<><<TRUE>>_vars
Spec == Init /\ [][Next]_vars /\ Fairness
=============================================================================
