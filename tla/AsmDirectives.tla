---------------------------- MODULE AsmDirectives ----------------------------
(***************************************************************************)
(* The assembler instructions of Small Assembler (asm2.c, dolabel of       *)
(* asm1.c): what each does to the assembler's variables s in either pass.  *)
(* s.close says what is to become of the open data record: "ENDS" ends it, *)
(* "ORG" goes on in another one.                                           *)
(*                                                                         *)
(* Left out are .CASE and the switches of the processor (.186 to .387), and *)
(* the data directives DF, DQ and DT.                                      *)
(*                                                                         *)
(* A name that an EQU or = finds defined otherwise is reported and left as *)
(* it is; the code goes on with an undefined pointer there.                *)
(***************************************************************************)
EXTENDS AsmInstr

CONSTANT MAXSEG   \* segments a module can have

\* the items of data directives: a string, a repeated value
String(b)     == [term |-> "string", b |-> b]
Dup(count, e) == [term |-> "dup", count |-> count, e |-> e]
Sizes8 == [DB |-> 1, DW |-> 2, DD |-> 4]

-----------------------------------------------------------------------------
(* Labels and data.                                                        *)

\* dolabel: table it in pass 1, find it where it was in pass 2
dolabel(s, n) ==
  IF n = "" THEN s
  ELSE IF s.pass = 1
  THEN IF flags(s, n) \ {"PUB"} /= {} THEN orflags(s, n, {"RED"})
       ELSE LET s1 == orflags(setval2(addsym(s, n), n, s.loc), n, {"COD"})
            IN  [s1 EXCEPT !.st[n].x = s.segndx]
  ELSE IF ~stfind(s, n) THEN [s EXCEPT !.phase = "fatal"]
  ELSE LET s1 == IF flags(s, n) \subseteq {"COD", "FAR", "PUB"} THEN s ELSE err(s, "RED")
       IN  IF "RED" \notin flags(s, n) /\ s.st[n].val /= s.loc THEN err(s1, "PHASE") ELSE s1

Errors(s, e) == [s EXCEPT !.lerr = @ \cup e.errs]

RECURSIVE dodata2(_, _, _)

\* a value of sz bytes; only a word can be a place
DataValue(s, e, sz) ==
  IF e.x = 0 THEN genabs(s, e.v, sz)
  ELSE IF sz = 2 THEN genrel(s, e, e.t.base)
  ELSE err(s, "EXPR")

DataItem(s, e, sz) == DataValue(Errors(s, e), e, sz)

\* a value e, r.v times
DataBlock(s, r, e, sz) ==
  Emit(Errors(Errors(s, r), e), "dup", r.v % 65536, ByteSeq(e.v, sz), NoFix)

Characters(i) == [k \in DOMAIN i.b |-> Operand("", "", "num", "", i.b[k], {}, 0)]

DataOne(s, i, sz) ==
  CASE i.term = "string" -> dodata2(s, Characters(i), sz)
    [] i.term = "dup"    -> DataBlock(s, doexpr(s, i.count, TRUE), doexpr(s, i.e, TRUE), sz)
    [] OTHER             -> DataItem(s, doexpr(s, i, FALSE), sz)

\* the items of a data directive
dodata2(s, items, sz) ==
  IF items = <<>> THEN s ELSE dodata2(DataOne(s, Head(items), sz), Tail(items), sz)

\* dodata: a data name is tabled in pass 1, an old name too
dodata(s, ln) ==
  LET n  == ln.name
      sz == Sizes8[ln.op]
      s1 == IF s.segptr = "" THEN err(s, "SEGMENT") ELSE s
      s2 == IF s.pass = 2 \/ n = "" THEN s1
            ELSE LET t == orflags(newsym(s1, n, {"DAT"}), n, {"DAT"})
                 IN  [t EXCEPT !.st[n].val = s.loc, !.st[n].size = sz,
                               !.st[n].x = s.segndx]
  IN  dodata2(s2, ln.args, sz)

-----------------------------------------------------------------------------
(* Equates.                                                                *)

\* donamexp: the name, unless it is something else already
Equated(s, n, fl) ==
  IF ~stfind(s, n) THEN orflags(addsym(s, n), n, {fl})
  ELSE IF fl \in flags(s, n) THEN s ELSE err(s, "RED")

IsConstant(e) == e.t.con /\ e.f \cap {"SEG", "GRP"} = {}

\* EQU: a constant gets its value in pass 1; anything else must be the name of
\* a symbol that is no equate, and is a second name for it
EquateTo(s, n, op, e) ==
  IF IsConstant(e) THEN (IF s.pass = 1 THEN setval2(s, n, e.v) ELSE s)
  ELSE IF op = Operand("", "", "sym", op.sym, 0, {}, 0) /\ stfind(s, op.sym)
          /\ "EQU" \notin flags(s, op.sym)
  THEN [s EXCEPT !.st[n].link = op.sym]
  ELSE err(s, "EXPR")

EquWith(s, n, op, e) ==
  IF "EQU" \in flags(s, n) THEN EquateTo(Errors(s, e), n, op, e) ELSE s
EquNamed(s, n, op) == EquWith(s, n, op, doexpr(s, op, FALSE))

doequ(s, ln) == EquNamed(Equated(s, ln.name, "EQU"), ln.name, ln.args[1])

\* = : a constant that may be given another value
SetWith(s, n, e) ==
  IF "SET" \notin flags(s, n) THEN s
  ELSE setval2(IF IsConstant(e) THEN Errors(s, e) ELSE err(Errors(s, e), "EXPR"), n, e.v)
SetNamed(s, n, op) == SetWith(s, n, doexpr(s, op, FALSE))

doset(s, ln) == SetNamed(Equated(s, ln.name, "SET"), ln.name, ln.args[1])

-----------------------------------------------------------------------------
(* Procedures.                                                             *)

doproc(s, ln) ==
  LET n  == ln.name
      s1 == IF s.pass = 1
            THEN IF IsNew(s, n)
                 THEN [newsym(s, n, {"PRO", "COD"} \cup (ToSet(ln.args) \ {"NEAR"}))
                         EXCEPT !.st[n].val = s.loc, !.st[n].x = s.segndx]
                 ELSE newsym(s, n, {})
            ELSE IF stfind(s, n) /\ s.st[n].val /= s.loc THEN err(s, "PHASE") ELSE s
      s2 == IF s.proptr /= "" THEN err(s1, "PROC") ELSE s1
  IN  [s2 EXCEPT !.proptr = n]

doendp(s) == [(IF s.proptr = "" THEN err(s, "PROC") ELSE s) EXCEPT !.proptr = ""]

-----------------------------------------------------------------------------
(* Segments and groups.                                                    *)

\* newseg: with one segment too many the assembler gives up
newseg(s, n) ==
  IF s.seglast = MAXSEG THEN [orflags(s, n, {"SEG"}) EXCEPT !.phase = "fatal"]
  ELSE [orflags(s, n, {"SEG"})
          EXCEPT !.seglast = @ + 1, !.st[n].x = s.seglast + 1,
                 !.st[n].comb = "NOT", !.st[n].align = "PARA"]

RECURSIVE Attributes(_, _, _), Group(_, _)

\* the operands of SEGMENT: a class name or an attribute
Attributes(s, n, args) ==
  IF args = <<>> THEN s
  ELSE LET t == Head(args)
           c == addsym(s, t.class)
           s1 == CASE t.what = "class" ->
                        IF ~stfind(s, t.class)
                        THEN [orflags(c, t.class, {"CLS"}) EXCEPT !.st[n].link = t.class]
                        ELSE IF "CLS" \in flags(s, t.class)
                        THEN [s EXCEPT !.st[n].link = t.class]
                        ELSE err(s, "RED")
                   [] t.what = "align" -> [s EXCEPT !.st[n].align = t.class]
                   [] t.what = "comb"  -> [s EXCEPT !.st[n].comb = t.class]
       IN  Attributes(s1, n, Tail(args))

\* SEGMENT: an open segment is ended, with an error
dosegment(s, ln) ==
  LET n  == ln.name
      s0 == [s EXCEPT !.CScheck = TRUE]
      s1 == IF ~stfind(s, n) THEN newseg(addsym(s0, n), n)
            ELSE IF flags(s, n) = {"CLS"} THEN newseg(s0, n) ELSE s0
      s2 == IF s.segptr = "" THEN s1
            ELSE setval2(err([s1 EXCEPT !.close = "ENDS"], "SEGMENT"), s.segptr, s.loc)
  IN  IF "SEG" \notin flags(s1, n) THEN err(s0, "RED")
      ELSE Attributes([s2 EXCEPT !.loc = s2.st[n].val, !.segptr = n,
                                 !.segndx = s2.st[n].x], n, ln.args)

\* ENDS: the location counter goes back to the segment's entry
doends(s, ln) ==
  LET s1 == IF s.segptr = "" \/ s.segptr /= ln.name THEN err(s, "SEGMENT") ELSE s
      s2 == IF s.segptr = "" THEN s1 ELSE setval2(s1, s.segptr, s.loc)
  IN  [s2 EXCEPT !.segptr = "", !.close = "ENDS"]

\* grpseg: the segments of a group up to the first name that is none
Group(s, names) ==
  IF names = <<>> THEN [s |-> s, xs |-> <<>>]
  ELSE LET n  == Head(names)
           s1 == IF stfind(s, n) THEN s ELSE newseg(addsym(s, n), n)
           r  == Group(s1, Tail(names))
       IN  IF "SEG" \notin flags(s1, n) THEN [s |-> err(s1, "SEGMENT"), xs |-> <<>>]
           ELSE [s |-> r.s, xs |-> <<s1.st[n].x>> \o r.xs]

dogroup(s, ln) ==
  LET n  == ln.name
      s1 == IF stfind(s, n) THEN s
            ELSE [orflags(addsym(s, n), n, {"GRP"})
                    EXCEPT !.grplast = @ + 1, !.st[n].x = s.grplast + 1]
      g  == Group(s1, ln.args)
  IN  IF s.pass = 1 THEN [g.s EXCEPT !.st[n].list = g.xs] ELSE g.s

RECURSIVE doassume(_, _)

\* ASSUME: a register is assumed for one segment at a time; NOTHING alone (reg "")
\* is for all of them, and the end of the line
doassume(s, args) ==
  IF args = <<>> THEN s
  ELSE LET r  == Head(args).reg
           n  == Head(args).seg
           s1 == [s EXCEPT !.assume =
                    [x \in DOMAIN @ |-> SelectSeq(@[x], LAMBDA q : q /= r)]]
           s2 == IF n = "NOTHING" THEN s1
                 ELSE IF ~stfind(s, n) THEN err(s1, "UNDEFINED")
                 ELSE IF "SEG" \notin flags(s, n) THEN err(s1, "SEGMENT")
                 ELSE [s1 EXCEPT !.assume[s.st[n].x] = Append(@, r)]
           all == nosegs(s)
       IN  IF r /= "" THEN doassume(s2, Tail(args))
           ELSE IF Tail(args) = <<>> THEN all ELSE err(all, "SYNTAX")

-----------------------------------------------------------------------------
(* Names that other modules know.                                          *)

RECURSIVE dopublic(_, _), doextrn(_, _)

dopublic(s, names) ==
  IF names = <<>> \/ s.pass = 2 THEN s
  ELSE dopublic(orflags(addsym(s, Head(names)), Head(names), {"PUB"}), Tail(names))

\* EXTRN: a name is chained to the externals once
doextrn(s, items) ==
  IF items = <<>> THEN s
  ELSE LET n  == Head(items).name
           s1 == newsym(s, n, {"EXT"} \cup Head(items).fl)
           s2 == IF IsNew(s, n)
                 THEN [s1 EXCEPT !.st[n].link = s.exthead, !.st[n].size = Head(items).size,
                                 !.exthead = n]
                 ELSE s1
       IN  doextrn(s2, Tail(items))

-----------------------------------------------------------------------------
(* ORG and END.                                                            *)

\* ORG closes the data record that is open; it goes on at the new place
OrgAt(s, e) == IF e.t.con THEN [Errors(s, e) EXCEPT !.loc = e.v, !.close = "ORG"]
               ELSE err(Errors(s, e), "EXPR")
doorg(s, ln) == OrgAt(s, doexpr(s, ln.args[1], FALSE))

\* END, with the address where the program starts
Ended(s) == [(IF s.segptr = "" THEN s ELSE err(s, "SEGMENT")) EXCEPT !.eom = TRUE]
StartAt(s, e) == IF e.t.mem THEN [Errors(s, e) EXCEPT !.start = <<[x |-> e.x, off |-> e.v]>>]
                 ELSE err(Errors(s, e), "ADDRESS")
StartNamed(s, op) == StartAt(s, doexpr(s, op, FALSE))

doend(s, ln) == IF ln.args = <<>> THEN Ended(s) ELSE StartNamed(Ended(s), ln.args[1])
=============================================================================
