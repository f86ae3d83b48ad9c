----------------------------- MODULE AsmMeaning -----------------------------
(***************************************************************************)
(* The properties of Small Assembler: what the object file says is what    *)
(* the source asks for.  A name means the place where the line that        *)
(* defines it fell in pass 2, so that nothing here relies on the values    *)
(* that pass 1 left in the symbol table.                                   *)
(***************************************************************************)
EXTENDS Assembler, AsmDecode

DataOps == {"DB", "DW", "DD"}

\* the assembler has finished, and has found nothing wrong
Clean == a.phase = "done" /\ a.errors = 0

-----------------------------------------------------------------------------
(* What names mean.                                                        *)

Defines(e, n) == e.ln.lab = n \/ (e.ln.op \in DataOps \cup {"PROC"} /\ e.ln.name = n)
Definitions(n) == {i \in DOMAIN made : Defines(made[i], n)}

\* the lines before line i that give n a value with =, and those that do with EQU
SetsOf(n, i) == {j \in 1 .. i - 1 : made[j].ln.op = "=" /\ made[j].ln.name = n}
EqusOf(n)    == {j \in DOMAIN made : made[j].ln.op = "EQU" /\ made[j].ln.name = n}

SegmentNames == {made[i].ln.name : i \in {j \in DOMAIN made : made[j].ln.op = "SEGMENT"}}

GroupNames   == {made[i].ln.name : i \in {j \in DOMAIN made : made[j].ln.op = "GROUP"}}

\* the number of the segment, or of the group, that the object file names n, or 0
NamedSegment(n) ==
  SelectInSeq(obj.segs, LAMBDA g : obj.names[g.name] = n)
NamedGroup(n) ==
  SelectInSeq(obj.groups, LAMBDA g : obj.names[g.name] = n)

ExtrnLines == {i \in DOMAIN src : src[i].op = "EXTRN"}
ExternalNames == UNION {{item.name : item \in ToSet(src[i].args)} : i \in ExtrnLines}
ExternalItem(n) ==
  CHOOSE item \in UNION {ToSet(src[i].args) : i \in ExtrnLines} : item.name = n

Means(kind, ref, size, far) == [kind |-> kind, ref |-> ref, size |-> size, far |-> far]

Moved(m, d) == [m EXCEPT !.ref = Ref(@.to, @.x, @.off + d)]

RECURSIVE Meaning(_, _)
\* what name n means in line i
Meaning(n, i) ==
  LET equ(j) == IF made[j].ln.args[1].term = "sym"
                THEN Moved(Meaning(made[j].ln.args[1].sym, j), made[j].ln.args[1].disp)
                ELSE Means("const", Num(made[j].ln.args[1].num), 0, FALSE)
      j == CHOOSE k \in Definitions(n) : TRUE
  IN  CASE n = "?" -> Means("const", Num(0), 0, FALSE)
        [] SetsOf(n, i) /= {} -> equ(Max(SetsOf(n, i)))
        [] EqusOf(n) /= {} -> equ(Min(EqusOf(n)))
        [] Definitions(n) /= {} ->
             Means(IF made[j].ln.op \in DataOps /\ made[j].ln.name = n THEN "data" ELSE "code",
                   Ref("SEG", made[j].seg, made[j].at),
                   IF made[j].ln.op \in DataOps THEN Sizes8[made[j].ln.op] ELSE 0,
                   made[j].ln.op = "PROC" /\ made[j].ln.args = <<"FAR">>)
        [] n \in ExternalNames ->
             Means(IF "COD" \in ExternalItem(n).fl THEN "code" ELSE "data",
                   Ref("EXT", SelectInSeq(obj.exts, LAMBDA e : e = n), 0),
                   ExternalItem(n).size, "FAR" \in ExternalItem(n).fl)
        [] n \in SegmentNames ->
             Means("seg", Ref("base SEG", NamedSegment(n), 0), 0, FALSE)
        [] n \in GroupNames ->
             Means("seg", Ref("base GRP", NamedGroup(n), 0), 0, FALSE)
        [] OTHER -> Means("none", Bad, 0, FALSE)

-----------------------------------------------------------------------------
(* What a line asks for.                                                   *)

JumpOps == {"JMP", "CALL", "JE", "LOOP", "JCXZ"}

\* what an operand of line i refers to, moved by its displacement
Referred(op, i) ==
  CASE op.term = "sym" -> Moved(Meaning(op.sym, i), op.disp)
    [] op.term = "loc" -> Means("code", Ref("SEG", made[i].seg, made[i].at + op.disp), 0, FALSE)
    [] OTHER -> Means("const", Num(op.num + op.disp), 0, FALSE)

\* the operand is in memory
InMemory(op, i) ==
  /\ op.term /= "reg" /\ op.pre \notin {"OFFSET", "SEG", "SHORT", "FAR"}
  /\ op.ind /= {} \/ op.over /= "" \/ Referred(op, i).kind = "data"

PtrSize == [BYTE |-> 1, WORD |-> 2, DWORD |-> 4]

\* the size an operand has by itself, 0 if it has none
OwnSize(op, i) ==
  CASE op.term = "reg" -> RegOp(op.sym).size
    [] op.pre \in DOMAIN PtrSize -> PtrSize[op.pre]
    [] InMemory(op, i) -> Referred(op, i).size
    [] OTHER -> 0

\* the size that line i works on: a register's, a memory operand's or a word
LineSize(i) ==
  LET args == made[i].ln.args
      sized(p(_)) == {OwnSize(args[k], i) : k \in {j \in DOMAIN args : p(args[j])}} \ {0}
  IN  IF \E op \in ToSet(args) : op.term = "reg"
      THEN Max(sized(LAMBDA op : op.term = "reg"))
      ELSE IF sized(LAMBDA op : TRUE) = {} THEN 2 ELSE Max(sized(LAMBDA op : TRUE))

\* operand op of line i, as the processor should see it
Asked(op, i) ==
  LET r  == Referred(op, i)
      mn == made[i].ln.op
      value(v) == ImmOp(IF LineSize(i) = 1 THEN [v EXCEPT !.off = @ % 256] ELSE v)
  IN  CASE op.term = "reg" -> RegOp(op.sym)
        [] InMemory(op, i) -> MemOp(op.ind, r.ref, IF mn = "LEA" THEN 0 ELSE LineSize(i))
        [] op.pre = "SEG" -> ImmOp(Ref("base " \o r.ref.to, r.ref.x, 0))
        [] op.pre = "OFFSET" \/ r.kind \in {"const", "seg"} -> value(r.ref)
        [] op.pre = "FAR" \/ (r.far /\ op.pre = "") -> FarOp(r.ref)
        [] OTHER -> NearOp(r.ref)

\* line i lies in a far procedure
InFarProc(i) ==
  LET procs == {j \in 1 .. i : made[j].ln.op \in {"PROC", "ENDP"}}
  IN  procs /= {} /\ made[Max(procs)].ln.op = "PROC" /\ made[Max(procs)].ln.args = <<"FAR">>

\* the processor reaches memory operand op of line i, decoded as d, through a
\* register that the source names, that is assumed for the operand's segment, or
\* that needs no assumption because the operand names no segment
Reaches(d, op, i) ==
  LET default == IF "BP" \in op.ind THEN "SS" ELSE "DS"
      reg == IF d.over = "" THEN default ELSE d.over
      r   == Referred(op, i)
  IN  CASE op.over /= "" -> reg = op.over
        [] op.over = "" /\ r.ref.to = "SEG" -> Contains(made[i].assume[r.ref.x], reg)
        [] OTHER -> reg = default

\* the code of line i is what it asks for, and at most two NOPs
AsAsked(i) ==
  LET ln == made[i].ln
      c  == CellsOf(made[i].items)
      d  == Decoded(c \o NoCells, made[i].seg, made[i].at)
      rest == SubSeq(c, d.next, Len(c))
  IN  /\ d.next <= Len(c) + 1
      /\ d.mn = CASE ln.op = "REP" -> ln.args[1]
                  [] ln.op = "RET" /\ InFarProc(i) -> "RETF"
                  [] OTHER -> ln.op
      /\ d.rep <=> ln.op = "REP"
      /\ d.ops = IF ln.op = "REP" THEN <<>> ELSE [k \in DOMAIN ln.args |-> Asked(ln.args[k], i)]
      /\ ln.op \in {"JMP", "JE"} \/ rest = <<>>
      /\ Len(rest) <= 2 /\ \A x \in ToSet(rest) : x = [b |-> \h90, fix |-> NoFix]
      /\ ln.op = "REP" \/ \A op \in ToSet(ln.args) : InMemory(op, i) => Reaches(d, op, i)
      /\ (ln.op = "REP" \/ \A op \in ToSet(ln.args) : ~InMemory(op, i)) => d.over = ""

MachineLines == {i \in DOMAIN made : made[i].ln.op \in Mnemonics}

(* The code of every machine instruction decodes to that instruction: its  *)
(* operation, its operands with their sizes, the place that every name     *)
(* stands for, and a segment register through which it is assumed to be    *)
(* reached; there is no more of it than the padding of a forward jump.     *)
CodeMeansSource == Clean => \A i \in MachineLines : AsAsked(i)

-----------------------------------------------------------------------------
(* Data.                                                                   *)

RECURSIVE Units(_, _)
\* the values that the items of data line i ask for, one after the other
Units(items, i) ==
  IF items = <<>> THEN <<>>
  ELSE LET it == Head(items)
           one == CASE it.term = "string" -> [k \in DOMAIN it.b |-> Num(it.b[k])]
                    [] it.term = "dup" ->
                         [k \in 1 .. Referred(it.count, i).ref.off |-> Referred(it.e, i).ref]
                    [] OTHER -> <<Referred(it, i).ref>>
       IN  one \o Units(Tail(items), i)

\* n bytes of the cells at k hold value r; a longer number has its sign extended
Holds(c, k, n, r) ==
  LET low(j) == CASE j = 0 -> r.off % 256 [] j = 1 -> r.off \div 256
                  [] OTHER -> IF r.off > 32767 THEN 255 ELSE 0
  IN  IF r.to = "num" THEN \A j \in 0 .. n - 1 : c[k + j] = [b |-> low(j), fix |-> NoFix]
      ELSE n = 2 /\ WordAt(c, k) = r

(* The bytes of every DB, DW and DD are the values it lists, strings and   *)
(* repeated values included, each in as many bytes as the directive says.  *)
DataMeansSource ==
  Clean =>
    \A i \in {j \in DOMAIN made : made[j].ln.op \in DataOps} :
      LET c == CellsOf(made[i].items)
          u == Units(made[i].ln.args, i)
          n == Sizes8[made[i].ln.op]
      IN  /\ Len(c) = n * Len(u)
          /\ \A k \in DOMAIN u : Holds(c, n * (k - 1) + 1, n, u[k])

-----------------------------------------------------------------------------
(* The passes, and the records.                                            *)

\* what genrel tells the linker to fix a reference with
Fixings == [mod : {"SELF", "SEGMENT"}, loc : {"OFF", "BASE", "PTR"},
            tar : {"EXT", "GRP", "SEG"}, x : Nat, dis : Int]

(* The assembler's state has its type: the table and its order hold the    *)
(* same names, the open segment is one, each record and its fixups stay    *)
(* within the room that a record has, and each fixup within its record.    *)
TypeOK ==
  /\ a.phase \in {"prescan", "pass", "names", "segs", "groups", "exts", "pubs", "modend",
                  "done", "fatal"}
  /\ a.pass \in {1, 2} /\ a.loc \in 0 .. 65535 /\ a.errors \in 0 .. Len(made) + 1
  /\ DOMAIN a.st = ToSet(a.stp) /\ Len(a.stp) = Cardinality(DOMAIN a.st)
  /\ a.segptr = "" \/ "SEG" \in flags(a, a.segptr)
  /\ \A x \in DOMAIN a.assume : ToSet(a.assume[x]) \subseteq ToSet(SegRegs)
  /\ w \in Writers(Fixings) /\ RecordFits(w) /\ InStep(w)

HasOrg == \E i \in DOMAIN src : src[i].op = "ORG"

SizeOf(items) == Len(CellsOf(items))

(* Nothing moves between the passes: the value that pass 1 gave a label, a *)
(* procedure or a data name is the place where pass 2 put it, and a        *)
(* segment is as long as the definition that pass 1 wrote ahead of it says.*)
PassesAgree ==
  Clean =>
    /\ \A i \in DOMAIN made :
         \A n \in {m \in {made[i].ln.lab, made[i].ln.name} : Defines(made[i], m)} \ {""} :
           a.st[n].val = made[i].at /\ a.st[n].x = made[i].seg
    /\ \A n \in SegmentNames :
         LET x == NamedSegment(n)
             in == {i \in DOMAIN made : made[i].seg = x}
         IN  /\ x /= 0 /\ obj.segs[x].len = a.st[n].val
             /\ HasOrg \/ obj.segs[x].len = MapThenSumSet(LAMBDA i : SizeOf(made[i].items), in)

\* the bytes of some lines, and of the records: segment, offset and value
RecordBytes == BytesIn(Image(w))
MadeCells(i) == LET c == CellsOf(made[i].items)
                IN  {<<made[i].seg, made[i].at + k - 1, c[k].b>> : k \in DOMAIN c}

\* the references to fix: segment, offset, bytes and what with
MadeFixes(i) == {<<it.seg, it.at, it.n, it.fix>> :
                   it \in {m \in ToSet(made[i].items) : m.kind = "rel"}}

(* The data records hold every byte and every fixup that pass 2 generated, *)
(* at its place and once, however the records were filled and cut; a       *)
(* repeated block is no exception.                                         *)
ImageIsWhole ==
  Clean =>
    /\ w.rec = ""
    /\ RecordBytes = UNION {MadeCells(i) : i \in DOMAIN made}
    /\ MapThenSumSet(LAMBDA k : MapThenSumSet(LAMBDA i : w.closed[k].body[i].rep
                                                * Len(w.closed[k].body[i].b),
                                              DOMAIN w.closed[k].body), DOMAIN w.closed)
         = MapThenSumSet(LAMBDA i : SizeOf(made[i].items), DOMAIN made)
    /\ Fixups(w) = UNION {MadeFixes(i) : i \in DOMAIN made}

-----------------------------------------------------------------------------
(* The front matter.                                                       *)

LinesOf(op) == {i \in DOMAIN made : made[i].ln.op = op}

\* the attribute of some kind that a segment has: the last one given, or the default
Attribute(n, what, default) ==
  LET with == {i \in LinesOf("SEGMENT") : made[i].ln.name = n
                                          /\ \E t \in ToSet(made[i].ln.args) : t.what = what}
  IN  IF with = {} THEN default
      ELSE (CHOOSE t \in ToSet(made[Max(with)].ln.args) : t.what = what).class

(* The object file's front matter is the source's: each segment with its   *)
(* class, alignment and combine type, and the lines that are in it; each   *)
(* group with its segments; each external name once; each public name with *)
(* the place it stands for, and no other; the address to start at.         *)
FrontMatterIsTrue ==
  Clean =>
    /\ Len(obj.segs) = Cardinality(SegmentNames)
    /\ \A n \in SegmentNames :
         LET g == obj.segs[NamedSegment(n)]
         IN  /\ NamedSegment(n) /= 0
             /\ obj.names[g.class] = Attribute(n, "class", "")
             /\ g.align = Attribute(n, "align", "PARA") /\ g.comb = Attribute(n, "comb", "NOT")
    /\ \A i \in DOMAIN made : made[i].open =>
         NamedSegment(made[Max(LinesOf("SEGMENT") \cap 1 .. i - 1)].ln.name) = made[i].seg
    /\ \A i \in LinesOf("GROUP") :
         \E g \in ToSet(obj.groups) :
           obj.names[g.name] = made[i].ln.name
           /\ [k \in DOMAIN g.segs |-> obj.names[obj.segs[g.segs[k]].name]] = made[i].ln.args
    /\ Len(obj.groups) = Cardinality(GroupNames)
    /\ ToSet(obj.exts) = ExternalNames /\ IsInjective(obj.exts)
    /\ {p.name : p \in ToSet(obj.pubs)}
         = UNION {ToSet(made[i].ln.args) : i \in LinesOf("PUBLIC")}
    /\ \A p \in ToSet(obj.pubs) : Ref("SEG", p.seg, p.off) = Meaning(p.name, Len(made)).ref
    /\ obj.start = [k \in DOMAIN made[Max(LinesOf("END"))].ln.args |->
                      LET r == Meaning(made[Max(LinesOf("END"))].ln.args[k].sym, Len(made)).ref
                      IN  [x |-> r.x, off |-> r.off]]

-----------------------------------------------------------------------------
(* When a source is sound.                                                 *)

\* the names and the calls of macros
MacroNames == {src[i].name : i \in {j \in DOMAIN src : src[j].op = "MACRO"}}
Defined(m, i) == \E j \in 1 .. i - 1 : src[j].op = "MACRO" /\ src[j].name = m
CountOf(op)   == Cardinality({i \in DOMAIN src : src[i].op = op})

MacrosAreSound ==
  /\ CountOf("MACRO") = CountOf("ENDM")
  /\ \A i \in DOMAIN src : src[i].op \in MacroNames => Defined(src[i].op, i)

SegmentsNest ==
  /\ \A i \in LinesOf("SEGMENT") : ~made[i].open
  /\ \A i \in LinesOf("ENDS") :
       /\ made[i].open
       /\ made[Max(LinesOf("SEGMENT") \cap 1 .. i)].ln.name = made[i].ln.name
  /\ \A i \in LinesOf("END") : ~made[i].open
  /\ \A i \in UNION {LinesOf(op) : op \in DataOps} : made[i].open

ProcsNest ==
  \A i \in LinesOf("PROC") \cup LinesOf("ENDP") :
    LET before == (LinesOf("PROC") \cup LinesOf("ENDP")) \cap 1 .. i - 1
    IN  (made[i].ln.op = "ENDP") <=> (before /= {} /\ made[Max(before)].ln.op = "PROC")

\* every line is something, and no directive has a label
LinesAreKnown ==
  \A i \in DOMAIN made :
    /\ made[i].ln.op \in Mnemonics \cup Directives \cup {"MACRO", "ENDM"} \cup MacroNames
    /\ made[i].ln.lab = "" \/ made[i].ln.op \in Mnemonics \cup {"", "ENDM"} \cup MacroNames

\* how many kinds of thing a name is: places count each
Roles(n) ==
  Cardinality(Definitions(n)) + (IF n \in ExternalNames THEN 1 ELSE 0)
    + (IF n \in SegmentNames \cup GroupNames THEN 1 ELSE 0)
    + (IF EqusOf(n) /= {} \/ SetsOf(n, Len(made) + 1) /= {} THEN 1 ELSE 0)

NamesAreUnique ==
  \A i \in DOMAIN made : \A n \in {made[i].ln.lab, made[i].ln.name} \ {""} :
    Roles(n) <= 1

\* the operands of an instruction or a directive that are names
UsedNames(i) ==
  LET args == made[i].ln.args
      inner == {it.e : it \in {t \in ToSet(args) : t.term = "dup"}}
  IN  {op.sym : op \in {t \in {u \in ToSet(args) : u.term \notin {"dup", "string"}}
                          \cup inner : t.term = "sym"}}

NamesAreKnown ==
  /\ \A i \in DOMAIN made :
       made[i].ln.op \in (Mnemonics \ PrefixOps) \cup DataOps \cup {"=", "EQU", "END"} =>
         \A n \in UsedNames(i) : Meaning(n, i).kind /= "none"
  /\ \A i \in LinesOf("ASSUME") : \A t \in ToSet(made[i].ln.args) :
       t.seg \in SegmentNames \cup {"NOTHING", ""}

\* where the jump of line i goes; the operand's own address if it is no name
Target(i) == Asked(made[i].ln.args[1], i)

IsJump(i) == made[i].ln.op \in JumpOps /\ Target(i).k = "near" /\ Target(i).val.to = "SEG"
MustBeShort(i) == made[i].ln.op \in {"JE", "LOOP", "JCXZ"} \/ made[i].ln.args[1].pre = "SHORT"

JumpsReach ==
  \A i \in MachineLines : IsJump(i) =>
    /\ Target(i).val.x = made[i].seg
    /\ MustBeShort(i) => Target(i).val.off - (made[i].at + 2) \in -128 .. 127

\* a far procedure that is still to come is not known to be one
FarIsKnown ==
  \A i \in MachineLines : made[i].ln.op \in JumpOps =>
    LET op == made[i].ln.args[1]
        m  == Referred(op, i)
    IN  m.far /\ op.pre = "" /\ m.ref.to = "SEG" => \A j \in Definitions(op.sym) : j <= i

\* EQU names a constant, or is a second name for something that has just one
EquatesFit ==
  \A i \in LinesOf("EQU") :
    LET op == made[i].ln.args[1]
    IN  \/ op.term \in {"num", "sym"} /\ Referred(op, i).kind = "const"
        \/ op.term = "sym" /\ op.disp = 0 /\ EqusOf(op.sym) = {}

\* the operands fit each other: no two in memory, the same size, a place to put
\* the result, an address that the processor can form, a number that is not too big
OperandsFit ==
  \A i \in MachineLines \ LinesOf("REP") :
    LET args == made[i].ln.args
        sizes == {OwnSize(args[k], i) : k \in DOMAIN args} \ {0}
    IN  /\ \A op \in ToSet(args) : op.ind = {} \/ op.ind \in ToSet(Addressing)
        /\ Len(args) = 2 =>
             /\ Asked(args[1], i).k /= "imm"
             /\ \E k \in {1, 2} : ~InMemory(args[k], i)
             /\ made[i].ln.op = "LEA" \/ Cardinality(sizes) <= 1
             /\ 1 \in sizes => \A op \in ToSet(args) : op.term = "num" /\ op.over = ""
                                                         => op.num \in -128 .. 255

\* CS is assumed for a segment when its first instruction comes
CSIsAssumed ==
  \A i \in LinesOf("SEGMENT") :
    LET behind == {j \in MachineLines : j > i /\ made[j].open}
    IN  (behind /= {} /\ made[Min(behind)].seg = NamedSegment(made[i].ln.name)) =>
          Contains(made[Min(behind)].assume[NamedSegment(made[i].ln.name)], "CS")

\* what an instruction refers to in memory has a segment register
DataIsReachable ==
  \A i \in MachineLines \ (LinesOf("REP") \cup UNION {LinesOf(op) : op \in JumpOps}) :
    \A op \in ToSet(made[i].ln.args) :
      InMemory(op, i) /\ op.over = "" /\ Referred(op, i).ref.to = "SEG"
        => made[i].assume[Referred(op, i).ref.x] /= <<>>

Sound ==
  /\ MacrosAreSound
  /\ Cardinality({src[i].name : i \in {j \in DOMAIN src : src[j].op = "SEGMENT"}}) <= MAXSEG
  /\ CountOf("END") > 0
  /\ LinesAreKnown /\ SegmentsNest /\ ProcsNest
  /\ NamesAreUnique /\ NamesAreKnown /\ EquatesFit
  /\ OperandsFit /\ JumpsReach /\ FarIsKnown /\ CSIsAssumed /\ DataIsReachable

(* The assembler finds an error exactly in a source that is not sound; it  *)
(* keeps the object file of a sound source, and of no other.               *)
VerdictIsRight == Over => (Sound <=> (Clean /\ ~obj.deleted))

(* Every source comes to an end: an object file, or the assembler gives up.*)
AssemblyEnds == <>Over
=============================================================================
