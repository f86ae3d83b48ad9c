----------------------------- MODULE Preprocess -----------------------------
(***************************************************************************)
(* The preprocessor of Small-C (ccpre.c) with the opening of source files  *)
(* (cc1.c): ifline reads physical lines and obeys the directives that need *)
(* no macros, preprocess expands the others, and #define and #include are  *)
(* obeyed on the expanded line.                                            *)
(*                                                                         *)
(* A program is [args, files]: the files of the command line, and for each *)
(* path its lines.  A line is a sequence of items <<kind, value>>; a path  *)
(* is a sequence of directories and a name.  A directive is the first item *)
(* of its line; an #include names a file, with no macro between < and >;   *)
(* something follows an #undef; lines fit into the buffers.                *)
(***************************************************************************)
EXTENDS Integers, SequencesExt, FiniteSetsExt

CONSTANTS
  Programs,     \* the programs to read
  Names,        \* the macro names
  Hash,         \* hash(name) % (MACNBR - 1), cc2.c
  MACNBR,       \* slots of the name table
  MACMAX,       \* items the string queue takes
  MAXINCLUDE,   \* files that may be open below the main file
  BinDir        \* the directory of cc.exe

ASSUME TableAssumption == /\ MACNBR \in Nat \ {0, 1}
                          /\ Hash \in [Names -> 0 .. MACNBR - 2]
ASSUME NamesAssumption == Names \cap {"NULL", "TOMBSTONE"} = {}
ASSUME ProgramsAssumption ==
  \A p \in Programs :
    /\ p.args \in Seq(DOMAIN p.files) /\ p.args # <<>>
    /\ \A lines \in Range(p.files) :
         /\ lines \in Seq(Range(lines))
         /\ \A line \in Range(lines) :
              /\ line \in Seq(Range(line)) /\ line # << <<"dir", "undef">> >>
              /\ \A item \in Range(line) :
                   /\ item = <<item[1], item[2]>> /\ item[1] # "nul"
                   /\ item[1] = "id" => item[2] \in Names
ASSUME BoundsAssumption == MACMAX \in Nat \ {0} /\ MAXINCLUDE \in Nat

(* f: input files, their positions, and the last line read into mline;     *)
(* iflevel, skiplevel: the conditional groups; macn, macq: the macros;     *)
(* pline: the line under expansion; waiting: for each dodefine that came   *)
(* to the end of its line, the innermost last, whether it is a "name" that *)
(* it reads on for or the token to "skip" to; out: what the parser gets;   *)
(* errors: what error was called for.                                      *)
VARIABLES prog, mode, f, iflevel, skiplevel, macn, macq, pline, waiting, out, errors
vars == <<prog, mode, f, iflevel, skiplevel, macn, macq, pline, waiting, out, errors>>

Dir(d)  == <<"dir", d>>
Open    == <<"cmt", "/*">>
Close   == <<"cmt", "*/">>
Rest    == <<"cmt", "//">>
Nul     == <<"nul", 0>>
NULL      == "NULL"
TOMBSTONE == "TOMBSTONE"
NoFile  == [path |-> <<>>, pos |-> 0]

Init ==
  /\ prog \in Programs
  /\ mode = "code"
  /\ f = [filearg |-> 0, input |-> NoFile, lineno |-> 0, infn |-> <<>>,
          input2 |-> NoFile, inclno |-> 0, inclfn |-> <<>>, stack |-> <<>>,
          mline |-> <<>>]
  /\ iflevel = 0 /\ skiplevel = 0
  /\ macn = [s \in 0 .. MACNBR - 1 |-> [name |-> NULL, at |-> 0]]
  /\ macq = <<>> /\ pline = <<>> /\ waiting = <<>> /\ out = <<>> /\ errors = {}

-----------------------------------------------------------------------------
(* The macro table: open addressing, deleted slots marked TOMBSTONE.       *)

Slot(n, i) == (Hash[n] + i) % MACNBR

\* findSymbol: where a name is, or where it would be put (-1: nowhere)
findMacro(n) ==
  LET At(i)  == macn[Slot(n, i)].name
      last   == Min({i \in 0 .. MACNBR - 1 : At(i) = NULL} \cup {MACNBR})
      passed == 0 .. last - 1
      hits   == {i \in passed : At(i) = n}
      tombs  == {i \in passed : At(i) = TOMBSTONE}
      free   == tombs \cup (IF last < MACNBR THEN {last} ELSE {})
  IN [found |-> hits # {},
      cptr  |-> IF hits # {} THEN Slot(n, Min(hits))
                ELSE IF free # {} THEN Slot(n, Min(free)) ELSE -1]

\* the text of a macro in the string queue, from its offset to the null
Text(at) == SubSeq(macq, at + 1, Min({i \in at + 1 .. Len(macq) : macq[i] = Nul}) - 1)

-----------------------------------------------------------------------------
(* doInline: one physical line, from the include file that is open or from *)
(* the main file.                                                          *)

InInclude == f.input2 # NoFile
Unit == IF InInclude THEN f.input2 ELSE f.input
More == Unit # NoFile /\ Unit.pos <= Len(prog.files[Unit.path])
Line == prog.files[Unit.path][Unit.pos]
AsInt(n) == ((n + 32768) % 65536) - 32768
LineNo   == AsInt((IF InInclude THEN f.inclno ELSE f.lineno) + 1)
FileName == IF InInclude THEN f.inclfn ELSE f.infn
\* in an #asm block line is still pline, and an empty line leaves the old text
\* of mline behind its null
mline == IF mode = "asm" \/ Line = <<>> THEN f.mline ELSE Line
Advanced == IF InInclude
            THEN [f EXCEPT !.input2.pos = @ + 1, !.inclno = LineNo, !.mline = mline]
            ELSE [f EXCEPT !.input.pos = @ + 1, !.lineno = LineNo, !.mline = mline]

Running == mode \notin {"end", "exit"}

\* openfile: the next file of the command line
OpenFile ==
  /\ Running /\ f.input = NoFile /\ f.filearg < Len(prog.args)
  /\ LET fname == prog.args[f.filearg + 1]
     IN f' = [f EXCEPT !.filearg = @ + 1, !.input = [path |-> fname, pos |-> 1],
                       !.infn = fname, !.lineno = 0]
  /\ UNCHANGED <<prog, mode, iflevel, skiplevel, macn, macq, pline, waiting, out, errors>>

\* openfile finds no other file: the end of the input, for a #define too that
\* still looks for its name
EndOfInput ==
  /\ Running /\ f.input = NoFile /\ f.filearg = Len(prog.args) /\ mode # "comment"
  /\ mode' = "end"
  /\ errors' = IF "name" \in Range(waiting) THEN errors \cup {"illegal symbol"} ELSE errors
  /\ UNCHANGED <<prog, f, iflevel, skiplevel, macn, macq, pline, waiting, out>>

\* the end of a file: back to the line behind its #include, if there is one
CloseFile ==
  /\ Running /\ Unit # NoFile /\ ~More
  /\ f' = IF InInclude
          THEN [f EXCEPT !.input2 = Last(f.stack).fd, !.inclno = Last(f.stack).no,
                         !.inclfn = Last(f.stack).fn, !.stack = Front(f.stack)]
          ELSE [f EXCEPT !.input = NoFile]
  /\ UNCHANGED <<prog, mode, iflevel, skiplevel, macn, macq, pline, waiting, out, errors>>

-----------------------------------------------------------------------------
(* ifline: the directives that are obeyed on the physical line, also when  *)
(* scanComment is what reads it.                                           *)

IfLineDirectives == {Dir(d) : d \in {"ifdef", "ifndef", "else", "endif", "error",
                                     "undef", "line"}}

\* ifline has read a line that begins with one of these
Reads(starts) == /\ mode \in {"code", "comment"} /\ More
                 /\ Line # <<>> /\ Line[1] \in starts
                 /\ f' = Advanced

\* symname, on the physical line: what follows the directive is a name
HasName == Len(Line) > 1 /\ Line[2][1] = "id"
\* the same for a name that no macro has, like __LINE__
PredefinedName == Len(Line) > 1 /\ Line[2][1] = "pre"

Ifdef ==
  /\ Reads({Dir("ifdef"), Dir("ifndef")})
  /\ iflevel' = iflevel + 1
  /\ LET holds == (HasName /\ findMacro(Line[2][2]).found) <=> (Line[1] = Dir("ifdef"))
     IN skiplevel' = IF skiplevel = 0 /\ ~holds THEN iflevel + 1 ELSE skiplevel
  /\ UNCHANGED <<prog, mode, macn, macq, pline, waiting, out, errors>>

\* noiferr: an #else or #endif without its #if
Unmatched ==
  /\ Reads({Dir("else"), Dir("endif")}) /\ iflevel = 0
  /\ errors' = errors \cup {"no matching #if..."}
  /\ UNCHANGED <<prog, mode, iflevel, skiplevel, macn, macq, pline, waiting, out>>

\* Mutant: an #else always ends the skipping, also one of a skipped group.
ElseOfAnyGroup ==
  /\ Reads({Dir("else")}) /\ iflevel > 0
  /\ skiplevel' = IF skiplevel = 0 THEN iflevel ELSE 0
  /\ UNCHANGED <<prog, mode, iflevel, macn, macq, pline, waiting, out, errors>>

Else ==
  /\ Reads({Dir("else")}) /\ iflevel > 0
  /\ skiplevel' = IF skiplevel = iflevel THEN 0
                  ELSE IF skiplevel = 0 THEN iflevel ELSE skiplevel
  /\ UNCHANGED <<prog, mode, iflevel, macn, macq, pline, waiting, out, errors>>

Endif ==
  /\ Reads({Dir("endif")}) /\ iflevel > 0
  /\ skiplevel' = IF skiplevel = iflevel THEN 0 ELSE skiplevel
  /\ iflevel' = iflevel - 1
  /\ UNCHANGED <<prog, mode, macn, macq, pline, waiting, out, errors>>

doerror ==
  /\ Reads({Dir("error")}) /\ skiplevel = 0
  /\ errors' = errors \cup {"#error"} /\ mode' = "exit"
  /\ UNCHANGED <<prog, iflevel, skiplevel, macn, macq, pline, waiting, out>>

\* Mutant: #undef empties the slot.
doundefEmpties ==
  /\ Reads({Dir("undef")}) /\ skiplevel = 0
  /\ IF HasName
     THEN LET m == findMacro(Line[2][2])
          IN /\ macn' = IF m.found THEN [macn EXCEPT ![m.cptr].name = NULL] ELSE macn
             /\ errors' = errors
     ELSE /\ macn' = macn
          /\ errors' = IF PredefinedName THEN errors ELSE errors \cup {"illegal symbol"}
  /\ UNCHANGED <<prog, mode, iflevel, skiplevel, macq, pline, waiting, out>>

doundef ==
  /\ Reads({Dir("undef")}) /\ skiplevel = 0
  /\ IF HasName
     THEN LET m == findMacro(Line[2][2])
          IN /\ macn' = IF m.found THEN [macn EXCEPT ![m.cptr].name = TOMBSTONE] ELSE macn
             /\ errors' = errors
     ELSE /\ macn' = macn
          /\ errors' = IF PredefinedName THEN errors ELSE errors \cup {"illegal symbol"}
  /\ UNCHANGED <<prog, mode, iflevel, skiplevel, macq, pline, waiting, out>>

\* The number holds for the next line, the name from now on.
doline ==
  /\ mode \in {"code", "comment"} /\ More
  /\ Line # <<>> /\ Line[1] = Dir("line") /\ skiplevel = 0
  /\ IF Len(Line) > 1 /\ Line[2][1] = "num"
     THEN LET n  == AsInt(Line[2][2] - 1)
              fn == IF Len(Line) > 2 /\ Line[3][1] = "str" THEN Line[3][2] ELSE FileName
          IN /\ f' = IF InInclude THEN [Advanced EXCEPT !.inclno = n, !.inclfn = fn]
                     ELSE [Advanced EXCEPT !.lineno = n, !.infn = fn]
             /\ errors' = errors
     ELSE f' = Advanced /\ errors' = errors \cup {"#line: line number expected"}
  /\ UNCHANGED <<prog, mode, iflevel, skiplevel, macn, macq, pline, waiting, out>>

\* what ifline drops: empty lines, and those of a skipped group
BlankLine ==
  /\ mode \in {"code", "comment"} /\ More /\ Line = <<>>
  /\ f' = Advanced
  /\ UNCHANGED <<prog, mode, iflevel, skiplevel, macn, macq, pline, waiting, out, errors>>

SkippedLine ==
  /\ mode \in {"code", "comment"} /\ More /\ skiplevel > 0 /\ Line # <<>>
  /\ Line[1] \notin {Dir(d) : d \in {"ifdef", "ifndef", "else", "endif"}}
  /\ f' = Advanced
  /\ UNCHANGED <<prog, mode, iflevel, skiplevel, macn, macq, pline, waiting, out, errors>>

-----------------------------------------------------------------------------
(* preprocess: the line that ifline has let through is expanded into pline *)
(* from left to right, what replaces a name is not looked at again, and a  *)
(* comment that stays open goes on with the next line of ifline.           *)

\* lineToStr has no digits for a negative number
tryExpandPredefined(name) ==
  IF name = "__LINE__" THEN (IF LineNo < 0 THEN <<>> ELSE << <<"num", LineNo>> >>)
  ELSE << <<"str", FileName>> >>

Expand(item) ==
  IF item[1] = "pre" THEN tryExpandPredefined(item[2])
  ELSE LET m == findMacro(item[2])
       IN IF item[1] = "id" /\ m.found THEN Text(macn[m.cptr].at) ELSE <<item>>

\* one item: s.in is what it stands in, s.pl the expanded line so far
Scan(s, item) ==
  CASE s.in = "comment" -> IF item = Close THEN [s EXCEPT !.in = "code"] ELSE s
    [] s.in = "rest"    -> s
    [] item = Open      -> [s EXCEPT !.in = "comment"]
    [] item = Rest      -> [s EXCEPT !.in = "rest"]
    [] OTHER            -> [s EXCEPT !.pl = @ \o Expand(item)]

ScannedFrom(start, line) ==
  LET after[i \in 0 .. Len(line)] ==
        IF i = 0 THEN start ELSE Scan(after[i - 1], line[i])
  IN after[Len(line)]
Scanned == ScannedFrom([in |-> mode, pl |-> pline], Line)

\* ifline returns with a line, and this is what comes of it
Expands == /\ mode \in {"code", "comment"} /\ More
           /\ skiplevel = 0 /\ Line # <<>> /\ Line[1] \notin IfLineDirectives
Expanded == Scanned.pl
Begins(d) == Expanded # <<>> /\ Expanded[1] = Dir(d)

\* scanComment at the end of a line: the comment is still open
CommentGoesOn ==
  /\ Expands /\ Scanned.in = "comment"
  /\ f' = Advanced /\ mode' = "comment" /\ pline' = Expanded
  /\ UNCHANGED <<prog, iflevel, skiplevel, macn, macq, waiting, out, errors>>

LineEnds == /\ Expands /\ Scanned.in # "comment"
            /\ pline' = <<>>

\* dodefine: the words are a name and its text (when the queue is full, putmac
\* drops what is left of the text, and the compiler gives up)
Definition(words) ==
  LET name  == words[1]
      m     == findMacro(name[2])
      value == Append(Tail(words), Nul)
      full  == Len(macq) + Len(value) >= MACMAX
      Refused(problem) == /\ errors' = errors \cup {problem} /\ mode' = "code"
                          /\ UNCHANGED <<macn, macq>>
  IN IF name[1] # "id" THEN Refused("illegal symbol")
     ELSE IF m.cptr = -1 THEN Refused("macro name table full")
     ELSE /\ macn' = [macn EXCEPT ![m.cptr] = [name |-> name[2], at |-> Len(macq)]]
          /\ macq' = macq \o value
          /\ errors' = IF full THEN errors \cup {"macro string queue full"} ELSE errors
          /\ mode' = IF full THEN "exit" ELSE "code"

\* illname skips to the next token: where a number is all there is, to one of
\* the next line
Skips(words) == IF Len(words) = 1 /\ words[1][1] = "num" THEN <<"skip">> ELSE <<>>

\* The line is expanded, and the name with it, if it is a macro already.
dodefine ==
  /\ LineEnds /\ Begins("define") /\ Len(Expanded) > 1
  /\ f' = Advanced /\ Definition(Tail(Expanded)) /\ waiting' = waiting \o Skips(Tail(Expanded))
  /\ UNCHANGED <<prog, iflevel, skiplevel, out>>

\* When nothing is left of the name, symname calls blanks, which calls
\* preprocess for another line, before dodefine goes on.
NamelessDefine ==
  /\ LineEnds /\ Begins("define") /\ Len(Expanded) = 1
  /\ f' = Advanced /\ mode' = "code" /\ waiting' = Append(waiting, "name")
  /\ UNCHANGED <<prog, iflevel, skiplevel, macn, macq, out, errors>>

\* preprocess returns with this line to a dodefine that waits for it
Awaited(what) == /\ LineEnds /\ waiting # <<>> /\ Last(waiting) = what
                 /\ Expanded # <<>> /\ ~Begins("define") /\ ~Begins("include")

\* The line that comes is what dodefine takes for its name and text.
DefineFromNextLine ==
  /\ Awaited("name")
  /\ f' = Advanced /\ Definition(Expanded) /\ waiting' = Front(waiting) \o Skips(Expanded)
  /\ UNCHANGED <<prog, iflevel, skiplevel, out>>

\* Or it is killed, with the #define whose name was illegal.
KillNextLine ==
  /\ Awaited("skip")
  /\ f' = Advanced /\ mode' = "code" /\ waiting' = Front(waiting)
  /\ UNCHANGED <<prog, iflevel, skiplevel, macn, macq, out, errors>>

\* doInclude: <name> in the directory of the compiler, "name" in that of the file
doInclude ==
  /\ LineEnds /\ Begins("include")
  /\ LET what == Expanded[2][2]
         path == (IF what.angle THEN BinDir ELSE Front(FileName)) \o what.path
         problem == IF Len(f.stack) >= MAXINCLUDE THEN {"includes nested too deep"}
                    ELSE IF path \notin DOMAIN prog.files THEN {"open failure"} ELSE {}
         saved == [fd |-> Advanced.input2, no |-> Advanced.inclno, fn |-> f.inclfn]
     IN /\ errors' = errors \cup problem
        /\ f' = IF problem # {} THEN Advanced
                ELSE [Advanced EXCEPT !.input2 = [path |-> path, pos |-> 1], !.inclno = 0,
                                      !.inclfn = path, !.stack = Append(@, saved)]
  /\ mode' = "code"
  /\ UNCHANGED <<prog, iflevel, skiplevel, macn, macq, waiting, out>>

\* At the end of the input, a comment that is open is left, and bump(2) goes on
\* behind the second character of mline, in what it holds of the last line.
\* The parser gets that, unless a #define or #include does, without effect.
EndInComment ==
  /\ Running /\ f.input = NoFile /\ f.filearg = Len(prog.args) /\ mode = "comment"
  /\ mode' = "end" /\ pline' = <<>>
  /\ \E i \in 1 .. Len(f.mline) + 1 :
       LET start == [in |-> "code", pl |-> pline]
           text  == ScannedFrom(start, SubSeq(f.mline, i, Len(f.mline))).pl
           goes  == waiting = <<>> /\ (text # <<>> => text[1] \notin {Dir("define"), Dir("include")})
       IN IF goes THEN out' = out \o text /\ errors' = errors
          ELSE /\ out' = out
               /\ \E p \in SUBSET {"illegal symbol", "open failure"} : errors' = errors \cup p
  /\ UNCHANGED <<prog, f, iflevel, skiplevel, macn, macq, waiting>>

\* Any other line goes to the parser, which reads #asm itself.
Deliver ==
  /\ LineEnds /\ ~Begins("define") /\ ~Begins("include")
  /\ waiting = <<>> \/ Expanded = <<>>
  /\ f' = Advanced
  /\ out' = out \o Expanded
  /\ mode' = IF Begins("asm") THEN "asm" ELSE "code"
  /\ UNCHANGED <<prog, iflevel, skiplevel, macn, macq, waiting, errors>>

\* doAsmBlock: physical lines, as they are, until #endasm
AsmLine ==
  /\ mode = "asm" /\ More /\ f' = Advanced
  /\ LET ends == Line # <<>> /\ Line[1] = Dir("endasm")
     IN /\ mode' = IF ends THEN "code" ELSE "asm"
        /\ out'  = IF ends THEN out ELSE out \o Line
  /\ UNCHANGED <<prog, iflevel, skiplevel, macn, macq, pline, waiting, errors>>

-----------------------------------------------------------------------------
Stopped == ~Running /\ UNCHANGED vars

Next == \/ OpenFile \/ EndOfInput \/ EndInComment \/ CloseFile
        \/ Ifdef \/ Unmatched \/ Else \/ Endif \/ doerror \/ doundef \/ doline \/ BlankLine \/ SkippedLine
        \/ CommentGoesOn \/ dodefine \/ NamelessDefine \/ DefineFromNextLine \/ KillNextLine
        \/ doInclude \/ Deliver \/ AsmLine \/ Stopped

Spec == Init /\ [][Next]_vars

-----------------------------------------------------------------------------
(* What findMacro makes of a name: its text, in a sequence of one, or none. *)
Macro(n) ==
  LET m == findMacro(n) IN IF m.found THEN <<Text(macn[m.cptr].at)>> ELSE <<>>

Undefines(n) == doundef /\ HasName /\ Line[2][2] = n
Defined == IF dodefine THEN Tail(Expanded) ELSE Expanded
Defines(n) == /\ dodefine \/ DefineFromNextLine
              /\ Defined[1] = <<"id", n>>
              /\ ~\A s \in DOMAIN macn : macn[s].name \in Names \ {n}

(* No #endif goes below the first group, and no group is skipped that is   *)
(* not open; no end of a file pops an empty stack of includes, or leaves   *)
(* one of them behind; neither the stack nor the string queue runs over.   *)
Nested ==
  /\ iflevel \in Nat /\ skiplevel \in 0 .. iflevel
  /\ Len(f.stack) <= MAXINCLUDE /\ (InInclude <=> Len(f.stack) > 0)
  /\ Running => Len(macq) < MACMAX

(* The table is the map it stands for, whatever the hashes: #undef removes *)
(* its name, a #define gives its name the text behind it unless all slots  *)
(* have other names, and no step changes any other macro, be its name in   *)
(* front of a tombstone or behind one, around the end or defined again.    *)
MacrosAreKept ==
  [][\A n \in Names : Macro(n)' = IF Undefines(n) THEN <<>>
                                  ELSE IF Defines(n) THEN <<Tail(Defined)>>
                                  ELSE Macro(n)]_vars
=============================================================================
