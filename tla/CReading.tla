------------------------------ MODULE CReading ------------------------------
(***************************************************************************)
(* What a program reads like in C, with #asm blocks and the limits of the  *)
(* preprocessor's readme and history: comments are taken out of a file     *)
(* first, then its lines are obeyed in turn, one is compiled when every    *)
(* group around it is selected, and a macro's text is expanded where it is *)
(* used, again and again.  Nothing here is taken from ccpre.c.             *)
(*                                                                         *)
(* A program is sound where C defines it and Small-C promises to follow:   *)
(* a macro's text must mean the same where it is written and where it is   *)
(* used, because Small-C expands it where it is written, and a directive   *)
(* that is obeyed on the physical line must not be in a comment or begin   *)
(* one that stays open, because Small-C does not look for comments there.  *)
(***************************************************************************)
EXTENDS Preprocess

IsDir(items, ds) == items # <<>> /\ items[1][1] = "dir" /\ items[1][2] \in ds
Conditional == {"ifdef", "ifndef", "else", "endif"}
OwnLine     == Conditional \cup {"error", "undef", "line"}

-----------------------------------------------------------------------------
(* Comments, outside of #asm blocks: a comment is nothing, whatever it     *)
(* holds, and a line that ends in one goes on.  Every item is given the    *)
(* number of the physical line it is on; lines of #asm blocks are raw.     *)

Uncommented(lines) ==
  LET Item(s, p) ==
        CASE s.in = "block" -> IF p[1] = Close THEN [s EXCEPT !.in = "code"] ELSE s
          [] s.in = "rest"  -> s
          [] p[1] = Open    -> [s EXCEPT !.in = "block"]
          [] p[1] = Rest    -> [s EXCEPT !.in = "rest"]
          [] OTHER          -> [s EXCEPT !.cur = Append(@, p)]
      OneLine(s, no) ==
        LET items == [j \in DOMAIN lines[no] |-> <<lines[no][j], no>>]
            own   == IsDir(lines[no], OwnLine)
            t     == FoldLeft(Item, [s EXCEPT !.in = IF @ = "rest" THEN "code" ELSE @], items)
        IN IF s.asm THEN [s EXCEPT !.done = Append(@, [raw |-> TRUE, ps |-> items]),
                                   !.asm = ~IsDir(lines[no], {"endasm"})]
           ELSE IF t.in = "block" THEN [t EXCEPT !.clean = @ /\ ~own]
           ELSE [t EXCEPT !.done = Append(@, [raw |-> FALSE, ps |-> t.cur]), !.cur = <<>>,
                          !.asm = t.cur # <<>> /\ t.cur[1][1] = Dir("asm"),
                          !.clean = @ /\ ~(own /\ s.in = "block")]
      r == FoldLeft(OneLine, [in |-> "code", asm |-> FALSE, cur |-> <<>>, done |-> <<>>,
                              clean |-> TRUE], [i \in DOMAIN lines |-> i])
  IN [lines |-> r.done, clean |-> r.clean /\ r.in # "block" /\ ~r.asm]

-----------------------------------------------------------------------------
(* Macros: a function from the defined names to their texts.               *)

RECURSIVE Meant(_, _, _)
\* the items, of line no of the presumed file, with all macros expanded
Meant(ps, e, hidden) ==
  LET One(p) ==
        IF p[1] = <<"pre", "__LINE__">> THEN << <<"num", p[2] + e.shift>> >>
        ELSE IF p[1][1] = "pre" THEN << <<"str", e.name>> >>
        ELSE IF p[1][1] = "id" /\ p[1][2] \in DOMAIN e.macros \ hidden
        THEN Meant(e.macros[p[1][2]], e, hidden \cup {p[1][2]})
        ELSE <<p[1]>>
  IN IF ps = <<>> THEN <<>> ELSE One(ps[1]) \o Meant(Tail(ps), e, hidden)

\* no text that is in force mentions the name
Unused(n, e) == \A m \in DOMAIN e.macros : \A i \in DOMAIN e.macros[m] : e.macros[m][i][1] # <<"id", n>>
Without(macros, n) == [m \in DOMAIN macros \ {n} |-> macros[m]]

Unsound(e) == [e EXCEPT !.sound = FALSE]
Wrong(e)   == [e EXCEPT !.wrong = TRUE]

\* The queue of texts never shrinks: e.used is all that was ever put there.
DefineIt(e, n, text) ==
  LET size == Len(Meant(text, e, {})) + 1
      fine == /\ n \notin DOMAIN e.macros /\ Unused(n, e)
              /\ \A i \in DOMAIN text : text[i][1][1] # "pre"
      full == Cardinality(DOMAIN e.macros) = MACNBR
  IN IF ~fine THEN Unsound(e)
     ELSE IF full THEN Wrong(e)
     ELSE [e EXCEPT !.macros = (n :> text) @@ @, !.used = @ + size,
                    !.wrong = @ \/ e.used + size >= MACMAX,
                    !.stopped = e.used + size >= MACMAX]

UndefIt(e, n) == IF Unused(n, e) THEN [e EXCEPT !.macros = Without(@, n)] ELSE Unsound(e)

-----------------------------------------------------------------------------
(* Groups: for each that is open, whether its current branch is selected   *)
(* and whether its #else was there.                                        *)

Selected(e) == \A i \in DOMAIN e.groups : e.groups[i].on

Conditions(e, d, n) ==
  LET g == Last(e.groups)
  IN CASE d \in {"ifdef", "ifndef"} ->
            [e EXCEPT !.groups = Append(@, [on |-> (n \in DOMAIN e.macros) <=> (d = "ifdef"),
                                            second |-> FALSE])]
       [] e.groups = <<>> -> Unsound(e)
       [] d = "else" -> IF g.second THEN Unsound(e)
                        ELSE [e EXCEPT !.groups = Append(Front(@), [on |-> ~g.on, second |-> TRUE])]
       [] d = "endif" -> [e EXCEPT !.groups = Front(@)]

-----------------------------------------------------------------------------
(* Lines, files, and the program.                                          *)

RECURSIVE ReadFile(_, _, _)
RECURSIVE ReadLines(_, _, _)

\* lines of one file, from the first; dir is the directory it is in
ReadLines(ls, dir, e) ==
  IF ls = <<>> \/ e.stopped \/ ~e.sound THEN e
  ELSE
  LET l  == ls[1].ps
      raw == ls[1].raw
      d  == IF ~raw /\ l # <<>> /\ l[1][1][1] = "dir" THEN l[1][1][2] ELSE ""
      x  == l[2][1][2]                 \* the value of the line's second item
      named == Len(l) > 1 /\ l[2][1][1] = "id"
      Here(a) == [a EXCEPT !.depth = e.depth, !.groups = e.groups, !.name = e.name,
                           !.shift = e.shift]
      after ==
        CASE d \in Conditional -> IF named \/ d \in {"else", "endif"}
                                  THEN Conditions(e, d, IF named THEN x ELSE "") ELSE Unsound(e)
          [] l = <<>> \/ ~Selected(e) -> e
          [] raw -> IF l[1][1] = Dir("endasm") THEN e
                    ELSE [e EXCEPT !.out = @ \o [i \in DOMAIN l |-> l[i][1]]]
          [] d = "error"  -> [Wrong(e) EXCEPT !.stopped = TRUE]
          [] d = "undef"  -> IF named THEN UndefIt(e, x)
                             ELSE IF Len(l) > 1 /\ l[2][1][1] = "pre" THEN Unsound(e) ELSE Wrong(e)
          [] d = "define" -> IF Len(l) = 2 /\ l[2][1][1] = "num" THEN Unsound(e)
                             ELSE IF ~named THEN Wrong(e)
                             ELSE DefineIt(e, x, SubSeq(l, 3, Len(l)))
          [] d = "line" /\ (Len(l) = 1 \/ l[2][1][1] # "num") -> Wrong(e)
          [] d = "line"   -> LET name == IF Len(l) > 2 THEN l[3][1][2] ELSE e.name
                             IN IF Front(name) # dir \/ x \notin 1 .. 32767 THEN Unsound(e)
                                ELSE [e EXCEPT !.shift = x - l[1][2] - 1, !.name = name]
          [] d = "include" ->
               LET path == (IF x.angle THEN BinDir ELSE dir) \o x.path
               IN IF path \notin DOMAIN prog.files \/ e.depth = MAXINCLUDE THEN Wrong(e)
                  ELSE Here(ReadFile(path, e, e.depth + 1))
          [] OTHER -> LET text == Meant(l, e, {})
                      IN IF \E i \in DOMAIN text : text[i][1] = "num" /\ text[i][2] > 32767
                         THEN Unsound(e) ELSE [e EXCEPT !.out = @ \o text]
  IN ReadLines(Tail(ls), dir, after)

\* a file has groups of its own, all of which it ends
ReadFile(path, e, depth) ==
  LET u == Uncommented(prog.files[path])
      r == ReadLines(u.lines, Front(path),
                     [e EXCEPT !.depth = depth, !.groups = <<>>, !.name = path, !.shift = 0])
  IN IF u.clean /\ (r.groups = <<>> \/ r.stopped) THEN r ELSE Unsound(r)

\* what is compiled of the program
Reading ==
  LET Main(e, path) == IF e.stopped THEN e ELSE ReadFile(path, e, 0)
  IN FoldLeft(Main, [macros |-> <<>>, used |-> 0, groups |-> <<>>, name |-> <<>>, shift |-> 0,
                     depth |-> 0, out |-> <<>>, sound |-> TRUE, wrong |-> FALSE,
                     stopped |-> FALSE], prog.args)

\* What the parser gets of a sound program is what C makes of its text: every
\* line of the selected groups and no other, with all macros expanded, however
\* often the table of macros was filled and emptied, and with the line numbers
\* and file names of the files they are in; an error is reported, and the
\* compiler gives up, exactly where there is a reason for it.
ReadsAsC ==
  ~Running => LET r == Reading
              IN r.sound => /\ out = r.out
                            /\ (errors # {}) <=> r.wrong
                            /\ (mode = "exit") <=> r.stopped
=============================================================================
