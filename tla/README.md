# Small-C toolchain: TLA+ specifications and proofs

This directory is a verification project for the Small-C toolchain in
`src/code`: TLA+ models of the parts whose correctness depends on state that
lives longer than one call, TLC configurations that check them on small
instances, and theorems about them that TLAPS has checked for every instance.

Everything runs on MS-DOS in one address space: 16-bit integers, one process,
no threads. What is hard here is not concurrency. It is *long sequences of
legal calls over cached state* (the C library's buffers, the overlay manager's
windows, the linker's tables), *failures of DOS calls in the middle of them*,
and *arithmetic at 64K*.

## 1. The system

| Component | Source | State it keeps | Operations | Talks to |
|---|---|---|---|---|
| Buffered streams | `smalllib/clib` | per descriptor: status bits, pushed-back byte, buffer with use, pointers and a cached end-of-file mark; the DOS position behind it | `fopen` `read` `fgetc` `ungetc` `write` `fputc` `fflush` `bseek` `cseek` `btell` `auxbuf` `clearerr` `fclose` | DOS calls, which can fail or do part of their work; used by every other program here and by linked programs |
| Overlay manager | `smalllib/ovllib` | module loaded in each window, the EXE's descriptor, the windows' bytes | `ovl_init`, `_ovl_check`, `_ovl_load` | called by stubs the linker emits; reads the EXE through the streams |
| Linker, overlays | `ylink/overlays.c` | stub, window and module tables, block offsets | `ParseOverlayDef`, `PassOvl`, `OvlLayoutSegments`, `OvlEmitStubs`, `WriteOvlBlocks`, `PatchOvlTocOff` | fills the tables of Pass3 and Pass4, produces what the overlay manager reads |
| Linker | `ylink/link.c` | module and public tables, inclusion flags, `extBuffer`, segment lengths, start address | Pass1 to Pass4, `Pass2Lib` | object files and libraries in, EXE or library out |
| Assembler | `smalla/asm1.c` .. `asm4.c`, `smalllib/asmlib` | symbol table, macro table, location counters, segment assumptions | a prescan for EXTRN and two passes | compiler output in, object files out |
| Compiler back end | `smallc/cc4.c` | staging buffer, function buffer, literal pool, current segment, `csp` | `gen`, `setstage`, `clearStage`, `dumpstage`, `peep`, `bufout`, `flushfunc` | called by all of the parser |
| Compiler: statements and declarations | `smallc/cc1.c`, `cc2.c` | symbol tables, while queue, switch table, labels, local allocation | one function per statement | preprocessor, expressions, back end |
| Compiler: expressions | `smallc/cc3.c` | operand descriptors `is[]`, stage marks | recursive descent, constant folding | back end |
| Preprocessor | `smallc/ccpre.c` | macro table, include stack, `#if` levels | `preprocess`, `doline`, `ifline` | streams |
| Struct, enum | `smallc/ccstruct.c`, `ccenum.c` | member tables | parsing | symbol tables |
| Tools | `smalla/cmit.c`, `dump.c`, `etc/ar` | none beyond a run | file conversion | streams |

### What makes each part correct

* **Streams.** Whatever the buffering, a caller sees one sequence of bytes and
  one position in it; output that waits in the buffer is neither lost nor moved by a
  call that reports success, so a successful close means that it is on the disk;
  text input turns CR LF, CR and LF each into one line end.
* **Overlays.** A program behaves as if all its code were in memory: the
  processor executes the function the source calls and returns to the caller, unless
  a call of another module of the caller's window came in between;
  the manager's idea of a window and the window's bytes agree; no load touches
  resident code.
* **Linker.** Exactly the library modules that are needed are included; parts
  of modules do not overlap in a segment; every reference reaches its name when
  the program runs; the program starts at its start address; and every link ends.
* **Compiler.** What a program returns and leaves in memory is what its source
  means, with the optimizer and without. The stack is as the compiler counted it: its
  depth at a p-code is the same whichever way it is reached, a local is addressed
  only while it is on the stack, and a function gives the stack back; rewriting staged or buffered code
  keeps its meaning; code without a frame does not use BP; chosen short branches
  reach.
* **Long arithmetic.** Every routine computes what C defines, for all operands.
* **Assembler.** The bytes of the object file, read as the processor and the
  linker read them, are the instructions and data the source asks for; nothing
  moves between the passes; the front matter is the source's; a source with an
  error leaves no object file, a sound one does.
* **Preprocessor.** A line is compiled iff every enclosing group selects it; a
  name means its last definition, however often the table was filled and
  emptied; lines know the file and number they have, through includes and
  `#line`; comments are nothing.

### Hard behaviours

`PROJECT.json` lists the hazards, each at its line. The main ones: a DOS write
that falls short in the middle of a flush, and the retry; a buffer that turns
from input to output under a cached end-of-file mark; a byte that `fgetc`
peeks, followed by a seek or a raw read; a chain of calls through resident code
that evicts a caller's overlay; a table of contents read in text mode; a
linker buffer searched beyond what it holds; sizes in the last paragraph of 64K;
peephole rules whose conditions are flags of *other* p-codes; five passes over a
function's code, each of which trusts what the one before left; a stack depth
kept by the compiler that a jump out of a block changes; a second pass of the
assembler that knows more than the first and must still choose the same sizes;
object records that fill up in the middle of a word with a fixup.

## 2. Modules

| Module | What it is |
|---|---|
| `ByteStream` | abstract specification of a stream: bytes, a position, at most one byte pushed back |
| `Stdio` | the stream as the library implements it, one action per call |
| `MC_Stdio` | instance for TLC |
| `Lemmas` | what the proofs share: the least number with a property, iterations, functions that a recursion determines, sums of parts laid end to end, division |
| `Stdio_proofs` | theorems about `Stdio` |
| `OvlImage` | what the linker lays out for overlays, as functions of the objects' sizes |
| `OvlRuntime` | stubs, overlay manager and a processor that executes the bytes at `pc` |
| `MC_Ovl` | a program with two windows and three overlay modules, laid out by `OvlImage`, run by `OvlRuntime` |
| `OvlRuntime_proofs` | theorems about `OvlRuntime`, and about `OvlImage`: its layout is what they suppose |
| `LinkPass2` | the linker's Pass2: which modules are included |
| `Linker` | `LinkPass2` followed by Pass3 and Pass4 |
| `MC_Link` | one object file and three library modules |
| `Linker_proofs` | what a scan leaves in `extBuffer`, the invariants of Pass2, Pass3 and Pass4, the theorems about `LinkPass2` and `Linker` |
| `Words` | 16-bit words and 32-bit longs of a machine whose bytes have `ByteSize` values |
| `PCodes` | the p-codes: `code[]`'s flags and sizes |
| `Peephole` | the rules `seq00`.. of the optimizer and how `peep` applies one |
| `Stage` | staging buffer: `gen`, `setstage`, `clearStage`, `dumpstage`, and `bufout` behind it |
| `FuncBuf` | function buffer: the passes of `flushfunc`, branch shortening |
| `FuncBuf_proofs` | theorems about the short-branch loop |
| `Consts` | constant folding in 16 and 32 bits |
| `Expr` | the expression analyser of `cc3.c` |
| `Stmt` | statements, local declarations and function definitions of `cc1.c` |
| `LongMath` | `LONGMATH.ASM` |
| `LongRoutines`, `MC_LongMath` | its routines one by one, on all operands of a small machine |
| `LongRoutines_proofs` | theorem: its routines, on all operands of the real machine |
| `Machine` | what the p-codes do on the processor, with the routines of `CALL.ASM` they call |
| `Source` | C programs as trees, their text as tokens, and what C says they do |
| `Compiler` | composition: parse, the passes, run, compare |
| `Programs`, `MC_Compile` | families of programs and the variables they share |
| `AsmTable` | rows of `80x86.mit`, operand types and the order they are tried in, register codes |
| `ObjRecords` | the data records and fixups of `PUTOBJ.C`, and what the linker makes of them |
| `ObjRecords_proofs` | theorems about its calls |
| `AsmExpr` | symbol table, segment assumptions, operand analysis |
| `AsmInstr` | choice of an instruction's row, reach of jumps, code generation |
| `AsmDirectives` | labels, data, equates, procedures, segments, groups, ASSUME, PUBLIC, EXTRN, ORG, END |
| `Assembler` | composition: prescan, macros, both passes line by line, front matter, records |
| `AsmDecode` | what the processor and the linker read from bytes and fixups: a decoder |
| `AsmMeaning` | what a source asks for, and the properties that compare the two |
| `MC_Assemble` | the sources |
| `Preprocess` | reading of lines and files, groups, macro table, expansion, includes |
| `CReading` | what a program's text reads like in C, and the property that compares |
| `MC_Preprocess` | the programs |
| `Preprocess_proofs` | the macro table as a map, the invariant of groups, includes and string queue |

### Stdio

`st` is one record: the per-descriptor entries of the arrays of `CSYSLIB.C`
(`_status` as `eofbit` and `errbit`, `_nextc`, `_bufuse`, `_bufsiz`, `_bufnxt`,
`_bufend`, `_bufeof`) and the DOS file behind them (`file`, `dpos`). `res` is
the last call and what it returned. A library call is one action: DOS runs one
program, nothing interleaves inside a call. Inside an action, the C functions
`_readbuf`, `_writebuf`, `_flush`, `_backup`, `_adjust` and `_empty` are
operators from a stream to the *set* of outcomes it can have, since a DOS call
may do its work, do part of it (disk full), or fail. Addresses in the buffer are
offsets from `_bufptr`; the 512-byte chunks of the loops are kept (`Chunk`).

`spoiled` is a history variable: a DOS call has failed, or `auxbuf` threw away a
buffer with data in it. The library promises nothing afterwards, and neither
does `ByteStream`; the in-bounds part of `BufferCoherent` still holds then, and
`SuccessLosesNothing`. With a byte pushed back `ByteStream` leaves open what `btell`
returns, as the library does not do what `BTELL.C` says of it (section 7).
`IsByteStream` is the refinement: the bytes a reader is entitled to are the file
with the dirty buffer laid over it, the position is the DOS position corrected
by what is in the buffer.

### OvlRuntime and OvlImage

Memory is a function from addresses to bytes `[kind, of, at]`: "byte *at* of
function or stub *of*". The processor executes what it finds at `pc`. An evicted
caller is therefore not an error state somebody has to define: the return goes
to the address, and whatever is there now runs. `chain`, the functions the
source has called, exists only to say what should be running.

| Model | Code |
|---|---|
| `EnterStub`, `LeaveStub` | the 11-byte stub of `OvlEmitStubs`: PUSH encoded, CALL, POP AX, PUSH target, RET |
| `RunCheck` | `_ovl_check` with `_ovl_load` in it |
| `Fgetc`, `Get16`, `TocEntry` | the text-mode reads of the table of contents |
| `OvlInit` | `ovl_init`, which may fail and exit |
| `Call`, `Return` | the compiled program; `Target` is how `P4_FixExt` resolved the call |
| `OvlImage!WinBase`, `Origin`, `StubAt`, `ExeTail` | steps 1 to 7 of `OvlLayoutSegments`, `WriteOvlBlocks`, `WriteOvlToc` |

`OvlRuntime` takes the layout as constants and says in `Placed` what must be right
about them, and in `TocSound` what the manager must read. `OvlImage` computes them
from the sizes of the objects. `MC_Ovl` puts the two together for one program and
evaluates both conditions; section 4 says when they hold for others.

The program makes whatever calls it contains. One of a module that shares its window with a
caller still in progress evicts that caller, directly or through resident code
(section 7): `OnlyClashesEvict` says that nothing else does. When the processor returns to
such a caller (`Evicted`), it executes another module's bytes, and the model ends, as
nothing can be said of what follows; up to there `RightCode` must hold. `OvlImage` adds in 16 bits, as the
code does: `Accepted` are the sums that ylink checks, `Fits` those it does not.
`WrapAssumption` shows two layouts that are accepted and wrong.

### LinkPass2 and Linker

`LinkPass2` keeps `extBuffer` as an array of characters, because what is right
and wrong about it depends on that: a new round of Pass2 resets `extNext` and
`extCount` and leaves the bytes, and `MatchName` compares at any byte. One
action `MatchName` is one comparison of its loop, `P2_EXTDEF` is the rest of the
handler for a name that the buffer does not have, `NextModule` the loop over
modules, `P2_Resolve` the inclusion at the end of a round, `EndPass2` the end of
Pass2 with `P2_ForceInclude` and the second Pass2 of `main`. `Linker` goes on
with Pass3 (`PlaceModule`, `TooLong`, `EndPass3`) and Pass4 (`P4_EXTDEF`: one
name of the module into the buffer, which is the same `extBuffer` started over;
`P4_FIXUPP`: every site of the module fixed up, by `P4_FixExt` for public names,
by `P4_FixSeg` for places in the module's own segments and for segment bases, which
go into `relocData`; `WriteExeHeader`). The words written are kept by address, so
that a fixup that lands on another, or on the null pointers, is seen. All lengths are
16-bit words with the code's own checks for 65535. The program (EXTDEFs, sizes,
whether there are overlays) is chosen in the initial state. What Pass1 leaves is
taken as given: tables without duplicate names, which `P1_PUBDEF` refuses. With
overlays the model ends after Pass2; the layout is that of `OvlImage`.

### The compiler

`Compiler` goes through one program: `DoFunction` parses a function and leaves
p-codes in the function buffer (those that a full buffer has pushed out are in
`c.out`), one action for each pass of `flushfunc` rewrites the buffer,
`ShortBranchRound` is one round of its last loop, `Emit` writes the rest; after
the last function `Load` puts the p-codes on the machine, and `Step` executes
one. The state `c` of the compiler is one record with the globals of the C
source as fields: `csp`, `nxtlab`, `wq`, the stage, the function buffer, the
symbols. The functions of `cc3.c` and `cc1.c` are operators from `c` to `c`,
because they are recursive and nothing interleaves inside them; each keeps the
order of its calls to `gen`.

| Model | Code |
|---|---|
| `Expr!level1`, `down`, `level13`, `primary` .. | the functions of the same names; `is[]` is `c.is` |
| `Stage!gen` | `gen` with its `csp` arithmetic and the fusions it makes while staging |
| `Stage!dumpstage`, `Peephole!peep` | the optimizer's pass over the stage, rule by rule in its order |
| `Stage!bufout` | the function buffer with its overflow |
| `FuncBuf!tryPointMoveFold` .. | the passes of the same names |
| `Stmt!doIf` .. `dofunction` | one operator per statement, declaration and definition |

There are two independent readings of the same program. `Source` says what the
program means by the rules of C on trees; it shares nothing with the compiler
but the tokens of the text. `Machine` says what p-codes do by the assembly text
that `code[]` gives them. `BehavesAsSource` compares the two. Where C leaves a
choice (the value of an uninitialized variable, `junk`), both ways are run. The
processor's flags are modelled by the operands of the last instruction that set
them, or nothing: a branch on flags that an instruction has left undefined is a
trap, as is a jump to an address that holds no p-code. Assembler and linker
are the identity here: labels and names become the addresses they stand for.

`depth` notes, for each p-code reached in a function that has a frame, how far
SP was from BP when it was reached first. `StackDepthIsStatic` compares this
with every later visit, in any frame, and holds the operands relative to BP against SP:
their offsets are what `csp` was when the local was declared, so an account that says
there is more on the stack than there is puts a local below SP. `csp` itself is not in the formula: where
it is wrong and no code comes of it, nothing is.

`ShortBranchesReach` measures in bytes that the loop does not count with: `Length` is
what the assembler makes at most of the text that `outcode` writes for a p-code, and
`Address` adds that up, whereas the loop goes by `code_size[]` (`Offset`).

### The assembler

`Assembler` has one action per kind of line, for both passes: `a.pass` tells
them apart as `pass` does in the code, and what a line generates is written to
the records in pass 2 only. A line comes as its fields (label, name, operation,
operands), an operand as the parts the analyser distinguishes: prefix (`OFFSET`,
`SHORT`, `WORD PTR` ..), segment override, name or number or register, index
registers, displacement. Splitting a line into fields is left out. `a` holds
the globals of `asm1.c` to `asm4.c`; `w` the writer of data records; `obj` the
other records; `made` is a history variable, the lines of pass 2 with what they
generated.

| Model | Code |
|---|---|
| `Prescan` | `prescan`: the EXTRNs of the whole file |
| `DefinitionLine`, `MacroLine`, `MacroCall`, `EndMacro`, `replace` | `dopass` with `putmac`, `newmac`, `putparm`, `replace` |
| `LabelLine`, `MachineLine`, .. `InvalidLine` | `dolabel`, then `domach` or the directive's function, then `gripe` and the next line |
| `expr`, `primary`, `Prefixed` .. | `expr` with `unary`, `primary`, `down2`; the types are records instead of bits |
| `Tries`, `First`, `self`, `setmap` | `look`, `map`, `self`, the arrays `otmap` and `otnext` |
| `Generate`, `genModRM`, `genrel`, `genabs` | the functions of the same names |
| `putNAMs` .. `putPUBs`, `putMODEND` | the records around the passes |
| `putLEDATA`, `putLEDFIX`, `putLIDATA`, `Another` | `PUTOBJ.C`, with the code's offsets |

The properties do not trust the assembler's tables. `AsmDecode` goes from bytes
and fixups to instructions by the processor's encoding; `AsmMeaning` says what a
name stands for by the place where the line that defines it fell in pass 2.
`CodeMeansSource` compares them instruction by instruction: operation, operands,
their sizes, the place every reference reaches, the segment register it goes
through, and no more padding than a forward jump may have. `Sound` says which
sources are right, from the manual and the meaning of names, and
`VerdictIsRight` that the assembler accepts just those.

### Preprocess and CReading

A line is a sequence of items (directive words, names, numbers, strings, comment
marks), since what the preprocessor decides it decides by these; blanks and the
spelling of literals are left out. `f` holds the two files that may be read
from with their line numbers and names, and the stack of `doInclude`. An action
is one call of `doInline` with what comes of the line:

| Model | Code |
|---|---|
| `OpenFile`, `EndOfInput`, `CloseFile` | `openfile`; the end of a file in `doInline` |
| `Ifdef`, `Else`, `Endif`, `Unmatched`, `doerror`, `doundef`, `doline`, `BlankLine`, `SkippedLine` | the branches of `ifline` |
| `Scan`, `Expand`, `CommentGoesOn` | the loop of `preprocess` over a line; `scanComment`, which calls `ifline` for the next line |
| `EndInComment`, `KillNextLine` | what is left in `mline` when the input ends in a comment; the line that `dodefine` kills with a `#define` whose name is a number and stands alone |
| `findMacro`, `Definition` | `findSymbol` with its tombstones, `dodefine` with the string queue |
| `dodefine`, `NamelessDefine`, `DefineFromNextLine` | `#define` on the expanded line: the name of an empty macro is gone by then, and `symname` calls `preprocess` for more |
| `doInclude`, `Deliver` | the other ends of `preprocess` |
| `AsmLine` | `doAsmBlock`, which reads physical lines |

`CReading` is written from the language: a file without its comments, a stack of
groups, a function from names to texts that are expanded where they are used,
again and again. A program is sound where Small-C's order cannot be told from
C's: nothing is defined twice without an `#undef`, no text mentions a
name that changes its meaning while the text is in force, `__LINE__` or
`__FILE__`, groups end in their file, and a line that `ifline` obeys by itself has
no part in a longer comment. Section 7 says what happens in the others.

## 3. Runs

| Run | Shows |
|---|---|
| `stdio` | Every sequence of calls, DOS failing at will: types, buffer coherence, refinement of `ByteStream`, output kept by every call that reports success, line-end decoding |
| `ovl` | Every sequence of calls up to depth 8 runs the right code until it returns to an evicted caller, which only a call of another module of the same window can make of it, and keeps windows, resident code and stack as they should be; every call through a stub arrives |
| `ovl_toc` | *violation*: a 26-byte module has a CtrlZ for its size in the table, which the text-mode read takes for the end of the file; the module is loaded with 255 bytes, and those behind its own go over the next window's module |
| `link` | Every program over the given library is linked with exactly what it needs, or the linker gives up for a reason; layout, references and start address are right; every link ends |
| `link_align` | *violation*: code that ends in the last paragraph of 64K is linked although the alignment overflows |
| `compile` | Some 1500 programs, each with and without the optimizer, are accepted, end, return what their source means, leave the same memory, give the stack back, never branch on undefined flags; stack depths are static and locals lie on the stack, short branches reach over the bytes emitted, code without a frame leaves BP alone, no pass makes the code longer |
| `compile_leak` | *violation*: `break` or `continue` in a block with locals makes the rest of the block leave them on the stack |
| `compile_frame` | *violation*: a function that only steps a parameter loses its frame and still addresses by BP |
| `longmath` | Every routine of `LONGMATH.ASM` computes what C defines, on every pair of longs |
| `assemble` | 281 sources, of which 192 are sound: code, data, records and front matter are what the source asks for, both passes agree, errors are found in the other 89 and only there, every assembly ends |
| `assemble_signext` | *violation*: `ADD BX,200` adds -56 |
| `preprocess` | Some 9700 programs: the parser gets the selected lines, macros, line numbers and file names C gives them; errors come, and the compiler gives up, exactly where there is a reason; a step changes the macro its directive names and no other |

Each property of a passing run has a mutant in `PROJECT.json`: a plausible bug
in one definition, written beside it, that makes TLC find the property violated.

### Bounds

* `Stdio`: files of up to two bytes over CR, LF and CtrlZ, a two-byte buffer
  filled in chunks of one, offsets -1, 0, 1, four records of two bytes. Two
  bytes are enough to have a byte read, one unread and a dirty one in a buffer;
  to be in front of, at and behind the end of file and of buffer; to split a
  CR LF pair across a refill; and for the disk to fill in the middle of a flush.
  The bytes are those that `fgetc` treats specially.
* `OvlRuntime`: two windows, one shared by two modules, one module of two
  objects, resident code that calls into all of them, depth 8. The layout has
  odd sizes, so alignment matters, and blocks beyond file offset 65536.
* `Linker`: four modules, five public names, up to two EXTDEFs in the program
  and one in a library module, names in either case and an undefined one, a
  buffer too small for two of the longer names; code sizes of 9 bytes and of all
  but the last paragraph of 64K. Segment references are those of code and data,
  with SEGDEFs in two orders and a fixup of each kind. Libraries refer to each other in cycles and in
  chains that take three rounds.

* `Compiler`: bytes of four bits, so words have 256 values and longs 65536: every
  carry, sign and overflow of 16- and 32-bit arithmetic happens with numbers TLC
  can run; an address is a word. The function buffer has 44 p-codes instead of 1000
  (`FuncBufSize`), so that the long functions of the run overflow it; the stage
  100 (`StageSize`), more than a statement here uses, as in the code; a short
  branch reaches 24 bytes (`Reach`) instead of 127, so that branches are long and
  short and become short in rounds; `LabelMax` 40, `SwitchSize` 20, `QueueSize` 4. Positions in the buffer are ints of the real
  width (`PosMax` 32767): 44 p-codes cannot wrap one (section 7). The programs are families:
  every binary operator on every pair of operand kinds (constant, global, local,
  parameter; char, int, unsigned, long, pointer), as a value and as a condition;
  every assignment operator; nests of two operators; steps, pointers, casts;
  logic; loops with `break` and `continue`; switches; blocks; structs, bit-fields,
  calls; functions long enough to overflow.
* `longmath`: bytes of two bits, longs of eight: all 256 x 256 operands, but
  divisors of 0.
* `Assembler`: records of 40 bytes (`ObjSize`, 1027 in the code) and a fixup
  buffer of 60 (`FixSize`, 700), so that both fill up in every way within a
  source of 40 lines: at a byte, a word, a fixup, a repeated block; `MAXSEG` 4
  instead of 10. The sources: every row of the table that `AsmTable` has, with
  each operand form (registers of each kind, direct, indexed with and without
  displacement, BP, overrides, sizes); data reached through each segment register
  and through none; each jump and call forward and backward over 121 to 130 bytes,
  around the limit of 127; jumps over jumps; constants, equates and data of each
  size; two segments in turn, groups, ORG, far procedures, externals and publics
  as the compiler writes them; macros with labels and parameters; what is wrong
  in each of these ways. Numbers of 128 to 255 go with bytes and AX only, because
  of `assemble_signext`.
* `Preprocess`: a table of three slots (`MACNBR`, 500 in the code), in which three
  of four names collide; a string queue of 14 items (`MACMAX`, 3499 bytes); two
  levels of includes (`MAXINCLUDE`, 4). Every balanced nest of six directives; four
  definitions and `#undef`s from the empty table and five from the full one, so
  that a name is found, missed and put behind tombstones and around the end of
  the table; definitions by other macros; two uses of a header with every pair
  of lines between and in it; files, comments and `#asm` blocks one by one.

### Fairness

The toolchain is sequential: a program that can take a step takes it, because
DOS runs nothing else. `OvlRuntime` assumes weak fairness only of stubs and
manager (the program itself may loop for ever), `Linker` and `Compiler` of the
whole program, and `Assembler` that it does not stop by itself before it is done
(`Fairness`; every phase has a step, so this is weak fairness of `Next` written
without ENABLED): `AssemblyEnds`. `Finishes` says that parser, passes and branch shortening end and
that the compiled program returns, since every source here does. `Stdio` has no
liveness: nothing in it waits. `Preprocess` has none stated: TLC finds no deadlock, and its runs are finite.

## 4. Theorems

TLAPS checks all proofs in `Stdio_proofs`, `OvlRuntime_proofs`,
`Linker_proofs`, `LongRoutines_proofs`, `Preprocess_proofs`, `FuncBuf_proofs`,
`ObjRecords_proofs` and `Lemmas`. Assumptions
on constants are the named ASSUMEs of the modules, which TLC evaluates in every
run, and the hypotheses named here.

**Stdio.** The inductive invariant is `Good(st)` (types, and for every use of
the buffer the relation of `nxt`, `end`, `dpos`, the file and the cached end-of-
file mark), with "an error implies spoiled" and "a closed stream has an empty
buffer". `BufferCoherent` alone is not inductive: a refill needs to know that
the cached mark is right, a flush that the buffer lies where the DOS position
says. The proof goes through lemmas on each C function (what `_flush`,
`_backup`, `_readbuf`, `_writebuf` do to a good stream), then one step per call.

* `TypeCorrect`, `BufferIsCoherent`: no hypotheses.
* `StreamIsByteStream`: assumes `FF \notin Byte`. The byte 0FFh comes out of a
  signed char as -1, which is EOF; the refinement does not hold for files with it.
* `SuccessIsLossless`: `SuccessLosesNothing`, no hypotheses, so also after writes, flushes
  and closes that failed: a flush that returns 0 has written all of the buffer, a write
  that is counted is in it. It says nothing of the call that fails: a flush that
  falls short has moved what is still in the buffer (section 7).
* `TextIsDecoded`: `FgetcDecodes`, again for `FF \notin Byte`; it follows from the step
  of `ByteStream` that the refinement gives for each `fgetc`.

**Overlays.** About the program that runs, the theorems suppose
a right layout (`Placed`), and that the manager reads what the linker wrote
(`TocSound`), and nothing of the calls it makes. The invariant is: resident bytes are those of the image; a window
that is marked holds its module; and, in each of the situations of the
processor (running a function, back at an evicted caller, entering a stub, in the manager, leaving a stub),
what the stack holds. `RightCode` alone is not inductive: that a *return* finds
the caller or finds it `Evicted` needs the mark of the window to be right, and that the
address on the stack is the caller's.

* `OverlaysAreTransparent`, `WindowsHoldTheirModule`, `OnlyClashingCallsEvict`,
  `StacksAreBalanced`, `ResidentCodeIsNeverWritten`, `TypeCorrect`.

About the linker, they suppose that Pass1 and the directives have left
tables that make sense (`OvlImage!Sound`: modules and windows exist, functions do not
share bytes of an object, no function has two stubs), for objects of any number
and sizes, and, where it says so, that the sizes fit (`Fits`: no module is longer than 65534 bytes and
the code does not end in the last paragraph of 64K; ylink checks neither, and section 7 says what happens then). `Linked` says that what runs is what `OvlImage` has laid out.

* `LayoutIsPlaced`: if the sizes fit, the layout is right. Resident code, stubs and windows follow
  each other; a window is as long as its longest module, so modules of different
  windows never overlap; every function is at the address calls are resolved to,
  in the image or in its module's block; blocks and table do not overlap in the file.
  The layout's recursive functions are sums of parts, rounded up to even addresses:
  that such a function has the values its equations say comes from `Recursion` and
  `Agree` of `Lemmas`, that parts are apart from `Rises` and `PartsOfSum`.
* `TocIsRead`: `TocSound` holds *exactly* when no byte of the table is 0Dh or 1Ah and
  every module is shorter than 8000h (`OvlImage!TocIsPlain`). So run `ovl_toc` shows
  no accident of its layout: any such byte makes `fgetc` spoil the word it is in, as
  the first one that is not plain is read as something else (`WordIsMisread`).
* `LinkedProgramsRun`: both with `OverlaysAreTransparent`: a program that ylink lays
  out, of sizes that fit and with a plain table, executes what its source calls up to the first return
  to an evicted caller.

**Linker.** The inductive invariant is `Pass2Inv /\ PlacesInv /\ Pass4Inv`, for
any number of modules, any public names and EXTDEF lists, and a buffer of any length.

`Pass2Inv` has to say what is in a buffer that is never cleared and is searched
from any byte. While a scan goes on (`ScanWith`): the first `next` bytes are the
names `xs` collected so far, one behind the other with their NULs (`Laid`);
each is an EXTDEF of an included module and has a definer (`Collected`); from
*whatever* byte `MatchName` reads a string, also behind `next` where names of earlier scans lie,
cut off anywhere by what was written over them, it reads the tail of a name
whose module is included or will be when `xs` are resolved (`TailsKnown`); and the
EXTDEFs the scan has passed are such names (`Seen`). Between scans: the included
modules are contained in every set that is closed under references (`Least`), and
the second Pass2 starts with the overlay manager included (`ForcedIn`).
`AllResolved` alone is not inductive: that a scan which collects nothing has
found nothing missing needs to know that a match in the buffer is never a leftover of
a name whose module is still out.

* `ResolvesAll`: `AllResolved`, if no EXTDEF is the tail of another (`TailFree`).
  Without that it is false: section 7 has the case.
* `IncludesNothingNeedless`: `NothingNeedless`, without that hypothesis.
* `FailsForCauseOnly`: `GivesUpForCause`, if no EXTDEF is the empty name (`NoneEmpty`;
  `MatchName` skips NULs and would never find it). `CauseInv` is invariant beside
  `Pass2Inv`: the names collected are all of modules that are still out, the bytes of their
  definitions are as many as the buffer has in use (`Bytes(Gathered(xs)) = next`,
  which is false once a name is there twice), and no name that starts before `try` is
  the one looked for (`Ahead`). The last is what `MatchName` leans on when it goes on
  from the byte at which a comparison failed, and not from the next name: no
  name can start in between, since the NUL before it would have failed first.

`PlacesInv` says that the modules Pass3 has placed lie one behind the other in
each segment, behind the null pointers and below the segment's length, and where the
start address is at each time. `Pass4Inv` says that `extBuffer` holds the
EXTDEFs of the module being fixed up, that each word fixed up so far is still
the one that was written (so no fixup has landed on another, because the parts
are apart), that the null pointers are 0, and that `relocData` has exactly the
segment bases written so far.

* `PartsAreApart`, `StartIsEntry`, `TypeCorrect`: no hypotheses.
* `ReferencesReach`: `RefsReach`, if the segments are whole paragraphs
  (`OverflowIsReported`, which run `link_align` shows violated for code that ends
  in the last paragraph of 64K): data starts at the paragraph behind the code,
  so references to data are right only then.

**Long arithmetic.** `RoutinesCompute` is `Computes` for every pair of longs on machines
whose bytes have 2, 4 or 8 bits, so also on the real one. The routines are
straight-line code but for the division loop of 32 rounds and the shift loops.
Their results are defined by recursive functions, and an induction over data is
out of reach, so the proof uses that a function with `f[0] = a` and `f[n] =
g(f[n-1])` is what any other description of it with these equations is: if they differed, there
would be a least place where they do (`LeastNat`, `Iterates`, `Agree` in
`Lemmas`). For division that description is the loop invariant `Divided`:
after *n* rounds the upper word pair holds the remainder and the lower one the
quotient of the upper *n* bits of the dividend, followed by the bits not yet
divided. The remainder is doubled in the pair of registers before it is compared
with the divisor, but it is less than 2^n after *n* rounds whatever the divisor, so
the doubling loses no bit, and the theorem holds for divisors of any size.

**Preprocessor.** `Preprocess` does not need the library's recursive operators, and
`ScannedFrom`, the only recursion, is a recursive function, so the module can be proved
about. The theorems hold for any set of programs of the shape that
`ProgramsAssumption` states (paths of the command line exist, a line is a sequence of
items), any table size from 2 on and any hash.

* `TableIsTheMap`: `MacrosAreKept`. The inductive part is the invariant of open addressing
  (`Sound`): no name is in two slots, and no slot is empty between a name's hash and
  the name (which `doundefEmpties`, the mutant, breaks); with it, for every name in the
  table, a null in the string queue behind its offset (`Kept`). From that `FindIs` gives
  what the search returns: the slot of the name, or the first tombstone or empty slot that keeps
  the table sound, or -1 when every slot has a name. `MacroGoes` and `MacroComes` are the
  two updates, `TextStays` and `TextComes` what the queue then holds. That no
  text has a null in it needs that what the expansion of a line puts into `pline` has
  none (`ScannedIs`), and so that every line read is one of the program, for which
  `Reading` says where the open files and those on the stack stand.
* `GroupsAndFilesNest`: `Nested`: `skiplevel` is 0 or the number of a level that is open, the
  stack of includes holds something exactly while an included file is read and never more
  than `MAXINCLUDE`, the string queue has room as long as the compiler runs. What the stack
  holds is `Reading`, which `TableIsTheMap` rests on. `Nested` is a theorem only and in no run.

**Short branches.** `FuncBuf` has no RECURSIVE operator, so the loop at the end of
`flushfunc` can be proved about for every buffer of p-codes (`IsCode`), whatever the
function, the reach and the number of labels that can be recorded. `Loop(round)` says
that `round[n]` is the buffer behind *n* rounds.

* `RoundsShorten` and `LoopEnds`: a round never makes the code longer, one that
  changes anything makes it shorter, and so the loop ends after at most as many rounds as
  the function has bytes (the comment at `cc4.c:2432`). What a round needs is
  that every short form is smaller than the branch it replaces
  (`ShortIsShorter`, from `code_size[]` and `shortbranchTab[]`).
* `ShortBranchesFit`: `AllReach`, which the run checks as `ShortBranchesReach`, behind
  every round, if no branch was short at first, an int can hold the size of the function
  as `code_size[]` has it (`Size(round[0]) <= PosMax`), and no p-code of it is longer
  than `code_size[]` says (`WithinTable`). Without either of the two it is false (section 7); the
  second is what `cc4.c:1682` claims of every p-code. A round judges every branch by the sizes it began with,
  although it changes them; that is harmless because two places only come closer
  (`SumsShrink`: sums of smaller terms lie closer together and never cross): first in the bytes of
  `code_size[]` (`NearInEveryRound`), and then, by the same lemma, in those that are emitted
  (`NearIsReached`).

The rest of the compiler is recursive, so the theorems are about the operators that
`Compiler` uses and not about its specification.

**Object records.** `ObjRecords` has no recursive operator; what the linker makes of the
records (`Image`, `Fixups`) is written with recursive functions. `Assembler` reaches
recursive operators, so these are theorems about the calls, for every state `Good(o)`
of the writer and every `ObjSize` from 21 to 1031 (in the code 1027, which `obj1.h`
says not to increase). `Good` has the types (`Writers`), that the open record and its
fixups are within their buffers and each fixup within the record (`RecordFits`), and
that the running offset is where the next byte of the record goes (`InStep`). Each
call keeps it; run `assemble` checks it of every state it reaches (part of
`AsmMeaning!TypeOK`).

* `DataIsPlaced`, `FixupIsPlaced`, `BlockIsPlaced`: a call puts its bytes at the running
  offset, also when a record fills up in the middle, and its fixup at just these
  bytes; everything put there before stays. `NothingIsLost`: nor does closing a
  record for another kind, segment or offset change anything.
* `FixupIsPlaced` is for items of one or two bytes, or with room in the record; `PointerIsCut`
  shows that it is false without: of a far pointer with one to three bytes free, the
  fixup names a place the record does not reach.
* `OffsetGoesBack`: what `putLIDATA` does to the running offset instead of moving it on.
  `InStep` therefore speaks of records of bytes only.

**Only model-checked.** `CallArrives`, `LinkEnds`, `Finishes` and `AssemblyEnds` are liveness under
fairness, which the prover does not do. The compiler, the assembler and
`CReading` are recursive throughout (expressions, statements, operand lists,
texts of macros), and the modules declare RECURSIVE operators, which the prover does not take;
with them the properties of the runs `compile` and `assemble`, and `ReadsAsC`, stay with TLC.
The violations are TLC's.

## 5. Not modelled

Console and unbuffered descriptors, `freopen`, redirection and the memory
allocator; the byte formats of object records (Pass1 is taken as its tables);
copying of LEDATA and LIDATA; more than eight segment bases (`RelocAssumption`); the overlay directive parser; the library writer. In the preprocessor:
lengths of lines and names, literals character by character, date and time, an
`#include` without a file, `#undef` without a name, macros between `<` and `>`. In the compiler: the layout of structs, global variables with their initializers
and the text of the output (`outcode`, `toseg`), prototypes and the check of
arguments against them (`checkFnArgCountAndTypes`), warnings, the buffer limits of
arguments, and the initialization of rows of local `char` arrays by strings
(`initLocMDCharRow`). In the assembler: the 80386's addressing modes and its
`USE32` segments, arithmetic in expressions, floating-point and packed decimal
constants, `.CASE`, the listing, and how a line is split into fields. `PROJECT.json` lists each component with the reason.

## 6. Plan

Every module planned is written, and what of it can be proved is. What could be added:
structs and enums with their layout, global initializers, Pass1 on the bytes of
object records, and the overlay directive parser.

## 7. Divergences seen while modelling

The violation runs show the ones with the most reach. The following were met on
the way, by reading or with programs that are kept out of the passing runs, and
have no run of their own.

* Streams: `_flush` leaves the buffer as it was after a short DOS write, so a
  retry writes its first bytes twice (`CSYSLIB.C:299`; the comment at 288 says the
  pointers are reset in any case), and no property here catches that; `btell` does
  not count a pushed-back byte (`BTELL.C:12`; line 5 calls the result the "offset to
  next character"), and returns success when DOS refuses the seek, as `ctell` does; `read` returns 0 for a byte it has delivered when an old EOF bit
  is set (`FREAD.C:29`).
* Overlays: a module that calls resident code which calls another module of the
  same window returns into that module's code, as `_ovl_check` evicts the caller
  and nothing reloads it (`ovlchk.c:19`); the readme (`ovllib/readme.md` 153, 154)
  calls both calls always safe, and the linker warns of direct ones only. TLC shows it when `~Evicted` is made an
  invariant of `MC_Ovl.cfg`: main calls r, r calls a, a calls r, r calls b, b and r return,
  and the code of b is where a was.
* Overlays: the sizes of modules (`overlays.c:409`, 455) and the last paragraph of the code
  segment (463) are added in 16 bits and not checked, unlike stubs and windows (426, 437). A module of 65540 bytes is laid
  out and written as one of 4, and code that ends in the last paragraph of 64K makes a segment
  of 0 bytes, into which the data is then written (`WrapAssumption`).
* Linker: nothing checks that there are at most eight segment bases
  (`link.c:1476`; `link.h:32` says "up to 8"): the ninth is written behind the
  table, and from the tenth on `WriteExeHeader` overwrites code. If code and data
  together reach 64K, the base of the stack is 4096 paragraphs too low
  (`link.c:1469` adds them in 16 bits); `CALL.ASM` multiplies it by 16 in 16 bits and
  does not notice. The base of a segment in a data segment would be written into
  the code (`link.c:1475`). A public name that is the tail of another is taken for collected
  (`link.c:2002`), and its module is left out.
* Preprocessor: `#define` is obeyed on the expanded line (`ccpre.c:943`; the
  comment above `dodefine` calls it the raw line). So a second `#define N 0` reads
  `#define 0 0` and is an error, though C allows it; if the text is a name, that
  name is defined instead; and if it is empty, the definition takes the *next
  line* of the program for its name and text, without a message. Texts are
  expanded where they are written: `#define A B` before `#define B 1` leaves B, and
  `__LINE__` in a text is the line of the definition.
* Preprocessor: the directives of `ifline` are obeyed in comments too (an `#error`
  in a comment ends the compilation), and the comment behind one, as in `#endif
  /* ...`, is not looked at: its second line is compiled. A directive behind a
  comment and a blank is not recognized. A group that is not ended is not reported,
  and goes on in the next file. A
  comment that is not ended is not reported either (`ccpre.c:764`), and what the
  line before left behind is compiled as the last line, so that `/*}` as a last line
  ends a function.
* Preprocessor: a `#define` of which only a number is left, as of a second `#define N`
  where N is 5, takes the line that follows with it (`illname` skips to the next
  token, and `dodefine` then kills the line it is on), and `__LINE__` behind line 32767 expands to nothing.
* Preprocessor: `#line 1 "name"` changes the directory where quoted includes of
  that file are looked for (`ccpre.c:432`, against the comment at 406), and takes
  up to 29 characters into `msname`, which has 13 bytes (`ccpre.c:632`). A line
  that fills `pline` is reported, but gets no NUL (`ccpre.c:935`).
* Compiler, optimizer on: `a = *q = (b = 1)` pops the wrong operand; pattern A of
  `tryBoxingElimination` never fires; `if (u << 0)` branches on flags that no
  instruction has set.
* Compiler, short branches: `pos` is an int, and `code_size[]` has 255 for each word of
  a switch table (`cc4.c:2460`). A branch over two switches with 127 cases in all, and
  127 to 382 bytes of other code, spans 65280 bytes more than the code: the int is back at
  what a short branch reaches, and `JMP` becomes `JMP SHORT` over more than 600
  bytes (`cc4.c:2462` says "any long branch whose target falls within ±127 bytes").
* Compiler, short branches: `cc4.c:1682` says of `code_size[]` "Values are worst-case
  (largest encoding) to ensure safety". GETb1su and GETb1pu (`cc4.c:1773`, 1716) have 5
  for 6 bytes and ADD2n (`cc4.c:1763`) 3 for 4, when the displacement or number
  needs two bytes; the steps rINC1 and rDEC1 (`cc4.c:1752`) have 2, but a pointer to
  `long` is stepped by 4. So a branch over two of `++lp`, and as much else as just fits,
  becomes short and does not reach (`TightBranches` in `Programs`: `ShortBranchesReach` fails for it). The
  assembler reports the jump, so no wrong code is made of it.
* Compiler, returns: a block that ends in `return` deletes its locals from the stack by
  RETURN but not from `csp` (`cc1.c:2519` generates nothing behind STRETURN, and `doReturn`
  restores `csp`, `cc1.c:2794`). Behind `if (!i) { int x = 4; return x; }` it is 2 too
  low, and a local of a later block, `{ int y = 5; g(); return y; }`, is put below SP, where
  the call of `g` writes its return address. `BehavesAsSource` and
  `StackDepthIsStatic` fail for that program (`BlockPrograms` of `MC_Compile`), which
  is in no run.
* Compiler, optimizer off (`-no`): `x += 2` on a local goes wrong.
* Compiler, both: the value of an assignment to a `char` is not truncated; a
  comparison of unsigned operands has an unsigned result type; `p + i` with a
  single global load is not scaled and `(p == arr) + 1` is; `0 < i` with a
  constant zero on the left in a condition; a negative `int` constant times a
  `long`; `8L / 2` is not folded; `long y; y = u = 5`; the value of a compound
  assignment to a bit-field is the whole word; `l ? 3 : 4` in a function of type
  `long`; `(unsigned char) ch` is not narrowed; a local `long *p = expr` is
  initialized as a long; `nogo` is reset by a nested block.
* Compiler: after `return s;` of a struct in the middle of a function the stage
  stays open, and `clearStage` throws away what later statements stage: `if (n)
  return s; s.a = n; return t;` loses the assignment (`cc1.c:2742`, against the
  comment at `cc1.c:1254`; the programs are `ReturnPrograms` of `MC_Compile`). The
  trailing part of a function that overflows the function buffer is optimized by
  itself: without an operand relative to BP it becomes frameless and returns to
  the BP that its head has pushed (`cc4.c:2190`, against `cc4.c:2173`;
  `OverflowPrograms`).
* Assembler, code: `CALL DWORD PTR [BX]` and `JMP DWORD PTR [BX]` assemble as the
  near forms, as `_32` is tried as `/1632` first; a call or jump through memory
  gets no segment prefix, not even one that is written; `BYTE PTR D[BX]`, `INC
  D[BX]` and `BYTE PTR 4[BX]` lose the size and take that of an earlier line's
  second operand (`asm2.c:226`; manual 2183); `ADD BX,OFFSET D` with an offset
  below 256 generates 83h with two bytes behind it; `OFFSET` of a far procedure
  and `DW` of one generate four bytes.
* Assembler, jumps: `JMP SHORT` to an external emits a byte that nobody fixes; a
  conditional jump forward out of reach is reported as "Wrong Hardware"; externals
  with an index above the segment's, and far procedures at a larger offset of an
  earlier segment, are taken for forward references and need a FAR PTR; `JMP NEAR
  PTR` of a forward name is sized as if it were at address 0; `DW $` has the
  address of the last instruction.
* Assembler, names: EQU may be repeated, though the manual (1538) forbids it; an
  EQU of a constant that comes later is 0 in pass 1 without a message; data names
  that are there twice are not reported; a change of a segment's length between
  the passes is not noticed; the clash of an EQU with another name stores through
  an undefined pointer; the class name of a segment that is also a segment gets a
  wrong index; a macro that is called before its definition ends the assembly with
  "Lost Label"; a PUBLIC of a name that is a constant, as the last one, is not
  written.
* Assembler, segments: code outside of a segment is assembled without an error
  (manual 1583); ASSUME refuses a group that the manual (1693) allows.
* Object records: `putLIDATA` moves the offset on by `len` after `while(len--)`, so
  a repeated block moves it *back* by its repetitions, and after one that closes its
  record by being too long the next begins at a wrong offset (`PUTOBJ.C:193`; more than
  170 uninitialized globals in a row do it). A far pointer for which a record has one to
  three bytes left is cut, since only two bytes are held together (`PUTOBJ.C:207`), and its
  fixup, computed as a place in the new record (`PUTOBJ.C:290`), is less than 0, which
  ten bits make 1021 to 1023.
