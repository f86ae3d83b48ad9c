------------------------------ MODULE OvlRuntime ------------------------------
(***************************************************************************)
(* A linked program with overlays, as the processor runs it: the code      *)
(* segment, the stack of return addresses, the 11-byte stubs that ylink    *)
(* emits, and the overlay manager (smalllib/ovllib) that swaps modules     *)
(* into their windows.                                                     *)
(*                                                                         *)
(* What runs is decided by the bytes at pc.  "chain" records whose turn it *)
(* should be.  Nothing keeps a call from evicting the code of a caller     *)
(* still in progress; when the processor returns to code that is gone it   *)
(* goes on with whatever is there now, and the model ends.                 *)
(*                                                                         *)
(* A byte of memory or of the EXE file is [kind, of, at]: byte number at   *)
(* of function or stub "of", or the number "of".  A function has two bytes *)
(* that matter: its entry, and the place where the calls it makes return.  *)
(***************************************************************************)
EXTENDS Integers, Sequences

CONSTANTS
    Fun, Main,      \* the functions, and the one that runs first
    Calls,          \* <<f, g>>: f contains a call of g
    ObjOf,          \* the object module a function is in
    Module,         \* the overlay modules, numbered from 0
    Resident,       \* the "module" of all code that is always there
    ModOf,          \* the module of an object module's code
    Window, WinOf,  \* the windows, and the window of a module
    Base,           \* the address of a window
    Size,           \* the bytes of code in a module
    Entry,          \* the address of a function
    Stub,           \* the address of a function's stub
    Check,          \* the address of _ovl_check
    Image,          \* the code segment DOS loads
    Exe,            \* the part of the EXE file behind that: blocks and TOC
    Block,          \* where a module's code is in Exe
    TocOff,         \* where the TOC is in Exe (_ovl_toc_off)
    Depth           \* bound: calls in progress

VARIABLES
    ram,            \* the code segment
    win_grp,        \* _ovl_win_grp: the module in each window, -1 for none
    pc,             \* the address of the next instruction
    stack,          \* what calls and stubs have pushed, the top last
    chain           \* the functions in progress, as the source calls them

vars == <<ram, win_grp, pc, stack, chain>>

Byte(k, x, i) == [kind |-> k, of |-> x, at |-> i]
Number(n) == Byte("number", n, 0)
Exit == -1
Word == 0 .. (256 * 256) - 1

Of(f) == ModOf[ObjOf[f]]
Running == chain[Len(chain)]

-----------------------------------------------------------------------------
(* ylink: which calls go through a stub (OvlRegStubs, P4_FixExt).  A stub  *)
(* is registered for a function that another module refers to; then every  *)
(* reference by name goes to it, while calls inside one object are direct. *)

Stubs == {g \in Fun : Of(g) # Resident /\ \E f \in Fun : <<f, g>> \in Calls /\ Of(f) # Of(g)}

(* Mutant: references are resolved to the function itself.                 *)
TargetDirect(f, g) == Entry[g]

Target(f, g) == IF ObjOf[f] # ObjOf[g] /\ g \in Stubs THEN Stub[g] ELSE Entry[g]

Encoded(m) == (WinOf[m] * 256) + m

(* The bytes of memory that belong to no window.                           *)
InWindow(a) == \E m \in Module : a \in Base[WinOf[m]] .. (Base[WinOf[m]] + Size[m] - 1)

(* What the linker must have laid out (OvlLayoutSegments, OvlEmitStubs,    *)
(* WriteOvlBlocks), for the 16-bit addresses the machine has: windows are  *)
(* in memory and do not overlap, and stubs, the manager and every function *)
(* are at the addresses that calls are resolved to.                        *)
Outside(a, byte) == a \in DOMAIN Image /\ ~InWindow(a) /\ Image[a] = byte

InBlock(m, d, byte) == d \in 0 .. Size[m] - 1 /\ Exe[Block[m] + d] = byte

WindowPlaced(m, i) ==
    /\ Base[WinOf[m]] + i \in DOMAIN Image
    /\ Block[m] + i \in DOMAIN Exe
    /\ \A k \in Module : WinOf[k] # WinOf[m] =>
          Base[WinOf[m]] + i \notin Base[WinOf[k]] .. (Base[WinOf[k]] + Size[k] - 1)

FunPlaced(f, i) ==
    IF Of(f) = Resident THEN Outside(Entry[f] + i, Byte("fun", f, i))
    ELSE InBlock(Of(f), (Entry[f] + i) - Base[WinOf[Of(f)]], Byte("fun", f, i))

ASSUME ProgramAssumption == Main \in Fun /\ Calls \subseteq Fun \X Fun

ASSUME ObjectAssumption ==
    /\ ObjOf \in [Fun -> DOMAIN ModOf] /\ Of(Main) = Resident
    /\ \A o \in DOMAIN ModOf : ModOf[o] \in Module \cup {Resident}

ASSUME ModuleAssumption ==
    /\ Module \subseteq 0 .. 31 /\ Resident \notin Module
    /\ Size \in [Module -> Nat] /\ Block \in [Module -> Nat]

ASSUME WindowAssumption ==
    /\ Window \subseteq 0 .. 7
    /\ WinOf \in [Module -> Window] /\ Base \in [Window -> Nat]

ASSUME AddressAssumption == Entry \in [Fun -> Nat] /\ Stub \in [Stubs -> Nat]

ASSUME BoundAssumption == TocOff \in Nat /\ Depth \in Nat

ASSUME ImageAssumption == DOMAIN Image \subseteq Word

\* the layout is right: what OvlImage computes is (OvlRuntime_proofs), and every
\* theorem about the running program has it for a hypothesis
WindowsPlaced == \A m \in Module : \A i \in 0 .. Size[m] - 1 : WindowPlaced(m, i)
FunsPlaced    == \A f \in Fun : \A i \in 0 .. 1 : FunPlaced(f, i)
StubsPlaced   == \A g \in Stubs : \A i \in {0, 6} : Outside(Stub[g] + i, Byte("stub", g, i))
CheckPlaced   == Outside(Check, Byte("check", Main, 0))

Placed == WindowsPlaced /\ FunsPlaced /\ StubsPlaced /\ CheckPlaced

-----------------------------------------------------------------------------
(* _ovl_load.  The TOC is read with fgetc, which takes it for text: a CR   *)
(* comes back as a newline and swallows one behind it, or leaves the byte  *)
(* behind it for the next call; a CtrlZ and the end of the file are EOF.   *)

(* A byte is a signed char, so 0FFh is EOF too, and is lost when pushed    *)
(* back.                                                                   *)

NoByte == -1
Signed(b) == IF b < 128 THEN b ELSE b - 256
ByteAt(p) == IF p \in DOMAIN Exe /\ Exe[p].kind = "number" THEN Signed(Exe[p].of) ELSE NoByte

(* A reader at offset "at" with "back" pushed back; "got" is what it got.  *)
Got(c, p, b) == [got |-> c, at |-> p, back |-> b]

Fgetc(s) ==
    LET ch == ByteAt(s.at)
        peek == ByteAt(s.at + 1)
    IN  IF s.back # NoByte THEN Got(s.back, s.at, NoByte)
        ELSE IF ch = 26 THEN Got(-1, s.at + 1, NoByte)
        ELSE IF ch = 13 THEN Got(10, s.at + 2, IF peek = 10 THEN NoByte ELSE peek)
        ELSE Got(ch, s.at + 1, NoByte)

(* ovl_get16: (hi << 8) | (lo & 0xFF) in 16 bits.                          *)
Get16(lo, hi) == ((hi.got % 256) * 256) + (lo.got % 256)

(* The four words of the TOC entry of module m, as _ovl_load gets them;    *)
(* code_size is an int, so from 8000h on it is negative and copies nothing.*)
TocEntry(m) ==
    LET read[n \in 0 .. 8] ==
            IF n = 0 THEN Got(0, TocOff + (m * 8), NoByte) ELSE Fgetc(read[n - 1])
        word(n) == Get16(read[2 * n - 1], read[2 * n])
    IN  [base |-> word(1),
         size |-> IF word(2) >= 128 * 256 THEN 0 ELSE word(2),
         from |-> word(3) + (word(4) * (256 * 256))]

(* Mutant: the copy loop moves one byte too many.                          *)
CopiedTooFar(e) ==
    [a \in DOMAIN ram |->
        IF a \notin e.base .. (e.base + e.size) THEN ram[a]
        ELSE LET p == e.from + (a - e.base)
             IN  IF p \in DOMAIN Exe THEN Exe[p] ELSE Number(NoByte)]

(* The copy loop; reads behind the end of the file deliver junk.           *)
Copied(e) ==
    [a \in DOMAIN ram |->
        IF a \notin e.base .. (e.base + e.size - 1) THEN ram[a]
        ELSE LET p == e.from + (a - e.base)
             IN  IF p \in DOMAIN Exe THEN Exe[p] ELSE Number(NoByte)]

Toc == [m \in Module |-> TocEntry(m)]

(* What _ovl_load reads is what WriteOvlToc wrote.                         *)
TocSound ==
    \A m \in Module :
        Toc[m] = [base |-> Base[WinOf[m]], size |-> Size[m], from |-> Block[m]]

Load(m) == ram' = Copied(Toc[m])

-----------------------------------------------------------------------------
(* The processor.  Each action is enabled by the byte at pc.               *)

(* A function's module is there, by the manager's account.                 *)
Loaded(f) == Of(f) = Resident \/ win_grp[WinOf[Of(f)]] = Of(f)

(* A return has led to a function whose window now holds another module.   *)
Evicted == pc = Entry[Running] + 1 /\ ~Loaded(Running)

At(k) == ~Evicted /\ pc \in DOMAIN ram /\ ram[pc].kind = k
Here == ram[pc].of

Top == stack[Len(stack)]
Pop(n) == SubSeq(stack, 1, Len(stack) - n)

(* main calls ovl_init first, which may fail to open the EXE and exit.     *)
Starting == pc = Entry[Main] /\ stack = <<>>

(* Mutant: the windows start out as the zeroes of the data segment.        *)
NothingLoadedForgotten == [w \in Window |-> 0]

NothingLoaded == [w \in Window |-> -1]

OvlInit ==
    /\ At("fun") /\ Starting
    /\ \/ win_grp' = NothingLoaded /\ pc' = pc + 1
       \/ pc' = Exit /\ UNCHANGED win_grp
    /\ UNCHANGED <<ram, stack, chain>>

(* CALL: a function calls from its body and goes on behind the call.       *)
Call(g) ==
    /\ At("fun") /\ ~Starting /\ Len(chain) < Depth
    /\ <<Here, g>> \in Calls
    /\ stack' = Append(stack, (pc - ram[pc].at) + 1)
    /\ pc' = Target(Here, g)
    /\ chain' = Append(chain, g)
    /\ UNCHANGED <<ram, win_grp>>

Return ==
    /\ At("fun") /\ ~Starting
    /\ IF stack = <<>> THEN pc' = Exit /\ UNCHANGED <<stack, chain>>
       ELSE pc' = Top /\ stack' = Pop(1) /\ chain' = SubSeq(chain, 1, Len(chain) - 1)
    /\ UNCHANGED <<ram, win_grp>>

(* The first half of a stub: PUSH encoded, CALL _ovl_check.                *)
EnterStub ==
    /\ At("stub") /\ ram[pc].at = 0
    /\ stack' = stack \o <<Encoded(Of(Here)), pc + 6>>
    /\ pc' = Check
    /\ UNCHANGED <<ram, win_grp, chain>>

(* Mutant: the whole encoded word is noted, not the module in it.          *)
RunCheckEncoded ==
    /\ At("check")
    /\ LET encoded == stack[Len(stack) - 1]
           win_idx == encoded \div 256
           grp_idx == encoded % 256
       IN  IF win_grp[win_idx] = grp_idx THEN UNCHANGED <<ram, win_grp>>
           ELSE Load(grp_idx) /\ win_grp' = [win_grp EXCEPT ![win_idx] = encoded]
    /\ pc' = Top
    /\ stack' = Pop(1)
    /\ UNCHANGED chain

(* _ovl_check finds the encoded word below its return address.             *)
RunCheck ==
    /\ At("check")
    /\ LET encoded == stack[Len(stack) - 1]
           win_idx == encoded \div 256
           grp_idx == encoded % 256
       IN  IF win_grp[win_idx] = grp_idx THEN UNCHANGED <<ram, win_grp>>
           ELSE Load(grp_idx) /\ win_grp' = [win_grp EXCEPT ![win_idx] = grp_idx]
    /\ pc' = Top
    /\ stack' = Pop(1)
    /\ UNCHANGED chain

(* Mutant: the encoded word stays on the stack.                            *)
LeaveStubUnbalanced ==
    /\ At("stub") /\ ram[pc].at = 6
    /\ pc' = Entry[Here]
    /\ UNCHANGED <<ram, win_grp, stack, chain>>

(* Mutant: the stub pushes its own address as the target.                  *)
LeaveStubToStub ==
    /\ At("stub") /\ ram[pc].at = 6
    /\ pc' = Stub[Here]
    /\ stack' = Pop(1)
    /\ UNCHANGED <<ram, win_grp, chain>>

(* The second half: POP AX, PUSH target, RET.                              *)
LeaveStub ==
    /\ At("stub") /\ ram[pc].at = 6
    /\ pc' = Entry[Here]
    /\ stack' = Pop(1)
    /\ UNCHANGED <<ram, win_grp, chain>>

(* The end: the program has left, or what it does next is not its own code. *)
Stopped == (pc = Exit \/ Evicted) /\ UNCHANGED vars

(* The data segment starts out zero, so _ovl_win_grp holds module 0.       *)
Init ==
    /\ ram = Image
    /\ win_grp = [w \in Window |-> 0]
    /\ pc = Entry[Main]
    /\ stack = <<>>
    /\ chain = <<Main>>

Step ==
    \/ OvlInit
    \/ \E g \in Fun : Call(g)
    \/ Return
    \/ EnterStub
    \/ RunCheck
    \/ LeaveStub

Next == Step \/ Stopped

(* The processor does not stop between two instructions of a stub.         *)
Spec == Init /\ [][Next]_vars /\ WF_vars(EnterStub \/ RunCheck \/ LeaveStub)
-----------------------------------------------------------------------------
(* The machine stays in its type: in particular the encoded word a stub    *)
(* pushes always names a window and one of that window's modules.          *)
TypeOK ==
    /\ DOMAIN ram = DOMAIN Image
    /\ win_grp \in [Window -> Module \cup {-1, 0}]
    /\ pc \in DOMAIN ram \cup {Exit}
    /\ stack \in Seq(Word)
    /\ chain \in Seq(Fun) /\ Len(chain) \in 1 .. Depth + 1

(* "Per-window currently-loaded module index (-1 = nothing loaded)."       *)
(* (ovlmgr.c): when _ovl_win_grp names a module, its window holds exactly  *)
(* the module's code, so the check _ovl_check skips the load on is sound.  *)
WindowHolds ==
    ~Starting /\ pc # Exit =>
        \A m \in Module : win_grp[WinOf[m]] = m =>
            \A i \in 0 .. Size[m] - 1 : ram[Base[WinOf[m]] + i] = Exe[Block[m] + i]

(* Loading a module changes nothing outside the windows: resident code,    *)
(* stubs and the padding behind the last window stay what DOS loaded.      *)
ResidentIntact == \A a \in DOMAIN ram : ~InWindow(a) => ram[a] = Image[a]

(* The processor executes the function the program has called, or is on    *)
(* the way to it through its stub and _ovl_check, until a return leads to   *)
(* a caller whose window has been given to another module since.  A call   *)
(* never runs into another module's code or into bytes that are no code.   *)
RightCode ==
    pc # Exit =>
        \/ Evicted
        \/ At("check")
        \/ (At("fun") \/ At("stub")) /\ Here = Running

(* While a function runs, the stack holds one return address for each call *)
(* in progress and nothing a stub has left behind.                         *)
Frames(c) == [i \in 1 .. Len(c) - 1 |-> Entry[c[i]] + 1]

StackIsChain == At("fun") => stack = Frames(chain)

(* A load evicts the code of a call in progress only for the one reason    *)
(* the design has for it: the function being called is in another module   *)
(* of the same window.  Callers in other windows, resident callers and     *)
(* those of the same module stay whole, however deep the calls are nested. *)
Clash(f, g) ==
    Of(f) # Resident /\ Of(g) # Resident /\ Of(f) # Of(g) /\ WinOf[Of(f)] = WinOf[Of(g)]

Present(mem, f) == \A i \in 0 .. 1 : mem[Entry[f] + i] = Byte("fun", f, i)

OnlyClashesEvict ==
    [][\A i \in 1 .. Len(chain) :
        Present(ram, chain[i]) => Present(ram', chain[i]) \/ Clash(chain[i], Running)]_vars

(* A call that enters a stub arrives at the function it names.             *)
CallArrives == At("stub") ~> (At("fun") /\ Here = Running /\ pc = Entry[Running])
=============================================================================
