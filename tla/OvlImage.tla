------------------------------- MODULE OvlImage -------------------------------
(***************************************************************************)
(* The code segment, overlay blocks and table of contents that ylink makes *)
(* of a list of object modules (Pass3, OvlLayoutSegments, OvlEmitStubs,    *)
(* WriteOvlBlocks, WriteOvlToc), as functions of the objects' sizes, in    *)
(* the 16-bit arithmetic they are computed in.                             *)
(* Object modules are numbered in the order of modData.                    *)
(***************************************************************************)
EXTENDS Integers, Sequences, FiniteSetsExt

CONSTANTS
    N,              \* number of included object modules
    CodeSize,       \* object -> bytes of code
    ModOf,          \* object -> overlay module, or Resident
    Resident,
    ModCount,       \* overlay modules are 0 .. ModCount - 1
    WinCount,       \* windows are 0 .. WinCount - 1
    WinOf,          \* module -> window
    Fun,            \* public functions
    ObjOf,          \* function -> object
    Offset,         \* function -> offset in its object's code (PBDF_ADDR)
    StubSeq,        \* functions with a stub, in the order of registration
    Manager,        \* the object with _ovl_check
    CheckOffset,    \* its offset there
    ImageEnd        \* file offset of the end of what Pass4 writes

Byte(k, x, i) == [kind |-> k, of |-> x, at |-> i]
Number(n) == Byte("number", n, 0)

Words == 256 * 256

(* A sum of uints that nothing checks.                                     *)
Wrapped(x) == x % Words

UpTo(n, x) == x + ((n - (x % n)) % n)

(* AlignSegments leaves a length alone that has no multiple in 16 bits; of *)
(* the overflow it returns, an int, Pass3 hears nothing.                   *)
Align(n, x) == IF UpTo(n, x) < Words THEN UpTo(n, x) ELSE x

(* Pass3: resident code from offset 2 on, each object even-aligned.        *)
ResidentTop[i \in 0 .. N] ==
    IF i = 0 THEN 2
    ELSE IF ModOf[i] = Resident THEN Align(2, ResidentTop[i - 1] + CodeSize[i])
    ELSE ResidentTop[i - 1]

(* Steps 1 and 7: the code of a module's objects, each even-aligned.       *)
Accum(m) ==
    LET acc[i \in 0 .. N] ==
            IF i = 0 THEN 0
            ELSE IF ModOf[i] = m THEN Wrapped(UpTo(2, Wrapped(acc[i - 1] + CodeSize[i])))
            ELSE acc[i - 1]
    IN  acc

ModIds == 0 .. ModCount - 1
WinIds == 0 .. WinCount - 1

ModSize == [m \in ModIds |-> Accum(m)[N]]

(* Steps 2 to 5: stubs behind the resident code, then the windows.         *)
WinSize(w) == Max({ModSize[m] : m \in {k \in ModIds : WinOf[k] = w}} \cup {0})

StubBase == Align(16, ResidentTop[N])

WinBase[w \in 0 .. WinCount] ==
    IF w = 0 THEN StubBase + (11 * Len(StubSeq)) ELSE WinBase[w - 1] + WinSize(w - 1)

WinStart == [w \in WinIds |-> WinBase[w]]

(* The end of the code segment, a whole number of paragraphs.              *)
CodeEnd == Wrapped(UpTo(16, WinBase[WinCount]))

(* The lengths that are computed in longs and end the run when they do not *)
(* fit ("Code segment overflow", "Code overflow adding stubs", "... adding *)
(* window"): ylink writes a program only if they do.                       *)
Accepted ==
    /\ \A i \in 1 .. N : ModOf[i] = Resident => ResidentTop[i - 1] + CodeSize[i] < Words
    /\ \A w \in 0 .. WinCount : WinBase[w] < Words

(* MDAT_CSO: where an object's code is in the segment.                     *)
Origin(i) ==
    IF ModOf[i] = Resident THEN ResidentTop[i - 1]
    ELSE Wrapped(WinStart[WinOf[ModOf[i]]] + Accum(ModOf[i])[i - 1])

EntryAt == [f \in Fun |-> Wrapped(Origin(ObjOf[f]) + Offset[f])]

StubAt ==
    [f \in {StubSeq[s] : s \in 1 .. Len(StubSeq)} |->
        StubBase + (11 * ((CHOOSE s \in 1 .. Len(StubSeq) : StubSeq[s] = f) - 1))]

CheckAt == Wrapped(Origin(Manager) + CheckOffset)

(* The bytes of a function: its entry, and where its calls return.         *)
Code(a, fs) ==
    LET here == {f \in fs : a - EntryAt[f] \in 0 .. 1}
    IN  IF here = {} THEN Number(0)
        ELSE LET f == CHOOSE x \in here : TRUE IN Byte("fun", f, a - EntryAt[f])

(* What DOS loads as the code segment.  The windows are not written.       *)
CodeImage(main) ==
    [a \in 0 .. CodeEnd - 1 |->
        IF a = CheckAt THEN Byte("check", main, 0)
        ELSE IF \E f \in DOMAIN StubAt : a - StubAt[f] \in {0, 6}
             THEN LET f == CHOOSE x \in DOMAIN StubAt : a - StubAt[x] \in {0, 6}
                  IN  Byte("stub", f, a - StubAt[f])
             ELSE Code(a, {f \in Fun : ModOf[ObjOf[f]] = Resident})]

(* Behind the image: each module's code, then the TOC.                     *)
BlockAt[m \in 0 .. ModCount] ==
    IF m = 0 THEN ImageEnd ELSE BlockAt[m - 1] + ModSize[m - 1]

BlockOff == [m \in ModIds |-> BlockAt[m]]

TocAt == BlockAt[ModCount]

(* The four words of a TOC entry, low bytes first.                         *)
TocWords(m) == <<WinStart[WinOf[m]], ModSize[m], BlockOff[m] % Words, BlockOff[m] \div Words>>

TocByte(m, i) ==
    LET word == TocWords(m)[(i \div 2) + 1]
    IN  IF i % 2 = 0 THEN word % 256 ELSE word \div 256

ExeTail ==
    [p \in ImageEnd .. TocAt + (8 * ModCount) - 1 |->
        IF p >= TocAt THEN Number(TocByte((p - TocAt) \div 8, (p - TocAt) % 8))
        ELSE LET m == CHOOSE k \in ModIds : p \in BlockOff[k] .. (BlockOff[k] + ModSize[k] - 1)
             IN  Code(WinStart[WinOf[m]] + (p - BlockOff[m]), {f \in Fun : ModOf[ObjOf[f]] = m})]

-----------------------------------------------------------------------------
(* What Pass1 and the overlay directives have made of the objects: every    *)
(* object is in a module that there is or in none, every module in a        *)
(* window; the two bytes of a function are in its object's code and no      *)
(* other function's, nor the manager's entry, and the stubs are of distinct *)
(* functions.                                                               *)
FunctionsApart ==
    \A f, g \in Fun : f # g /\ ObjOf[f] = ObjOf[g] =>
        Offset[f] + 2 <= Offset[g] \/ Offset[g] + 2 <= Offset[f]

ManagerApart ==
    \A f \in Fun : ObjOf[f] = Manager =>
        Offset[f] + 2 <= CheckOffset \/ CheckOffset < Offset[f]

Sound ==
    /\ N \in Nat /\ ModCount \in Nat /\ WinCount \in Nat /\ ImageEnd \in Nat
    /\ Resident \notin ModIds
    /\ ModOf \in [1 .. N -> ModIds \cup {Resident}] /\ WinOf \in [ModIds -> WinIds]
    /\ CodeSize \in [1 .. N -> Nat]
    /\ ObjOf \in [Fun -> 1 .. N] /\ Offset \in [Fun -> Nat]
    /\ \A f \in Fun : Offset[f] + 2 <= CodeSize[ObjOf[f]]
    /\ FunctionsApart
    /\ Manager \in 1 .. N /\ ModOf[Manager] = Resident
    /\ CheckOffset \in Nat /\ CheckOffset < CodeSize[Manager] /\ ManagerApart
    /\ StubSeq \in Seq(Fun)
    /\ \A s, t \in 1 .. Len(StubSeq) : StubSeq[s] = StubSeq[t] => s = t

(* What nothing checks: no module's code, nor the segment with its last    *)
(* paragraph, is longer than 16 bits can say.                              *)
Fits ==
    /\ \A i \in 1 .. N : ModOf[i] # Resident => Accum(ModOf[i])[i - 1] + CodeSize[i] <= Words - 2
    /\ WinBase[WinCount] <= Words - 16

(* The table of contents has no CR and no CtrlZ, and no module is as long   *)
(* as an int is negative.                                                   *)
TocIsPlain ==
    \A m \in ModIds :
        /\ ModSize[m] < 128 * 256
        /\ \A i \in 0 .. 7 : TocByte(m, i) \in (0 .. 255) \ {13, 26}
=============================================================================
