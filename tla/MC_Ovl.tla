-------------------------------- MODULE MC_Ovl --------------------------------
(***************************************************************************)
(* A program with two windows, laid out by OvlImage.  Objects: the C       *)
(* program (main, r), the overlay manager, and                              *)
(*     module 0 (window 0)  a in one object, a2 in another                  *)
(*     module 1 (window 0)  b                                               *)
(*     module 2 (window 1)  c                                               *)
(* Everyone calls the resident r, which calls every module.                 *)
(***************************************************************************)
EXTENDS OvlRuntime, TLC

CONSTANTS main, r, a, a2, b, c, resident, PadA, PadMain

Funs == {main, r, a, a2, b, c}
CallPairs ==
    {<<main, r>>, <<main, a>>, <<r, a>>, <<r, b>>, <<r, c>>, <<a, r>>, <<a, a2>>, <<a2, c>>,
     <<b, r>>, <<b, c>>, <<c, r>>, <<c, b>>}

Objects == [f \in Funs |->
    CASE f \in {main, r} -> 1 [] f = a -> 3 [] f = a2 -> 4 [] f = b -> 5 [] f = c -> 6]
Modules == <<resident, resident, 0, 0, 1, 2>>
Windows == (0 :> 0) @@ (1 :> 0) @@ (2 :> 1)

L == INSTANCE OvlImage WITH
        N <- 6, CodeSize <- <<5 + PadMain, 1, 2 + PadA, 2, 2, 2>>, ModOf <- Modules,
        Resident <- resident, ModCount <- 3, WinCount <- 2, WinOf <- Windows, Fun <- Funs,
        ObjOf <- Objects, Offset <- [f \in Funs |-> IF f = r THEN 2 ELSE 0],
        StubSeq <- <<a, b, c>>, Manager <- 2, CheckOffset <- 0, ImageEnd <- 66000

(* The same program with a longer first object: every length that is       *)
(* checked fits, and the last paragraph of the segment does not.           *)
Long == INSTANCE OvlImage WITH
        N <- 6, CodeSize <- <<65471, 1, 2, 2, 2, 2>>, ModOf <- Modules,
        Resident <- resident, ModCount <- 3, WinCount <- 2, WinOf <- Windows, Fun <- Funs,
        ObjOf <- Objects, Offset <- [f \in Funs |-> IF f = r THEN 2 ELSE 0],
        StubSeq <- <<a, b, c>>, Manager <- 2, CheckOffset <- 0, ImageEnd <- 66000

(* And one with a module of 65540 bytes, of which it counts four.          *)
Wide == INSTANCE OvlImage WITH
        N <- 6, CodeSize <- <<5, 1, 40000, 25540, 2, 2>>, ModOf <- Modules,
        Resident <- resident, ModCount <- 3, WinCount <- 2, WinOf <- Windows, Fun <- Funs,
        ObjOf <- Objects, Offset <- [f \in Funs |-> IF f = r THEN 2 ELSE 0],
        StubSeq <- <<a, b, c>>, Manager <- 2, CheckOffset <- 0, ImageEnd <- 66000

LBase == L!WinStart
LSize == L!ModSize
LEntry == L!EntryAt
LStub == L!StubAt
LCheck == L!CheckAt
LImage == L!CodeImage(main)
LExe == L!ExeTail
LBlock == L!BlockOff
LTocOff == L!TocAt

(* The hypotheses of the theorems hold here: of those about the layout, and *)
(* of those about the program that runs; but a size with the byte of a     *)
(* CtrlZ in it is not read as it was written.                              *)
ASSUME LayoutAssumption == L!Sound /\ L!Accepted /\ L!Fits /\ Placed /\ Stubs = DOMAIN LStub
ASSUME TocAssumption == (TocSound <=> PadA # 22) /\ (TocSound <=> L!TocIsPlain)

(* What ylink accepts need not fit: the segment or a module comes out as   *)
(* next to nothing.                                                        *)
ASSUME WrapAssumption ==
    /\ Long!Sound /\ Long!Accepted /\ ~Long!Fits /\ Long!CodeEnd = 0
    /\ Wide!Sound /\ Wide!Accepted /\ ~Wide!Fits /\ Wide!ModSize[0] = 4
=============================================================================
