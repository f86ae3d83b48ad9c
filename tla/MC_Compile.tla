----------------------------- MODULE MC_Compile ------------------------------
(***************************************************************************)
(* A bounded instance of Compiler: bytes of four bits, and families of     *)
(* small programs.                                                         *)
(***************************************************************************)
EXTENDS Programs

GlobalVars ==
  [i |-> [t |-> T("int"), adr |-> 16], j |-> [t |-> T("int"), adr |-> 18],
   u |-> [t |-> T("uint"), adr |-> 20], v |-> [t |-> T("uint"), adr |-> 22],
   ch |-> [t |-> T("char"), adr |-> 24], uc |-> [t |-> T("uchar"), adr |-> 25],
   l |-> [t |-> T("long"), adr |-> 26], k2 |-> [t |-> T("long"), adr |-> 30],
   ul |-> [t |-> T("ulong"), adr |-> 34], p |-> [t |-> PtrTo(T("int")), adr |-> 38],
   cp |-> [t |-> PtrTo(T("char")), adr |-> 40], arr |-> [t |-> ArrayOf(4, T("int")), adr |-> 42],
   s |-> [t |-> Pair, adr |-> 50], t |-> [t |-> Pair, adr |-> 56], f |-> [t |-> Flags, adr |-> 62],
   m2 |-> [t |-> ArrayOf(2, ArrayOf(2, T("int"))), adr |-> 64],
   ca |-> [t |-> ArrayOf(4, T("char")), adr |-> 72], pp |-> [t |-> PtrTo(PtrTo(T("int"))), adr |-> 76],
   cnt |-> [t |-> T("uint"), adr |-> 78], lp |-> [t |-> PtrTo(T("long")), adr |-> 80]]
Start ==
  [a \in 0..255 |->
     CASE a = 16 -> 5                                 \* i = 5
       [] a = 18 -> 13 [] a = 19 -> 15                \* j = -3
       [] a = 20 -> 9                                 \* u = 9
       [] a = 22 -> 2 [] a = 23 -> 12                 \* v = 194
       [] a = 24 -> 12                                \* ch = -4
       [] a = 25 -> 11                                \* uc = 11
       [] a = 26 -> 7 [] a = 28 -> 1                  \* l = 263
       [] a \in 30..33 -> IF a = 30 THEN 10 ELSE 15   \* k2 = -6
       [] a = 34 -> 3 [] a = 37 -> 9                  \* ul = 36867
       [] a = 38 -> 10 [] a = 39 -> 2                 \* p = &arr[0]
       [] a = 40 -> 8 [] a = 41 -> 4                  \* cp = &ca[0]
       [] a = 42 -> 1 [] a = 44 -> 4 [] a = 46 -> 9 [] a = 48 -> 2
       [] a = 50 -> 3 [] a = 52 -> 14 [] a = 53 -> 6
       [] a = 62 -> 13 [] a = 63 -> 10
       [] a = 64 -> 3 [] a = 66 -> 5 [] a = 68 -> 7 [] a = 70 -> 11
       [] a = 72 -> 2 [] a = 73 -> 13 [] a = 74 -> 5 [] a = 75 -> 1
       [] a = 76 -> 6 [] a = 77 -> 2
       [] OTHER -> 0]
Calls == [structcp |-> 1, next |-> 2, diff |-> 3]
Outside == (1 :> "structcp") @@ (2 :> "count") @@ (3 :> "sub")
Effects == [next |-> "count", diff |-> "sub"]

Ways(ps, ways) == [n \in DOMAIN ps |-> [text |-> ps[n], ways |-> ways]]
Optimized == <<TRUE, FALSE>>
Plain == <<FALSE, FALSE>>
\* Without the optimizer a compound assignment to a local goes wrong: see
\* README.md.
SomePrograms ==
  Ways(LocalAssignments, {Optimized}) \o
  Ways(Binaries \o BranchTests \o Assignments \o NestedBinaries \o NestedBranches \o Steps \o PointerPrograms \o
       Unaries \o Nested \o Logic \o Loops \o SwitchStatements \o Blocks \o Conditionals \o Initializers \o
       Aggregates \o Structs \o FunctionCalls \o LongFunctions,
       {Optimized, Plain})
OverflowPrograms == Ways(LateFrameless, {Optimized, Plain})
LoopPrograms == Ways(LoopLocals, {Optimized, Plain})
FramePrograms == Ways(ParameterUpdates, {Optimized, Plain})
BlockPrograms == Ways(ReturnsFromBlocks, {Optimized, Plain})
TightPrograms == Ways(TightBranches, {Optimized, Plain})
ReturnPrograms == Ways(ReturnsEarly, {Optimized, Plain})
PlainPrograms == Ways(LocalCompound, {Plain})
=============================================================================
