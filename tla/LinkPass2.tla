------------------------------ MODULE LinkPass2 ------------------------------
(***************************************************************************)
(* ylink, Pass2: which library modules a program needs.  Every EXTDEF of   *)
(* every included module is looked up among the PUBDEFs; the names whose   *)
(* module is not included yet are collected in extBuffer, their modules    *)
(* are included, and the modules are scanned again until a scan collects   *)
(* nothing.                                                                *)
(*                                                                         *)
(* extBuffer is an array of characters that is never cleared: a scan only  *)
(* starts again at its first byte.  MatchName searches all of it, from     *)
(* whatever byte its last comparison failed at.                            *)
(***************************************************************************)
EXTENDS Integers, Sequences, FiniteSetsExt

CONSTANTS
    N,              \* modules are 1 .. N, in the order of modData
    InLib,          \* those that come from a library
    Pub,            \* the public names of Pass1: [name, mod], in order
    Programs,       \* the EXTDEF lists a program may have: module -> names
    Forced,         \* what main forces in with overlays: "__ovl_check"
    Toupper,        \* character -> character
    NUL,
    BufLen          \* EXTBUF_LEN

VARIABLES
    extdefs,        \* module -> its EXTDEFs, in order
    overlay,        \* there are overlay modules, so Forced is needed
    included,       \* the modules with FlgInclude
    buf, next,      \* extBuffer and extNext
    extCount,
    at, k,          \* the scan is at EXTDEF k of module at
    try,            \* where MatchName compares next
    pass            \* what the linker is doing

pass2 == <<extdefs, overlay, included, buf, next, extCount, at, k, try, pass>>
program == <<extdefs, overlay>>

Module == 1 .. N
Index == 0 .. BufLen - 1

ASSUME ModulesAssumption == N \in Nat /\ InLib \subseteq Module
ASSUME BufferAssumption == BufLen \in Nat \ {0}

(* Characters of names; toupper makes no character NUL.                    *)
Char == DOMAIN Toupper \ {NUL}
Name == Seq(Char)
ASSUME CharAssumption ==
    /\ NUL \in DOMAIN Toupper
    /\ \A c \in DOMAIN Toupper : Toupper[c] = NUL <=> c = NUL
ASSUME NamesAssumption ==
    /\ Programs \subseteq [Module -> Seq(Name)]
    /\ Forced \in Name

(* A name as it lies in the buffer, with the NUL behind it.                *)
Ended(name) == Append(name, NUL)
Same(x, y) == Len(x) = Len(y) /\ \A j \in 1 .. Len(x) : Toupper[x[j]] = Toupper[y[j]]

-----------------------------------------------------------------------------
NOT_DEFINED == -1
NOT_INCLUDED == -2

(* Mutant: the name's letters must be the same in case too.                *)
FindPubDefCase(name, all) ==
    LET found == {p \in 1 .. Len(Pub) : Pub[p].name = name}
        first == CHOOSE p \in found : \A q \in found : p <= q
    IN  IF found = {} THEN NOT_DEFINED
        ELSE IF all \/ Pub[first].mod \in included THEN first ELSE NOT_INCLUDED

FindPubDef(name, all) ==
    LET found == {p \in 1 .. Len(Pub) : Same(Pub[p].name, name)}
        first == CHOOSE p \in found : \A q \in found : p <= q
    IN  IF found = {} THEN NOT_DEFINED
        ELSE IF all \/ Pub[first].mod \in included THEN first ELSE NOT_INCLUDED

ModuleOf(name) == Pub[FindPubDef(name, TRUE)].mod

(* P1_PUBDEF refuses a name that is defined already.                       *)
ASSUME PublicAssumption ==
    /\ Len(Pub) \in Nat /\ DOMAIN Pub = 1 .. Len(Pub)
    /\ \A p \in DOMAIN Pub : Pub[p].mod \in Module /\ Pub[p].name \in Name
    /\ \A p, q \in DOMAIN Pub : Same(Pub[p].name, Pub[q].name) => p = q

(* GetName: the name behind the first i NULs.                              *)
NameStart(b, i) ==
    CHOOSE s \in Index :
        /\ Cardinality({t \in 0 .. s - 1 : b[t] = NUL}) = i
        /\ s = 0 \/ b[s - 1] = NUL

GetName(b, i) ==
    LET s == NameStart(b, i)
        e == CHOOSE t \in s .. BufLen - 1 : b[t] = NUL /\ \A u \in s .. t - 1 : b[u] # NUL
    IN  [j \in 1 .. e - s |-> b[s + j - 1]]

(* Mutant: the room for the NUL is forgotten.                              *)
FitsWithoutNUL(name, n) == n + Len(name) <= BufLen

(* AddName.  It gives up unless the name and its NUL fit.                  *)
Fits(name, n) == n + Len(name) < BufLen

AddName(b, n, name) ==
    [i \in Index |-> IF i \in n .. n + Len(name) THEN Ended(name)[i - n + 1] ELSE b[i]]

(* Where the comparison of a name with the bytes from try on fails.        *)
Mismatch(name) ==
    {j \in 1 .. Len(name) + 1 :
        \/ try + j > BufLen
        \/ Toupper[buf[try + j - 1]] # Toupper[Ended(name)[j]]}

-----------------------------------------------------------------------------
Scanning == pass \in {"pass2", "pass2_again"} /\ at \in included /\ k <= Len(extdefs[at])
Extdef == extdefs[at][k]

NextExtdef == k' = k + 1 /\ try' = 0 /\ UNCHANGED at

(* MatchName, one comparison: a NUL is skipped, a name that differs is     *)
(* left behind at the byte where it does.                                  *)
MatchName ==
    /\ Scanning /\ try < BufLen
    /\ IF buf[try] = NUL THEN try' = try + 1 /\ UNCHANGED <<at, k>>
       ELSE IF Mismatch(Extdef) = {} THEN NextExtdef
       ELSE /\ try' = try + (CHOOSE j \in Mismatch(Extdef) : \A i \in Mismatch(Extdef) : j <= i)
            /\ UNCHANGED <<at, k>>
    /\ UNCHANGED <<program, included, buf, next, extCount, pass>>

(* Pass2 gives up with a fatal error.                                      *)
Fail == pass' = "unresolved" /\ UNCHANGED <<program, included, buf, next, extCount, at, k, try>>

(* The rest of P2_EXTDEF for a name that the buffer does not have.         *)
P2_EXTDEF ==
    /\ Scanning /\ try >= BufLen
    /\ LET pbdfIdx == FindPubDef(Extdef, FALSE)
       IN  \/ /\ pbdfIdx = NOT_DEFINED \/ (pbdfIdx = NOT_INCLUDED /\ ~Fits(Extdef, next))
              /\ Fail
           \/ /\ pbdfIdx = NOT_INCLUDED /\ Fits(Extdef, next)
              /\ buf' = AddName(buf, next, Extdef)
              /\ next' = next + Len(Extdef) + 1
              /\ extCount' = extCount + 1
              /\ NextExtdef
              /\ UNCHANGED <<program, included, pass>>
           \/ /\ pbdfIdx \notin {NOT_DEFINED, NOT_INCLUDED}
              /\ NextExtdef
              /\ UNCHANGED <<program, included, buf, next, extCount, pass>>

(* The loop over modData; MODEND ends a module.                            *)
NextModule ==
    /\ pass \in {"pass2", "pass2_again"} /\ at \in Module
    /\ at \in included => k > Len(extdefs[at])
    /\ at' = at + 1 /\ k' = 1 /\ try' = 0
    /\ UNCHANGED <<program, included, buf, next, extCount, pass>>

(* A new scan resets extNext and extCount, and leaves the bytes.           *)
Rescan == next' = 0 /\ extCount' = 0 /\ at' = 1 /\ k' = 1 /\ try' = 0 /\ UNCHANGED <<program, buf>>

(* P2_Resolve includes the module of every name collected.                 *)
P2_Resolve ==
    /\ pass \in {"pass2", "pass2_again"} /\ at > N /\ extCount > 0
    /\ LET names == {GetName(buf, i) : i \in 0 .. extCount - 1}
       IN  IF \E x \in names : FindPubDef(x, TRUE) = NOT_DEFINED THEN Fail
           ELSE included' = included \cup {ModuleOf(x) : x \in names} /\ Rescan /\ UNCHANGED pass

(* Mutant: the forced module is included and its own EXTDEFs are not       *)
(* looked at.                                                              *)
EndPass2Once ==
    /\ pass \in {"pass2", "pass2_again"} /\ at > N /\ extCount = 0
    /\ included' = included \cup
           (IF overlay /\ FindPubDef(Forced, TRUE) # NOT_DEFINED THEN {ModuleOf(Forced)} ELSE {})
    /\ pass' = "resolved"
    /\ UNCHANGED <<program, buf, next, extCount, at, k, try>>

(* Mutant: Pass2 is run again for as long as there are overlays.           *)
EndPass2Ever ==
    /\ pass \in {"pass2", "pass2_again"} /\ at > N /\ extCount = 0
    /\ IF overlay
       THEN IF FindPubDef(Forced, TRUE) = NOT_DEFINED THEN Fail
            ELSE included' = included \cup {ModuleOf(Forced)} /\ Rescan /\ pass' = "pass2_again"
       ELSE pass' = "resolved" /\ UNCHANGED <<program, included, buf, next, extCount, at, k, try>>

(* The end of Pass2.  With overlay modules main includes the overlay       *)
(* manager (P2_ForceInclude) and runs Pass2 once more.                     *)
EndPass2 ==
    /\ pass \in {"pass2", "pass2_again"} /\ at > N /\ extCount = 0
    /\ IF pass = "pass2" /\ overlay
       THEN IF FindPubDef(Forced, TRUE) = NOT_DEFINED THEN Fail
            ELSE included' = included \cup {ModuleOf(Forced)} /\ Rescan /\ pass' = "pass2_again"
       ELSE pass' = "resolved" /\ UNCHANGED <<program, included, buf, next, extCount, at, k, try>>

(* Mutant: library modules are included as soon as they are read.          *)
InitPass2All ==
    /\ extdefs \in Programs /\ overlay \in BOOLEAN
    /\ included = Module
    /\ buf = [i \in Index |-> NUL]
    /\ next = 0 /\ extCount = 0 /\ at = 1 /\ k = 1 /\ try = 0
    /\ pass = "pass2"

(* After Pass1: object files are included, library modules are not.        *)
InitPass2 ==
    /\ extdefs \in Programs /\ overlay \in BOOLEAN
    /\ included = Module \ InLib
    /\ buf = [i \in Index |-> NUL]
    /\ next = 0 /\ extCount = 0 /\ at = 1 /\ k = 1 /\ try = 0
    /\ pass = "pass2"

Pass2 == MatchName \/ P2_EXTDEF \/ NextModule \/ P2_Resolve \/ EndPass2
-----------------------------------------------------------------------------
Refers(m) == {extdefs[m][j] : j \in 1 .. Len(extdefs[m])}
Defined(name) == \E p \in DOMAIN Pub : Same(Pub[p].name, name)
Definer(name) == CHOOSE p \in DOMAIN Pub : Same(Pub[p].name, name)
Home(name) == Pub[Definer(name)].mod

(* A set of modules that needs no other.                                   *)
Closed(S) == \A m \in S : \A x \in Refers(m) : Defined(x) /\ Home(x) \in S

Resolved == pass \in {"resolved", "pass3", "pass4", "linked"}

(* "We will do this recursively until all EXTDEFs are resolved." (link.c): *)
(* when Pass2 is over, each EXTDEF of each included module has a PUBDEF in *)
(* an included module, and the overlay manager is there if it is needed.   *)
AllResolved ==
    Resolved => Closed(included) /\ (overlay => Defined(Forced) /\ Home(Forced) \in included)

(* "lib mods will be included where necessary to resolve extdefs" (link.c):*)
(* no module is included that the program could do without.                *)
NothingNeedless ==
    Resolved => \A S \in SUBSET Module :
        /\ Module \ InLib \subseteq S
        /\ \A m \in S : \A x \in Refers(m) : Defined(x) => Home(x) \in S
        /\ overlay /\ Defined(Forced) => Home(Forced) \in S
        => included \subseteq S

(* Pass2 gives up only for a name that nothing defines or for names that   *)
(* do not fit into the buffer, each counted once however often and in      *)
(* whatever case it is referred to.                                        *)
Wanted ==
    {Definer(x) : x \in {y \in UNION {Refers(m) : m \in included} :
                            Defined(y) /\ Home(y) \notin included}}

(* The bytes of their names, with the NULs.                                *)
Bytes(P) == Cardinality(UNION {{p} \X (0 .. Len(Pub[p].name)) : p \in P})

GivesUpForCause ==
    pass = "unresolved" =>
        \/ \E m \in included : \E x \in Refers(m) : ~Defined(x)
        \/ overlay /\ ~Defined(Forced)
        \/ Bytes(Wanted) > BufLen
=============================================================================
