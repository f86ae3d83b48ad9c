-------------------------------- MODULE Linker --------------------------------
(***************************************************************************)
(* ylink without overlays, from the end of Pass1 to the EXE file: Pass2    *)
(* (module LinkPass2), Pass3, which places the included modules in the     *)
(* segments, and Pass4, which copies them there and fixes up their         *)
(* references to public names.  Lengths and addresses are 16-bit words.    *)
(*                                                                         *)
(* A public name has, besides name and mod, a segment and an offset in its *)
(* module's part of that segment.  A site is a word that FIXUPP fills in:  *)
(* with the address of an EXTDEF, or with one in a segment of its module.  *)
(* Addresses are those in the load image, EXE_HDR_LEN before the file's.   *)
(***************************************************************************)
EXTENDS LinkPass2

CONSTANTS
    Sizes,          \* the sizes modules may have: module -> [code, data]
    StackSize,      \* the bytes of stack of all SEGDEFs
    Start,          \* module with a start address -> its offset
    Sites,          \* [mod, ext, at, near], near: relative to the IP
    LocSegs,        \* module -> its SEGDEFs, in order
    SegSites        \* [mod, in, at, to, off, kind]: a word in segment in, at
                    \* at, for offset off of SEGDEF to: "near", "offset", or
                    \* the segment's "base"

VARIABLES
    size,           \* what the SEGDEFs say
    origin,         \* MDAT_CSO and MDAT_DSO after Pass3
    segLengths,
    exeStart,       \* exeStartAddress
    image,          \* address -> the word written there
    relocData       \* the words to which DOS adds where it loads the image

pass34 == <<size, origin, segLengths, exeStart, image, relocData>>
vars == <<pass2, pass34>>

Seg == {"code", "data", "stack"}
MaxWord == 65535
EXE_HDR_LEN == 64
RELOC_COUNT == 8
SegNo == [code |-> 0, data |-> 1, stack |-> 2]

ASSUME SizesAssumption == Sizes \subseteq [Module -> [code : 0 .. MaxWord, data : 0 .. MaxWord]]

ASSUME StackAssumption == StackSize \in 0 .. MaxWord

(* What the assembler writes: names and references are in their modules,   *)
(* and no two references share a byte.                                     *)
ASSUME PlacesAssumption ==
    \A p \in DOMAIN Pub :
        /\ Pub[p].seg \in {"code", "data"} /\ Pub[p].addr \in Nat
        /\ \A z \in Sizes : Pub[p].addr <= z[Pub[p].mod][Pub[p].seg]

ASSUME SitesAssumption ==
    \A s \in Sites :
        /\ s.mod \in Module /\ s.ext \in Nat \ {0} /\ s.at \in Nat /\ s.near \in BOOLEAN
        /\ \A z \in Sizes : s.at + 2 <= z[s.mod].code
        /\ \A t \in Sites : t.mod = s.mod /\ t.at - s.at \in -1 .. 1 => t = s

(* Segment bases and words relative to the IP are in code, and the latter  *)
(* for a place in the same segment.                                        *)
ASSUME SegSitesAssumption ==
    \A s \in SegSites :
        /\ s.mod \in Module /\ s.at \in Nat /\ s.off \in Nat
        /\ s.in \in {"code", "data"} /\ s.kind \in {"near", "offset", "base"}
        /\ s.to \in DOMAIN LocSegs[s.mod] /\ s.to \in Nat /\ LocSegs[s.mod][s.to] \in Seg
        /\ s.kind # "offset" => s.in = "code"
        /\ s.kind = "near" => LocSegs[s.mod][s.to] = "code"
        /\ \A z \in Sizes :
              /\ s.at + 2 <= z[s.mod][s.in]
              /\ LocSegs[s.mod][s.to] # "stack" => s.off <= z[s.mod][LocSegs[s.mod][s.to]]
        /\ \A t \in Sites : ~(t.mod = s.mod /\ s.in = "code" /\ t.at - s.at \in -1 .. 1)
        /\ \A t \in SegSites : t.mod = s.mod /\ t.in = s.in /\ t.at - s.at \in -1 .. 1 => t = s

(* Nothing compares relocCount with RELOC_COUNT.                           *)
ASSUME RelocAssumption ==
    IsFiniteSet(SegSites) /\ Cardinality({s \in SegSites : s.kind = "base"}) <= RELOC_COUNT

(* One module at most has a start address.                                 *)
ASSUME StartAssumption ==
    /\ DOMAIN Start \subseteq Module /\ \A m, n \in DOMAIN Start : m = n
    /\ \A m \in DOMAIN Start : Start[m] \in Nat /\ \A z \in Sizes : Start[m] <= z[m].code

UpTo(n, x) == x + ((n - (x % n)) % n)

-----------------------------------------------------------------------------
(* AlignSegments leaves a segment alone that it would push past 65535, and *)
(* returns the length that one would have had: a long, in an int.          *)
Aligned(lens, n) ==
    [s \in Seg |-> IF UpTo(n, lens[s]) > MaxWord THEN lens[s] ELSE UpTo(n, lens[s])]

Overflow(lens, n) ==
    Max({0} \cup {UpTo(n, lens[s]) : s \in {t \in Seg : UpTo(n, lens[t]) > MaxWord}}) % (MaxWord + 1)

BeginPass3 ==
    /\ pass = "resolved" /\ ~overlay
    /\ pass' = "pass3" /\ at' = 1
    /\ UNCHANGED <<program, included, buf, next, extCount, k, try, pass34>>

Fatal ==
    /\ pass' = "fatal"
    /\ UNCHANGED <<program, included, buf, next, extCount, at, k, try, pass34>>

End(s) == segLengths[s] + size[at][s]

SkipModule ==
    /\ pass \in {"pass3", "pass4"} /\ at \in Module \ included
    /\ at' = at + 1
    /\ UNCHANGED <<program, included, buf, next, extCount, k, try, pass, pass34>>

(* An object file that does not fit ends the link.                         *)
TooLong ==
    /\ pass = "pass3" /\ at \in included
    /\ End("code") > MaxWord \/ End("data") > MaxWord
    /\ Fatal

(* Mutant: the length is advanced first, the origin taken from it.         *)
PlaceModuleLate ==
    /\ pass = "pass3" /\ at \in included
    /\ End("code") <= MaxWord /\ End("data") <= MaxWord
    /\ origin' = [origin EXCEPT ![at] = [code |-> End("code"), data |-> End("data")]]
    /\ segLengths' = Aligned([segLengths EXCEPT !["code"] = End("code"), !["data"] = End("data")], 2)
    /\ exeStart' = IF at \in DOMAIN Start THEN (exeStart + segLengths["code"]) % (MaxWord + 1)
                   ELSE exeStart
    /\ at' = at + 1
    /\ UNCHANGED <<program, included, buf, next, extCount, k, try, pass, size, image, relocData>>

(* Mutant: the start address is moved by the length with the module in it. *)
PlaceModuleStart ==
    /\ pass = "pass3" /\ at \in included
    /\ End("code") <= MaxWord /\ End("data") <= MaxWord
    /\ origin' = [origin EXCEPT ![at] = [code |-> segLengths["code"], data |-> segLengths["data"]]]
    /\ segLengths' = Aligned([segLengths EXCEPT !["code"] = End("code"), !["data"] = End("data")], 2)
    /\ exeStart' = IF at \in DOMAIN Start THEN (exeStart + End("code")) % (MaxWord + 1)
                   ELSE exeStart
    /\ at' = at + 1
    /\ UNCHANGED <<program, included, buf, next, extCount, k, try, pass, size, image, relocData>>

(* Pass3, one module: it comes behind those before it, evenly aligned.     *)
PlaceModule ==
    /\ pass = "pass3" /\ at \in included
    /\ End("code") <= MaxWord /\ End("data") <= MaxWord
    /\ origin' = [origin EXCEPT ![at] = [code |-> segLengths["code"], data |-> segLengths["data"]]]
    /\ segLengths' = Aligned([segLengths EXCEPT !["code"] = End("code"), !["data"] = End("data")], 2)
    /\ exeStart' = IF at \in DOMAIN Start THEN (exeStart + segLengths["code"]) % (MaxWord + 1)
                   ELSE exeStart
    /\ at' = at + 1
    /\ UNCHANGED <<program, included, buf, next, extCount, k, try, pass, size, image, relocData>>

(* Segments become whole paragraphs; Pass4 writes the two null pointers.   *)
EndPass3 ==
    /\ pass = "pass3" /\ at > N
    /\ IF Overflow(segLengths, 16) > 0 THEN Fatal
       ELSE /\ segLengths' = Aligned(segLengths, 16)
            /\ pass' = "pass4" /\ at' = 1 /\ k' = 1 /\ next' = 0 /\ extCount' = 0
            /\ UNCHANGED <<program, included, buf, try>>
            /\ image' = [a \in {0, Aligned(segLengths, 16)["code"]} |-> 0]
            /\ UNCHANGED <<size, origin, exeStart, relocData>>

-----------------------------------------------------------------------------
(* P4_EXTDEF, one name of the module.                                      *)
P4_EXTDEF ==
    /\ pass = "pass4" /\ at \in included /\ k <= Len(extdefs[at])
    /\ IF ~Fits(Extdef, next) THEN Fatal
       ELSE /\ buf' = AddName(buf, next, Extdef)
            /\ next' = next + Len(Extdef) + 1
            /\ extCount' = extCount + 1
            /\ k' = k + 1
            /\ UNCHANGED <<program, included, at, try, pass, pass34>>

SitesOf(m) == {s \in Sites : s.mod = m /\ s.ext <= Len(extdefs[m])}

Target(s, b) == FindPubDef(GetName(b, s.ext - 1), FALSE)

(* P4_FixExt: what it cannot fix up.                                       *)
Fixable(s, b) == Target(s, b) > 0 /\ (s.near => Pub[Target(s, b)].seg = "code")

CodeBase(m) == origin[m].code
DataBase(m) == segLengths["code"] + origin[m].data

(* Mutant: a relative word counts from where it is, not from behind it.    *)
DoFixuppShort(where, what, relative) ==
    [where |-> where, what |-> (what - (IF relative THEN where ELSE 0)) % (MaxWord + 1)]

(* P4_DoFixupp.                                                            *)
DoFixupp(where, what, relative) ==
    [where |-> where, what |-> (what - (IF relative THEN where + 2 ELSE 0)) % (MaxWord + 1)]

P4_FixExt(s, b) ==
    LET p == Pub[Target(s, b)]
    IN  DoFixupp(CodeBase(s.mod) + s.at, origin[p.mod][p.seg] + p.addr, s.near)

(* P4_FixSeg compares a SEGDEF's number in its module with a segment's.    *)
Refused(s) ==
    \/ s.kind = "near" /\ s.to - 1 # SegNo[s.in]
    \/ s.kind = "offset" /\ LocSegs[s.mod][s.to] = "stack"

(* The paragraph at which a segment starts; the sum is a 16-bit word.      *)
Paragraph(s) ==
    CASE s = "code" -> 0
      [] s = "data" -> segLengths["code"] \div 16
      [] s = "stack" -> ((segLengths["code"] + segLengths["data"]) % (MaxWord + 1)) \div 16

P4_FixSeg(s) ==
    LET to == LocSegs[s.mod][s.to]
    IN  CASE s.kind = "near" -> DoFixupp(CodeBase(s.mod) + s.at, s.off - s.at - 2, FALSE)
          [] s.kind = "base" -> DoFixupp(CodeBase(s.mod) + s.at, Paragraph(to), FALSE)
          [] s.kind = "offset" ->
                DoFixupp((IF s.in = "data" THEN DataBase(s.mod) ELSE CodeBase(s.mod)) + s.at,
                         origin[s.mod][to] + s.off, FALSE)

SegSitesOf(m) == {s \in SegSites : s.mod = m}

(* The image with the words of a set of fixups written.                    *)
Written(im, fixups) ==
    LET upon(a) == {f \in fixups : f.where = a}
    IN  [a \in DOMAIN im \cup {f.where : f \in fixups} |->
            IF upon(a) = {} THEN im[a] ELSE (CHOOSE f \in upon(a) : TRUE).what]

Fixups(m) == {P4_FixExt(s, buf) : s \in SitesOf(m)} \cup {P4_FixSeg(s) : s \in SegSitesOf(m)}
Bases(m) == {s \in SegSitesOf(m) : s.kind = "base"}

(* P4_FIXUPP, for all of a module whose names are in the buffer; Pass4     *)
(* empties the buffer for the next module.                                 *)
P4_FIXUPP ==
    /\ pass = "pass4" /\ at \in included /\ k > Len(extdefs[at])
    /\ IF (\E s \in SitesOf(at) : ~Fixable(s, buf)) \/ (\E s \in SegSitesOf(at) : Refused(s))
       THEN Fatal
       ELSE /\ image' = Written(image, Fixups(at))
            /\ relocData' = relocData \cup {CodeBase(at) + s.at : s \in Bases(at)}
            /\ at' = at + 1 /\ k' = 1 /\ next' = 0 /\ extCount' = 0
            /\ UNCHANGED <<program, included, buf, try, pass, size, origin, segLengths, exeStart>>

(* WriteExeHeader.                                                         *)
WriteExeHeader ==
    /\ pass = "pass4" /\ at > N
    /\ IF exeStart = MaxWord THEN Fatal
       ELSE /\ pass' = "linked"
            /\ UNCHANGED <<program, included, buf, next, extCount, at, k, try, pass34>>

Over == pass \in {"linked", "unresolved", "fatal"} \/ (pass = "resolved" /\ overlay)
Ended34 == Over /\ UNCHANGED vars

(* Two bytes of code and of data are reserved for the null pointer.  Pass1 *)
(* leaves the start address of the last module that has one.               *)
Init ==
    /\ InitPass2
    /\ size \in Sizes
    /\ origin = size
    /\ segLengths = [s \in Seg |-> IF s = "stack" THEN StackSize ELSE 2]
    /\ exeStart = IF DOMAIN Start = {} THEN MaxWord ELSE Start[Max(DOMAIN Start)]
    /\ image = [a \in {} |-> 0] /\ relocData = {}

Step ==
    \/ Pass2 /\ UNCHANGED pass34
    \/ BeginPass3 \/ SkipModule \/ TooLong \/ PlaceModule \/ EndPass3
    \/ P4_EXTDEF \/ P4_FIXUPP \/ WriteExeHeader

Next == Step \/ Ended34

(* The linker is one sequential program, which runs on.                    *)
Spec == Init /\ [][Next]_vars /\ WF_vars(Step)
-----------------------------------------------------------------------------
TypeOK ==
    /\ included \in SUBSET Module /\ Module \ InLib \subseteq included
    /\ next \in 0 .. BufLen /\ DOMAIN buf = Index
    /\ at \in 1 .. N + 1 /\ try \in 0 .. BufLen
    /\ \A m \in Module, s \in {"code", "data"} : origin[m][s] \in 0 .. MaxWord
    /\ \A s \in Seg : segLengths[s] \in 0 .. MaxWord
    /\ \A a \in DOMAIN image : a \in 0 .. 2 * MaxWord /\ image[a] \in 0 .. MaxWord

Linked == pass = "linked"

(* No byte of a segment belongs to two modules, none of a module is in the *)
(* place of the null pointer or behind the end of its segment.             *)
PartsAreDisjoint ==
    pass \in {"pass4", "linked"} =>
        \A s \in {"code", "data"}, m \in included :
            /\ size[m][s] > 0 => origin[m][s] >= 2 /\ origin[m][s] + size[m][s] <= segLengths[s]
            /\ \A n \in included \ {m} :
                  \/ origin[m][s] + size[m][s] <= origin[n][s]
                  \/ origin[n][s] + size[n][s] <= origin[m][s]

(* When the program runs, CS is at the start of the image and DS at        *)
(* paragraph segLengths[code] / 16, while the data are in the file behind  *)
(* the code.                                                               *)
Start16(s) == IF s = "data" THEN 16 * (segLengths["code"] \div 16) ELSE 0
StartInFile(s) == IF s = "data" THEN segLengths["code"] ELSE 0

(* What the word at a reaches, as a place in the image.                    *)
Reached(a, s, near) == IF near THEN (a + 2 + image[a]) % (MaxWord + 1) ELSE image[a] + Start16(s)

ExtReaches(s) ==
    LET x == extdefs[s.mod][s.ext]
        p == Pub[Definer(x)]
    IN  /\ Home(x) \in included
        /\ Reached(origin[s.mod].code + s.at, p.seg, s.near)
               = StartInFile(p.seg) + origin[p.mod][p.seg] + p.addr

(* A base names the first paragraph of its segment, which CALL.ASM then    *)
(* multiplies by 16 in a 16-bit register, and DOS moves it.                *)
SegReaches(s) ==
    LET to == LocSegs[s.mod][s.to]
        a == StartInFile(s.in) + origin[s.mod][s.in] + s.at
    IN  IF s.kind # "base"
        THEN Reached(a, to, s.kind = "near") = StartInFile(to) + origin[s.mod][to] + s.off
        ELSE /\ a \in relocData
             /\ (16 * image[a]) % (MaxWord + 1) =
                    (CASE to = "code" -> 0
                       [] to = "data" -> segLengths["code"]
                       [] to = "stack" -> segLengths["code"] + segLengths["data"]) % (MaxWord + 1)

(* Every reference of a linked program reaches its name or its place in    *)
(* its module's segment, whatever was written after it; DOS moves the      *)
(* words that are segment bases and no other; and the null pointers' words *)
(* are still 0.                                                            *)
RefsReach ==
    Linked =>
        /\ \A m \in included :
              (\A s \in SitesOf(m) : ExtReaches(s)) /\ (\A s \in SegSitesOf(m) : SegReaches(s))
        /\ Cardinality(relocData) = Cardinality({s \in SegSites : s.mod \in included /\ s.kind = "base"})
        /\ image[0] = 0 /\ image[segLengths["code"]] = 0

(* The program starts at the start address of the module that has one.     *)
StartsAtEntry ==
    Linked => \A m \in DOMAIN Start \cap included : exeStart = origin[m].code + Start[m]

(* "Segment overflow after alignment" (link.c): a segment that alignment   *)
(* would push past 64K is reported, so that those of a linked program are  *)
(* whole paragraphs.                                                       *)
OverflowIsReported == Linked => \A s \in Seg : segLengths[s] % 16 = 0

(* Every link comes to an end: no round of Pass2 leaves things as they     *)
(* were.                                                                   *)
LinkEnds == <>Over
=============================================================================
