--------------------------- MODULE OvlRuntime_proofs ---------------------------
(***************************************************************************)
(* For every program, layout and number of windows: if the layout is right *)
(* and the table of contents is read as it was written, then overlays are  *)
(* transparent until a return leads to a caller that has been evicted, and *)
(* only a call of another module of its window can have done that.         *)
(*                                                                         *)
(* The invariant says where between two instructions of a call the machine *)
(* can be (Phase), and that a function which is entered is loaded.         *)
(*                                                                         *)
(* The second half is about where the linker puts things: a program it     *)
(* accepts is laid out as the first half supposes, and its table is read   *)
(* right exactly if it is plain.  So what it links runs.                   *)
(***************************************************************************)
EXTENDS OvlRuntime, Lemmas, SequenceTheorems

InFun(f)   == pc \in {Entry[f], Entry[f] + 1} /\ stack = Frames(chain) /\ (pc = Entry[f] => Loaded(f))
InStub(f)  == f \in Stubs /\ pc = Stub[f] /\ stack = Frames(chain)
InCheck(f) == f \in Stubs /\ pc = Check /\ stack = Frames(chain) \o <<Encoded(Of(f)), Stub[f] + 6>>
InBack(f)  == f \in Stubs /\ pc = Stub[f] + 6 /\ stack = Append(Frames(chain), Encoded(Of(f))) /\ Loaded(f)

Phase ==
    IF pc = Exit THEN stack = <<>>
    ELSE InFun(Running) \/ InStub(Running) \/ InCheck(Running) \/ InBack(Running)

\* the layout is right, and the variables have their types
Typed ==
    /\ Placed
    /\ DOMAIN ram = DOMAIN Image
    /\ win_grp \in [Window -> Module \cup {-1, 0}]
    /\ chain \in Seq(Fun) /\ Len(chain) \in 1 .. Depth + 1 /\ chain[1] = Main

Inv ==
    /\ Typed
    /\ ResidentIntact
    /\ WindowHolds
    /\ Phase

-----------------------------------------------------------------------------
(* Where things are, from the layout.                                      *)

(* The modules, windows and addresses of functions are what they should be.*)
LEMMA Constants ==
    /\ \A f \in Fun : Of(f) # Resident => Of(f) \in Module
    /\ \A m \in Module : WinOf[m] \in Window /\ m \in 0 .. 31 /\ Size[m] \in Nat
                         /\ Block[m] \in Nat /\ WinOf[m] \in 0 .. 7
    /\ \A m \in Module : Base[WinOf[m]] \in Nat
    /\ \A f \in Fun : Entry[f] \in Nat
    /\ \A g \in Stubs : g \in Fun /\ Of(g) # Resident /\ Stub[g] \in Nat
<1>1. \A f \in Fun : ObjOf[f] \in DOMAIN ModOf
  BY ObjectAssumption DEF ObjectAssumption
<1>2. \A f \in Fun : Of(f) \in Module \cup {Resident}
  BY <1>1, ObjectAssumption DEF ObjectAssumption, Of
<1>3. \A m \in Module : WinOf[m] \in Window
  BY WindowAssumption DEF WindowAssumption
<1>4. \A m \in Module : m \in 0 .. 31 /\ Size[m] \in Nat /\ Block[m] \in Nat
  BY ModuleAssumption DEF ModuleAssumption
<1>5. \A w \in Window : w \in 0 .. 7 /\ Base[w] \in Nat
  BY WindowAssumption DEF WindowAssumption
<1>6. \A f \in Fun : Entry[f] \in Nat
  BY AddressAssumption DEF AddressAssumption
<1>7. \A g \in Stubs : Stub[g] \in Nat
  BY AddressAssumption DEF AddressAssumption
<1>8. \A g \in Stubs : g \in Fun /\ Of(g) # Resident
  BY DEF Stubs
<1>. QED BY <1>2, <1>3, <1>4, <1>5, <1>6, <1>7, <1>8

(* A resident function is outside all windows, at its place in the image.  *)
LEMMA ResidentCode ==
    ASSUME Placed, NEW f \in Fun, Of(f) = Resident, NEW i \in 0 .. 1
    PROVE  /\ Entry[f] + i \in DOMAIN Image /\ ~InWindow(Entry[f] + i)
           /\ Image[Entry[f] + i] = Byte("fun", f, i)
<1>1. FunPlaced(f, i)
  BY DEF Placed, FunsPlaced
<1>. QED BY <1>1 DEF FunPlaced, Outside

(* An overlay function is inside its window, at its place in the block.    *)
LEMMA OverlayCode ==
    ASSUME Placed, NEW f \in Fun, Of(f) # Resident, NEW i \in 0 .. 1
    PROVE  LET d == (Entry[f] + i) - Base[WinOf[Of(f)]]
           IN  /\ d \in 0 .. Size[Of(f)] - 1
               /\ Base[WinOf[Of(f)]] + d = Entry[f] + i
               /\ Exe[Block[Of(f)] + d] = Byte("fun", f, i)
<1> DEFINE d == (Entry[f] + i) - Base[WinOf[Of(f)]]
<1>1. FunPlaced(f, i)
  BY DEF Placed, FunsPlaced
<1>2. d \in 0 .. Size[Of(f)] - 1 /\ Exe[Block[Of(f)] + d] = Byte("fun", f, i)
  BY <1>1 DEF FunPlaced, InBlock
<1>3. Base[WinOf[Of(f)]] + d = Entry[f] + i
  BY Constants
<1>. QED BY <1>2, <1>3

(* Stubs and _ovl_check are outside all windows.                           *)
LEMMA StubCode ==
    ASSUME Placed, NEW g \in Stubs, NEW i \in {0, 6}
    PROVE  /\ Stub[g] + i \in DOMAIN Image /\ ~InWindow(Stub[g] + i)
           /\ Image[Stub[g] + i] = Byte("stub", g, i)
<1>1. Outside(Stub[g] + i, Byte("stub", g, i))
  BY DEF Placed, StubsPlaced
<1>. QED BY <1>1 DEF Outside

LEMMA CheckCode ==
    ASSUME Placed
    PROVE  Check \in DOMAIN Image /\ ~InWindow(Check) /\ Image[Check] = Byte("check", Main, 0)
BY DEF Placed, CheckPlaced, Outside

(* Windows are in memory, blocks are in the file, windows do not overlap.  *)
LEMMA WindowsApart ==
    ASSUME Placed, NEW m \in Module, NEW i \in 0 .. Size[m] - 1
    PROVE  /\ Base[WinOf[m]] + i \in DOMAIN Image /\ Block[m] + i \in DOMAIN Exe
           /\ InWindow(Base[WinOf[m]] + i)
           /\ \A k \in Module : WinOf[k] # WinOf[m] =>
                 Base[WinOf[m]] + i \notin Base[WinOf[k]] .. (Base[WinOf[k]] + Size[k] - 1)
<1>1. WindowPlaced(m, i)
  BY DEF Placed, WindowsPlaced
<1>2. InWindow(Base[WinOf[m]] + i)
  BY Constants DEF InWindow
<1>. QED BY <1>1, <1>2 DEF WindowPlaced

(* Addresses of the code segment are 16-bit words, so none of them is Exit.*)
LEMMA WordFacts == ASSUME NEW a \in Word PROVE a \in Nat /\ a # Exit
<1>1. (256 * 256) - 1 \in Int
  OBVIOUS
<1>2. a \in Nat
  BY <1>1, Within, Zenon DEF Word
<1>. QED BY <1>2 DEF Exit

LEMMA Addresses == ASSUME NEW a \in DOMAIN Image PROVE a \in Word /\ a # Exit
<1>1. a \in Word
  BY ImageAssumption DEF ImageAssumption
<1>. QED BY <1>1, WordFacts

(* The code a call is in, or returns to, is at addresses of the segment.   *)
LEMMA EntryInImage ==
    ASSUME Placed, NEW f \in Fun, NEW i \in 0 .. 1
    PROVE  Entry[f] + i \in DOMAIN Image
<1>1. CASE Of(f) = Resident
  BY <1>1, ResidentCode
<1>2. CASE Of(f) # Resident
  <2> DEFINE m == Of(f)
             d == (Entry[f] + i) - Base[WinOf[m]]
  <2>1. m \in Module /\ d \in 0 .. Size[m] - 1 /\ Base[WinOf[m]] + d = Entry[f] + i
    BY <1>2, Constants, OverlayCode
  <2> HIDE DEF d, m
  <2>2. Base[WinOf[m]] + d \in DOMAIN Image
    BY <2>1, WindowsApart
  <2>. QED BY <2>1, <2>2
<1>. QED BY <1>1, <1>2

-----------------------------------------------------------------------------
(* What is in memory.                                                      *)

(* A function whose module is loaded is in memory.                         *)
LEMMA FunInMemory ==
    ASSUME Typed, ResidentIntact, WindowHolds, NEW f \in Fun, Loaded(f), NEW i \in 0 .. 1,
           Of(f) = Resident \/ (~Starting /\ pc # Exit)
    PROVE  Entry[f] + i \in DOMAIN ram /\ ram[Entry[f] + i] = Byte("fun", f, i)
<1>1. CASE Of(f) = Resident
  BY <1>1, ResidentCode DEF Typed, ResidentIntact
<1>2. CASE Of(f) # Resident
  <2> DEFINE m == Of(f)
             d == (Entry[f] + i) - Base[WinOf[m]]
  <2>1. m \in Module /\ win_grp[WinOf[m]] = m
    BY <1>2, Constants DEF Loaded
  <2>2. /\ d \in 0 .. Size[m] - 1 /\ Base[WinOf[m]] + d = Entry[f] + i
        /\ Exe[Block[m] + d] = Byte("fun", f, i)
    BY <1>2, OverlayCode DEF Typed
  <2>3. ram[Base[WinOf[m]] + d] = Exe[Block[m] + d]
    BY <1>2, <2>1, <2>2 DEF WindowHolds
  <2>4. Base[WinOf[m]] + d \in DOMAIN Image
    BY <2>1, <2>2, WindowsApart DEF Typed
  <2>. QED BY <2>2, <2>3, <2>4 DEF Typed
<1>. QED BY <1>1, <1>2

LEMMA StubInMemory ==
    ASSUME Typed, ResidentIntact, NEW g \in Stubs, NEW i \in {0, 6}
    PROVE  Stub[g] + i \in DOMAIN ram /\ ram[Stub[g] + i] = Byte("stub", g, i)
BY StubCode DEF Typed, ResidentIntact

LEMMA CheckInMemory ==
    ASSUME Typed, ResidentIntact
    PROVE  Check \in DOMAIN ram /\ ram[Check] = Byte("check", Main, 0)
BY CheckCode DEF Typed, ResidentIntact

-----------------------------------------------------------------------------
(* The stack and the calls in progress.                                    *)

LEMMA ChainFacts ==
    ASSUME Typed
    PROVE  Running \in Fun /\ Len(chain) \in Nat \ {0} /\ \A i \in 1 .. Len(chain) : chain[i] \in Fun
BY BoundAssumption DEF Typed, Running, BoundAssumption

(* A return address for each call in progress.                             *)
LEMMA FramesType ==
    ASSUME NEW c \in Seq(Fun), Len(c) # 0
    PROVE  Frames(c) \in Seq(Nat) /\ Len(Frames(c)) = Len(c) - 1 /\ DOMAIN Frames(c) = 1 .. Len(c) - 1
<1>1. Len(c) - 1 \in Nat
  OBVIOUS
<1>2. \A i \in 1 .. Len(c) - 1 : Entry[c[i]] + 1 \in Nat
  BY Constants
<1>3. Frames(c) \in [1 .. Len(c) - 1 -> Nat]
  BY <1>2 DEF Frames
<1>. QED BY <1>1, <1>3

(* A call pushes the address behind it.                                    *)
LEMMA FramesPush ==
    ASSUME NEW c \in Seq(Fun), Len(c) # 0, NEW g \in Fun
    PROVE  Frames(Append(c, g)) = Append(Frames(c), Entry[c[Len(c)]] + 1)
<1> DEFINE d == Append(c, g)
           s == Append(Frames(c), Entry[c[Len(c)]] + 1)
<1>1. d \in Seq(Fun) /\ Len(d) = Len(c) + 1 /\ \A i \in 1 .. Len(c) : d[i] = c[i]
  OBVIOUS
<1>2. Frames(d) \in Seq(Nat) /\ Len(Frames(d)) = Len(c)
  <2> HIDE DEF d
  <2>1. Len(d) # 0
    BY <1>1
  <2>2. Frames(d) \in Seq(Nat) /\ Len(Frames(d)) = Len(d) - 1
    BY <1>1, <2>1, FramesType
  <2>. QED BY <1>1, <2>2
<1>3. Entry[c[Len(c)]] + 1 \in Nat
  BY Constants
<1>4. Frames(c) \in Seq(Nat) /\ Len(Frames(c)) = Len(c) - 1
  BY FramesType
<1>5. s \in Seq(Nat) /\ Len(s) = Len(c)
  BY <1>3, <1>4
<1>6. \A i \in 1 .. Len(c) : Frames(d)[i] = Entry[d[i]] + 1
  BY <1>1 DEF Frames
<1>7. \A i \in 1 .. Len(c) - 1 : Frames(c)[i] = Entry[c[i]] + 1
  BY DEF Frames
<1>8. \A i \in 1 .. Len(c) : s[i] = Entry[c[i]] + 1
  BY <1>3, <1>4, <1>7
<1>9. \A i \in 1 .. Len(c) : Frames(d)[i] = s[i]
  BY <1>1, <1>6, <1>8
<1> HIDE DEF d, s
<1>. QED BY <1>2, <1>5, <1>9, SeqEqual DEF d, s

(* A return takes it away.                                                 *)
LEMMA FramesPop ==
    ASSUME NEW c \in Seq(Fun), Len(c) > 1
    PROVE  LET d == SubSeq(c, 1, Len(c) - 1)
               s == Frames(c)
           IN  /\ d \in Seq(Fun) /\ Len(d) = Len(c) - 1 /\ \A i \in 1 .. Len(d) : d[i] = c[i]
               /\ s[Len(s)] = Entry[c[Len(c) - 1]] + 1
               /\ SubSeq(s, 1, Len(s) - 1) = Frames(d)
<1> DEFINE d == SubSeq(c, 1, Len(c) - 1)
           s == Frames(c)
           t == SubSeq(s, 1, Len(s) - 1)
<1>1. d \in Seq(Fun) /\ Len(d) = Len(c) - 1 /\ \A i \in 1 .. Len(d) : d[i] = c[i]
  OBVIOUS
<1>2. s \in Seq(Nat) /\ Len(s) = Len(c) - 1 /\ \A i \in 1 .. Len(s) : s[i] = Entry[c[i]] + 1
  <2>1. s \in Seq(Nat) /\ Len(s) = Len(c) - 1
    BY FramesType
  <2>2. \A i \in 1 .. Len(c) - 1 : s[i] = Entry[c[i]] + 1
    BY DEF Frames
  <2>. QED BY <2>1, <2>2
<1>3. Frames(d) \in Seq(Nat) /\ Len(Frames(d)) = Len(c) - 2
  <2> HIDE DEF d
  <2>1. Len(d) # 0
    BY <1>1
  <2>2. Frames(d) \in Seq(Nat) /\ Len(Frames(d)) = Len(d) - 1
    BY <1>1, <2>1, FramesType
  <2>. QED BY <1>1, <2>2
<1>4. \A i \in 1 .. Len(c) - 2 : Frames(d)[i] = Entry[c[i]] + 1
  BY <1>1 DEF Frames
<1> HIDE DEF s
<1>5. t \in Seq(Nat) /\ Len(t) = Len(c) - 2 /\ \A i \in 1 .. Len(c) - 2 : t[i] = s[i]
  BY <1>2
<1>6. \A i \in 1 .. Len(c) - 2 : t[i] = Frames(d)[i]
  BY <1>2, <1>4, <1>5
<1> HIDE DEF d, t
<1>7. t = Frames(d)
  BY <1>3, <1>5, <1>6, SeqEqual
<1>8. s[Len(s)] = Entry[c[Len(c) - 1]] + 1
  BY <1>2
<1>. QED BY <1>1, <1>7, <1>8 DEF d, s, t

(* What a stub pushes for _ovl_check, and what _ovl_check leaves.          *)
LEMMA TwoPushed ==
    ASSUME NEW s \in Seq(Nat), NEW x \in Nat, NEW y \in Nat
    PROVE  LET t == s \o <<x, y>>
           IN  /\ t # <<>> /\ Len(t) = Len(s) + 2
               /\ t[Len(t) - 1] = x /\ t[Len(t)] = y
               /\ SubSeq(t, 1, Len(t) - 1) = Append(s, x)
<1> DEFINE t == s \o <<x, y>>
           u == SubSeq(t, 1, Len(t) - 1)
           v == Append(s, x)
<1>1. t \in Seq(Nat) /\ Len(t) = Len(s) + 2 /\ t[Len(s) + 1] = x /\ t[Len(s) + 2] = y
  OBVIOUS
<1>2. \A i \in 1 .. Len(s) : t[i] = s[i]
  OBVIOUS
<1>3. v \in Seq(Nat) /\ Len(v) = Len(s) + 1 /\ v[Len(s) + 1] = x /\ \A i \in 1 .. Len(s) : v[i] = s[i]
  OBVIOUS
<1> HIDE DEF t, v
<1>4. u \in Seq(Nat) /\ Len(u) = Len(s) + 1 /\ \A i \in 1 .. Len(s) + 1 : u[i] = t[i]
  BY <1>1
<1>5. ASSUME NEW i \in 1 .. Len(s) + 1 PROVE u[i] = v[i]
  <2>1. u[i] = t[i]
    BY <1>4
  <2>2. CASE i = Len(s) + 1
    BY <1>1, <1>3, <2>1, <2>2
  <2>3. CASE i # Len(s) + 1
    <3>1. i \in 1 .. Len(s)
      BY <2>3
    <3>. QED BY <1>2, <1>3, <2>1, <3>1
  <2>. QED BY <2>2, <2>3
<1> HIDE DEF u
<1>6. u = v
  BY <1>3, <1>4, <1>5, SeqEqual
<1>7. t # <<>>
  BY <1>1
<1>. QED BY <1>1, <1>6, <1>7 DEF t, u, v

(* The encoded word names its window and its module.                       *)
LEMMA EncodedFacts ==
    ASSUME NEW m \in Module
    PROVE  Encoded(m) \in Nat /\ Encoded(m) \div 256 = WinOf[m] /\ Encoded(m) % 256 = m
<1>1. WinOf[m] \in 0 .. 7 /\ m \in 0 .. 31
  BY Constants
<1>2. ASSUME NEW w \in 0 .. 7, NEW k \in 0 .. 31
      PROVE  (w * 256) + k \in Nat /\ ((w * 256) + k) \div 256 = w /\ ((w * 256) + k) % 256 = k
  OBVIOUS
<1>3. PICK w \in 0 .. 7 : w = WinOf[m]
  BY <1>1
<1>4. PICK k \in 0 .. 31 : k = m
  BY <1>1
<1>5. PICK e : e = (w * 256) + k /\ e \in Nat /\ e \div 256 = w /\ e % 256 = k
  BY <1>2
<1>6. Encoded(m) = e
  BY <1>3, <1>4, <1>5 DEF Encoded
<1>. QED BY <1>3, <1>4, <1>5, <1>6, Zenon

-----------------------------------------------------------------------------
(* What the byte at pc says about the call in progress.                    *)

(* The program starts in the resident main, with no other call.            *)
LEMMA Starts ==
    ASSUME Inv, Starting
    PROVE  Running = Main /\ Len(chain) = 1 /\ Of(Running) = Resident /\ InFun(Running) /\ pc # Exit
<1>1. pc # Exit /\ stack = <<>>
  BY Constants, ProgramAssumption DEF Starting, Exit, ProgramAssumption
<1>2. /\ chain \in Seq(Fun) /\ Len(chain) # 0 /\ Running \in Fun
      /\ Len(chain) \in Nat /\ chain[1] = Main
  BY ChainFacts DEF Inv, Typed
<1>3. Frames(chain) \in Seq(Nat) /\ Len(Frames(chain)) = Len(chain) - 1
  BY <1>2, FramesType
<1>4. ~InCheck(Running)
  <2>1. ASSUME InCheck(Running) PROVE FALSE
    <3>1. Encoded(Of(Running)) \in Nat /\ Stub[Running] + 6 \in Nat
      BY <2>1, <1>2, Constants, EncodedFacts DEF InCheck
    <3>2. stack # <<>>
      BY <2>1, <3>1, <1>3, TwoPushed DEF InCheck
    <3>. QED BY <1>1, <3>2
  <2>. QED BY <2>1
<1>5. ~InBack(Running)
  <2>1. ASSUME InBack(Running) PROVE FALSE
    <3>1. Len(stack) = Len(Frames(chain)) + 1
      BY <2>1, <1>3 DEF InBack
    <3>2. Len(stack) = 0
      BY <1>1
    <3>. QED BY <1>2, <1>3, <3>1, <3>2
  <2>. QED BY <2>1
<1>6. stack = Frames(chain)
  BY <1>1, <1>4, <1>5 DEF Inv, Phase, InFun, InStub
<1>7. Len(chain) = 1 /\ Running = Main
  <2>1. Len(stack) = 0
    BY <1>1
  <2>2. Len(Frames(chain)) = 0
    BY <2>1, <1>6
  <2>3. Len(chain) = 1
    BY <2>2, <1>2, <1>3
  <2>. QED BY <2>3, <1>2 DEF Running
<1>8. Of(Running) = Resident
  BY <1>7, ObjectAssumption DEF ObjectAssumption
<1>9. ~InStub(Running)
  BY <1>8, Constants DEF InStub
<1>. QED BY <1>1, <1>4, <1>5, <1>7, <1>8, <1>9 DEF Inv, Phase

(* In each phase the byte at pc is of the running function.                *)
LEMMA AtPhase ==
    ASSUME Inv, pc # Exit
    PROVE  /\ pc \in DOMAIN ram
           /\ InFun(Running) /\ ~Evicted =>
                 Loaded(Running) /\ ram[pc] = Byte("fun", Running, pc - Entry[Running])
           /\ InStub(Running) => ram[pc] = Byte("stub", Running, 0)
           /\ InCheck(Running) => ram[pc] = Byte("check", Main, 0)
           /\ InBack(Running) => ram[pc] = Byte("stub", Running, 6)
<1>1. Typed /\ ResidentIntact /\ WindowHolds /\ Phase /\ Running \in Fun
  BY ChainFacts DEF Inv
<1>2. ASSUME InFun(Running)
      PROVE  /\ pc \in DOMAIN ram
             /\ ~Evicted => Loaded(Running) /\ ram[pc] = Byte("fun", Running, pc - Entry[Running])
  <2>1. PICK i \in 0 .. 1 : pc = Entry[Running] + i
    <3>1. Entry[Running] \in Nat
      BY <1>1, Constants
    <3>2. CASE pc = Entry[Running]
      <4>1. pc = Entry[Running] + 0 /\ 0 \in 0 .. 1
        BY <3>1, <3>2
      <4>. QED BY <4>1
    <3>3. CASE pc = Entry[Running] + 1
      <4>1. 1 \in 0 .. 1
        OBVIOUS
      <4>. QED BY <4>1, <3>3
    <3>. QED BY <1>2, <3>2, <3>3 DEF InFun
  <2>2. pc \in DOMAIN ram
    BY <1>1, <2>1, EntryInImage DEF Typed
  <2>3. ASSUME ~Evicted PROVE Loaded(Running) /\ ram[pc] = Byte("fun", Running, pc - Entry[Running])
    <3>1. Loaded(Running)
      BY <1>2, <2>3 DEF InFun, Evicted
    <3>2. Of(Running) = Resident \/ (~Starting /\ pc # Exit)
      BY Starts
    <3>3. ram[Entry[Running] + i] = Byte("fun", Running, i)
      BY <1>1, <3>1, <3>2, FunInMemory
    <3>4. i = pc - Entry[Running]
      BY <1>1, <2>1, Constants
    <3>. QED BY <2>1, <3>1, <3>3, <3>4
  <2>. QED BY <2>2, <2>3
<1>3. ASSUME InStub(Running)
      PROVE  pc \in DOMAIN ram /\ ram[pc] = Byte("stub", Running, 0)
  <2>1. Running \in Stubs /\ 0 \in {0, 6}
    BY <1>3 DEF InStub
  <2>2. Stub[Running] + 0 \in DOMAIN ram /\ ram[Stub[Running] + 0] = Byte("stub", Running, 0)
    BY <1>1, <2>1, StubInMemory
  <2>3. Stub[Running] + 0 = Stub[Running]
    BY <2>1, Constants
  <2>. QED BY <1>3, <2>2, <2>3 DEF InStub
<1>4. ASSUME InCheck(Running)
      PROVE  pc \in DOMAIN ram /\ ram[pc] = Byte("check", Main, 0)
  BY <1>1, <1>4, CheckInMemory DEF InCheck
<1>5. ASSUME InBack(Running)
      PROVE  pc \in DOMAIN ram /\ ram[pc] = Byte("stub", Running, 6)
  <2>1. Running \in Stubs /\ 6 \in {0, 6}
    BY <1>5 DEF InBack
  <2>2. Stub[Running] + 6 \in DOMAIN ram /\ ram[Stub[Running] + 6] = Byte("stub", Running, 6)
    BY <1>1, <2>1, StubInMemory
  <2>. QED BY <1>5, <2>2 DEF InBack
<1>. QED BY <1>1, <1>2, <1>3, <1>4, <1>5 DEF Phase

(* So the kind of the byte tells the phase.                                *)
LEMMA Kinds ==
    ASSUME Inv
    PROVE  /\ At("fun") => pc # Exit /\ InFun(Running) /\ Loaded(Running) /\ Here = Running
                           /\ ram[pc].at = pc - Entry[Running]
           /\ At("stub") => /\ pc # Exit /\ ~Starting /\ Here = Running
                            /\ ram[pc].at = 0 => InStub(Running)
                            /\ ram[pc].at = 6 => InBack(Running)
           /\ At("check") => pc # Exit /\ ~Starting /\ InCheck(Running)
<1>1. \A k \in {"fun", "stub", "check"} : At(k) => pc # Exit
  <2>1. DOMAIN ram = DOMAIN Image
    BY DEF Inv, Typed
  <2>2. CASE pc \in DOMAIN ram
    <3>1. pc \in DOMAIN Image
      BY <2>1, <2>2
    <3>. QED BY <3>1, Addresses
  <2>. QED BY <2>2 DEF At
<1>2. pc # Exit => InFun(Running) \/ InStub(Running) \/ InCheck(Running) \/ InBack(Running)
  BY DEF Inv, Phase
<1>3. \A k, x, i : /\ Byte(k, x, i).kind = k /\ Byte(k, x, i).of = x /\ Byte(k, x, i).at = i
  BY DEF Byte
<1>4. CASE pc = Exit
  BY <1>1, <1>4
<1>5. CASE pc # Exit /\ InFun(Running)
  <2>1. CASE Evicted
    BY <2>1 DEF At
  <2>2. CASE ~Evicted
    <3>1. Loaded(Running) /\ ram[pc] = Byte("fun", Running, pc - Entry[Running])
      BY <1>5, <2>2, AtPhase
    <3>2. ram[pc].kind = "fun" /\ ram[pc].of = Running /\ ram[pc].at = pc - Entry[Running]
      BY <1>3, <3>1
    <3>. QED BY <1>5, <3>1, <3>2 DEF At, Here
  <2>. QED BY <2>1, <2>2
<1>6. CASE pc # Exit /\ InStub(Running)
  <2>1. ram[pc] = Byte("stub", Running, 0)
    BY <1>6, AtPhase
  <2>2. ram[pc].kind = "stub" /\ ram[pc].of = Running /\ ram[pc].at = 0
    BY <1>3, <2>1
  <2>3. ~Starting
    BY <1>6, Starts, Constants DEF InStub
  <2>. QED BY <1>6, <2>2, <2>3 DEF At, Here
<1>7. CASE pc # Exit /\ InCheck(Running)
  <2>1. ram[pc] = Byte("check", Main, 0)
    BY <1>7, AtPhase
  <2>2. ram[pc].kind = "check"
    BY <1>3, <2>1
  <2>3. ~Starting
    BY <1>7, Starts, Constants DEF InCheck
  <2>. QED BY <1>7, <2>2, <2>3 DEF At, Here
<1>8. CASE pc # Exit /\ InBack(Running)
  <2>1. ram[pc] = Byte("stub", Running, 6)
    BY <1>8, AtPhase
  <2>2. ram[pc].kind = "stub" /\ ram[pc].of = Running /\ ram[pc].at = 6
    BY <1>3, <2>1
  <2>3. ~Starting
    BY <1>8, Starts, Constants DEF InBack
  <2>. QED BY <1>8, <2>2, <2>3 DEF At, Here
<1>. QED BY <1>2, <1>4, <1>5, <1>6, <1>7, <1>8

-----------------------------------------------------------------------------
(* One load.                                                               *)

(* It puts the module into its window and touches nothing else.            *)
LEMMA LoadModule ==
    ASSUME Typed, TocSound, NEW m \in Module
    PROVE  LET new == Copied(Toc[m])
           IN  /\ DOMAIN new = DOMAIN ram
               /\ \A a \in DOMAIN ram : ~InWindow(a) => new[a] = ram[a]
               /\ \A i \in 0 .. Size[m] - 1 : new[Base[WinOf[m]] + i] = Exe[Block[m] + i]
               /\ \A k \in Module : WinOf[k] # WinOf[m] =>
                     \A i \in 0 .. Size[k] - 1 : new[Base[WinOf[k]] + i] = ram[Base[WinOf[k]] + i]
<1> DEFINE e == Toc[m]
           lo == Base[WinOf[m]]
           hi == lo + Size[m] - 1
           new == Copied(e)
<1>1. e.base = lo /\ e.size = Size[m] /\ e.from = Block[m]
  <2>1. Toc[m] = [base |-> Base[WinOf[m]], size |-> Size[m], from |-> Block[m]]
    BY DEF TocSound
  <2>. QED BY <2>1
<1>2. lo \in Nat /\ Size[m] \in Nat /\ Block[m] \in Nat
  BY Constants
<1> HIDE DEF e
<1>3. DOMAIN new = DOMAIN ram
  BY DEF Copied
<1>4. \A a \in DOMAIN ram : a \notin lo .. hi => new[a] = ram[a]
  BY <1>1, <1>2 DEF Copied
<1>5. \A a \in DOMAIN ram : a \in lo .. hi =>
          new[a] = IF Block[m] + (a - lo) \in DOMAIN Exe THEN Exe[Block[m] + (a - lo)] ELSE Number(NoByte)
  BY <1>1, <1>2 DEF Copied
<1> HIDE DEF new
<1>6. ASSUME NEW a \in DOMAIN ram, ~InWindow(a) PROVE new[a] = ram[a]
  <2>1. a \notin lo .. hi
    BY <1>6, <1>2 DEF InWindow
  <2>. QED BY <1>4, <2>1
<1>7. ASSUME NEW i \in 0 .. Size[m] - 1 PROVE new[lo + i] = Exe[Block[m] + i]
  <2>1. lo + i \in DOMAIN ram /\ Block[m] + i \in DOMAIN Exe
    BY WindowsApart DEF Typed
  <2>2. lo + i \in lo .. hi /\ (lo + i) - lo = i
    BY <1>2
  <2>. QED BY <1>5, <2>1, <2>2
<1>8. ASSUME NEW k \in Module, WinOf[k] # WinOf[m], NEW i \in 0 .. Size[k] - 1
      PROVE  new[Base[WinOf[k]] + i] = ram[Base[WinOf[k]] + i]
  <2>1. Base[WinOf[k]] + i \in DOMAIN ram
    BY WindowsApart DEF Typed
  <2>2. \A n \in Module : WinOf[n] # WinOf[k] =>
            Base[WinOf[k]] + i \notin Base[WinOf[n]] .. (Base[WinOf[n]] + Size[n] - 1)
    BY WindowsApart DEF Typed
  <2>3. Base[WinOf[k]] + i \notin lo .. hi
    BY <1>8, <2>2
  <2>. QED BY <1>4, <2>1, <2>3
<1>. QED BY <1>3, <1>6, <1>7, <1>8 DEF new, e

-----------------------------------------------------------------------------
(* The invariant is preserved by each action.                              *)

LEMMA InitInv == Placed /\ Init => Inv
<1> SUFFICES ASSUME Placed, Init PROVE Inv
  OBVIOUS
<1>1. Starting /\ Running = Main /\ Len(chain) = 1 /\ chain \in Seq(Fun) /\ chain[1] = Main
  BY ProgramAssumption DEF Init, Starting, Running, ProgramAssumption
<1>2. win_grp \in [Window -> Module \cup {-1, 0}]
  BY DEF Init
<1>3. Typed
  BY <1>1, <1>2, BoundAssumption DEF Init, Typed, BoundAssumption
<1>4. ResidentIntact
  BY DEF Init, ResidentIntact
<1>5. WindowHolds
  BY <1>1 DEF WindowHolds
<1>6. Phase
  <2>1. Of(Main) = Resident
    BY ObjectAssumption DEF ObjectAssumption
  <2>2. Frames(chain) = <<>>
    <3>1. Len(chain) # 0
      BY <1>1
    <3>2. Frames(chain) \in Seq(Nat) /\ Len(Frames(chain)) = Len(chain) - 1
      BY <1>1, <3>1, FramesType
    <3>3. Len(Frames(chain)) = 0
      BY <1>1, <3>2
    <3>. QED BY <3>2, <3>3
  <2>3. InFun(Running)
    BY <1>1, <2>1, <2>2 DEF InFun, Init, Loaded
  <2>4. pc # Exit
    BY <1>1, Constants, ProgramAssumption DEF Init, Exit, ProgramAssumption
  <2>. QED BY <2>3, <2>4 DEF Phase
<1>. QED BY <1>3, <1>4, <1>5, <1>6 DEF Inv

(* ovl_init marks all windows empty, or the program ends.                  *)
LEMMA OvlInitInv == Inv /\ OvlInit => Inv'
<1> SUFFICES ASSUME Inv, OvlInit PROVE Inv'
  OBVIOUS
<1>1. Starting /\ Running = Main /\ Len(chain) = 1 /\ InFun(Running) /\ stack = <<>>
  BY Starts DEF OvlInit, Starting
<1>2. UNCHANGED <<ram, stack, chain>>
  BY DEF OvlInit
<1>3. CASE win_grp' = NothingLoaded /\ pc' = pc + 1
  <2>1. win_grp' = [w \in Window |-> -1]
    BY <1>3 DEF NothingLoaded
  <2>2. Typed'
    BY <1>2, <2>1 DEF Inv, Typed
  <2>3. ResidentIntact'
    BY <1>2 DEF Inv, ResidentIntact
  <2>4. \A m \in Module : win_grp'[WinOf[m]] # m
    BY <2>1, Constants
  <2>5. WindowHolds'
    BY <2>4 DEF WindowHolds
  <2>7. pc' = Entry[Main] + 1 /\ Entry[Main] \in Nat
    BY <1>1, <1>3, Constants, ProgramAssumption DEF Starting, ProgramAssumption
  <2>8. Phase'
    <3>1. Running' = Main /\ Of(Main) = Resident
      BY <1>1, <1>2, ObjectAssumption DEF Running, ObjectAssumption
    <3>2. InFun(Running)'
      BY <1>1, <1>2, <2>7, <3>1 DEF InFun, Loaded, Frames, Running
    <3>. QED BY <2>7, <3>2 DEF Phase, Exit
  <2>. QED BY <2>2, <2>3, <2>5, <2>8 DEF Inv
<1>4. CASE pc' = Exit /\ UNCHANGED win_grp
  <2>1. Typed' /\ ResidentIntact'
    BY <1>2, <1>4 DEF Inv, Typed, ResidentIntact
  <2>2. WindowHolds' /\ Phase'
    BY <1>1, <1>2, <1>4 DEF WindowHolds, Phase
  <2>. QED BY <2>1, <2>2 DEF Inv
<1>. QED BY <1>3, <1>4 DEF OvlInit

(* A call goes straight to loaded code or to a stub.                       *)
LEMMA CallInv == Inv => \A g \in Fun : Call(g) => Inv'
<1> SUFFICES ASSUME Inv, NEW g \in Fun, Call(g) PROVE Inv'
  OBVIOUS
<1> DEFINE R == Running
<1>1. /\ R \in Fun /\ chain \in Seq(Fun) /\ Len(chain) \in Nat \ {0} /\ chain[1] = Main
      /\ \A i \in 1 .. Len(chain) : chain[i] \in Fun
  BY ChainFacts DEF Inv, Typed
<1>2. /\ pc # Exit /\ ~Starting /\ InFun(R) /\ Loaded(R) /\ Here = R /\ ram[pc].at = pc - Entry[R]
      /\ <<R, g>> \in Calls
  BY Kinds DEF Call
<1>3. stack' = Append(Frames(chain), Entry[R] + 1)
  <2>1. pc \in Nat /\ Entry[R] \in Nat
    BY <1>1, <1>2, Constants DEF InFun
  <2>2. (pc - ram[pc].at) + 1 = Entry[R] + 1
    BY <1>2, <2>1
  <2>. QED BY <1>2, <2>2 DEF Call, InFun
<1>4. /\ chain' = Append(chain, g) /\ pc' = Target(R, g) /\ UNCHANGED <<ram, win_grp>>
      /\ Len(chain) < Depth
  BY <1>2 DEF Call
<1>5. /\ chain' \in Seq(Fun) /\ Len(chain') = Len(chain) + 1 /\ Running' = g
      /\ \A i \in 1 .. Len(chain) : chain'[i] = chain[i]
  BY <1>1, <1>4 DEF Running
<1>6. stack' = Frames(chain')
  <2>1. Len(chain) # 0 /\ R = chain[Len(chain)]
    BY <1>1 DEF Running
  <2>2. Frames(Append(chain, g)) = Append(Frames(chain), Entry[chain[Len(chain)]] + 1)
    BY <1>1, <2>1, FramesPush
  <2>. QED BY <1>3, <1>4, <2>1, <2>2
<1>7. Typed'
  <2>1. Len(chain') \in 1 .. Depth + 1 /\ chain'[1] = Main
    BY <1>1, <1>4, <1>5, BoundAssumption DEF BoundAssumption
  <2>. QED BY <1>4, <1>5, <2>1 DEF Inv, Typed
<1>8. ResidentIntact' /\ WindowHolds'
  BY <1>2, <1>4 DEF Inv, ResidentIntact, WindowHolds
<1>9. Phase'
  <2>1. CASE ObjOf[R] # ObjOf[g] /\ g \in Stubs
    <3>1. pc' = Stub[g]
      BY <1>4, <2>1 DEF Target
    <3>2. pc' # Exit
      BY <2>1, <3>1, Constants DEF Exit
    <3>3. InStub(Running)'
      BY <1>5, <1>6, <2>1, <3>1 DEF InStub
    <3>. QED BY <3>2, <3>3 DEF Phase
  <2>2. CASE ~(ObjOf[R] # ObjOf[g] /\ g \in Stubs)
    <3>1. pc' = Entry[g]
      BY <1>4, <2>2 DEF Target
    <3>2. pc' # Exit
      BY <3>1, Constants DEF Exit
    <3>3. Of(g) = Resident \/ Of(g) = Of(R)
      BY <1>1, <1>2, <2>2 DEF Stubs, Of
    <3>4. Loaded(g)
      BY <1>2, <3>3 DEF Loaded
    <3>5. Loaded(Running)'
      BY <1>4, <1>5, <3>4 DEF Loaded
    <3>6. InFun(Running)'
      BY <1>5, <1>6, <3>1, <3>5 DEF InFun
    <3>. QED BY <3>2, <3>6 DEF Phase
  <2>. QED BY <2>1, <2>2
<1>. QED BY <1>7, <1>8, <1>9 DEF Inv

(* A return leads back into the caller, loaded or not.                     *)
LEMMA ReturnInv == Inv /\ Return => Inv'
<1> SUFFICES ASSUME Inv, Return PROVE Inv'
  OBVIOUS
<1>1. /\ Running \in Fun /\ chain \in Seq(Fun) /\ Len(chain) \in Nat \ {0} /\ chain[1] = Main
      /\ \A i \in 1 .. Len(chain) : chain[i] \in Fun
  BY ChainFacts DEF Inv, Typed
<1>2. pc # Exit /\ ~Starting /\ InFun(Running) /\ stack = Frames(chain) /\ UNCHANGED <<ram, win_grp>>
  BY Kinds DEF Return, InFun
<1>3. ResidentIntact' /\ WindowHolds'
  BY <1>2 DEF Inv, ResidentIntact, WindowHolds
<1>4. CASE stack = <<>>
  <2>1. pc' = Exit /\ UNCHANGED <<ram, win_grp, stack, chain>>
    BY <1>2, <1>4 DEF Return
  <2>2. Typed'
    BY <2>1 DEF Inv, Typed
  <2>3. Phase'
    BY <1>4, <2>1 DEF Phase
  <2>. QED BY <1>3, <2>2, <2>3 DEF Inv
<1>5. CASE stack # <<>>
  <2> DEFINE n == Len(chain) - 1
  <2>1. pc' = Top /\ stack' = Pop(1) /\ chain' = SubSeq(chain, 1, n)
    BY <1>5 DEF Return
  <2>2. Len(chain) > 1
    <3>1. Len(chain) # 0
      BY <1>1
    <3>2. Frames(chain) \in Seq(Nat) /\ Len(Frames(chain)) = Len(chain) - 1
      BY <1>1, <3>1, FramesType
    <3>3. Len(Frames(chain)) # 0
      BY <1>2, <1>5, <3>2, EmptySeq
    <3>. QED BY <1>1, <3>2, <3>3
  <2>3. /\ chain' \in Seq(Fun) /\ Len(chain') = n /\ \A i \in 1 .. n : chain'[i] = chain[i]
        /\ pc' = Entry[chain[n]] + 1 /\ stack' = Frames(chain')
    BY <1>1, <1>2, <2>1, <2>2, FramesPop DEF Top, Pop
  <2>4. n \in 1 .. Len(chain) - 1 /\ Running' = chain[n] /\ chain[n] \in Fun
    BY <1>1, <2>2, <2>3 DEF Running
  <2>5. Typed'
    <3>1. Len(chain') \in 1 .. Depth + 1 /\ chain'[1] = Main
      BY <1>1, <2>3, <2>4, BoundAssumption DEF Inv, Typed, BoundAssumption
    <3>. QED BY <1>2, <2>3, <3>1 DEF Inv, Typed
  <2>6. Phase'
    <3>1. pc' # Exit /\ pc' # Entry[chain[n]]
      BY <2>3, <2>4, Constants DEF Exit
    <3>2. InFun(Running)'
      BY <2>3, <2>4, <3>1 DEF InFun
    <3>. QED BY <3>1, <3>2 DEF Phase
  <2>. QED BY <1>3, <2>5, <2>6 DEF Inv
<1>. QED BY <1>4, <1>5

LEMMA EnterStubInv == Inv /\ EnterStub => Inv'
<1> SUFFICES ASSUME Inv, EnterStub PROVE Inv'
  OBVIOUS
<1>1. pc # Exit /\ ~Starting /\ InStub(Running) /\ Here = Running
  BY Kinds DEF EnterStub
<1>2. /\ UNCHANGED <<ram, win_grp, chain>> /\ pc' = Check
      /\ stack' = Frames(chain) \o <<Encoded(Of(Running)), Stub[Running] + 6>>
  BY <1>1 DEF EnterStub, InStub
<1>3. Typed' /\ ResidentIntact' /\ WindowHolds'
  BY <1>1, <1>2 DEF Inv, Typed, ResidentIntact, WindowHolds
<1>5. InCheck(Running)'
  BY <1>1, <1>2 DEF InCheck, InStub, Running
<1>6. Check # Exit
  BY CheckCode, Addresses DEF Inv, Typed
<1>7. Phase'
  BY <1>2, <1>5, <1>6 DEF Phase
<1>. QED BY <1>3, <1>7 DEF Inv

LEMMA LeaveStubInv == Inv /\ LeaveStub => Inv'
<1> SUFFICES ASSUME Inv, LeaveStub PROVE Inv'
  OBVIOUS
<1>1. pc # Exit /\ ~Starting /\ InBack(Running) /\ Here = Running
  BY Kinds DEF LeaveStub
<1>2. UNCHANGED <<ram, win_grp, chain>> /\ pc' = Entry[Running] /\ stack' = Pop(1)
  BY <1>1 DEF LeaveStub
<1>3. Typed' /\ ResidentIntact' /\ WindowHolds'
  BY <1>1, <1>2 DEF Inv, Typed, ResidentIntact, WindowHolds
<1>5. Running \in Fun /\ chain \in Seq(Fun) /\ Len(chain) # 0
  BY ChainFacts DEF Inv, Typed
<1>6. stack' = Frames(chain)
  <2> DEFINE s == Frames(chain)
             x == Encoded(Of(Running))
  <2>1. s \in Seq(Nat)
    BY <1>5, FramesType
  <2>2. x \in Nat
    BY <1>1, Constants, EncodedFacts DEF InBack
  <2> HIDE DEF s, x
  <2>3. SubSeq(Append(s, x), 1, Len(Append(s, x)) - 1) = s
    BY <2>1, <2>2, AppendProperties
  <2>. QED BY <1>1, <1>2, <2>3 DEF InBack, Pop, s, x
<1>7. InFun(Running)'
  BY <1>1, <1>2, <1>6 DEF InFun, InBack, Running, Loaded
<1>8. pc' # Exit
  BY <1>2, <1>5, Constants DEF Exit
<1>9. Phase'
  BY <1>7, <1>8 DEF Phase
<1>. QED BY <1>3, <1>9 DEF Inv

(* What _ovl_check does: the window of the called function holds its       *)
(* module afterwards, the other windows are untouched.                     *)
LEMMA CheckEffect ==
    ASSUME Inv, TocSound, RunCheck
    PROVE  LET m == Of(Running)
           IN  /\ Running \in Stubs /\ m \in Module /\ pc # Exit /\ ~Starting
               /\ pc' = Stub[Running] + 6 /\ stack' = Append(Frames(chain), Encoded(m))
               /\ UNCHANGED chain
               /\ win_grp' \in [Window -> Module \cup {-1, 0}]
               /\ win_grp'[WinOf[m]] = m
               /\ \A w \in Window : w # WinOf[m] => win_grp'[w] = win_grp[w]
               /\ DOMAIN ram' = DOMAIN ram
               /\ \A a \in DOMAIN ram : ~InWindow(a) => ram'[a] = ram[a]
               /\ \A i \in 0 .. Size[m] - 1 : ram'[Base[WinOf[m]] + i] = Exe[Block[m] + i]
               /\ \A k \in Module : WinOf[k] # WinOf[m] =>
                     \A i \in 0 .. Size[k] - 1 : ram'[Base[WinOf[k]] + i] = ram[Base[WinOf[k]] + i]
<1> DEFINE m == Of(Running)
           w == WinOf[m]
<1>1. pc # Exit /\ ~Starting /\ InCheck(Running)
  BY Kinds DEF RunCheck
<1>2. Running \in Stubs /\ m \in Module /\ w \in Window /\ Stub[Running] \in Nat
  BY <1>1, Constants DEF InCheck
<1>3. Encoded(m) \in Nat /\ Encoded(m) \div 256 = w /\ Encoded(m) % 256 = m
  BY <1>2, EncodedFacts
<1>4. /\ stack[Len(stack) - 1] = Encoded(m) /\ Top = Stub[Running] + 6
      /\ Pop(1) = Append(Frames(chain), Encoded(m))
  <2>1. chain \in Seq(Fun) /\ Len(chain) # 0
    BY ChainFacts DEF Inv, Typed
  <2>2. Frames(chain) \in Seq(Nat)
    BY <2>1, FramesType
  <2>3. Stub[Running] + 6 \in Nat
    BY <1>2
  <2>4. stack = Frames(chain) \o <<Encoded(m), Stub[Running] + 6>>
    BY <1>1 DEF InCheck
  <2> HIDE DEF m
  <2>. QED BY <1>3, <2>2, <2>3, <2>4, TwoPushed DEF Top, Pop
<1>5. /\ pc' = Stub[Running] + 6 /\ stack' = Append(Frames(chain), Encoded(m)) /\ UNCHANGED chain
      /\ IF win_grp[w] = m THEN UNCHANGED <<ram, win_grp>>
         ELSE Load(m) /\ win_grp' = [win_grp EXCEPT ![w] = m]
  BY <1>3, <1>4 DEF RunCheck
<1>6. win_grp \in [Window -> Module \cup {-1, 0}] /\ Typed /\ WindowHolds
  BY DEF Inv, Typed
<1> HIDE DEF m, w
<1>7. /\ win_grp' \in [Window -> Module \cup {-1, 0}] /\ win_grp'[w] = m
      /\ \A x \in Window : x # w => win_grp'[x] = win_grp[x]
  BY <1>2, <1>5, <1>6
<1>8. /\ DOMAIN ram' = DOMAIN ram
      /\ \A a \in DOMAIN ram : ~InWindow(a) => ram'[a] = ram[a]
      /\ \A i \in 0 .. Size[m] - 1 : ram'[Base[WinOf[m]] + i] = Exe[Block[m] + i]
      /\ \A k \in Module : WinOf[k] # WinOf[m] =>
            \A i \in 0 .. Size[k] - 1 : ram'[Base[WinOf[k]] + i] = ram[Base[WinOf[k]] + i]
  <2>1. CASE win_grp[w] = m
    <3>1. UNCHANGED <<ram, win_grp>>
      BY <1>5, <2>1
    <3>2. \A i \in 0 .. Size[m] - 1 : ram[Base[WinOf[m]] + i] = Exe[Block[m] + i]
      BY <1>1, <1>2, <1>6, <2>1 DEF WindowHolds, w
    <3>. QED BY <3>1, <3>2
  <2>2. CASE win_grp[w] # m
    <3>1. ram' = Copied(Toc[m])
      BY <1>5, <2>2 DEF Load
    <3>. QED BY <1>2, <1>6, <3>1, LoadModule
  <2>. QED BY <2>1, <2>2
<1>. QED BY <1>1, <1>2, <1>5, <1>7, <1>8 DEF m, w

(* After a load each mark is still true of its window.                     *)
LEMMA RunCheckInv == TocSound /\ Inv /\ RunCheck => Inv'
<1> SUFFICES ASSUME TocSound, Inv, RunCheck PROVE Inv'
  OBVIOUS
<1> DEFINE m == Of(Running)
           w == WinOf[m]
<1>1. /\ Running \in Stubs /\ m \in Module /\ pc # Exit /\ ~Starting
      /\ pc' = Stub[Running] + 6 /\ stack' = Append(Frames(chain), Encoded(m)) /\ chain' = chain
      /\ win_grp' \in [Window -> Module \cup {-1, 0}] /\ win_grp'[w] = m
      /\ \A x \in Window : x # w => win_grp'[x] = win_grp[x]
      /\ DOMAIN ram' = DOMAIN ram
  BY CheckEffect
<1>2. \A a \in DOMAIN ram : ~InWindow(a) => ram'[a] = ram[a]
  BY CheckEffect
<1>3. \A i \in 0 .. Size[m] - 1 : ram'[Base[WinOf[m]] + i] = Exe[Block[m] + i]
  BY CheckEffect
<1>4. \A k \in Module : WinOf[k] # WinOf[m] =>
            \A i \in 0 .. Size[k] - 1 : ram'[Base[WinOf[k]] + i] = ram[Base[WinOf[k]] + i]
  BY CheckEffect
<1>5. Running \in Fun /\ m # Resident /\ Stub[Running] \in Nat /\ w \in Window
  BY <1>1, Constants
<1>6. Typed'
  BY <1>1 DEF Inv, Typed
<1>7. ResidentIntact'
  BY <1>1, <1>2 DEF Inv, ResidentIntact
<1>8. WindowHolds'
  <2>1. ASSUME NEW k \in Module, win_grp'[WinOf[k]] = k, NEW i \in 0 .. Size[k] - 1
        PROVE  ram'[Base[WinOf[k]] + i] = Exe[Block[k] + i]
    <3>1. CASE WinOf[k] = w
      <4>1. k = m
        BY <1>1, <2>1, <3>1
      <4>. QED BY <1>3, <4>1
    <3>2. CASE WinOf[k] # w
      <4>1. win_grp[WinOf[k]] = k
        BY <1>1, <2>1, <3>2, Constants
      <4>2. ram[Base[WinOf[k]] + i] = Exe[Block[k] + i]
        BY <1>1, <4>1 DEF Inv, WindowHolds
      <4>3. ram'[Base[WinOf[k]] + i] = ram[Base[WinOf[k]] + i]
        BY <1>4, <3>2
      <4>. QED BY <4>2, <4>3
    <3>. QED BY <3>1, <3>2
  <2>. QED BY <2>1 DEF WindowHolds
<1>9. Phase'
  <2>1. pc' # Exit
    BY <1>1, <1>5 DEF Exit
  <2>2. Running' = Running
    BY <1>1 DEF Running
  <2>3. InBack(Running)'
    BY <1>1, <2>2 DEF InBack, Loaded
  <2>. QED BY <2>1, <2>3 DEF Phase
<1>. QED BY <1>6, <1>7, <1>8, <1>9 DEF Inv

LEMMA NextInv == TocSound /\ Inv /\ [Next]_vars => Inv'
<1> SUFFICES ASSUME TocSound, Inv, [Next]_vars PROVE Inv'
  OBVIOUS
<1>1. CASE OvlInit
  BY <1>1, OvlInitInv
<1>2. ASSUME NEW g \in Fun, Call(g) PROVE Inv'
  BY <1>2, CallInv
<1>3. CASE Return
  BY <1>3, ReturnInv
<1>4. CASE EnterStub
  BY <1>4, EnterStubInv
<1>5. CASE RunCheck
  BY <1>5, RunCheckInv
<1>6. CASE LeaveStub
  BY <1>6, LeaveStubInv
<1>7. CASE UNCHANGED vars
  <2>1. UNCHANGED <<ram, win_grp, pc, stack, chain>>
    BY <1>7 DEF vars
  <2>2. Typed' /\ ResidentIntact' /\ WindowHolds'
    BY <2>1 DEF Inv, Typed, ResidentIntact, WindowHolds, Starting
  <2>3. Phase'
    BY <2>1 DEF Inv, Phase, InFun, InStub, InCheck, InBack, Loaded, Running
  <2>. QED BY <2>2, <2>3 DEF Inv
<1>. QED BY <1>1, <1>2, <1>3, <1>4, <1>5, <1>6, <1>7 DEF Next, Step, Stopped

LEMMA InvTypeOK == Inv => TypeOK
<1> SUFFICES ASSUME Inv PROVE TypeOK
  OBVIOUS
<1>1. DOMAIN ram = DOMAIN Image /\ Running \in Fun /\ chain \in Seq(Fun) /\ Len(chain) # 0
  BY ChainFacts DEF Inv, Typed
<1>2. pc # Exit => pc \in DOMAIN ram
  BY AtPhase
<1>3. Frames(chain) \in Seq(Word)
  <2>1. \A i \in 1 .. Len(chain) - 1 : Entry[chain[i]] + 1 \in Word
    <3>1. ASSUME NEW f \in Fun PROVE Entry[f] + 1 \in Word
      <4>1. 1 \in 0 .. 1
        OBVIOUS
      <4>2. Entry[f] + 1 \in DOMAIN Image
        BY <4>1, EntryInImage DEF Inv, Typed
      <4>. QED BY <4>2, Addresses
    <3>. QED BY <1>1, <3>1
  <2>2. Len(chain) - 1 \in Nat
    BY <1>1
  <2>3. Frames(chain) \in [1 .. Len(chain) - 1 -> Word]
    BY <2>1 DEF Frames
  <2>. QED BY <2>2, <2>3
<1>4. \A g \in Stubs : Encoded(Of(g)) \in Word /\ Stub[g] + 6 \in Word
  <2> SUFFICES ASSUME NEW g \in Stubs PROVE Encoded(Of(g)) \in Word /\ Stub[g] + 6 \in Word
    OBVIOUS
  <2>1. Of(g) \in Module
    BY Constants
  <2>2. Of(g) \in 0 .. 31 /\ WinOf[Of(g)] \in 0 .. 7
    BY <2>1, Constants
  <2>3. Encoded(Of(g)) \in Word
    <3>1. ASSUME NEW w \in 0 .. 7, NEW k \in 0 .. 31
          PROVE  (w * 256) + k \in Word
      <4>1. (256 * 256) - 1 \in Int
        OBVIOUS
      <4>2. (w * 256) + k \in Int /\ 0 <= (w * 256) + k /\ (w * 256) + k <= (256 * 256) - 1
        OBVIOUS
      <4>. QED BY <4>1, <4>2, Within, Zenon DEF Word
    <3>. QED BY <2>2, <3>1 DEF Encoded
  <2>4. 6 \in {0, 6}
    OBVIOUS
  <2>5. Stub[g] + 6 \in DOMAIN Image
    BY <2>4, StubCode DEF Inv, Typed
  <2>. QED BY <2>3, <2>5, Addresses
<1>5. stack \in Seq(Word)
  <2>1. CASE pc = Exit
    BY <2>1 DEF Inv, Phase
  <2>2. CASE stack = Frames(chain)
    BY <1>3, <2>2
  <2>3. CASE InCheck(Running)
    <3> DEFINE s == Frames(chain)
               x == Encoded(Of(Running))
               y == Stub[Running] + 6
    <3>1. x \in Word /\ y \in Word /\ s \in Seq(Word)
      BY <1>3, <1>4, <2>3 DEF InCheck
    <3>2. stack = s \o <<x, y>>
      BY <2>3 DEF InCheck
    <3> HIDE DEF s, x, y
    <3>. QED BY <3>1, <3>2
  <2>4. CASE InBack(Running)
    <3> DEFINE s == Frames(chain)
               x == Encoded(Of(Running))
    <3>1. x \in Word /\ s \in Seq(Word)
      BY <1>3, <1>4, <2>4 DEF InBack
    <3>2. stack = Append(s, x)
      BY <2>4 DEF InBack
    <3> HIDE DEF s, x
    <3>. QED BY <3>1, <3>2
  <2>. QED BY <2>1, <2>2, <2>3, <2>4 DEF Inv, Phase, InFun, InStub
<1>. QED BY <1>1, <1>2, <1>5 DEF TypeOK, Inv, Typed

-----------------------------------------------------------------------------
(* The inductive invariant.                                                *)
LEMMA Invariant ==
    ASSUME Placed, TocSound
    PROVE  Spec => []Inv
<1>1. Inv /\ [Next]_vars => Inv'
  BY NextInv
<1>. QED BY InitInv, <1>1, PTL DEF Spec

(* The machine keeps its type: pc stays in the code segment, and every     *)
(* word that calls and stubs push is a 16-bit one.                         *)
THEOREM TypeCorrect ==
    ASSUME Placed, TocSound
    PROVE  Spec => []TypeOK
BY Invariant, InvTypeOK, PTL

(* ovlmgr.c: a window holds the module that _ovl_win_grp names for it.     *)
THEOREM WindowsHoldTheirModule ==
    ASSUME Placed, TocSound
    PROVE  Spec => []WindowHolds
<1>1. Inv => WindowHolds
  BY DEF Inv
<1>. QED BY Invariant, <1>1, PTL

(* _ovl_load writes to the windows only.                                   *)
THEOREM ResidentCodeIsNeverWritten ==
    ASSUME Placed, TocSound
    PROVE  Spec => []ResidentIntact
<1>1. Inv => ResidentIntact
  BY DEF Inv
<1>. QED BY Invariant, <1>1, PTL

(* Overlays are transparent: what the processor executes is always the     *)
(* function the source calls, or the way to it, until it returns to a      *)
(* caller whose window holds another module by then.                       *)
THEOREM OverlaysAreTransparent ==
    ASSUME Placed, TocSound
    PROVE  Spec => []RightCode
<1>1. Inv => RightCode
  <2> SUFFICES ASSUME Inv, pc # Exit, ~Evicted
               PROVE  At("check") \/ ((At("fun") \/ At("stub")) /\ Here = Running)
    BY DEF RightCode
  <2>1. \A k, x, i : Byte(k, x, i).kind = k /\ Byte(k, x, i).of = x
    BY DEF Byte
  <2>2. pc \in DOMAIN ram
    BY AtPhase
  <2>3. CASE InFun(Running)
    <3>1. ram[pc] = Byte("fun", Running, pc - Entry[Running])
      BY <2>3, AtPhase
    <3>. QED BY <2>1, <2>2, <3>1 DEF At, Here
  <2>4. CASE InStub(Running)
    <3>1. ram[pc] = Byte("stub", Running, 0)
      BY <2>4, AtPhase
    <3>. QED BY <2>1, <2>2, <3>1 DEF At, Here
  <2>5. CASE InCheck(Running)
    <3>1. ram[pc] = Byte("check", Main, 0)
      BY <2>5, AtPhase
    <3>. QED BY <2>1, <2>2, <3>1 DEF At
  <2>6. CASE InBack(Running)
    <3>1. ram[pc] = Byte("stub", Running, 6)
      BY <2>6, AtPhase
    <3>. QED BY <2>1, <2>2, <3>1 DEF At, Here
  <2>. QED BY <2>3, <2>4, <2>5, <2>6 DEF Inv, Phase
<1>. QED BY Invariant, <1>1, PTL

(* Stubs and _ovl_check leave the stack as a plain call would.             *)
THEOREM StacksAreBalanced ==
    ASSUME Placed, TocSound
    PROVE  Spec => []StackIsChain
<1>1. Inv => StackIsChain
  BY Kinds DEF StackIsChain, InFun
<1>. QED BY Invariant, <1>1, PTL

(* A load evicts code that a call in progress returns to only when it is    *)
(* for a call of another module of the same window.                        *)
THEOREM OnlyClashingCallsEvict ==
    ASSUME Placed, TocSound
    PROVE  Spec => OnlyClashesEvict
<1> DEFINE Kept == \A i \in 1 .. Len(chain) :
                     Present(ram, chain[i]) => Present(ram', chain[i]) \/ Clash(chain[i], Running)
<1>1. ASSUME Inv, [Next]_vars PROVE Kept
  <2>1. CASE UNCHANGED ram
    BY <2>1 DEF Present
  <2>2. CASE RunCheck
    <3> DEFINE m == Of(Running)
    <3>0. Running \in Stubs /\ m \in Module
      BY <1>1, <2>2, CheckEffect
    <3>1. m # Resident /\ \A a \in DOMAIN ram : ~InWindow(a) => ram'[a] = ram[a]
      <4>1. \A a \in DOMAIN ram : ~InWindow(a) => ram'[a] = ram[a]
        BY <1>1, <2>2, CheckEffect
      <4>2. m # Resident
        BY <3>0, Constants
      <4>. QED BY <4>1, <4>2
    <3>2. \A i \in 0 .. Size[m] - 1 : ram'[Base[WinOf[m]] + i] = Exe[Block[m] + i]
      BY <1>1, <2>2, CheckEffect
    <3>3. \A k \in Module : WinOf[k] # WinOf[m] =>
              \A i \in 0 .. Size[k] - 1 : ram'[Base[WinOf[k]] + i] = ram[Base[WinOf[k]] + i]
      BY <1>1, <2>2, CheckEffect
    <3>4. DOMAIN ram = DOMAIN Image
      BY <1>1 DEF Inv, Typed
    <3>5. ASSUME NEW f \in Fun, ~Clash(f, Running), Present(ram, f), NEW i \in 0 .. 1
          PROVE  ram'[Entry[f] + i] = Byte("fun", f, i)
      <4>1. CASE Of(f) = Resident
        <5>1. Entry[f] + i \in DOMAIN ram /\ ~InWindow(Entry[f] + i)
          BY <3>4, <4>1, ResidentCode
        <5>. QED BY <3>1, <3>5, <5>1 DEF Present
      <4>2. CASE Of(f) # Resident
        <5> DEFINE k == Of(f)
                   d == (Entry[f] + i) - Base[WinOf[k]]
        <5>1. /\ k \in Module /\ d \in 0 .. Size[k] - 1 /\ Base[WinOf[k]] + d = Entry[f] + i
              /\ Exe[Block[k] + d] = Byte("fun", f, i)
          BY <4>2, Constants, OverlayCode
        <5>2. k = m \/ WinOf[k] # WinOf[m]
          BY <3>1, <3>5, <4>2 DEF Clash
        <5>3. ram[Entry[f] + i] = Byte("fun", f, i)
          BY <3>5 DEF Present
        <5> HIDE DEF d, k, m
        <5>. QED BY <3>2, <3>3, <5>1, <5>2, <5>3
      <4>. QED BY <4>1, <4>2
    <3>6. \A j \in 1 .. Len(chain) : chain[j] \in Fun
      BY <1>1, ChainFacts DEF Inv
    <3>. QED BY <3>5, <3>6 DEF Present
  <2>. QED BY <1>1, <2>1, <2>2 DEF Next, Step, OvlInit, Call, Return, EnterStub, LeaveStub, Stopped, vars
<1>2. Inv /\ [Next]_vars => [Kept]_vars
  BY <1>1
<1>. QED BY Invariant, <1>2, PTL DEF Spec, OnlyClashesEvict

-----------------------------------------------------------------------------
(* The linker's part.  For object modules of any sizes, the layout that     *)
(* OvlImage computes is what the theorems above suppose.                     *)
CONSTANTS N, CodeSize, ModCount, WinCount, Offset, StubSeq, Manager, CheckOffset, ImageEnd

L == INSTANCE OvlImage

LEMMA SoundIs ==
    ASSUME L!Sound
    PROVE  /\ N \in Nat /\ ModCount \in Nat /\ WinCount \in Nat /\ ImageEnd \in Nat
           /\ Resident \notin L!ModIds
           /\ \A i \in 1 .. N : ModOf[i] \in L!ModIds \cup {Resident} /\ CodeSize[i] \in Nat
           /\ \A m \in L!ModIds : WinOf[m] \in L!WinIds
           /\ \A f \in Fun : ObjOf[f] \in 1 .. N /\ Offset[f] \in Nat
                             /\ Offset[f] + 2 <= CodeSize[ObjOf[f]]
           /\ Manager \in 1 .. N /\ ModOf[Manager] = Resident
           /\ CheckOffset \in Nat /\ CheckOffset < CodeSize[Manager]
           /\ StubSeq \in Seq(Fun) /\ Len(StubSeq) \in Nat
           /\ \A s, t \in 1 .. Len(StubSeq) : StubSeq[s] = StubSeq[t] => s = t
BY LenProperties DEF L!Sound

LEMMA UpToIs ==
    ASSUME NEW n \in Nat \ {0}, NEW x \in Nat
    PROVE  L!UpTo(n, x) \in Nat /\ x <= L!UpTo(n, x)
<1>1. PICK r : r = (n - (x % n)) % n
  OBVIOUS
<1>2. x % n \in 0 .. n - 1
  OBVIOUS
<1>3. r \in 0 .. n - 1
  BY <1>1, <1>2
<1>4. L!UpTo(n, x) = x + r
  BY <1>1 DEF L!UpTo
<1> QED
  BY <1>3, <1>4

(* A sum below 64K is what it is, and any other is one of 16 bits.         *)
LEMMA WrapIs ==
    ASSUME NEW x \in Nat
    PROVE  L!Wrapped(x) \in Nat /\ (x < L!Words => L!Wrapped(x) = x)
<1>1. PICK k \in Nat \ {0} : k = L!Words
  BY DEF L!Words
<1>2. L!Wrapped(x) = x % k
  BY <1>1 DEF L!Wrapped
<1>3. x % k \in Nat /\ (x < k => x % k = x)
  OBVIOUS
<1> QED
  BY <1>1, <1>2, <1>3

LEMMA AlignIs ==
    ASSUME NEW n \in Nat \ {0}, NEW x \in Nat
    PROVE  L!Align(n, x) \in Nat /\ x <= L!Align(n, x)
BY UpToIs DEF L!Align

(* Rounding up to a multiple of n adds less than n.                        *)
LEMMA UpToAdds ==
    ASSUME NEW n \in Nat \ {0}, NEW x \in Nat
    PROVE  L!UpTo(n, x) < x + n
<1>1. PICK r : r = (n - (x % n)) % n
  OBVIOUS
<1>2. n - (x % n) \in Int
  OBVIOUS
<1>3. r \in 0 .. n - 1
  BY <1>1, <1>2
<1>4. L!UpTo(n, x) = x + r
  BY <1>1 DEF L!UpTo
<1> QED
  BY <1>3, <1>4

(* The code of the objects of a module, or of none, is laid one behind the *)
(* other, from an address on.                                              *)
Onto(k, x, c) == IF k = Resident THEN L!Align(2, x + c) ELSE L!Wrapped(L!UpTo(2, L!Wrapped(x + c)))

LEMMA OntoIs ==
    ASSUME NEW k, NEW x \in Nat, NEW c \in Nat
    PROVE  /\ Onto(k, x, c) \in Nat
           /\ k = Resident \/ x + c <= L!Words - 2 => x + c <= Onto(k, x, c)
<1>1. PICK y \in Nat, n \in Nat \ {0} : y = x + c /\ n = 2
  OBVIOUS
<1>2. CASE k = Resident
  <2>1. L!Align(n, y) \in Nat /\ y <= L!Align(n, y)
    BY AlignIs
  <2>2. Onto(k, x, c) = L!Align(n, y)
    BY <1>1, <1>2 DEF Onto
  <2> QED
    BY <1>1, <2>1, <2>2
<1>3. CASE k # Resident
  <2>1. PICK z \in Nat : z = L!Wrapped(y)
    BY WrapIs
  <2>2. PICK u \in Nat : u = L!UpTo(n, z) /\ z <= u /\ u < z + n
    BY UpToIs, UpToAdds
  <2>3. Onto(k, x, c) = L!Wrapped(u)
    BY <1>1, <1>3, <2>1, <2>2 DEF Onto
  <2>4. PICK q \in Nat : q = L!Words
    BY DEF L!Words
  <2>5. ASSUME y <= q - 2 PROVE L!Wrapped(u) = u /\ y <= u
    <3>1. z = y
      BY <2>1, <2>4, <2>5, WrapIs
    <3>2. u < q
      BY <1>1, <2>2, <2>4, <2>5, <3>1
    <3> QED
      BY <2>2, <2>4, <3>1, <3>2, WrapIs
  <2> QED
    BY <1>1, <1>3, <2>2, <2>3, <2>4, <2>5, WrapIs
<1> QED
  BY <1>2, <1>3

Layers(k, base, g) ==
    g = [i \in 0 .. N |->
           IF i = 0 THEN base
           ELSE IF ModOf[i] = k THEN Onto(k, g[i - 1], CodeSize[i]) ELSE g[i - 1]]

Laid(g, k, base) ==
    /\ g \in [0 .. N -> Nat] /\ g[0] = base
    /\ \A i \in 1 .. N : g[i] = IF ModOf[i] = k THEN Onto(k, g[i - 1], CodeSize[i]) ELSE g[i - 1]

Layered(g, k, base) ==
    /\ g \in [0 .. N -> Nat] /\ g[0] = base
    /\ \A i \in 1 .. N : g[i - 1] <= g[i] /\ (ModOf[i] = k => g[i - 1] + CodeSize[i] <= g[i])

LEMMA LayersAre ==
    ASSUME L!Sound, NEW k, NEW base \in Nat, NEW g, g = CHOOSE f : Layers(k, base, f)
    PROVE  Laid(g, k, base)
<1> DEFINE H == [q \in (1 .. N) \X Nat |->
                   IF ModOf[q[1]] = k THEN Onto(k, q[2], CodeSize[q[1]]) ELSE q[2]]
<1>0. N \in Nat /\ \A i \in 1 .. N : CodeSize[i] \in Nat
  BY SoundIs
<1>1. H \in [(1 .. N) \X Nat -> Nat]
  <2>1. ASSUME NEW q \in (1 .. N) \X Nat
        PROVE  (IF ModOf[q[1]] = k THEN Onto(k, q[2], CodeSize[q[1]]) ELSE q[2]) \in Nat
    <3>1. q[2] \in Nat /\ CodeSize[q[1]] \in Nat
      BY <1>0
    <3>2. Onto(k, q[2], CodeSize[q[1]]) \in Nat
      BY <3>1, OntoIs
    <3> QED
      BY <3>1, <3>2
  <2> QED
    BY <2>1
<1>2. PICK f : Steps(f, Nat, base, H, N)
  <2> HIDE DEF H
  <2> QED
    BY <1>0, <1>1, Recursion DEF Stepwise
<1>3. f \in [0 .. N -> Nat] /\ f[0] = base /\ \A i \in 1 .. N : f[i] = H[<<i, f[i - 1]>>]
  <2> HIDE DEF H
  <2> QED
    BY <1>2 DEF Steps
<1>4. ASSUME NEW i \in 1 .. N
      PROVE  /\ i - 1 \in 0 .. N /\ i \in 0 .. N /\ f[i - 1] \in Nat
             /\ f[i] = IF ModOf[i] = k THEN Onto(k, f[i - 1], CodeSize[i]) ELSE f[i - 1]
  <2>1. i - 1 \in 0 .. N /\ i \in 0 .. N
    BY <1>0
  <2>2. <<i, f[i - 1]>> \in (1 .. N) \X Nat
    BY <1>3, <2>1
  <2>3. PICK q \in (1 .. N) \X Nat : q = <<i, f[i - 1]>>
    BY <2>2
  <2>4. H[q] = IF ModOf[q[1]] = k THEN Onto(k, q[2], CodeSize[q[1]]) ELSE q[2]
    OBVIOUS
  <2> HIDE DEF H
  <2> QED
    BY <1>3, <2>1, <2>3, <2>4
<1>5. Layers(k, base, f)
  <2>1. ASSUME NEW i \in 0 .. N
        PROVE  f[i] = IF i = 0 THEN base
                      ELSE IF ModOf[i] = k THEN Onto(k, f[i - 1], CodeSize[i]) ELSE f[i - 1]
    <3>1. CASE i = 0
      BY <1>3, <3>1
    <3>2. CASE i # 0
      <4>1. i \in 1 .. N
        BY <1>0, <3>2
      <4> QED
        BY <1>4, <3>2, <4>1
    <3> QED
      BY <3>1, <3>2
  <2>2. f = [i \in 0 .. N |-> f[i]]
    BY <1>3
  <2> HIDE DEF H
  <2> QED
    BY <2>1, <2>2 DEF Layers
<1> HIDE DEF H
<1>6. Layers(k, base, g)
  BY <1>5
<1>7. g[0] = base /\ g = [i \in 0 .. N |-> g[i]]
  <2>1. DOMAIN g = 0 .. N
    BY <1>6, Zenon DEF Layers
  <2>2. g = [i \in DOMAIN g |-> g[i]]
    BY <1>6 DEF Layers
  <2>3. 0 \in 0 .. N
    BY <1>0
  <2> QED
    BY <1>6, <2>1, <2>2, <2>3 DEF Layers
<1>8. ASSUME NEW i \in 1 .. N
      PROVE  g[i] = IF ModOf[i] = k THEN Onto(k, g[i - 1], CodeSize[i]) ELSE g[i - 1]
  <2>1. i \in 0 .. N /\ i # 0
    BY <1>0
  <2> QED
    BY <1>6, <2>1 DEF Layers
<1>9. \A i \in 0 .. N : g[i] = f[i]
  <2>1. ASSUME NEW i \in 1 .. N, g[i - 1] = f[i - 1]
        PROVE  g[i] = f[i]
    BY <1>4, <1>8, <2>1
  <2>2. GoAlike(g, f, N)
    BY <1>0, <1>3, <1>7, <2>1 DEF GoAlike
  <2> QED
    BY <2>2, Agree
<1>10. g \in [0 .. N -> Nat]
  BY <1>3, <1>7, <1>9
<1> QED
  BY <1>7, <1>8, <1>10 DEF Laid

LEMMA LaidOf ==
    ASSUME L!Sound
    PROVE  /\ Laid(L!ResidentTop, Resident, 2)
           /\ \A m \in L!ModIds : Laid(L!Accum(m), m, 0)
<1>1. L!ResidentTop = CHOOSE g : Layers(Resident, 2, g)
  BY DEF L!ResidentTop, Layers, Onto
<1>2. ASSUME NEW m \in L!ModIds PROVE Laid(L!Accum(m), m, 0)
  <2>0. m # Resident
    BY SoundIs
  <2>1. L!Accum(m) = CHOOSE g : Layers(m, 0, g)
    BY <2>0 DEF L!Accum, Layers, Onto
  <2> QED
    BY <2>1, LayersAre
<1> QED
  BY <1>1, <1>2, LayersAre

(* Where no sum wraps, they rise.                                          *)
LEMMA LayersRise ==
    ASSUME L!Sound, NEW k, NEW base, NEW g, Laid(g, k, base),
           \A i \in 1 .. N : ModOf[i] = k => k = Resident \/ g[i - 1] + CodeSize[i] <= L!Words - 2
    PROVE  Layered(g, k, base)
<1>0. N \in Nat /\ \A i \in 1 .. N : CodeSize[i] \in Nat
  BY SoundIs
<1>1. ASSUME NEW i \in 1 .. N
      PROVE  g[i - 1] <= g[i] /\ (ModOf[i] = k => g[i - 1] + CodeSize[i] <= g[i])
  <2>1. PICK x \in Nat, c \in Nat : x = g[i - 1] /\ c = CodeSize[i]
    BY <1>0 DEF Laid
  <2>2. CASE ModOf[i] = k
    <3>1. g[i] = Onto(k, x, c)
      BY <2>1, <2>2 DEF Laid
    <3>2. PICK y \in Nat : y = Onto(k, x, c)
      BY OntoIs
    <3>3. x + c <= y
      BY <2>1, <2>2, <3>2, OntoIs
    <3> QED
      BY <2>1, <3>1, <3>2, <3>3
  <2>3. CASE ModOf[i] # k
    BY <2>1, <2>3 DEF Laid
  <2> QED
    BY <2>2, <2>3
<1> QED
  BY <1>1 DEF Laid, Layered

LEMMA InLayer ==
    ASSUME L!Sound, NEW g, NEW k, NEW base, Layered(g, k, base), NEW i \in 1 .. N, ModOf[i] = k
    PROVE  /\ g[i - 1] \in Nat /\ base \in Nat /\ base <= g[i - 1]
           /\ g[i - 1] + CodeSize[i] <= g[N] /\ g[N] \in Nat
           /\ \A j \in 1 .. N : i < j => g[i - 1] + CodeSize[i] <= g[j - 1] /\ g[j - 1] \in Nat
<1>0. N \in Nat /\ CodeSize[i] \in Nat /\ i \in 0 .. N /\ i - 1 \in 0 .. N /\ 0 \in 0 .. N /\ N \in 0 .. N
      /\ \A j \in 1 .. N : j - 1 \in 0 .. N
  BY SoundIs
<1>1. /\ g \in [0 .. N -> Nat] /\ g[0] = base /\ Rising(g, N)
      /\ g[i - 1] + CodeSize[i] <= g[i]
  BY <1>0 DEF Layered, Rising
<1>2. \A j \in 0 .. N : g[j] \in Nat
  BY <1>1
<1>3. g[0] <= g[i - 1] /\ g[i] <= g[N]
  <2>1. 0 <= i - 1 /\ i <= N
    OBVIOUS
  <2> QED
    BY <1>0, <1>1, <2>1, Rises
<1>4. ASSUME NEW j \in 1 .. N, i < j PROVE g[i] <= g[j - 1]
  <2>1. i <= j - 1
    BY <1>4
  <2> QED
    BY <1>0, <1>1, <2>1, Rises
<1> QED
  BY <1>0, <1>1, <1>2, <1>3, <1>4

LEMMA LayersOf ==
    ASSUME L!Sound
    PROVE  /\ Layered(L!ResidentTop, Resident, 2)
           /\ L!Fits => \A m \in L!ModIds : Layered(L!Accum(m), m, 0)
<1>1. Layered(L!ResidentTop, Resident, 2)
  BY LaidOf, LayersRise
<1>2. ASSUME L!Fits, NEW m \in L!ModIds PROVE Layered(L!Accum(m), m, 0)
  <2>1. m # Resident /\ Laid(L!Accum(m), m, 0)
    BY SoundIs, LaidOf
  <2>2. \A i \in 1 .. N : ModOf[i] = m => L!Accum(m)[i - 1] + CodeSize[i] <= L!Words - 2
    BY <1>2, <2>1 DEF L!Fits
  <2> QED
    BY <2>1, <2>2, LayersRise
<1> QED
  BY <1>1, <1>2

LEMMA ModulesAre ==
    ASSUME L!Sound
    PROVE  \A m \in L!ModIds : L!ModSize[m] \in Nat /\ L!ModSize[m] = L!Accum(m)[N] /\ m \in 0 .. ModCount - 1
<1>1. N \in 0 .. N
  BY SoundIs
<1>2. ASSUME NEW m \in L!ModIds
      PROVE  L!ModSize[m] = L!Accum(m)[N] /\ L!Accum(m)[N] \in Nat
  <2>1. Laid(L!Accum(m), m, 0)
    BY LaidOf
  <2> QED
    BY <1>1, <2>1 DEF L!ModSize, Laid
<1> QED
  BY <1>2 DEF L!ModIds

(* The blocks of the modules lie one behind the other in the file.         *)
Blocks == [k \in 1 .. ModCount |-> L!ModSize[k - 1]]

LEMMA BlocksAre ==
    ASSUME L!Sound
    PROVE  Summable(ImageEnd, Blocks, ModCount) /\ IsSum(L!BlockAt, ImageEnd, Blocks, ModCount)
<1> DEFINE Is(g) == g = [m \in 0 .. ModCount |->
                           IF m = 0 THEN ImageEnd ELSE g[m - 1] + L!ModSize[m - 1]]
<1>0. ImageEnd \in Nat /\ ModCount \in Nat
  BY SoundIs
<1>1. Summable(ImageEnd, Blocks, ModCount)
  <2>1. ASSUME NEW k \in 1 .. ModCount PROVE L!ModSize[k - 1] \in Nat
    <3>1. k - 1 \in L!ModIds
      BY <1>0 DEF L!ModIds
    <3> QED
      BY <3>1, ModulesAre
  <2> QED
    BY <1>0, <2>1 DEF Summable, Blocks
<1>2. ASSUME NEW g PROVE Summed(g, ImageEnd, Blocks, ModCount) <=> Is(g)
  <2>1. ASSUME NEW m \in 0 .. ModCount
        PROVE  (IF m = 0 THEN ImageEnd ELSE g[m - 1] + Blocks[m])
                 = (IF m = 0 THEN ImageEnd ELSE g[m - 1] + L!ModSize[m - 1])
    <3>1. m # 0 => m \in 1 .. ModCount
      BY <1>0
    <3> QED
      BY <3>1 DEF Blocks
  <2> QED
    BY <2>1 DEF Summed
<1>3. PICK f : Summed(f, ImageEnd, Blocks, ModCount)
  BY <1>1, SummedIs
<1>4. L!BlockAt = CHOOSE g : Is(g)
  BY DEF L!BlockAt
<1>5. Is(f)
  BY <1>2, <1>3
<1> HIDE DEF Is
<1>6. Is(L!BlockAt)
  BY <1>4, <1>5
<1> QED
  BY <1>1, <1>2, <1>6, SummedIs

(* A window is as long as the longest of its modules.                      *)
LEMMA WinSizeIs ==
    ASSUME L!Sound, NEW w
    PROVE  /\ L!WinSize(w) \in Nat
           /\ \A m \in L!ModIds : WinOf[m] = w => L!ModSize[m] <= L!WinSize(w)
<1> DEFINE S == {L!ModSize[m] : m \in {k \in L!ModIds : WinOf[k] = w}} \cup {0}
           b == L!BlockAt[ModCount]
<1>1. S \in SUBSET Nat /\ S # {}
  BY ModulesAre
<1>2. ImageEnd \in Nat /\ ModCount \in Nat
  BY SoundIs
<1>3. b \in Nat
  <2>1. ModCount \in 0 .. ModCount
    BY <1>2
  <2> QED
    BY <2>1, BlocksAre DEF IsSum
<1>4. ASSUME NEW m \in L!ModIds PROVE L!ModSize[m] <= b
  <2>1. PICK k \in 1 .. ModCount : k = m + 1
    BY <1>2 DEF L!ModIds
  <2>2. Blocks[k] = L!ModSize[m]
    <3>1. k - 1 = m
      BY <2>1 DEF L!ModIds
    <3> QED
      BY <3>1 DEF Blocks
  <2>3. L!BlockAt[k - 1] \in Nat /\ L!BlockAt[k - 1] + Blocks[k] <= b /\ b \in Nat
    BY BlocksAre, PartsOfSum
  <2>4. L!ModSize[m] \in Nat
    BY ModulesAre
  <2> HIDE DEF b
  <2> QED
    BY <2>2, <2>3, <2>4
<1>5. \A x \in S : x <= b
  BY <1>3, <1>4
<1>6. L!WinSize(w) = CHOOSE x \in S : \A y \in S : x >= y
  BY DEF L!WinSize, L!Max
<1> HIDE DEF b
<1>7. \A m \in L!ModIds : WinOf[m] = w => L!ModSize[m] \in S
  OBVIOUS
<1> HIDE DEF S
<1>8. \E x \in S : \A y \in S : x >= y
  BY <1>1, <1>3, <1>5, Greatest
<1>9. L!WinSize(w) \in S /\ \A y \in S : L!WinSize(w) >= y
  BY <1>6, <1>8
<1> QED
  BY <1>1, <1>7, <1>9

(* The windows lie one behind the other in the segment, behind the stubs.  *)
Widths == [k \in 1 .. WinCount |-> L!WinSize(k - 1)]
StubEnd == L!StubBase + (11 * Len(StubSeq))

LEMMA StubBaseIs ==
    ASSUME L!Sound
    PROVE  L!StubBase \in Nat /\ L!ResidentTop[N] <= L!StubBase /\ StubEnd \in Nat /\ L!ResidentTop[N] \in Nat
<1>1. N \in 0 .. N /\ Len(StubSeq) \in Nat
  BY SoundIs
<1>2. L!ResidentTop[N] \in Nat
  BY <1>1, LayersOf DEF Layered
<1>3. PICK n \in Nat \ {0} : n = 16
  OBVIOUS
<1>4. L!Align(n, L!ResidentTop[N]) \in Nat /\ L!ResidentTop[N] <= L!Align(n, L!ResidentTop[N])
  BY <1>2, AlignIs
<1> QED
  BY <1>1, <1>2, <1>3, <1>4 DEF L!StubBase, StubEnd

LEMMA WindowsAre ==
    ASSUME L!Sound
    PROVE  Summable(StubEnd, Widths, WinCount) /\ IsSum(L!WinBase, StubEnd, Widths, WinCount)
<1> DEFINE Is(g) == g = [w \in 0 .. WinCount |->
                           IF w = 0 THEN StubEnd ELSE g[w - 1] + L!WinSize(w - 1)]
<1>0. StubEnd \in Nat /\ WinCount \in Nat
  BY SoundIs, StubBaseIs
<1>1. Summable(StubEnd, Widths, WinCount)
  <2>1. ASSUME NEW k \in 1 .. WinCount PROVE L!WinSize(k - 1) \in Nat
    BY WinSizeIs
  <2> QED
    BY <1>0, <2>1 DEF Summable, Widths
<1>2. ASSUME NEW g PROVE Summed(g, StubEnd, Widths, WinCount) <=> Is(g)
  <2>1. ASSUME NEW w \in 0 .. WinCount
        PROVE  (IF w = 0 THEN StubEnd ELSE g[w - 1] + Widths[w])
                 = (IF w = 0 THEN StubEnd ELSE g[w - 1] + L!WinSize(w - 1))
    <3>1. w # 0 => w \in 1 .. WinCount
      BY <1>0
    <3> QED
      BY <3>1 DEF Widths
  <2> QED
    BY <2>1 DEF Summed
<1>3. PICK f : Summed(f, StubEnd, Widths, WinCount)
  BY <1>1, SummedIs
<1>4. L!WinBase = CHOOSE g : Is(g)
  BY DEF L!WinBase, StubEnd
<1>5. Is(f)
  BY <1>2, <1>3
<1> HIDE DEF Is
<1>6. Is(L!WinBase)
  BY <1>4, <1>5
<1> QED
  BY <1>1, <1>2, <1>6, SummedIs

LEMMA CodeEndIs ==
    ASSUME L!Sound, L!Fits
    PROVE  L!CodeEnd \in Nat /\ L!WinBase[WinCount] \in Nat /\ L!WinBase[WinCount] <= L!CodeEnd
           /\ StubEnd <= L!CodeEnd /\ L!CodeEnd < L!Words /\ L!Words \in Nat
<1>1. L!WinBase[WinCount] \in Nat /\ StubEnd <= L!WinBase[WinCount] /\ StubEnd \in Nat
  BY WindowsAre, WholeSum, StubBaseIs
<1>2. PICK n \in Nat \ {0} : n = 16
  OBVIOUS
<1>3. PICK x \in Nat : x = L!WinBase[WinCount]
  BY <1>1
<1>4. PICK y \in Nat : y = L!UpTo(n, x) /\ x <= y /\ y < x + n
  BY UpToIs, UpToAdds
<1>5. PICK q \in Nat : q = L!Words
  BY DEF L!Words
<1>6. x <= q - n
  BY <1>2, <1>3, <1>5 DEF L!Fits
<1>7. y < q
  BY <1>4, <1>6
<1>8. L!CodeEnd = y
  <2>1. L!CodeEnd = L!Wrapped(y)
    BY <1>2, <1>3, <1>4 DEF L!CodeEnd
  <2> QED
    BY <1>5, <1>7, <2>1, WrapIs
<1> QED
  BY <1>1, <1>3, <1>4, <1>5, <1>7, <1>8

LEMMA WinStartIs ==
    ASSUME L!Sound, NEW w \in L!WinIds
    PROVE  L!WinStart[w] \in Nat
<1>1. w \in 0 .. WinCount
  BY SoundIs DEF L!WinIds
<1> QED
  BY <1>1, WindowsAre DEF L!WinStart, IsSum

(* A window lies behind the stubs, in the segment, and in front of those   *)
(* that follow.                                                            *)
LEMMA WindowIs ==
    ASSUME L!Sound, L!Fits, NEW w \in L!WinIds
    PROVE  /\ L!WinStart[w] \in Nat /\ L!WinSize(w) \in Nat /\ StubEnd <= L!WinStart[w]
           /\ L!WinStart[w] + L!WinSize(w) <= L!CodeEnd
           /\ \A v \in L!WinIds : w < v => /\ L!WinStart[w] + L!WinSize(w) <= L!WinStart[v]
                                           /\ L!WinStart[v] \in Nat
<1>1. PICK i \in 1 .. WinCount : i = w + 1 /\ i - 1 = w
  BY SoundIs DEF L!WinIds
<1>2. /\ L!WinBase[i - 1] \in Nat /\ StubEnd <= L!WinBase[i - 1]
      /\ L!WinBase[i - 1] + Widths[i] <= L!WinBase[WinCount] /\ L!WinBase[WinCount] \in Nat
      /\ \A j \in 1 .. WinCount : i < j => /\ L!WinBase[i - 1] + Widths[i] <= L!WinBase[j - 1]
                                           /\ L!WinBase[j - 1] \in Nat
  BY WindowsAre, PartsOfSum
<1>3. Widths[i] = L!WinSize(w) /\ L!WinSize(w) \in Nat
  BY <1>1, WinSizeIs DEF Widths
<1>4. \A v \in L!WinIds : L!WinStart[v] = L!WinBase[v]
  BY DEF L!WinStart
<1>5. ASSUME NEW v \in L!WinIds, w < v
      PROVE  L!WinStart[w] + L!WinSize(w) <= L!WinStart[v] /\ L!WinStart[v] \in Nat
  <2>1. PICK j \in 1 .. WinCount : j = v + 1 /\ j - 1 = v
    BY SoundIs DEF L!WinIds
  <2>2. i < j
    BY <1>1, <1>5, <2>1 DEF L!WinIds
  <2> QED
    BY <1>1, <1>2, <1>3, <1>4, <2>1, <2>2
<1>6. L!WinBase[i - 1] + Widths[i] <= L!CodeEnd
  BY <1>2, <1>3, CodeEndIs
<1> QED
  BY <1>1, <1>2, <1>3, <1>4, <1>5, <1>6

(* A block lies in front of the table of contents and of those that follow.*)
LEMMA BlockIs ==
    ASSUME L!Sound, NEW m \in L!ModIds
    PROVE  /\ L!BlockOff[m] \in Nat /\ ImageEnd <= L!BlockOff[m] /\ L!TocAt \in Nat
           /\ L!BlockOff[m] + L!ModSize[m] <= L!TocAt
           /\ \A k \in L!ModIds : m < k => /\ L!BlockOff[m] + L!ModSize[m] <= L!BlockOff[k]
                                           /\ L!BlockOff[k] \in Nat
<1>1. PICK i \in 1 .. ModCount : i = m + 1 /\ i - 1 = m
  BY SoundIs DEF L!ModIds
<1>2. /\ L!BlockAt[i - 1] \in Nat /\ ImageEnd <= L!BlockAt[i - 1]
      /\ L!BlockAt[i - 1] + Blocks[i] <= L!BlockAt[ModCount] /\ L!BlockAt[ModCount] \in Nat
      /\ \A j \in 1 .. ModCount : i < j => /\ L!BlockAt[i - 1] + Blocks[i] <= L!BlockAt[j - 1]
                                           /\ L!BlockAt[j - 1] \in Nat
  BY BlocksAre, PartsOfSum
<1>3. Blocks[i] = L!ModSize[m]
  BY <1>1 DEF Blocks
<1>4. \A k \in L!ModIds : L!BlockOff[k] = L!BlockAt[k]
  BY DEF L!BlockOff
<1>5. ASSUME NEW k \in L!ModIds, m < k
      PROVE  L!BlockOff[m] + L!ModSize[m] <= L!BlockOff[k] /\ L!BlockOff[k] \in Nat
  <2>1. PICK j \in 1 .. ModCount : j = k + 1 /\ j - 1 = k
    BY SoundIs DEF L!ModIds
  <2>2. i < j
    BY <1>1, <1>5, <2>1 DEF L!ModIds
  <2> QED
    BY <1>1, <1>2, <1>3, <1>4, <2>1, <2>2
<1> QED
  BY <1>1, <1>2, <1>3, <1>4, <1>5 DEF L!TocAt

(* The code of a resident object lies in front of the stubs, that of an    *)
(* overlay object in its window, and behind that of earlier objects of the *)
(* same module.                                                            *)
LEMMA ResidentIs ==
    ASSUME L!Sound, L!Fits, NEW i \in 1 .. N, ModOf[i] = Resident
    PROVE  /\ L!Origin(i) \in Nat /\ L!Origin(i) + CodeSize[i] <= L!ResidentTop[N]
           /\ L!Origin(i) + CodeSize[i] < L!Words
           /\ \A j \in 1 .. N : i < j /\ ModOf[j] = Resident =>
                 L!Origin(i) + CodeSize[i] <= L!Origin(j) /\ L!Origin(j) \in Nat
<1>1. \A j \in 1 .. N : ModOf[j] = Resident => L!Origin(j) = L!ResidentTop[j - 1]
  BY DEF L!Origin
<1>2. /\ L!ResidentTop[i - 1] \in Nat
      /\ L!ResidentTop[i - 1] + CodeSize[i] <= L!ResidentTop[N]
      /\ \A j \in 1 .. N : i < j => /\ L!ResidentTop[i - 1] + CodeSize[i] <= L!ResidentTop[j - 1]
                                    /\ L!ResidentTop[j - 1] \in Nat
  BY LayersOf, InLayer
<1>3. L!Origin(i) = L!ResidentTop[i - 1] /\ CodeSize[i] \in Nat
  BY <1>1, SoundIs
<1>4. L!ResidentTop[N] < L!Words /\ L!ResidentTop[N] \in Nat /\ L!Words \in Nat
  <2>1. /\ L!ResidentTop[N] \in Nat /\ L!ResidentTop[N] <= L!StubBase /\ L!StubBase \in Nat
        /\ Len(StubSeq) \in Nat
    BY StubBaseIs, SoundIs
  <2>2. L!ResidentTop[N] <= StubEnd /\ StubEnd \in Nat
    BY <2>1 DEF StubEnd
  <2> QED
    BY <2>1, <2>2, CodeEndIs
<1> QED
  BY <1>1, <1>2, <1>3, <1>4

LEMMA OverlayIs ==
    ASSUME L!Sound, L!Fits, NEW i \in 1 .. N, NEW m \in L!ModIds, ModOf[i] = m
    PROVE  LET start == L!WinStart[WinOf[m]]
           IN  /\ start \in Nat /\ L!Origin(i) - start \in Nat /\ L!Origin(i) \in Nat
               /\ (L!Origin(i) - start) + CodeSize[i] <= L!ModSize[m]
               /\ L!Origin(i) + CodeSize[i] < L!Words
               /\ \A j \in 1 .. N : i < j /\ ModOf[j] = m =>
                     L!Origin(i) + CodeSize[i] <= L!Origin(j) /\ L!Origin(j) \in Nat
<1>1. m # Resident /\ WinOf[m] \in L!WinIds /\ CodeSize[i] \in Nat
  BY SoundIs
<1>2. PICK start \in Nat : start = L!WinStart[WinOf[m]]
  BY <1>1, WindowIs
<1>3. PICK a : a = L!Accum(m)
  OBVIOUS
<1>4. Layered(a, m, 0)
  BY <1>3, LayersOf
<1>5. \A j \in 1 .. N : CodeSize[j] \in Nat
  BY SoundIs
<1>6. ASSUME NEW j \in 1 .. N, ModOf[j] = m
       PROVE  start + a[j - 1] \in Nat /\ (start + a[j - 1]) + CodeSize[j] < L!Words
  <2>1. a[j - 1] \in Nat /\ a[j - 1] + CodeSize[j] <= a[N] /\ a[N] \in Nat
    BY <1>4, <1>6, InLayer
  <2>2. L!ModSize[m] = a[N] /\ L!ModSize[m] <= L!WinSize(WinOf[m])
    BY <1>3, ModulesAre, WinSizeIs
  <2>3. start + L!WinSize(WinOf[m]) <= L!CodeEnd /\ L!WinSize(WinOf[m]) \in Nat
    BY <1>1, <1>2, WindowIs
  <2> QED
    BY <1>5, <2>1, <2>2, <2>3, CodeEndIs
<1>7. \A j \in 1 .. N : ModOf[j] = m => L!Origin(j) = start + a[j - 1]
  <2>1. ASSUME NEW j \in 1 .. N, ModOf[j] = m PROVE L!Origin(j) = start + a[j - 1]
    <3>1. L!Origin(j) = L!Wrapped(start + a[j - 1])
      BY <1>1, <1>2, <1>3, <2>1 DEF L!Origin
    <3>2. PICK x \in Nat : x = start + a[j - 1] /\ x < L!Words
      BY <1>5, <1>6, <2>1, CodeEndIs
    <3> QED
      BY <3>1, <3>2, WrapIs
  <2> QED
    BY <2>1
<1>8. /\ a[i - 1] \in Nat
      /\ a[i - 1] + CodeSize[i] <= a[N]
      /\ \A j \in 1 .. N : i < j => a[i - 1] + CodeSize[i] <= a[j - 1] /\ a[j - 1] \in Nat
  BY <1>4, InLayer
<1>9. L!ModSize[m] = a[N]
  BY <1>3, ModulesAre
<1>10. L!Origin(i) = start + a[i - 1]
  BY <1>7
<1>11. ASSUME NEW j \in 1 .. N, i < j, ModOf[j] = m
      PROVE  L!Origin(i) + CodeSize[i] <= L!Origin(j) /\ L!Origin(j) \in Nat
  <2>1. L!Origin(j) = start + a[j - 1]
    BY <1>7, <1>11
  <2>2. a[i - 1] + CodeSize[i] <= a[j - 1] /\ a[j - 1] \in Nat
    BY <1>8, <1>11
  <2> QED
    BY <1>1, <1>8, <1>10, <2>1, <2>2
<1>12. L!Origin(i) - start = a[i - 1]
  BY <1>8, <1>10
<1>13. L!Origin(i) + CodeSize[i] < L!Words
  BY <1>10, <1>6
<1> QED
  BY <1>2, <1>8, <1>9, <1>10, <1>11, <1>12, <1>13

ModuleOf(f) == ModOf[ObjOf[f]]

LEMMA OriginIs ==
    ASSUME L!Sound, L!Fits, NEW i \in 1 .. N
    PROVE  /\ L!Origin(i) \in Nat /\ CodeSize[i] \in Nat
           /\ L!Origin(i) + CodeSize[i] < L!Words
           /\ \A j \in 1 .. N : i < j /\ ModOf[j] = ModOf[i] =>
                 L!Origin(i) + CodeSize[i] <= L!Origin(j) /\ L!Origin(j) \in Nat
<1>1. CodeSize[i] \in Nat /\ ModOf[i] \in L!ModIds \cup {Resident}
  BY SoundIs
<1>2. CASE ModOf[i] = Resident
  BY <1>1, <1>2, ResidentIs
<1>3. CASE ModOf[i] \in L!ModIds
  <2>1. PICK m \in L!ModIds : m = ModOf[i]
    BY <1>3
  <2> QED
    BY <1>1, <2>1, OverlayIs
<1> QED
  BY <1>1, <1>2, <1>3

(* Two functions of one module share no byte.                              *)
LEMMA EntryIs ==
    ASSUME L!Sound, L!Fits, NEW f \in Fun
    PROVE  /\ L!EntryAt[f] = L!Origin(ObjOf[f]) + Offset[f] /\ L!EntryAt[f] \in Nat
           /\ Offset[f] \in Nat /\ Offset[f] + 2 <= CodeSize[ObjOf[f]] /\ ObjOf[f] \in 1 .. N
<1>1. ObjOf[f] \in 1 .. N /\ Offset[f] \in Nat /\ Offset[f] + 2 <= CodeSize[ObjOf[f]]
  BY SoundIs
<1>2. L!Origin(ObjOf[f]) \in Nat
  BY <1>1, OriginIs
<1>3. L!EntryAt[f] = L!Origin(ObjOf[f]) + Offset[f]
  <2>1. L!EntryAt[f] = L!Wrapped(L!Origin(ObjOf[f]) + Offset[f])
    BY DEF L!EntryAt
  <2>2. PICK x \in Nat : x = L!Origin(ObjOf[f]) + Offset[f] /\ x < L!Words
    <3>1. L!Origin(ObjOf[f]) + CodeSize[ObjOf[f]] < L!Words /\ CodeSize[ObjOf[f]] \in Nat /\ L!Words \in Nat
      BY <1>1, OriginIs, CodeEndIs
    <3> QED
      BY <1>1, <1>2, <3>1
  <2> QED
    BY <2>1, <2>2, WrapIs
<1> QED
  BY <1>1, <1>3, <1>2

LEMMA EntriesApart ==
    ASSUME L!Sound, L!Fits, NEW f \in Fun, NEW g \in Fun, f # g, ModuleOf(f) = ModuleOf(g)
    PROVE  L!EntryAt[f] + 2 <= L!EntryAt[g] \/ L!EntryAt[g] + 2 <= L!EntryAt[f]
<1>1. /\ L!EntryAt[f] = L!Origin(ObjOf[f]) + Offset[f] /\ Offset[f] \in Nat
      /\ Offset[f] + 2 <= CodeSize[ObjOf[f]] /\ ObjOf[f] \in 1 .. N
  BY EntryIs
<1>2. /\ L!EntryAt[g] = L!Origin(ObjOf[g]) + Offset[g] /\ Offset[g] \in Nat
      /\ Offset[g] + 2 <= CodeSize[ObjOf[g]] /\ ObjOf[g] \in 1 .. N
  BY EntryIs
<1>3. PICK x \in Nat, c \in Nat, y \in Nat, d \in Nat :
        x = L!Origin(ObjOf[f]) /\ c = CodeSize[ObjOf[f]] /\ y = L!Origin(ObjOf[g]) /\ d = CodeSize[ObjOf[g]]
  BY <1>1, <1>2, OriginIs
<1>4. CASE ObjOf[f] = ObjOf[g]
  <2>1. Offset[f] + 2 <= Offset[g] \/ Offset[g] + 2 <= Offset[f]
    BY <1>4 DEF L!Sound, L!FunctionsApart
  <2> QED
    BY <1>1, <1>2, <1>3, <1>4, <2>1
<1>5. CASE ObjOf[f] < ObjOf[g]
  <2>1. x + c <= y
    BY <1>1, <1>2, <1>3, <1>5, OriginIs DEF ModuleOf
  <2> QED
    BY <1>1, <1>2, <1>3, <2>1
<1>6. CASE ObjOf[g] < ObjOf[f]
  <2>1. y + d <= x
    BY <1>1, <1>2, <1>3, <1>6, OriginIs DEF ModuleOf
  <2> QED
    BY <1>1, <1>2, <1>3, <2>1
<1>7. ObjOf[f] = ObjOf[g] \/ ObjOf[f] < ObjOf[g] \/ ObjOf[g] < ObjOf[f]
  BY <1>1, <1>2
<1> QED
  BY <1>4, <1>5, <1>6, <1>7

(* The code of a module has the bytes of each of its functions.            *)
LEMMA CodeIs ==
    ASSUME L!Sound, L!Fits, NEW f \in Fun, NEW i \in 0 .. 1,
           NEW fs, fs = { g \in Fun : ModuleOf(g) = ModuleOf(f) }
    PROVE  L!Code(L!EntryAt[f] + i, fs) = Byte("fun", f, i)
<1> DEFINE a == L!EntryAt[f] + i
           here == { g \in fs : a - L!EntryAt[g] \in 0 .. 1 }
<1>1. L!EntryAt[f] \in Nat /\ f \in fs /\ a \in Nat /\ a - L!EntryAt[f] = i
  BY EntryIs
<1>2. f \in here
  BY <1>1
<1>3. ASSUME NEW g \in here PROVE g = f
  <2>1. SUFFICES ASSUME g # f PROVE FALSE
    OBVIOUS
  <2>2. g \in Fun /\ ModuleOf(f) = ModuleOf(g) /\ a - L!EntryAt[g] \in 0 .. 1
    OBVIOUS
  <2>3. L!EntryAt[g] \in Nat
    BY <2>2, EntryIs
  <2>4. L!EntryAt[f] + 2 <= L!EntryAt[g] \/ L!EntryAt[g] + 2 <= L!EntryAt[f]
    BY <2>1, <2>2, EntriesApart
  <2>5. PICK x \in Nat, y \in Nat : x = L!EntryAt[f] /\ y = L!EntryAt[g]
    BY <1>1, <2>3
  <2>6. (x + i) - y \in 0 .. 1 /\ (x + 2 <= y \/ y + 2 <= x)
    BY <2>2, <2>4, <2>5
  <2>7. i \in 0 .. 1
    OBVIOUS
  <2> HIDE DEF here
  <2> QED
    BY <2>5, <2>6, <2>7
<1>4. here = {f}
  BY <1>2, <1>3
<1>5. L!Code(a, fs) = IF here = {} THEN L!Number(0)
                      ELSE LET g == CHOOSE x \in here : TRUE IN L!Byte("fun", g, a - L!EntryAt[g])
  BY DEF L!Code
<1> HIDE DEF here
<1>6. (CHOOSE x \in here : TRUE) = f /\ here # {}
  BY <1>4
<1>7. L!Code(a, fs) = L!Byte("fun", f, a - L!EntryAt[f])
  BY <1>5, <1>6
<1> QED
  BY <1>1, <1>7 DEF L!Byte, Byte

-----------------------------------------------------------------------------
(* What runs is what ylink has laid out.                                   *)

Linked ==
    /\ L!Sound
    /\ Module = L!ModIds /\ Window = L!WinIds
    /\ Base = L!WinStart /\ Size = L!ModSize /\ Entry = L!EntryAt /\ Stub = L!StubAt /\ Check = L!CheckAt
    /\ Image = L!CodeImage(Main) /\ Exe = L!ExeTail /\ Block = L!BlockOff /\ TocOff = L!TocAt

(* The resident code and the stubs are in front of all windows.            *)
LEMMA InFront ==
    ASSUME Linked, L!Fits, NEW a \in Nat, a < StubEnd
    PROVE  a \in 0 .. L!CodeEnd - 1 /\ ~ InWindow(a)
<1>1. L!CodeEnd \in Nat /\ StubEnd <= L!CodeEnd /\ StubEnd \in Nat
  BY CodeEndIs, StubBaseIs DEF Linked
<1>2. ASSUME NEW m \in Module PROVE a \notin Base[WinOf[m]] .. (Base[WinOf[m]] + Size[m] - 1)
  <2>1. m \in L!ModIds /\ WinOf[m] \in L!WinIds /\ L!Sound
    BY SoundIs DEF Linked
  <2>2. StubEnd <= L!WinStart[WinOf[m]] /\ L!WinStart[WinOf[m]] \in Nat
    BY <2>1, WindowIs
  <2>3. Base[WinOf[m]] = L!WinStart[WinOf[m]]
    BY DEF Linked
  <2> QED
    BY <1>1, <2>2, <2>3
<1> QED
  BY <1>1, <1>2 DEF InWindow

LEMMA WindowsArePlaced ==
    ASSUME Linked, L!Fits
    PROVE  WindowsPlaced
<1> SUFFICES ASSUME NEW m \in Module, NEW i \in 0 .. Size[m] - 1 PROVE WindowPlaced(m, i)
  BY DEF WindowsPlaced
<1>1. /\ L!Sound /\ \A k \in Module : k \in L!ModIds /\ WinOf[k] \in L!WinIds
      /\ \A k \in Module : Base[WinOf[k]] = L!WinStart[WinOf[k]] /\ Size[k] = L!ModSize[k]
  BY SoundIs DEF Linked
<1>2. \A k \in Module : /\ Size[k] \in Nat /\ Base[WinOf[k]] \in Nat
                        /\ Size[k] <= L!WinSize(WinOf[k]) /\ L!WinSize(WinOf[k]) \in Nat
                        /\ Base[WinOf[k]] + L!WinSize(WinOf[k]) <= L!CodeEnd
                        /\ StubEnd <= Base[WinOf[k]]
  BY <1>1, ModulesAre, WinSizeIs, WindowIs
<1>3. L!CodeEnd \in Nat /\ StubEnd \in Nat
  BY <1>1, CodeEndIs, StubBaseIs
<1>4. DOMAIN Image = 0 .. L!CodeEnd - 1
  BY DEF Linked, L!CodeImage
<1>5. Base[WinOf[m]] + i \in DOMAIN Image
  BY <1>2, <1>3, <1>4
<1>6. Block[m] + i \in DOMAIN Exe
  <2>1. DOMAIN Exe = ImageEnd .. L!TocAt + (8 * ModCount) - 1
    BY DEF Linked, L!ExeTail
  <2>2. Block[m] = L!BlockOff[m] /\ ImageEnd \in Nat /\ ModCount \in Nat
    BY <1>1, SoundIs DEF Linked
  <2>3. L!BlockOff[m] \in Nat /\ ImageEnd <= L!BlockOff[m] /\ L!BlockOff[m] + L!ModSize[m] <= L!TocAt /\ L!TocAt \in Nat
    BY <1>1, BlockIs
  <2>4. Size[m] = L!ModSize[m] /\ Size[m] \in Nat
    BY <1>1, <1>2
  <2> QED
    BY <2>1, <2>2, <2>3, <2>4
<1>7. ASSUME NEW k \in Module, WinOf[k] # WinOf[m]
      PROVE  Base[WinOf[m]] + i \notin Base[WinOf[k]] .. (Base[WinOf[k]] + Size[k] - 1)
  <2>1. PICK v \in L!WinIds, w \in L!WinIds : v = WinOf[m] /\ w = WinOf[k]
    BY <1>1
  <2>2. v < w \/ w < v
    BY <1>7, <2>1 DEF L!WinIds
  <2>3. CASE v < w
    <3>1. Base[v] + L!WinSize(v) <= Base[w]
      BY <1>1, <2>1, <2>3, WindowIs
    <3> QED
      BY <1>2, <2>1, <3>1
  <2>4. CASE w < v
    <3>1. Base[w] + L!WinSize(w) <= Base[v]
      BY <1>1, <2>1, <2>4, WindowIs
    <3> QED
      BY <1>2, <2>1, <3>1
  <2> QED
    BY <2>2, <2>3, <2>4
<1> QED
  BY <1>5, <1>6, <1>7 DEF WindowPlaced

(* A stub is where its number in the table puts it, behind the resident    *)
(* code, and shares no byte with another.                                  *)
StubNo(s) == L!StubBase + (11 * (s - 1))

LEMMA StubIs ==
    ASSUME L!Sound, NEW g \in DOMAIN L!StubAt
    PROVE  \E s \in 1 .. Len(StubSeq) : StubSeq[s] = g /\ L!StubAt[g] = StubNo(s)
<1>1. PICK s \in 1 .. Len(StubSeq) : StubSeq[s] = g
  BY DEF L!StubAt
<1>2. PICK t : t = CHOOSE n \in 1 .. Len(StubSeq) : StubSeq[n] = g
  OBVIOUS
<1>3. t \in 1 .. Len(StubSeq) /\ StubSeq[t] = g
  BY <1>1, <1>2
<1>4. L!StubAt[g] = StubNo(t)
  BY <1>2 DEF L!StubAt, StubNo
<1> QED
  BY <1>3, <1>4

LEMMA StubBytes ==
    ASSUME L!Sound, NEW g \in DOMAIN L!StubAt, NEW i \in {0, 6}
    PROVE  /\ L!StubAt[g] \in Nat /\ L!StubBase <= L!StubAt[g] /\ L!StubAt[g] + i < StubEnd
           /\ \A f \in DOMAIN L!StubAt : (L!StubAt[g] + i) - L!StubAt[f] \in {0, 6} => f = g
<1>1. PICK s \in 1 .. Len(StubSeq) : StubSeq[s] = g /\ L!StubAt[g] = StubNo(s)
  BY StubIs
<1>2. Len(StubSeq) \in Nat /\ L!StubBase \in Nat
  BY SoundIs, StubBaseIs
<1>3. L!StubAt[g] \in Nat /\ L!StubBase <= L!StubAt[g] /\ L!StubAt[g] + i < StubEnd
  BY <1>1, <1>2 DEF StubNo, StubEnd
<1>4. ASSUME NEW f \in DOMAIN L!StubAt, (L!StubAt[g] + i) - L!StubAt[f] \in {0, 6}
      PROVE  f = g
  <2>1. PICK t \in 1 .. Len(StubSeq) : StubSeq[t] = f /\ L!StubAt[f] = StubNo(t)
    BY StubIs
  <2>2. (StubNo(s) + i) - StubNo(t) \in {0, 6}
    BY <1>1, <1>4, <2>1
  <2>3. PICK d \in {-6, 0, 6} : 11 * (s - t) = d
    BY <1>2, <2>2 DEF StubNo
  <2>4. s = t
    BY <1>2, <2>3
  <2> QED
    BY <1>1, <2>1, <2>4
<1> QED
  BY <1>3, <1>4

LEMMA CheckIs ==
    ASSUME L!Sound, L!Fits
    PROVE  /\ L!CheckAt \in Nat /\ L!CheckAt < L!ResidentTop[N]
           /\ \A f \in Fun : ModuleOf(f) = Resident => L!CheckAt \notin L!EntryAt[f] .. (L!EntryAt[f] + 1)
<1>1. Manager \in 1 .. N /\ ModOf[Manager] = Resident /\ CheckOffset \in Nat /\ CheckOffset < CodeSize[Manager]
  BY SoundIs
<1>2. PICK x \in Nat, c \in Nat :
          x = L!Origin(Manager) /\ c = CodeSize[Manager] /\ x + c <= L!ResidentTop[N] /\ x + c < L!Words
  BY <1>1, OriginIs, ResidentIs
<1>3. L!CheckAt = x + CheckOffset
  <2>1. x + CheckOffset \in Nat /\ x + CheckOffset < L!Words
    BY <1>1, <1>2, CodeEndIs
  <2>2. L!CheckAt = L!Wrapped(x + CheckOffset)
    BY <1>2 DEF L!CheckAt
  <2> QED
    BY <2>1, <2>2, WrapIs
<1>4. L!ResidentTop[N] \in Nat
  BY StubBaseIs
<1>5. ASSUME NEW f \in Fun, ModuleOf(f) = Resident
      PROVE  L!CheckAt \notin L!EntryAt[f] .. (L!EntryAt[f] + 1)
  <2>1. /\ L!EntryAt[f] = L!Origin(ObjOf[f]) + Offset[f] /\ Offset[f] \in Nat
        /\ Offset[f] + 2 <= CodeSize[ObjOf[f]] /\ ObjOf[f] \in 1 .. N
    BY EntryIs
  <2>2. PICK y \in Nat, d \in Nat : y = L!Origin(ObjOf[f]) /\ d = CodeSize[ObjOf[f]]
    BY <2>1, OriginIs
  <2>3. CASE ObjOf[f] = Manager
    <3>1. Offset[f] + 2 <= CheckOffset \/ CheckOffset < Offset[f]
      BY <2>3 DEF L!Sound, L!ManagerApart
    <3> QED
      BY <1>1, <1>2, <1>3, <2>1, <2>2, <2>3, <3>1
  <2>4. CASE ObjOf[f] < Manager
    <3>1. y + d <= x
      BY <1>1, <1>2, <1>5, <2>1, <2>2, <2>4, OriginIs DEF ModuleOf
    <3> QED
      BY <1>1, <1>3, <2>1, <2>2, <3>1
  <2>5. CASE Manager < ObjOf[f]
    <3>1. x + c <= y
      BY <1>1, <1>2, <1>5, <2>1, <2>2, <2>5, OriginIs DEF ModuleOf
    <3> QED
      BY <1>1, <1>2, <1>3, <2>1, <2>2, <3>1
  <2>6. ObjOf[f] = Manager \/ ObjOf[f] < Manager \/ Manager < ObjOf[f]
    BY <1>1, <2>1
  <2> QED
    BY <2>3, <2>4, <2>5, <2>6
<1> QED
  BY <1>1, <1>2, <1>3, <1>4, <1>5

LEMMA CheckIsPlaced ==
    ASSUME Linked, L!Fits
    PROVE  CheckPlaced
<1>1. L!Sound /\ Check = L!CheckAt /\ Image = L!CodeImage(Main)
  BY DEF Linked
<1>2. /\ L!CheckAt \in Nat /\ L!CheckAt < L!ResidentTop[N] /\ L!ResidentTop[N] \in Nat
      /\ L!ResidentTop[N] <= L!StubBase /\ L!StubBase \in Nat /\ StubEnd \in Nat /\ Len(StubSeq) \in Nat
  BY <1>1, CheckIs, StubBaseIs, SoundIs
<1>3. L!CheckAt < StubEnd
  BY <1>2 DEF StubEnd
<1>4. L!CheckAt \in 0 .. L!CodeEnd - 1 /\ ~ InWindow(L!CheckAt)
  BY <1>2, <1>3, InFront
<1>5. Image[L!CheckAt] = L!Byte("check", Main, 0) /\ L!CheckAt \in DOMAIN Image
  BY <1>1, <1>4 DEF L!CodeImage
<1> QED
  BY <1>1, <1>4, <1>5 DEF CheckPlaced, Outside, L!Byte, Byte

LEMMA StubsArePlaced ==
    ASSUME Linked, L!Fits
    PROVE  StubsPlaced
<1> SUFFICES ASSUME NEW g \in Stubs, NEW i \in {0, 6}
             PROVE  Outside(Stub[g] + i, Byte("stub", g, i))
  BY DEF StubsPlaced
<1>1. L!Sound /\ Stub = L!StubAt /\ Image = L!CodeImage(Main) /\ DOMAIN L!StubAt = Stubs
  BY AddressAssumption DEF Linked, AddressAssumption
<1>2. PICK a : a = L!StubAt[g] + i
  OBVIOUS
<1>3. /\ L!StubAt[g] \in Nat /\ L!StubBase <= L!StubAt[g] /\ L!StubAt[g] + i < StubEnd
      /\ \A f \in DOMAIN L!StubAt : (L!StubAt[g] + i) - L!StubAt[f] \in {0, 6} => f = g
  BY <1>1, StubBytes
<1>4. /\ L!CheckAt \in Nat /\ L!CheckAt < L!ResidentTop[N] /\ L!ResidentTop[N] \in Nat
      /\ L!ResidentTop[N] <= L!StubBase /\ L!StubBase \in Nat
  BY <1>1, CheckIs, StubBaseIs
<1>5. a \in Nat /\ a < StubEnd /\ a # L!CheckAt
  BY <1>2, <1>3, <1>4
<1>6. a \in 0 .. L!CodeEnd - 1 /\ ~ InWindow(a)
  BY <1>5, InFront
<1>7. a - L!StubAt[g] = i
  BY <1>2, <1>3
<1>8. \A f \in DOMAIN L!StubAt : a - L!StubAt[f] \in {0, 6} <=> f = g
  BY <1>1, <1>2, <1>3, <1>7
<1>9. (CHOOSE x \in DOMAIN L!StubAt : a - L!StubAt[x] \in {0, 6}) = g
  BY <1>1, <1>8
<1>10. Image[a] = L!Byte("stub", g, a - L!StubAt[g]) /\ a \in DOMAIN Image
  BY <1>1, <1>5, <1>6, <1>8, <1>9 DEF L!CodeImage
<1> QED
  BY <1>1, <1>2, <1>6, <1>7, <1>10 DEF Outside, L!Byte, Byte

(* A resident function.                                                    *)
LEMMA ResidentIsPlaced ==
    ASSUME Linked, L!Fits, NEW f \in Fun, ModuleOf(f) = Resident, NEW i \in 0 .. 1
    PROVE  Outside(Entry[f] + i, Byte("fun", f, i))
<1>1. L!Sound /\ Entry = L!EntryAt /\ Image = L!CodeImage(Main)
  BY DEF Linked
<1>2. /\ L!EntryAt[f] = L!Origin(ObjOf[f]) + Offset[f] /\ L!EntryAt[f] \in Nat
      /\ Offset[f] \in Nat /\ Offset[f] + 2 <= CodeSize[ObjOf[f]] /\ ObjOf[f] \in 1 .. N
  BY <1>1, EntryIs
<1>3. /\ L!Origin(ObjOf[f]) \in Nat /\ CodeSize[ObjOf[f]] \in Nat
      /\ L!Origin(ObjOf[f]) + CodeSize[ObjOf[f]] <= L!ResidentTop[N]
  BY <1>1, <1>2, OriginIs, ResidentIs DEF ModuleOf
<1>4. /\ L!ResidentTop[N] <= L!StubBase /\ L!StubBase \in Nat /\ L!ResidentTop[N] \in Nat /\ Len(StubSeq) \in Nat
      /\ StubEnd \in Nat
  BY <1>1, StubBaseIs, SoundIs
<1>5. PICK a \in Nat : a = L!EntryAt[f] + i
  BY <1>2
<1>6. a < L!ResidentTop[N]
  <2>1. PICK o \in Nat, c \in Nat, d \in Nat, t \in Nat :
            o = L!Origin(ObjOf[f]) /\ c = CodeSize[ObjOf[f]] /\ d = Offset[f] /\ t = L!ResidentTop[N]
    BY <1>2, <1>3, <1>4
  <2>2. a = o + d + i /\ d + 2 <= c /\ o + c <= t
    BY <1>2, <1>3, <1>5, <2>1
  <2> QED
    BY <2>1, <2>2
<1>7. a < L!StubBase /\ a < StubEnd
  BY <1>4, <1>6 DEF StubEnd
<1>8. a # L!CheckAt
  <2>1. L!CheckAt \notin L!EntryAt[f] .. (L!EntryAt[f] + 1)
    BY <1>1, CheckIs
  <2> QED
    BY <1>2, <1>5, <2>1
<1>9. ASSUME NEW g \in DOMAIN L!StubAt PROVE a - L!StubAt[g] \notin {0, 6}
  <2>1. 0 \in {0, 6}
    OBVIOUS
  <2>2. L!StubAt[g] \in Nat /\ L!StubBase <= L!StubAt[g]
    BY <1>1, <2>1, StubBytes
  <2> QED
    BY <1>4, <1>7, <2>2
<1>10. a \in 0 .. L!CodeEnd - 1 /\ ~ InWindow(a)
  BY <1>7, InFront
<1>11. PICK fs : fs = { g \in Fun : ModuleOf(g) = ModuleOf(f) }
  OBVIOUS
<1>12. Image[a] = L!Code(a, fs) /\ a \in DOMAIN Image
  BY <1>1, <1>8, <1>9, <1>10, <1>11 DEF L!CodeImage, ModuleOf
<1>13. L!Code(a, fs) = Byte("fun", f, i)
  BY <1>1, <1>5, <1>11, CodeIs
<1> QED
  BY <1>1, <1>5, <1>10, <1>12, <1>13 DEF Outside

(* A function of an overlay.                                               *)
LEMMA OverlayIsPlaced ==
    ASSUME Linked, L!Fits, NEW f \in Fun, NEW m \in L!ModIds, ModuleOf(f) = m, NEW i \in 0 .. 1
    PROVE  InBlock(m, (Entry[f] + i) - Base[WinOf[m]], Byte("fun", f, i))
<1>1. /\ L!Sound /\ Entry = L!EntryAt /\ Exe = L!ExeTail /\ Base = L!WinStart /\ Size = L!ModSize
      /\ Block = L!BlockOff
  BY DEF Linked
<1>2. /\ L!EntryAt[f] = L!Origin(ObjOf[f]) + Offset[f] /\ L!EntryAt[f] \in Nat
      /\ Offset[f] \in Nat /\ Offset[f] + 2 <= CodeSize[ObjOf[f]] /\ ObjOf[f] \in 1 .. N
  BY <1>1, EntryIs
<1>3. PICK start \in Nat : start = L!WinStart[WinOf[m]]
  BY <1>1, <1>2, OverlayIs DEF ModuleOf
<1>4. PICK o \in Nat : o = L!Origin(ObjOf[f]) - start /\ L!Origin(ObjOf[f]) \in Nat
  BY <1>1, <1>2, <1>3, OverlayIs DEF ModuleOf
<1>5. o + CodeSize[ObjOf[f]] <= L!ModSize[m] /\ CodeSize[ObjOf[f]] \in Nat /\ L!ModSize[m] \in Nat
  BY <1>1, <1>2, <1>3, <1>4, OverlayIs, OriginIs, ModulesAre DEF ModuleOf
<1>6. PICK d \in Nat : d = o + Offset[f] + i
  BY <1>2
<1>7. (L!EntryAt[f] + i) - start = d /\ start + d = L!EntryAt[f] + i /\ d < L!ModSize[m]
  BY <1>2, <1>4, <1>5, <1>6
<1>8. /\ L!BlockOff[m] \in Nat /\ ImageEnd <= L!BlockOff[m] /\ L!TocAt \in Nat
      /\ L!BlockOff[m] + L!ModSize[m] <= L!TocAt
  BY <1>1, BlockIs
<1>9. PICK p \in Nat : p = L!BlockOff[m] + d
  BY <1>8
<1>10. p \in DOMAIN Exe /\ ~ (p >= L!TocAt) /\ p \in ImageEnd .. L!TocAt + (8 * ModCount) - 1
  <2>1. ImageEnd \in Nat /\ ModCount \in Nat
    BY <1>1, SoundIs
  <2>2. p \in ImageEnd .. L!TocAt + (8 * ModCount) - 1 /\ ~ (p >= L!TocAt)
    BY <1>5, <1>7, <1>8, <1>9, <2>1
  <2> QED
    BY <1>1, <2>2 DEF L!ExeTail
<1>11. ASSUME NEW k \in L!ModIds
       PROVE  p \in L!BlockOff[k] .. (L!BlockOff[k] + L!ModSize[k] - 1) <=> k = m
  <2>1. L!BlockOff[k] \in Nat /\ L!ModSize[k] \in Nat
    BY <1>1, BlockIs, ModulesAre
  <2>2. CASE k = m
    BY <1>5, <1>7, <1>8, <1>9, <2>2
  <2>3. CASE k < m
    <3>1. L!BlockOff[k] + L!ModSize[k] <= L!BlockOff[m]
      BY <1>1, <2>3, BlockIs
    <3> QED
      BY <1>8, <1>9, <2>1, <2>3, <3>1 DEF L!ModIds
  <2>4. CASE m < k
    <3>1. L!BlockOff[m] + L!ModSize[m] <= L!BlockOff[k]
      BY <1>1, <2>4, BlockIs
    <3> QED
      BY <1>5, <1>7, <1>8, <1>9, <2>1, <2>4, <3>1 DEF L!ModIds
  <2>5. k = m \/ k < m \/ m < k
    BY DEF L!ModIds
  <2> QED
    BY <2>2, <2>3, <2>4, <2>5
<1>12. (CHOOSE k \in L!ModIds : p \in L!BlockOff[k] .. (L!BlockOff[k] + L!ModSize[k] - 1)) = m
  BY <1>11
<1>13. PICK fs : fs = { g \in Fun : ModuleOf(g) = ModuleOf(f) }
  OBVIOUS
<1>14. Exe[p] = L!Code(L!WinStart[WinOf[m]] + (p - L!BlockOff[m]), fs)
  BY <1>1, <1>10, <1>12, <1>13 DEF L!ExeTail, ModuleOf
<1>15. L!WinStart[WinOf[m]] + (p - L!BlockOff[m]) = L!EntryAt[f] + i
  BY <1>3, <1>7, <1>8, <1>9
<1>16. Exe[p] = Byte("fun", f, i)
  BY <1>1, <1>13, <1>14, <1>15, CodeIs
<1> QED
  BY <1>1, <1>3, <1>5, <1>7, <1>9, <1>16 DEF InBlock

(* The windows are apart and behind the stubs, the blocks apart and in     *)
(* front of the table of contents, and every function, stub and the        *)
(* manager are where calls go, for objects of any number and sizes whose   *)
(* code fits in 16 bits where ylink does not check it (OvlLayoutSegments,   *)
(* OvlEmitStubs, WriteOvlBlocks).                                          *)
THEOREM LayoutIsPlaced ==
    ASSUME Linked, L!Fits
    PROVE  Placed
<1>1. ASSUME NEW f \in Fun, NEW i \in 0 .. 1 PROVE FunPlaced(f, i)
  <2>1. ObjOf[f] \in 1 .. N /\ ModuleOf(f) \in L!ModIds \cup {Resident} /\ Of(f) = ModuleOf(f)
    BY SoundIs DEF Linked, ModuleOf, Of
  <2>2. CASE Of(f) = Resident
    BY <2>1, <2>2, ResidentIsPlaced DEF FunPlaced
  <2>3. CASE Of(f) # Resident
    <3>1. PICK m \in L!ModIds : m = Of(f)
      BY <2>1, <2>3
    <3>2. InBlock(m, (Entry[f] + i) - Base[WinOf[m]], Byte("fun", f, i))
      BY <2>1, <3>1, OverlayIsPlaced
    <3> QED
      BY <2>3, <3>1, <3>2 DEF FunPlaced
  <2> QED
    BY <2>2, <2>3
<1>2. FunsPlaced
  BY <1>1 DEF FunsPlaced
<1> QED
  BY <1>2, WindowsArePlaced, StubsArePlaced, CheckIsPlaced DEF Placed

-----------------------------------------------------------------------------
(* The table of contents, as WriteOvlToc writes and _ovl_load reads it.     *)

(* fgetc and ovl_get16, for bytes that are neither a CR nor a CtrlZ.        *)
Octet == 0 .. 255
Plain == Octet \ {13, 26}

Low(x)  == x % 256
High(x) == x \div 256

LEMMA PlainByte ==
    ASSUME NEW b \in Plain
    PROVE  /\ Signed(b) \in Int /\ Signed(b) # 26 /\ Signed(b) # 13
           /\ b \in 0 .. 255 /\ Low(Signed(b)) = b
<1>1. b \in Nat /\ b <= 255 /\ b # 13 /\ b # 26
  BY DEF Plain, Octet
<1>2. PICK m \in Nat \ {0} : m = 256
  OBVIOUS
<1>3. CASE b < 128
  <2>1. Signed(b) = b
    BY <1>3 DEF Signed
  <2>2. b = m * 0 + b /\ b < m
    BY <1>1, <1>2
  <2>3. b % m = b
    BY <1>1, <1>2, <2>2
  <2> QED
    BY <1>1, <1>2, <2>1, <2>3 DEF Low
<1>4. CASE ~ (b < 128)
  <2>1. Signed(b) = b - m
    BY <1>2, <1>4 DEF Signed
  <2>2. Signed(b) \in Int /\ Signed(b) < 0
    BY <1>1, <1>2, <2>1
  <2>3. (b - m) % m = b
    BY <1>1, <1>2
  <2> QED
    BY <1>1, <1>2, <2>1, <2>2, <2>3 DEF Low
<1> QED
  BY <1>3, <1>4

LEMMA Halves ==
    /\ \A x \in Nat : Low(x) \in Nat /\ High(x) \in Nat /\ Low(x) \in Octet
    /\ \A x, y \in Nat : Low(x) = Low(y) /\ High(x) = High(y) => x = y
<1>1. PICK q \in Nat \ {0} : q = 256
  OBVIOUS
<1>2. \A x \in Nat : /\ x % q \in Nat /\ x \div q \in Nat /\ x % q \in 0 .. q - 1
                     /\ x = q * (x \div q) + (x % q)
  OBVIOUS
<1>3. \A x : Low(x) = x % q /\ High(x) = x \div q
  BY <1>1 DEF Low, High
<1>4. Octet = 0 .. q - 1
  BY <1>1 DEF Octet
<1>5. ASSUME NEW x \in Nat, NEW y \in Nat, Low(x) = Low(y), High(x) = High(y) PROVE x = y
  BY <1>2, <1>3, <1>5
<1> QED
  BY <1>2, <1>3, <1>4, <1>5

LEMMA FgetcIs ==
    ASSUME NEW p \in Nat, NEW c
    PROVE  LET s == Fgetc(Got(c, p, NoByte))
           IN  /\ ByteAt(p) = 26 => s.got = -1
               /\ ByteAt(p) = 13 => s.got = 10
               /\ ByteAt(p) \notin {13, 26} => s = Got(ByteAt(p), p + 1, NoByte)
<1>1. PICK s : s = Got(c, p, NoByte)
  OBVIOUS
<1>2. s.back = NoByte /\ s.at = p
  BY <1>1 DEF Got
<1>3. /\ ByteAt(p) = 26 => Fgetc(s).got = -1
      /\ ByteAt(p) = 13 => Fgetc(s).got = 10
      /\ ByteAt(p) \notin {13, 26} => Fgetc(s) = Got(ByteAt(p), p + 1, NoByte)
  BY <1>2 DEF Fgetc, Got
<1> QED
  BY <1>1, <1>3

LEMMA WordsAre ==
    ASSUME NEW m, NEW k, k = L!Words
    PROVE  L!TocWords(m) = <<L!WinStart[WinOf[m]], L!ModSize[m], L!BlockOff[m] % k, L!BlockOff[m] \div k>>
<1>1. L!TocWords(m) = <<L!WinStart[WinOf[m]], L!ModSize[m], L!BlockOff[m] % L!Words, L!BlockOff[m] \div L!Words>>
  BY Zenon DEF L!TocWords
<1> QED
  BY <1>1

(* The words of a TOC entry, and the bytes they are written as.            *)
LEMMA WordIs ==
    ASSUME L!Sound, NEW m \in L!ModIds, NEW n \in 1 .. 4
    PROVE  /\ L!TocWords(m)[n] \in Nat
           /\ L!TocByte(m, 2 * n - 2) = Low(L!TocWords(m)[n])
           /\ L!TocByte(m, 2 * n - 1) = High(L!TocWords(m)[n])
<1>1. L!TocWords(m)[n] \in Nat
  <2>1. /\ L!WinStart[WinOf[m]] \in Nat /\ L!ModSize[m] \in Nat /\ L!BlockOff[m] \in Nat
    BY SoundIs, WinStartIs, ModulesAre, BlockIs
  <2>2. \A k \in Nat \ {0} : L!BlockOff[m] % k \in Nat /\ L!BlockOff[m] \div k \in Nat
    BY <2>1
  <2>3. PICK k \in Nat \ {0} : k = L!Words
    BY DEF L!Words
  <2>4. L!TocWords(m) = <<L!WinStart[WinOf[m]], L!ModSize[m], L!BlockOff[m] % k, L!BlockOff[m] \div k>>
    BY <2>3, WordsAre
  <2>5. n = 1 \/ n = 2 \/ n = 3 \/ n = 4
    OBVIOUS
  <2> QED
    BY <2>1, <2>2, <2>4, <2>5
<1>2. PICK i \in 0 .. 7, j \in 0 .. 7 : i = 2 * n - 2 /\ j = 2 * n - 1
  OBVIOUS
<1>3. i \div 2 = n - 1 /\ i % 2 = 0 /\ j \div 2 = n - 1 /\ j % 2 = 1 /\ (n - 1) + 1 = n /\ 1 # 0
  BY <1>2
<1>4. L!TocByte(m, i) = Low(L!TocWords(m)[n]) /\ L!TocByte(m, j) = High(L!TocWords(m)[n])
  BY <1>3 DEF L!TocByte, Low, High
<1> QED
  BY <1>1, <1>2, <1>4

LEMMA TocByteIs ==
    ASSUME L!Sound, NEW m \in L!ModIds, NEW i \in 0 .. 7
    PROVE  L!TocByte(m, i) \in Nat
<1>1. PICK n \in 1 .. 4 : i = 2 * n - 2 \/ i = 2 * n - 1
  <2>1. i \div 2 + 1 \in 1 .. 4 /\ (i = 2 * (i \div 2 + 1) - 2 \/ i = 2 * (i \div 2 + 1) - 1)
    OBVIOUS
  <2> QED
    BY <2>1
<1>2. PICK w \in Nat : w = L!TocWords(m)[n]
  BY WordIs
<1>3. Low(w) \in Nat /\ High(w) \in Nat
  BY Halves
<1> QED
  BY <1>1, <1>2, <1>3, WordIs

(* What fgetc finds there.                                                 *)
LEMMA TocBytes ==
    ASSUME Linked, NEW m \in L!ModIds, NEW i \in 0 .. 7
    PROVE  ByteAt(TocOff + (m * 8) + i) = Signed(L!TocByte(m, i))
<1>1. L!Sound /\ TocOff = L!TocAt /\ Exe = L!ExeTail
  BY DEF Linked
<1>2. /\ ModCount \in Nat /\ ImageEnd \in Nat /\ m \in Nat /\ m < ModCount /\ L!TocAt \in Nat
      /\ ImageEnd <= L!TocAt
  <2>1. ModCount \in Nat /\ ImageEnd \in Nat /\ m \in Nat /\ m < ModCount
    BY <1>1, SoundIs DEF L!ModIds
  <2>2. /\ L!BlockOff[m] \in Nat /\ ImageEnd <= L!BlockOff[m] /\ L!TocAt \in Nat
        /\ L!BlockOff[m] + L!ModSize[m] <= L!TocAt /\ L!ModSize[m] \in Nat
    BY <1>1, BlockIs, ModulesAre
  <2> QED
    BY <2>1, <2>2
<1>3. PICK p \in Nat : p = TocOff + (m * 8) + i /\ p = L!TocAt + (m * 8) + i
  BY <1>1, <1>2
<1>4. p \in ImageEnd .. L!TocAt + (8 * ModCount) - 1 /\ p >= L!TocAt /\ p - L!TocAt = (m * 8) + i
  BY <1>2, <1>3
<1>5. (p - L!TocAt) \div 8 = m /\ (p - L!TocAt) % 8 = i
  BY <1>2, <1>4
<1>6. p \in DOMAIN Exe
  BY <1>1, <1>4 DEF L!ExeTail
<1>7. Exe[p] = L!Number(L!TocByte(m, i))
  BY <1>1, <1>4, <1>5 DEF L!ExeTail
<1>8. Exe[p].kind = "number" /\ Exe[p].of = L!TocByte(m, i)
  BY <1>7 DEF L!Number, L!Byte
<1>9. ByteAt(p) = Signed(L!TocByte(m, i))
  BY <1>6, <1>8 DEF ByteAt
<1> QED
  BY <1>3, <1>9

(* From the table on there are numbers only, to the end of the file.       *)
Behind == {p \in Nat : TocOff <= p}

LEMMA BehindIs ==
    ASSUME Linked, NEW p \in Behind
    PROVE  ByteAt(p) \in Int
<1>1. L!Sound /\ TocOff = L!TocAt /\ Exe = L!ExeTail /\ TocOff \in Nat /\ p \in Nat /\ TocOff <= p
  BY BoundAssumption DEF Linked, Behind
<1>2. CASE p \notin DOMAIN Exe
  BY <1>2 DEF ByteAt, NoByte
<1>3. CASE p \in DOMAIN Exe
  <2>1. PICK q \in Nat : q = p - TocOff
    BY <1>1
  <2>2. ModCount \in Nat
    BY <1>1, SoundIs
  <2>3. q < 8 * ModCount
    <3>1. DOMAIN Exe = ImageEnd .. L!TocAt + (8 * ModCount) - 1
      BY <1>1 DEF L!ExeTail
    <3> QED
      BY <1>1, <1>3, <2>1, <2>2, <3>1
  <2>4. q \div 8 \in 0 .. ModCount - 1 /\ q % 8 \in 0 .. 7
    BY <2>2, <2>3
  <2>5. PICK m \in L!ModIds, i \in 0 .. 7 : m = q \div 8 /\ i = q % 8
    BY <2>4 DEF L!ModIds
  <2>6. p = TocOff + (m * 8) + i
    <3>1. q = (m * 8) + i
      BY <2>5
    <3> QED
      BY <1>1, <2>1, <2>4, <2>5, <3>1
  <2>7. ByteAt(p) = Signed(L!TocByte(m, i))
    BY <2>6, TocBytes
  <2> QED
    BY <1>1, <2>7, TocByteIs DEF Signed
<1> QED
  BY <1>2, <1>3

(* The reader's states, byte by byte.                                      *)
Reads(r, m) == r = [n \in 0 .. 8 |-> IF n = 0 THEN Got(0, TocOff + (m * 8), NoByte) ELSE Fgetc(r[n - 1])]

Readers == [got : Int, at : Behind, back : Int]

Reader(m) == CHOOSE f : Reads(f, m)

LEMMA FgetcReads ==
    ASSUME Linked, NEW s \in Readers
    PROVE  Fgetc(s) \in Readers
<1>1. s.got \in Int /\ s.at \in Behind /\ s.back \in Int /\ TocOff \in Nat
  BY BoundAssumption DEF Readers
<1>2. s.at + 1 \in Behind /\ s.at + 2 \in Behind
  BY <1>1 DEF Behind
<1>3. ByteAt(s.at) \in Int /\ ByteAt(s.at + 1) \in Int
  BY <1>1, <1>2, BehindIs
<1>4. \A c, b \in Int : \A p \in Behind : Got(c, p, b) \in Readers
  BY DEF Got, Readers
<1>5. NoByte \in Int /\ -1 \in Int /\ 10 \in Int
  BY DEF NoByte
<1>6. PICK ch \in Int, peek \in Int : ch = ByteAt(s.at) /\ peek = ByteAt(s.at + 1)
  BY <1>3
<1>7. (IF peek = 10 THEN NoByte ELSE peek) \in Int
  BY <1>5
<1>8. Fgetc(s) = IF s.back # NoByte THEN Got(s.back, s.at, NoByte)
                 ELSE IF ch = 26 THEN Got(-1, s.at + 1, NoByte)
                 ELSE IF ch = 13 THEN Got(10, s.at + 2, IF peek = 10 THEN NoByte ELSE peek)
                 ELSE Got(ch, s.at + 1, NoByte)
  BY <1>6 DEF Fgetc
<1> QED
  BY <1>1, <1>2, <1>4, <1>5, <1>7, <1>8

LEMMA ReaderIs ==
    ASSUME Linked, NEW m \in L!ModIds
    PROVE  /\ Reader(m)[0] = Got(0, TocOff + (m * 8), NoByte)
           /\ \A n \in 1 .. 8 : Reader(m)[n] = Fgetc(Reader(m)[n - 1])
           /\ \A n \in 0 .. 8 : Reader(m)[n] \in Readers
<1> DEFINE a == Got(0, TocOff + (m * 8), NoByte)
           H == [q \in (1 .. 8) \X Readers |-> Fgetc(q[2])]
<1>1. a \in Readers
  <2>1. TocOff + (m * 8) \in Behind
    BY BoundAssumption DEF L!ModIds, Behind
  <2> QED
    BY <2>1 DEF Got, Readers, NoByte
<1>2. H \in [(1 .. 8) \X Readers -> Readers]
  BY FgetcReads
<1>3. PICK f : Steps(f, Readers, a, H, 8)
  <2> HIDE DEF H, a
  <2> QED
    BY <1>1, <1>2, Recursion DEF Stepwise
<1>4. f \in [0 .. 8 -> Readers] /\ f[0] = a /\ \A n \in 1 .. 8 : f[n] = H[<<n, f[n - 1]>>]
  <2> HIDE DEF H, a
  <2> QED
    BY <1>3 DEF Steps
<1>5. ASSUME NEW n \in 1 .. 8 PROVE f[n] = Fgetc(f[n - 1])
  <2>1. f[n - 1] \in Readers
    BY <1>4
  <2>2. PICK s \in Readers : s = f[n - 1] /\ <<n, s>> \in (1 .. 8) \X Readers
    BY <2>1
  <2>3. H[<<n, s>>] = Fgetc(s)
    BY <2>2
  <2> HIDE DEF H, a
  <2> QED
    BY <1>4, <2>2, <2>3
<1> HIDE DEF H
<1>6. Reads(f, m)
  <2>1. ASSUME NEW n \in 0 .. 8
        PROVE  f[n] = IF n = 0 THEN a ELSE Fgetc(f[n - 1])
    <3>1. n # 0 => n \in 1 .. 8
      OBVIOUS
    <3> QED
      BY <1>4, <1>5, <3>1
  <2>2. f = [n \in 0 .. 8 |-> f[n]]
    BY <1>4
  <2> QED
    BY <2>1, <2>2 DEF Reads
<1>7. Reads(Reader(m), m)
  BY <1>6 DEF Reader
<1>8. Reader(m)[0] = a
  BY <1>7 DEF Reads
<1>9. ASSUME NEW n \in 1 .. 8 PROVE Reader(m)[n] = Fgetc(Reader(m)[n - 1])
  <2>1. n \in 0 .. 8 /\ n # 0
    OBVIOUS
  <2> QED
    BY <1>7, <2>1 DEF Reads
<1> HIDE DEF a
<1>10. GoAlike(Reader(m), f, 8)
  BY <1>4, <1>5, <1>8, <1>9 DEF GoAlike
<1>11. \A n \in 0 .. 8 : Reader(m)[n] = f[n]
  BY <1>10, Agree
<1> QED
  BY <1>4, <1>8, <1>9, <1>11 DEF a

(* It is behind byte number n of the entry, when those before are plain.   *)
After(m, n) ==
    Got(IF n = 0 THEN 0 ELSE Signed(L!TocByte(m, n - 1)), TocOff + (m * 8) + n, NoByte)

LEMMA AfterIs ==
    ASSUME Linked, NEW m \in L!ModIds,
           NEW k \in 0 .. 8, \A i \in 0 .. k - 1 : L!TocByte(m, i) \in Plain
    PROVE  \A n \in 0 .. k : Reader(m)[n] = After(m, n)
<1>1. TocOff \in Nat /\ m \in Nat
  BY BoundAssumption DEF L!ModIds
<1>2. PICK f : f = [n \in 0 .. k |-> After(m, n)]
  OBVIOUS
<1>3. Reader(m)[0] = f[0]
  <2>1. Reader(m)[0] = Got(0, TocOff + (m * 8), NoByte)
    BY ReaderIs
  <2>2. After(m, 0) = Got(0, TocOff + (m * 8), NoByte)
    BY <1>1 DEF After
  <2> QED
    BY <1>2, <2>1, <2>2
<1>4. ASSUME NEW n \in 1 .. k, Reader(m)[n - 1] = f[n - 1]
      PROVE  Reader(m)[n] = f[n]
  <2>1. PICK i \in 0 .. 7, p \in Nat :
            i = n - 1 /\ i \in 0 .. k - 1 /\ p = TocOff + (m * 8) + i /\ p + 1 = TocOff + (m * 8) + n
    BY <1>1
  <2>2. PICK b \in Plain : b = L!TocByte(m, i) /\ ByteAt(p) = Signed(b)
    BY <1>4, <2>1, TocBytes
  <2>3. Reader(m)[i] = After(m, i)
    BY <1>2, <1>4, <2>1
  <2>4. PICK c : Reader(m)[i] = Got(c, p, NoByte)
    BY <2>1, <2>3 DEF After
  <2>5. Reader(m)[n] = Fgetc(Got(c, p, NoByte))
    <3>1. Reader(m)[n] = Fgetc(Reader(m)[n - 1])
      BY ReaderIs
    <3> QED
      BY <2>1, <2>4, <3>1
  <2>6. Reader(m)[n] = Got(Signed(b), p + 1, NoByte)
    BY <2>2, <2>5, FgetcIs, PlainByte
  <2>7. After(m, n) = Got(Signed(b), p + 1, NoByte)
    BY <2>1, <2>2 DEF After
  <2> QED
    BY <1>2, <2>6, <2>7
<1>5. GoAlike(Reader(m), f, k)
  BY <1>3, <1>4 DEF GoAlike
<1>6. \A n \in 0 .. k : Reader(m)[n] = f[n]
  BY <1>5, Agree
<1> QED
  BY <1>2, <1>6

(* Word number n of the entry, as it is read.                              *)
Read(m, n) == Get16(Reader(m)[2 * n - 1], Reader(m)[2 * n])

LEMMA EntryIsRead ==
    ASSUME NEW m \in Module, NEW k, k = L!Words, NEW l, l = 128 * 256
    PROVE  Toc[m] = [base |-> Read(m, 1), size |-> IF Read(m, 2) >= l THEN 0 ELSE Read(m, 2),
                     from |-> Read(m, 3) + (Read(m, 4) * k)]
<1>1. Toc[m] = TocEntry(m)
  BY DEF Toc
<1>2. TocEntry(m) = [base |-> Read(m, 1), size |-> IF Read(m, 2) >= 128 * 256 THEN 0 ELSE Read(m, 2),
                     from |-> Read(m, 3) + (Read(m, 4) * (256 * 256))]
  BY DEF TocEntry, Reads, Reader, Read
<1> QED
  BY <1>1, <1>2 DEF L!Words

LEMMA ReadIs ==
    ASSUME Linked, NEW m \in L!ModIds, NEW n \in 1 .. 4
    PROVE  /\ High(Read(m, n)) = Low(Reader(m)[2 * n].got)
           /\ Low(Read(m, n)) = Low(Reader(m)[2 * n - 1].got)
           /\ Low(Reader(m)[2 * n].got) \in Octet /\ Low(Reader(m)[2 * n - 1].got) \in Octet
           /\ Read(m, n) \in Nat /\ Read(m, n) < L!Words
<1>1. Reader(m)[2 * n - 1] \in Readers /\ Reader(m)[2 * n] \in Readers
  BY ReaderIs
<1>2. PICK lo \in Int, hi \in Int : lo = Reader(m)[2 * n - 1].got /\ hi = Reader(m)[2 * n].got
  BY <1>1 DEF Readers
<1>3. PICK q \in Nat \ {0} : q = 256
  OBVIOUS
<1>4. PICK x \in 0 .. q - 1, y \in 0 .. q - 1 : x = hi % q /\ y = lo % q
  OBVIOUS
<1>5. Read(m, n) = (x * q) + y
  BY <1>2, <1>3, <1>4 DEF Read, Get16
<1>6. IsDivided(Read(m, n), q, x, y)
  BY <1>5 DEF IsDivided
<1>7. Read(m, n) \div q = x /\ Read(m, n) % q = y
  BY <1>6, DivMod
<1>8. Read(m, n) \in Nat /\ Read(m, n) < L!Words
  <2>1. L!Words = q * q
    BY <1>3 DEF L!Words
  <2>2. x * q \in Nat /\ x * q <= (q - 1) * q /\ (q - 1) * q + q = q * q
    OBVIOUS
  <2> QED
    BY <1>5, <2>1, <2>2
<1>9. x = Low(Reader(m)[2 * n].got) /\ y = Low(Reader(m)[2 * n - 1].got)
  BY <1>2, <1>3, <1>4 DEF Low
<1>10. High(Read(m, n)) = x /\ Low(Read(m, n)) = y /\ x \in Octet /\ y \in Octet
  BY <1>3, <1>7 DEF Low, High, Octet
<1> QED
  BY <1>8, <1>9, <1>10

(* A word is read as it was written when its bytes and those before are    *)
(* plain, and otherwise the first of them that is not spoils it.           *)
LEMMA WordIsRead ==
    ASSUME Linked, NEW m \in L!ModIds, NEW n \in 1 .. 4,
           \A i \in 0 .. 2 * n - 1 : L!TocByte(m, i) \in Plain
    PROVE  Read(m, n) = L!TocWords(m)[n]
<1>1. PICK i \in 0 .. 7, j \in 0 .. 7 :
          /\ i = 2 * n - 2 /\ j = 2 * n - 1 /\ i + 1 = 2 * n - 1 /\ j + 1 = 2 * n
          /\ i \in 0 .. 2 * n - 1 /\ j \in 0 .. 2 * n - 1
  OBVIOUS
<1>2. PICK lo \in Plain, hi \in Plain : lo = L!TocByte(m, i) /\ hi = L!TocByte(m, j)
  BY <1>1
<1>3. PICK w \in Nat : w = L!TocWords(m)[n] /\ lo = Low(w) /\ hi = High(w)
  BY <1>1, <1>2, WordIs DEF Linked
<1>4. Reader(m)[2 * n - 1].got = Signed(lo) /\ Reader(m)[2 * n].got = Signed(hi)
  <2>1. /\ 2 * n \in 0 .. 8 /\ 2 * n - 1 \in 0 .. 2 * n /\ 2 * n \in 0 .. 2 * n
        /\ 2 * n - 1 # 0 /\ 2 * n # 0 /\ (2 * n - 1) - 1 = i /\ (2 * n) - 1 = j
    BY <1>1
  <2>2. Reader(m)[2 * n - 1] = After(m, 2 * n - 1) /\ Reader(m)[2 * n] = After(m, 2 * n)
    BY <2>1, AfterIs
  <2> QED
    BY <1>2, <2>1, <2>2 DEF After, Got
<1>5. Low(Read(m, n)) = lo /\ High(Read(m, n)) = hi /\ Read(m, n) \in Nat
  <2>1. Low(Signed(lo)) = lo /\ Low(Signed(hi)) = hi
    BY PlainByte
  <2> QED
    BY <1>4, <2>1, ReadIs
<1> QED
  BY <1>3, <1>5, Halves

LEMMA WordIsMisread ==
    ASSUME Linked, NEW m \in L!ModIds, NEW n \in 1 .. 4,
           NEW i \in {2 * n - 2, 2 * n - 1}, L!TocByte(m, i) \notin Plain,
           \A j \in 0 .. i - 1 : L!TocByte(m, j) \in Plain
    PROVE  Read(m, n) # L!TocWords(m)[n]
<1>1. i \in 0 .. 7 /\ i \in 0 .. 8 /\ i \in 0 .. i /\ i + 1 \in 1 .. 8 /\ (i + 1) - 1 = i
  OBVIOUS
<1>2. PICK b \in Nat : b = L!TocByte(m, i)
  BY <1>1, TocByteIs DEF Linked
<1>3. TocOff \in Nat /\ m \in Nat
  BY BoundAssumption DEF L!ModIds
<1>4. PICK p \in Nat : p = TocOff + (m * 8) + i
  BY <1>1, <1>3
<1>5. ByteAt(p) = Signed(b)
  BY <1>1, <1>2, <1>4, TocBytes
<1>6. PICK c : Reader(m)[i] = Got(c, p, NoByte)
  <2>1. Reader(m)[i] = After(m, i)
    BY <1>1, AfterIs
  <2> QED
    BY <1>4, <2>1 DEF After
<1>7. Reader(m)[i + 1] = Fgetc(Got(c, p, NoByte))
  <2>1. Reader(m)[i + 1] = Fgetc(Reader(m)[(i + 1) - 1])
    BY <1>1, ReaderIs
  <2> QED
    BY <1>1, <1>6, <2>1
<1>8. /\ b = 26 => Reader(m)[i + 1].got = -1
      /\ b = 13 => Reader(m)[i + 1].got = 10
  BY <1>5, <1>7, FgetcIs DEF Signed
<1>9. /\ i = 2 * n - 2 => i + 1 = 2 * n - 1
      /\ i = 2 * n - 1 => i + 1 = 2 * n
  OBVIOUS
<1>10. Low(Reader(m)[i + 1].got) \in Octet
  BY <1>9, ReadIs
<1>11. Low(Reader(m)[i + 1].got) # b
  <2>1. Low(-1) # 26 /\ Low(10) # 13
    BY DEF Low
  <2>2. b = 26 \/ b = 13 \/ b \notin Octet
    BY <1>2 DEF Plain
  <2> QED
    BY <1>8, <1>10, <2>1, <2>2
<1>12. /\ i = 2 * n - 2 => b = Low(L!TocWords(m)[n])
       /\ i = 2 * n - 1 => b = High(L!TocWords(m)[n])
  BY <1>2, WordIs DEF Linked
<1>13. /\ i = 2 * n - 2 => Low(Read(m, n)) = Low(Reader(m)[i + 1].got)
       /\ i = 2 * n - 1 => High(Read(m, n)) = Low(Reader(m)[i + 1].got)
  BY <1>9, ReadIs
<1> QED
  BY <1>11, <1>12, <1>13

(* WriteOvlToc and _ovl_load agree on the table of contents - every module *)
(* is read from where it is written, to the window it is linked for -      *)
(* exactly when no byte of it is a CR or a CtrlZ to fgetc, and no module   *)
(* is as long as a negative int.                                           *)
THEOREM TocIsRead ==
    ASSUME Linked
    PROVE  TocSound <=> L!TocIsPlain
<1>0. PICK k \in Nat \ {0} : k = L!Words
  BY DEF L!Words
<1>1. PICK l \in Nat \ {0} : l = 128 * 256
  OBVIOUS
<1>2. L!Sound
  BY DEF Linked
<1> DEFINE w(m) == L!TocWords(m)
           x(m) == L!BlockOff[m]
           right(m) == Toc[m] = [base |-> Base[WinOf[m]], size |-> Size[m], from |-> Block[m]]
           plain(m) == L!ModSize[m] < l /\ \A i \in 0 .. 7 : L!TocByte(m, i) \in Plain
<1>3. ASSUME NEW m \in L!ModIds
      PROVE  /\ w(m)[1] \in Nat /\ w(m)[2] \in Nat /\ x(m) \in Nat
             /\ w(m)[2] = L!ModSize[m] /\ w(m)[3] = x(m) % k /\ w(m)[4] = x(m) \div k
             /\ Read(m, 1) \in Nat /\ Read(m, 2) \in Nat /\ Read(m, 3) \in 0 .. k - 1 /\ Read(m, 4) \in Nat
             /\ right(m) <=> /\ Read(m, 1) = w(m)[1]
                             /\ (IF Read(m, 2) >= l THEN 0 ELSE Read(m, 2)) = w(m)[2]
                             /\ Read(m, 3) + (Read(m, 4) * k) = x(m)
  <2>1. /\ m \in Module /\ Base[WinOf[m]] = L!WinStart[WinOf[m]] /\ Size[m] = L!ModSize[m]
        /\ Block[m] = L!BlockOff[m]
    BY DEF Linked
  <2>2. w(m) = <<L!WinStart[WinOf[m]], L!ModSize[m], L!BlockOff[m] % k, L!BlockOff[m] \div k>>
    BY <1>0, WordsAre
  <2>3. /\ w(m)[1] = L!WinStart[WinOf[m]] /\ w(m)[2] = L!ModSize[m]
        /\ w(m)[3] = x(m) % k /\ w(m)[4] = x(m) \div k
    BY <2>2
  <2>4. Toc[m] = [base |-> Read(m, 1), size |-> IF Read(m, 2) >= l THEN 0 ELSE Read(m, 2),
                  from |-> Read(m, 3) + (Read(m, 4) * k)]
    BY <1>0, <1>1, <2>1, EntryIsRead
  <2>5. 1 \in 1 .. 4 /\ 2 \in 1 .. 4 /\ 3 \in 1 .. 4 /\ 4 \in 1 .. 4
    OBVIOUS
  <2>6. \A n \in 1 .. 4 : Read(m, n) \in 0 .. k - 1
    BY <1>0, ReadIs
  <2>7. w(m)[1] \in Nat /\ w(m)[2] \in Nat
    BY <1>2, <2>5, WordIs
  <2>8. x(m) \in Nat
    BY <1>2, BlockIs
  <2> HIDE DEF w
  <2>9. right(m) <=> /\ Read(m, 1) = w(m)[1]
                     /\ (IF Read(m, 2) >= l THEN 0 ELSE Read(m, 2)) = w(m)[2]
                     /\ Read(m, 3) + (Read(m, 4) * k) = x(m)
    BY <2>1, <2>3, <2>4
  <2> QED
    BY <2>3, <2>5, <2>6, <2>7, <2>8, <2>9
<1> HIDE DEF right, w, x
<1>4. ASSUME NEW m \in L!ModIds, plain(m) PROVE right(m)
  <2>2. ASSUME NEW n \in 1 .. 4 PROVE Read(m, n) = w(m)[n]
    <3>1. \A i \in 0 .. 2 * n - 1 : L!TocByte(m, i) \in Plain
      BY <1>4
    <3> QED
      BY <3>1, WordIsRead DEF w
  <2>3. ~ (w(m)[2] >= l)
    BY <1>3, <1>4
  <2>4. (w(m)[3]) + (w(m)[4] * k) = x(m)
    <3>1. PICK y \in Nat : y = x(m)
      BY <1>3
    <3>2. \A q \in Nat \ {0} : q * (y \div q) + (y % q) = y /\ y % q \in Nat /\ y \div q \in Nat
      OBVIOUS
    <3>3. PICK d \in Nat, e \in Nat : d = y \div k /\ e = y % k /\ k * d + e = y
      BY <3>2
    <3>4. w(m)[3] = e /\ w(m)[4] = d
      BY <1>3, <3>1, <3>3
    <3>5. k * d = d * k
      BY <3>3
    <3> QED
      BY <3>1, <3>3, <3>4, <3>5
  <2> QED
    BY <1>3, <2>2, <2>3, <2>4
<1>5. ASSUME NEW m \in L!ModIds, right(m) PROVE plain(m)
  <2>2. /\ Read(m, 1) = w(m)[1]
        /\ (IF Read(m, 2) >= l THEN 0 ELSE Read(m, 2)) = w(m)[2]
        /\ Read(m, 3) + (Read(m, 4) * k) = x(m)
    BY <1>3, <1>5
  <2>3. w(m)[2] < l /\ w(m)[2] = L!ModSize[m]
    BY <1>3, <2>2
  <2>4. Read(m, 3) = w(m)[3] /\ Read(m, 4) = w(m)[4]
    <3>1. PICK lo \in 0 .. k - 1, hi \in Nat, y \in Nat : lo = Read(m, 3) /\ hi = Read(m, 4) /\ y = x(m)
      BY <1>3
    <3>2. lo + (hi * k) = y
      BY <2>2, <3>1, Zenon
    <3>3. lo + (hi * k) = (hi * k) + lo
      BY <3>1
    <3>4. IsDivided(y, k, hi, lo)
      <4>1. y = (hi * k) + lo
        BY <3>2, <3>3, Zenon
      <4>2. y \in Int /\ hi \in Int /\ lo \in 0 .. k - 1 /\ k \in Nat \ {0}
        OBVIOUS
      <4> QED
        BY <4>1, <4>2, Zenon DEF IsDivided
    <3>5. y \div k = hi /\ y % k = lo
      BY <3>4, DivMod
    <3> QED
      BY <1>3, <3>1, <3>5
  <2> DEFINE Bad == {i \in 0 .. 7 : L!TocByte(m, i) \notin Plain}
  <2>5. SUFFICES ASSUME Bad # {} PROVE FALSE
    BY <2>3
  <2>6. PICK i \in Bad : \A j \in Bad : i <= j
    <3>1. Bad \in SUBSET Nat
      OBVIOUS
    <3> HIDE DEF Bad
    <3> QED
      BY <2>5, <3>1, LeastNat
  <2>7. PICK n \in 1 .. 4 : i \in {2 * n - 2, 2 * n - 1}
    <3>1. i \in 0 .. 7
      OBVIOUS
    <3>2. i \div 2 + 1 \in 1 .. 4 /\ i \in {2 * (i \div 2 + 1) - 2, 2 * (i \div 2 + 1) - 1}
      BY <3>1
    <3> QED
      BY <3>2
  <2>8. L!TocByte(m, i) \notin Plain /\ \A j \in 0 .. i - 1 : L!TocByte(m, j) \in Plain
    BY <2>6
  <2> HIDE DEF Bad
  <2>9. Read(m, n) # w(m)[n]
    BY <2>7, <2>8, WordIsMisread DEF w
  <2>10. n = 2
    BY <2>2, <2>4, <2>9
  <2>11. w(m)[2] = 0
    BY <2>2, <2>9, <2>10
  <2>12. L!TocByte(m, 2 * n - 2) = 0 /\ L!TocByte(m, 2 * n - 1) = 0
    <3>1. Low(0) = 0 /\ High(0) = 0
      BY DEF Low, High
    <3> QED
      BY <1>2, <2>10, <2>11, <3>1, WordIs DEF w
  <2> QED
    BY <2>7, <2>8, <2>12 DEF Plain, Octet
<1>6. TocSound <=> \A m \in L!ModIds : right(m)
  BY DEF TocSound, Linked, right
<1>7. L!TocIsPlain <=> \A m \in L!ModIds : plain(m)
  BY <1>1 DEF L!TocIsPlain, Plain, Octet
<1> QED
  BY <1>4, <1>5, <1>6, <1>7

(* A program that ylink lays out, with a table of contents that fgetc      *)
(* leaves as it is and code that fits in 16 bits: the processor executes   *)
(* what the source calls until it returns to an evicted caller, whatever   *)
(* the objects, their sizes and their calls.                               *)
THEOREM LinkedProgramsRun ==
    ASSUME Linked, L!Fits, L!TocIsPlain
    PROVE  Spec => []RightCode
<1>1. Placed /\ TocSound
  BY LayoutIsPlaced, TocIsRead
<1> QED
  BY <1>1, OverlaysAreTransparent
=============================================================================
