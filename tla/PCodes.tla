------------------------------- MODULE PCodes -------------------------------
(***************************************************************************)
(* The p-codes of the compiler's back end and what its tables say of them: *)
(* code[], of which the flag byte of each string is kept here (what the    *)
(* string does is in Machine), code_size[] and shortbranchTab[] of cc4.c.  *)
(*                                                                         *)
(* A p-code in a buffer is a record [op, v]: its name and its value.  The  *)
(* value is a number, an offset from BP, a label or a symbol.              *)
(***************************************************************************)
EXTENDS Integers, Sequences, FiniteSets

P(op, v) == [op |-> op, v |-> v]

\* code_size[]: the bytes each p-code is taken for.
Sized0 == {"LABm", "NOP_"}
Sized1 == {"POP2", "PUSH1", "SWAP12", "PUSH2", "WIDENs", "POPCX", "RETNOFP"}
Sized2 == {"ADD12", "AND12", "ANEG1", "CALL1", "COM1", "DBL1", "DBL2", "MOVE21", "MUL12",
          "MUL12u", "OR12", "PUTbp1", "PUTwp1", "rDEC1", "rINC1", "SUB12", "XOR12", "ADD21",
          "DECbp", "DECwp", "INCbp", "INCwp", "rDEC2", "rINC2", "PUSHd1", "POPd2", "WIDENu",
          "WIDENu2", "POPCX2", "JMPs", "JccEs", "JccNEs", "JccGs", "JccLs", "JccGEs",
          "JccLEs", "JccAs", "JccBs", "JccAEs", "JccBEs", "CMP12", "NE10fps", "EQ10fps"}
Sized3 == {"CALLm", "DIV12", "ENTER", "EQ12", "GE12", "GE12u", "POINT1l", "POINT1m", "GETw1m",
          "GETw1n", "GETw2n", "GT12", "GT12u", "JMPm", "LE12", "LE12u", "LNEG1", "LT12",
          "LT12u", "NE12", "PUTbm1", "PUTwm1", "SWAP1s", "SWITCH", "ADD1n", "ADD2n",
          "ADDbpn", "POINT2m", "SUB1n", "SUBbpn", "GETdxn", "GETcxn", "SWAPd12", "MULd12",
          "MULd12u", "DIVd12", "DIVd12u", "MODd12", "MODd12u", "ASLd12", "ASRd12", "ASRd12u",
          "EQd12", "NEd12", "LTd12", "LEd12", "GTd12", "GEd12", "LTd12u", "LEd12u", "GTd12u",
          "GEd12u", "LNEGd1", "LSWITCHd", "CMP1n", "AND1n"}
Sized4 == {"ADDSP", "DIV12u", "GETb1m", "GETw1p", "POINT1s", "RETURN", "ADDwpn", "GETw1s",
          "GETw2m", "GETw2p", "GETw2s", "POINT2s", "PUSHm", "PUSHp", "PUSHs", "SUBwpn",
          "PUTws1", "PUTbs1", "ASL1_1", "ASR1_1", "MOVEd21", "ADDd12", "SUBd12", "ANDd12",
          "ORd12", "XORd12", "COMd1", "DBLd1", "DBLd2", "EQ10fs", "NE10fs", "GE10fs",
          "GT10fs", "LE10fs", "LT10fs", "EQd10fs", "NEd10fs", "CMP1m", "CMP1s", "LSR1_1",
          "SHL1n", "SAR1n", "SHR1n", "ADDws1", "SUBws1", "ANDws1", "ORws1", "XORws1"}
Sized5 == {"GETb1mu", "GETb1p", "GETb1pu", "MOD12", "GETb1s", "GETb1su", "GETd1p", "JccE",
          "JccNE", "JccG", "JccL", "JccGE", "JccLE", "JccA", "JccB", "JccAE", "JccBE",
          "NE10fp", "EQ10fp"}
Sized6 == {"ASL12", "ASR12", "MOD12u", "rINCd1", "rDECd1", "LSR12", "ASR1_2", "ASRsn",
          "ASLsn", "LSRsn"}
Sized7 == {"EQ10f", "GE10f", "GT10f", "LE10f", "LT10f", "NE10f", "GETd1m", "PUTdm1", "PUTdp1",
          "ANEGd1", "EQd10f", "NEd10f"}
Sized8 == {"GETd1s", "GETd2m", "GETd2s", "PUTds1", "PUSHdm", "PUSHds", "POSTINCws",
          "POSTDECws"}
Sized9 == {"WIDENs2"}
Sized255 == {"BYTE_", "BYTEn", "BYTEr0", "WORD_", "WORDn", "WORDr0", "NEARm", "REFm", "ADDm_",
          "COMMAn", "POINT2m_", "GETw1m_", "PLUSn", "PUT_m_", "SUB_m_", "POINT1m_"}

PCode == UNION {Sized0, Sized1, Sized2, Sized3, Sized4, Sized5, Sized6, Sized7, Sized8, Sized9, Sized255}

CodeSize ==
  [p \in PCode |->
    CASE p \in Sized0 -> 0
      [] p \in Sized1 -> 1
      [] p \in Sized2 -> 2
      [] p \in Sized3 -> 3
      [] p \in Sized4 -> 4
      [] p \in Sized5 -> 5
      [] p \in Sized6 -> 6
      [] p \in Sized7 -> 7
      [] p \in Sized8 -> 8
      [] p \in Sized9 -> 9
      [] p \in Sized255 -> 255]

\* The flag bits of code[]: PRI is AX, SEC is BX.
UsesPri == {"ADD12", "AND12", "ANEG1", "ASL12", "ASR12", "CALL1", "COM1", "DBL1", "DIV12",
            "DIV12u", "EQ10f", "EQ12", "GE10f", "GE12", "GE12u", "GT10f", "GT12", "GT12u",
            "LE10f", "LE12", "LE12u", "LNEG1", "LT10f", "LT12", "LT12u", "MOD12", "MOD12u",
            "MOVE21", "MUL12", "MUL12u", "NE10f", "NE12", "OR12", "PUSH1", "PUTbm1",
            "PUTbp1", "PUTwm1", "PUTwp1", "rDEC1", "rINC1", "SUB12", "SWAP12", "SWAP1s",
            "SWITCH", "XOR12", "ADD1n", "ADD21", "ADD2n", "rDEC2", "rINC2", "SUB1n",
            "PUTws1", "PUTbs1", "GETd1p", "PUTdm1", "PUTdp1", "PUTds1", "PUSHd1", "MOVEd21",
            "SWAPd12", "WIDENs", "ADDd12", "SUBd12", "ANDd12", "ORd12", "XORd12", "COMd1",
            "ANEGd1", "rINCd1", "rDECd1", "DBLd1", "MULd12", "MULd12u", "DIVd12", "DIVd12u",
            "MODd12", "MODd12u", "ASLd12", "ASRd12", "ASRd12u", "EQd12", "NEd12", "LTd12",
            "LEd12", "GTd12", "GEd12", "LTd12u", "LEd12u", "GTd12u", "GEd12u", "LNEGd1",
            "EQd10f", "NEd10f", "LSWITCHd", "EQ10fs", "NE10fs", "GE10fs", "GT10fs", "LE10fs",
            "LT10fs", "EQd10fs", "NEd10fs", "CMP1n", "CMP12", "CMP1m", "CMP1s", "NE10fp",
            "EQ10fp", "NE10fps", "EQ10fps", "LSR12", "AND1n", "SHL1n", "SAR1n", "SHR1n",
            "ADDws1", "SUBws1", "ANDws1", "ORws1", "XORws1"}
ZapsPri == {"CALLm", "POINT1l", "POINT1m", "GETb1m", "GETb1mu", "GETb1p", "GETb1pu",
            "GETw1m", "GETw1n", "GETw1p", "POINT1s", "GETb1s", "GETb1su", "GETw1m_",
            "GETw1s", "GETw2p", "GETd1m", "GETd1p", "GETd1s", "GETdxn", "PUTdm1", "PUTdp1",
            "PUTds1", "PUSHd1", "MOVEd21", "SWAPd12", "WIDENs", "WIDENu", "ADDd12", "SUBd12",
            "ANDd12", "ORd12", "XORd12", "COMd1", "ANEGd1", "rINCd1", "rDECd1", "DBLd1",
            "MULd12", "MULd12u", "DIVd12", "DIVd12u", "MODd12", "MODd12u", "ASLd12",
            "ASRd12", "ASRd12u", "EQd12", "NEd12", "LTd12", "LEd12", "GTd12", "GEd12",
            "LTd12u", "LEd12u", "GTd12u", "GEd12u", "LNEGd1", "EQd10f", "NEd10f", "EQd10fs",
            "NEd10fs", "POINT1m_"}
UsesSec == {"ADD12", "AND12", "ASL12", "ASR12", "DBL2", "DIV12", "DIV12u", "EQ12", "GE12",
            "GE12u", "GETb1p", "GETb1pu", "GETw1p", "GT12u", "LE12", "LE12u", "LT12",
            "LT12u", "MOD12", "MOD12u", "MUL12", "MUL12u", "NE12", "OR12", "PUTbp1",
            "PUTwp1", "SUB12", "SWAP12", "XOR12", "ADD21", "ADDbpn", "ADDwpn", "DECbp",
            "DECwp", "GETw2p", "INCbp", "INCwp", "PUSH2", "SUBbpn", "SUBwpn", "ASL1_1",
            "ASR1_1", "GETd1p", "GETd2m", "GETd2s", "PUTdp1", "POPd2", "MOVEd21", "SWAPd12",
            "WIDENs2", "WIDENu2", "ADDd12", "SUBd12", "ANDd12", "ORd12", "XORd12", "DBLd2",
            "MULd12", "MULd12u", "DIVd12", "DIVd12u", "MODd12", "MODd12u", "ASLd12",
            "ASRd12", "ASRd12u", "EQd12", "NEd12", "LTd12", "LEd12", "GTd12", "GEd12",
            "LTd12u", "LEd12u", "GTd12u", "GEd12u", "CMP12", "LSR12", "LSR1_1", "AND1n",
            "SHL1n", "SAR1n", "SHR1n", "ASR1_2", "ASRsn", "ASLsn", "LSRsn"}
ZapsSec == {"GETw2n", "MOVE21", "POP2", "SWAP1s", "SWITCH", "POINT2m", "POINT2m_", "GETw2m",
            "GETw2s", "POINT2s", "GETd1p", "GETd2m", "GETd2s", "PUTdp1", "POPd2", "MOVEd21",
            "SWAPd12", "WIDENs2", "ADDd12", "SUBd12", "ANDd12", "ORd12", "XORd12", "DBLd2",
            "MULd12", "MULd12u", "DIVd12", "DIVd12u", "MODd12", "MODd12u", "ASLd12",
            "ASRd12", "ASRd12u", "EQd12", "NEd12", "LTd12", "LEd12", "GTd12", "GEd12",
            "LTd12u", "LEd12u", "GTd12u", "GEd12u", "LSWITCHd", "POSTINCws", "POSTDECws"}
PUSHES == {"ENTER", "PUSH1", "PUSH2", "PUSHm", "PUSHp", "PUSHs", "PUSHd1", "PUSHdm", "PUSHds"}
COMMUTES == {"ADD12", "AND12", "EQ12", "MUL12", "MUL12u", "NE12", "OR12", "XOR12", "ADD21"}
SETSFLG == {"ADD12", "AND12", "ANEG1", "DBL1", "OR12", "SUB12", "XOR12", "ADD1n", "SUB1n",
            "ASL1_1", "ASR1_1", "LSR1_1", "SHL1n", "SAR1n", "SHR1n", "ASR1_2", "ASRsn",
            "ASLsn", "LSRsn"}

\* shortbranchTab[]: every branch and its short form.
LongBranch == {"EQ10f", "NE10f", "EQ10fp", "NE10fp", "GE10f", "GT10f", "LE10f", "LT10f",
               "EQd10f", "NEd10f", "JccE", "JccNE", "JccG", "JccL", "JccGE", "JccLE", "JccA",
               "JccB", "JccAE", "JccBE", "JMPm"}
shortbranchTab == [EQ10f |-> "EQ10fs", NE10f |-> "NE10fs", EQ10fp |-> "EQ10fps",
                   NE10fp |-> "NE10fps", GE10f |-> "GE10fs", GT10f |-> "GT10fs",
                   LE10f |-> "LE10fs", LT10f |-> "LT10fs", EQd10f |-> "EQd10fs",
                   NEd10f |-> "NEd10fs", JccE |-> "JccEs", JccNE |-> "JccNEs",
                   JccG |-> "JccGs", JccL |-> "JccLs", JccGE |-> "JccGEs",
                   JccLE |-> "JccLEs", JccA |-> "JccAs", JccB |-> "JccBs",
                   JccAE |-> "JccAEs", JccBE |-> "JccBEs", JMPm |-> "JMPs"]
ShortBranch(p) == shortbranchTab[p]
ShortForms == {ShortBranch(p) : p \in LongBranch}
LongOf(s) == CHOOSE p \in LongBranch : ShortBranch(p) = s
=============================================================================
