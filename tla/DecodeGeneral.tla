---------------------------- MODULE DecodeGeneral ----------------------------
(***************************************************************************)
(* decodeGeneral: the last family of the decoder, for the operand-size, GS *)
(* and REX forms of the integer instructions.  One definition per branch   *)
(* of the source; each says which encodings the branch accepts and what it *)
(* makes of them.  Everything else throws.                                 *)
(***************************************************************************)
EXTENDS Encoding

Byte(e, enc, d) == Only(~LegacyHigh(e, enc), d)
Byte2(e, d) == Only(~LegacyHigh(e, e.reg) /\ ~LegacyHigh(e, e.rm), d)

-----------------------------------------------------------------------------
(* Admission: the three lists before the branches *)

Plain == {\h05, \h24, \h25, \h34, \h00, \h01, \h02, \h03, \h19, \h1C, \h0C,
          \h88, \h89, \h8A, \h8B, \h8D, \h85, \h83, \h84, \h30, \h31, \h32,
          \h20, \h21, \h22, \h23, \h08, \h09, \h0A, \h0B, \h2D, \h69, \h6B,
          \h86, \h87, \h28, \h29, \h2B, \h33, \h38, \h39, \h3A, \h3B, \h80,
          \h81, \hC0, \hC1, \h98, \hC6, \hC7, \hD0, \hD1, \hD2, \hD3, \hF7,
          \hFE, \hFF, \h11}

WithoutRex == Plain \union {\h10}

WithOperandSize == {\h01, \h03, \h0B, \h39, \h3B, \h89, \h8B, \hF7, \hFF,
                    \h21, \h09, \h33}

WithGs == {\h89, \h8B, \hC7, \h39, \h3B}

WithoutRexW == Plain \union {\h0D, \h0F} \union (\hB0 .. \hBF)

Admitted(e) ==
    /\ e.hasRex \/ e.op \in WithoutRex
    /\ "66" \in e.pre => e.op \in WithOperandSize
    /\ "65" \in e.pre => e.op \in WithGs
    /\ W(e) \/ e.op \in WithoutRexW

-----------------------------------------------------------------------------
(* Accumulator and immediate forms *)

AccImm32(name, e) == Bare(name, <<Acc(W3264(e)), Imm32(e)>>)
Op0D(e) == AccImm32("Or", e)
Op25(e) == AccImm32("And", e)
Op05And2D(e) == AccImm32(IF e.op = \h05 THEN "Add" ELSE "Sub", e)

AccImm8(name) == Bare(name, <<Acc(8), ZImm(1)>>)
Op24(e) == AccImm8("And")
Op34To1C(e) == AccImm8(CASE e.op = \h34 -> "Xor" [] e.op = \h0C -> "Or" [] e.op = \h1C -> "Sbb")

RaxImm32(e) ==
    Only(W(e), Bare(IF e.op = \h35 THEN "Xor" ELSE "Cmp", <<Acc(64), SImm(4)>>))

ConvertAcc(e) ==
    IF W(e) THEN Bare("Cdqe", NoOperands) ELSE Only(~e.hasRex, Bare("Cwde", NoOperands))

MovByteImm(e) ==
    Only(e.hasRex, Bare("Mov", <<Reg(decodeRegister(e.op - \hB0, B(e)), 8), ZImm(1)>>))

MovImm(e) ==
    Bare("Mov", <<Reg(decodeRegister(e.op - \hB8, B(e)), W3264(e)),
                     ZImm(IF W(e) THEN 8 ELSE 4)>>)

ImulImm32(e) ==
    LET w == W3264(e)
        source == IF Direct(e) THEN RmField(e, w)
                  ELSE IF X(e) THEN Error ELSE Mem(w, {"rip", "ripB"})
    IN  Inst("Imul", <<RegField(e, w), source, Imm32(e)>>)

ImulImm8(e) ==
    Only(Direct(e), Inst("Imul", <<RegField(e, W3264(e)), RmField(e, W3264(e)), SImm(1)>>))

-----------------------------------------------------------------------------
(* REX 0F *)

\* Which second opcodes there are, and which of them without REX.W.
EscapeAdmitted(e) ==
    /\ e.op2 \in CmovOps \union {\hA3, \hAB, \hA4, \hBA, \hBE, \hAC, \hAF, \hBC, \hBD}
    /\ W(e) \/ e.op2 \notin {\hA4, \hAC}
    /\ \/ Direct(e)
       \/ e.op2 \in CmovOps
       \/ e.op2 = \hAF /\ W(e) /\ RipForm(e) /\ ~B(e) /\ ~X(e)
       \/ e.op2 = \hBE /\ ~RipForm(e)
       \/ e.op2 = \hBA /\ e.reg = 4 /\ ~RipForm(e)
    /\ X(e) => e.op2 = \hBA \/ (e.op2 = \hBE /\ ~Direct(e))

BitTestImm(e) ==
    Only(e.reg \in {4, 5, 6} /\ ~R(e) /\ ~X(e),
         IF Direct(e)
         THEN Inst(CASE e.reg = 4 -> "BitTest" [] e.reg = 5 -> "BitSet" [] e.reg = 6 -> "BitReset",
                   <<RmField(e, W3264(e)), ZImm(1)>>)
         ELSE Inst("BitTest", <<Mem(W3264(e), {"sib"}), ZImm(1)>>))

MovsxByte(e) ==
    Inst("Movsx", <<RegField(e, W3264(e)),
                       IF Direct(e) THEN RmField(e, 8)
                       ELSE Mem(8, {"sib", "r13Sib", "looseX"})>>)

Cmov(e) ==
    Cond(Inst("Cmov", <<RegField(e, W3264(e)),
                           IF Direct(e) THEN RmField(e, W3264(e))
                           ELSE Mem(W3264(e), {})>>),
         Condition(e.op2 - \h40))

ScanAndMultiply(e) ==
    Inst(CASE e.op2 = \hBC -> "BitScanForward" [] e.op2 = \hBD -> "BitScanReverse"
           [] e.op2 = \hAF -> "Imul", <<RegField(e, W3264(e)),
              IF Direct(e) THEN RmField(e, W3264(e)) ELSE Mem(64, {"rip"})>>)

BitTestReg(e) ==
    Inst(IF e.op2 = \hA3 THEN "BitTest" ELSE "BitSet",
         <<RmField(e, W3264(e)), RegField(e, W3264(e))>>)

DoubleShift(e) ==
    Inst(IF e.op2 = \hA4 THEN "Shld" ELSE "Shrd", <<RmField(e, 64), RegField(e, 64), ZImm(1)>>)

RexEscape(e) ==
    Only(EscapeAdmitted(e),
         CASE e.op2 \in {\hA3, \hAB} -> BitTestReg(e)
           [] e.op2 = \hBA -> BitTestImm(e)
           [] e.op2 = \hBE -> MovsxByte(e)
           [] e.op2 \in CmovOps -> Cmov(e)
           [] e.op2 \in {\hBC, \hBD, \hAF} -> ScanAndMultiply(e)
           [] e.op2 \in {\hA4, \hAC} -> DoubleShift(e))

-----------------------------------------------------------------------------
(* Register and memory forms, by opcode byte *)

Op00(e) ==
    IF Direct(e) THEN Byte2(e, Inst("Add", <<RmField(e, 8), RegField(e, 8)>>))
    ELSE Byte(e, e.reg, Inst("Add", <<Mem(8, {"sib"}), RegField(e, 8)>>))

Op02(e) == Byte(e, e.reg, Inst("Add", <<RegField(e, 8), Mem(8, {"sib", "looseX"})>>))

Op11(e) == Only(Direct(e), Inst("Adc", <<RmField(e, W3264(e)), RegField(e, W3264(e))>>))

Op13(e) ==
    Inst("Adc", <<RegField(e, W3264(e)),
                     IF Direct(e) THEN RmField(e, W3264(e))
                     ELSE Mem(W3264(e), {"rip", "sib"})>>)

Op01(e) ==
    IF Direct(e) THEN Inst("Add", <<RmField(e, W3264(e)), RegField(e, W3264(e))>>)
    ELSE Inst("Add", <<Mem(W163264(e), {"rip", "ripB", "sib", "noBase"}),
                          RegField(e, W163264(e))>>)

Op03(e) ==
    Inst("Add", <<RegField(e, W163264(e)), Mem(W163264(e), {"rip", "sib"})>>)

Op08(e) ==
    IF Direct(e) THEN Byte2(e, Inst("Or", <<RmField(e, 8), RegField(e, 8)>>))
    ELSE Byte(e, e.reg, Inst("Or", <<Mem(8, {"sib", "looseX"}), RegField(e, 8)>>))

Op09(e) ==
    Inst("Or", <<IF Direct(e) THEN RmField(e, W163264(e))
                    ELSE Mem(W163264(e), {"rip", "ripB", "sib", "noBase", "looseX"}),
                    RegField(e, W163264(e))>>)

Op0A(e) ==
    Byte(e, e.reg, Inst("Or", <<RegField(e, 8), Mem(8, {"rip", "ripB", "sib"})>>))

\* Register to register, the branch pushes r/m first.
Op0B(e) ==
    IF Direct(e) THEN Inst("Or", <<RmField(e, W163264(e)), RegField(e, W163264(e))>>)
    ELSE Inst("Or", <<RegField(e, W163264(e)),
                         Mem(W163264(e), {"rip", "ripB", "sib"})>>)

Op2B(e) ==
    Inst("Sub", <<RegField(e, W3264(e)), Mem(W3264(e), {"rip", "r13", "sib"})>>)

Op19(e) ==
    Only(Direct(e) /\ ~X(e) /\ RmField(e, 64) = RegField(e, 64),
         Inst("Sbb", <<RmField(e, W3264(e)), RegField(e, W3264(e))>>))

Op20(e) == Only(Direct(e), Byte2(e, Inst("And", <<RmField(e, 8), RegField(e, 8)>>)))

Op21(e) ==
    Inst("And", <<IF Direct(e) THEN RmField(e, W163264(e))
                     ELSE Mem(W163264(e), {"rip", "ripB", "sib", "noBase", "looseX"}),
                     RegField(e, W163264(e))>>)

Op28(e) ==
    IF Direct(e) THEN Byte2(e, Inst("Sub", <<RmField(e, 8), RegField(e, 8)>>))
    ELSE Byte(e, e.reg, Inst("Sub", <<Mem(8, {"rip", "ripB", "plainSib", "scale1"}),
                                         RegField(e, 8)>>))

Op29(e) ==
    Inst("Sub", <<IF Direct(e) THEN (IF X(e) THEN Error ELSE RmField(e, W3264(e)))
                     ELSE Mem(W3264(e), {"rip", "ripB", "sib", "noBase"}),
                     RegField(e, W3264(e))>>)

Op30(e) == Only(Direct(e), Byte2(e, Inst("Xor", <<RmField(e, 8), RegField(e, 8)>>)))

Op31(e) ==
    Only(Direct(e) /\ ~X(e), Inst("Xor", <<RmField(e, W3264(e)), RegField(e, W3264(e))>>))

Op32(e) == Byte(e, e.reg, Inst("Xor", <<RegField(e, 8), Mem(8, {"sib"})>>))

Op63(e) ==
    Only(W(e), Inst("Movsxd", <<RegField(e, 64),
                                   IF Direct(e) THEN RmField(e, 32)
                                   ELSE Mem(32, {"rip", "sib", "r13Sib"})>>))

Op33(e) ==
    Inst("Xor", <<RegField(e, W163264(e)),
                     IF Direct(e)
                     THEN (IF X(e) \/ "66" \in e.pre THEN Error ELSE RmField(e, W163264(e)))
                     ELSE Mem(W163264(e), {"rip", "sib", "ripX"})>>)

Op38(e) ==
    Only(~W(e),
         IF Direct(e)
         THEN Only(~X(e), Byte2(e, Inst("Cmp", <<RmField(e, 8), RegField(e, 8)>>)))
         ELSE Byte(e, e.reg, Inst("Cmp", <<Mem(8, {"rip", "ripB", "sib"}), RegField(e, 8)>>)))

Op39(e) ==
    LET w == W163264(e)
        absolute == "65" \in e.pre /\ ~Indexed(e)
    IN  Inst("Cmp", <<IF Direct(e) THEN RmField(e, w)
                         ELSE Mem(w, {"rip", "ripB", "sib", "gs"}
                                        \union IF absolute THEN {"noBase"} ELSE {}),
                         RegField(e, w)>>)

\* Mutant: the operands of the /r form the other way round.
Op3ASwapped(e) == Byte(e, e.reg, Inst("Cmp", <<Mem(8, {"sib", "looseX"}), RegField(e, 8)>>))

Op3A(e) == Byte(e, e.reg, Inst("Cmp", <<RegField(e, 8), Mem(8, {"sib", "looseX"})>>))

Op3B(e) ==
    Inst("Cmp", <<RegField(e, W163264(e)),
                     Mem(W163264(e), {"rip", "sib", "noBase", "r13Sib", "gs"})>>)

Op86(e) ==
    Byte(e, e.reg, Inst("Xchg", <<Mem(8, {"rip", "sib", "ripX"}), RegField(e, 8)>>))

Op87(e) ==
    Inst("Xchg", <<Mem(W3264(e), {"rip", "sib", "ripX"}), RegField(e, W3264(e))>>)

Op88(e) ==
    Only(~W(e),
         IF Direct(e) THEN Byte2(e, Inst("Mov", <<RmField(e, 8), RegField(e, 8)>>))
         ELSE Inst("Mov", <<Mem(8, {"rip", "ripB", "sib", "looseX"}),
                               IF LegacyHigh(e, e.reg) THEN HighByte(e.reg - 4)
                               ELSE RegField(e, 8)>>))

Op8A(e) ==
    Only(~W(e), Byte(e, e.reg,
         Inst("Mov", <<RegField(e, 8), Mem(8, {"rip", "ripB", "sib", "looseX"})>>)))

Op89And8B(e) ==
    LET w == W163264(e)
        rm == IF Direct(e) THEN (IF X(e) \/ "65" \in e.pre THEN Error ELSE RmField(e, w))
              ELSE Mem(w, {"rip", "ripB", "sib", "noBase", "looseX", "gs"})
    IN  Inst("Mov", IF e.op = \h89 THEN <<rm, RegField(e, w)>> ELSE <<RegField(e, w), rm>>)

Op22(e) == Byte(e, e.reg, Inst("And", <<RegField(e, 8), Mem(8, {"rip", "sib"})>>))

Op23(e) ==
    Inst("And", <<RegField(e, W3264(e)),
                     Mem(W3264(e), {"rip", "sib"}
                                      \union IF RipForm(e) THEN {} ELSE {"looseX"})>>)

Op84(e) ==
    Byte(e, e.reg,
         IF Direct(e) THEN Byte(e, e.rm, Inst("Test", <<RmField(e, 8), RegField(e, 8)>>))
         ELSE Inst("Test", <<Mem(8, {"rip", "r13", "sib", "noBase", "r13Sib"}),
                                RegField(e, 8)>>))

Op85(e) ==
    Inst("Test", <<IF Direct(e) THEN (IF X(e) THEN Error ELSE RmField(e, W3264(e)))
                      ELSE Mem(W3264(e), {"rip", "r13", "sib", "noBase", "r13Sib"}),
                      RegField(e, W3264(e))>>)

Op8D(e) ==
    Inst("Lea", <<RegField(e, W3264(e)), Mem(64, {"rip", "sib", "noBase"})>>)

-----------------------------------------------------------------------------
(* Shifts *)

OpC0(e) ==
    Only(~W(e) /\ ~R(e) /\ ~X(e) /\ Direct(e) /\ e.reg \in {4, 5},
         Byte(e, e.rm, Inst(IF e.reg = 4 THEN "Shl" ELSE "Shr", <<RmField(e, 8), ZImm(1)>>)))

ShiftName(ext) == CASE ext = 0 -> "Rol" [] ext = 1 -> "Ror" [] ext = 4 -> "Shl"
                    [] ext = 5 -> "Shr" [] ext = 7 -> "Sar"

OpC1(e) ==
    CASE ~Direct(e) /\ e.reg = 5 /\ ~R(e) /\ ~X(e) ->
           Inst("Shr", <<Mem(W3264(e), {}), ZImm(1)>>)
      [] ~Direct(e) /\ e.reg = 4 /\ W(e) -> Inst("Shl", <<Mem(64, {}), ZImm(1)>>)
      [] Direct(e) /\ (e.reg = 7 \/ (e.reg \in {0, 1, 4, 5} /\ ~R(e) /\ ~X(e))) ->
           Inst(ShiftName(e.reg), <<RmField(e, W3264(e)), ZImm(1)>>)
      [] OTHER -> Error

OpD0(e) == Only(Direct(e) /\ e.reg = 5, Byte(e, e.rm, Inst("Shr", <<RmField(e, 8), One>>)))

OpD1(e) ==
    Only(~R(e) /\ ~X(e) /\ Direct(e) /\ e.reg \in {0, 5, 7},
         Inst(ShiftName(e.reg), <<RmField(e, W3264(e)), One>>))

OpD2(e) ==
    Only(Direct(e) /\ e.reg = 4 /\ ~W(e), Byte(e, e.rm, Inst("ShlCl", <<RmField(e, 8)>>)))

OpD3(e) ==
    Only(/\ Direct(e) /\ ~R(e) /\ ~X(e) /\ e.reg \in {0, 1, 4, 5, 7}
         /\ e.reg = 0 => ~W(e)
         /\ e.reg = 1 => W(e),
         Inst(CASE e.reg = 0 -> "RolCl" [] e.reg = 1 -> "RorCl" [] e.reg = 4 -> "ShlCl"
                [] e.reg = 5 -> "ShrCl" [] e.reg = 7 -> "SarCl", <<RmField(e, W3264(e))>>))

-----------------------------------------------------------------------------
(* The groups *)

Plainly(e) == ~R(e) /\ ~X(e)

GroupF7Mem(e) ==
    CASE e.reg = 6 /\ Plainly(e) -> Inst("Div", <<Mem(W3264(e), {})>>)
      [] e.reg \in {4, 5} /\ Plainly(e) ->
           Inst(IF e.reg = 4 THEN "Mul" ELSE "Imul", <<Mem(W3264(e), {})>>)
      [] e.reg = 0 /\ Plainly(e) -> Inst("Test", <<Mem(W3264(e), {}), Imm32(e)>>)
      [] OTHER -> Error

GroupF7Reg(e) ==
    LET w == W163264(e)
    IN  CASE e.reg = 7 -> Only(~W(e) /\ Plainly(e), Inst("Idiv", <<RmField(e, 32)>>))
          [] e.reg = 6 -> Only(Plainly(e), Inst("Div", <<RmField(e, W3264(e))>>))
          [] e.reg = 0 -> Inst("Test", <<RmField(e, w), IF w = 16 THEN ZImm(2) ELSE Imm32(e)>>)
          [] e.reg \in 2 .. 5 ->
               Only(Plainly(e), Inst(<<"Not", "Neg", "Mul", "Imul">>[e.reg - 1], <<RmField(e, w)>>))
          [] OTHER -> Error

OpF7(e) ==
    Only("66" \in e.pre /\ ~W(e) => e.reg \in {0, 3},
         IF Direct(e) THEN GroupF7Reg(e) ELSE GroupF7Mem(e))

OpC6(e) ==
    Only(~Direct(e) /\ e.reg = 0 /\ ~R(e),
         Inst("Mov", <<Mem(8, {"rip", "ripB", "sib"}), ZImm(1)>>))

OpC7(e) ==
    Only(/\ e.reg = 0 /\ ~R(e)
         /\ X(e) => e.rm = 4
         /\ "65" \in e.pre => ~Direct(e),
         Inst("Mov", <<IF Direct(e) THEN RmField(e, W3264(e))
                          ELSE Mem(W3264(e), {"rip", "ripB", "sib", "noBase", "gs"}),
                          Imm32(e)>>))

AluName(ext) == <<"Add", "Or", "Adc", "Sbb", "And", "Sub", "Xor", "Cmp">>[ext + 1]

Group80AddOrReg(e) ==
    Only(~W(e) /\ Plainly(e), Byte(e, e.rm, Inst(AluName(e.reg), <<RmField(e, 8), ZImm(1)>>)))

\* AND and CMP know the legacy high-byte registers.
HighOrLow(e) == IF LegacyHigh(e, e.rm) THEN HighByte(e.rm - 4) ELSE RmField(e, 8)

Group80AndReg(e) == Only(~W(e) /\ Plainly(e), Inst("And", <<HighOrLow(e), ZImm(1)>>))

Group80XorAdcReg(e) ==
    Only(~W(e) /\ Plainly(e), Byte(e, e.rm, Inst(AluName(e.reg), <<RmField(e, 8), ZImm(1)>>)))

Group80Or(e) ==
    Inst("Or", <<Mem(8, {"rip", "ripB", "plainSib", "scale1"}), ZImm(1)>>)

Group80And(e) ==
    Only(~W(e) /\ ~R(e),
         Inst("And", <<Mem(8, {"rip", "ripB", "sib", "noBase"}), ZImm(1)>>))

Group80Cmp(e) ==
    Only(~W(e) /\ ~R(e) /\ (X(e) => e.rm = 4),
         Inst("Cmp",
              <<IF Direct(e) THEN HighOrLow(e) ELSE Mem(8, {"rip", "ripB", "sib"}), ZImm(1)>>))

Op80(e) ==
    CASE Direct(e) /\ e.reg \in {0, 1} -> Group80AddOrReg(e)
      [] Direct(e) /\ e.reg = 4 -> Group80AndReg(e)
      [] Direct(e) /\ e.reg \in {2, 6} -> Group80XorAdcReg(e)
      [] ~Direct(e) /\ e.reg = 1 -> Group80Or(e)
      [] ~Direct(e) /\ e.reg = 4 -> Group80And(e)
      [] e.reg = 7 -> Group80Cmp(e)
      [] OTHER -> Error

Group81Reg(e) ==
    Only(/\ Plainly(e) /\ e.reg # 3
         /\ e.reg = 2 => ~W(e)
         /\ e.reg = 5 => W(e),
         Inst(AluName(e.reg), <<RmField(e, W3264(e)), Imm32(e)>>))

Group81Cmp(e) ==
    Only(~R(e) /\ (RipForm(e) => ~X(e)),
         Inst("Cmp", <<Mem(W3264(e), {"rip", "sib", "looseX"}), Imm32(e)>>))

Group81Logic(e) ==
    Only(~R(e), Inst(AluName(e.reg), <<Mem(W3264(e), {"sib", "looseX"}), Imm32(e)>>))

Op81(e) ==
    CASE Direct(e) -> Group81Reg(e)
      [] ~Direct(e) /\ e.reg = 7 -> Group81Cmp(e)
      [] ~Direct(e) /\ e.reg \in {1, 4} -> Group81Logic(e)
      [] OTHER -> Error

Group83And(e) ==
    Only(~R(e), Inst("And", <<Mem(W3264(e), IF W(e) THEN {"r13", "plainSib", "looseX"}
                                                  ELSE {"rip", "r13", "plainSib", "looseX"}),
                                 SImm(1)>>))

Group83AddOr(e) ==
    Only(~R(e), Inst(AluName(e.reg),
                     <<Mem(W3264(e), {"rip", "r13", "plainSib", "looseX"}), SImm(1)>>))

Group83Sub(e) == Only(~R(e), Inst("Sub", <<decodeModrmMemory(W3264(e)), SImm(1)>>))

Group83Cmp(e) ==
    Only(~R(e), Inst("Cmp", <<Mem(W3264(e), {"rip", "r13", "sib", "looseX"}), SImm(1)>>))

Group83Reg(e) ==
    Only(Plainly(e), Inst(AluName(e.reg), <<RmField(e, W3264(e)), SImm(1)>>))

Op83(e) ==
    CASE Direct(e) -> Group83Reg(e)
      [] ~Direct(e) /\ e.reg = 4 -> Group83And(e)
      [] ~Direct(e) /\ e.reg \in {0, 1} -> Group83AddOr(e)
      [] ~Direct(e) /\ e.reg = 5 -> Group83Sub(e)
      [] ~Direct(e) /\ e.reg = 7 -> Group83Cmp(e)
      [] OTHER -> Error

OpFE(e) ==
    Only(e.reg \in {0, 1},
         IF Direct(e)
         THEN Byte(e, e.rm, Inst(IF e.reg = 0 THEN "Inc" ELSE "Dec", <<RmField(e, 8)>>))
         ELSE Only(~R(e), Inst(IF e.reg = 0 THEN "Inc" ELSE "Dec", <<Mem(8, {"sib"})>>)))

GroupFFInc(e) ==
    Only(~R(e), Inst("Inc", <<Mem(W163264(e), {"rip", "ripB", "sib", "noBase"})>>))

\* With REX.B, r/m 5 takes a displacement but is based on r13.
GroupFFDec(e) ==
    Only(~R(e) /\ (RipForm(e) => ~X(e)),
         Inst("Dec", <<Mem(W3264(e), {"rip", "r13Disp", "sib", "r13Sib"})>>))

GroupFFJmp(e) ==
    Only(Plainly(e) /\ ~(RipForm(e) /\ B(e)),
         Inst("Jmp", <<Mem(64, {"rip", "plainSib", "scale1", "r13Sib"})>>))

GroupFFPush(e) ==
    Only(Plainly(e), Inst("Push", <<Mem(64, {"plainSib", "scale1", "r13Sib"})>>))

GroupFFCall(e) ==
    Only(~R(e) /\ (RipForm(e) => ~X(e) /\ ~B(e)),
         Inst("Call", <<Mem(64, {"rip", "sib", "r13Sib"})>>))

GroupFFReg(e) ==
    Only(Plainly(e),
         CASE e.reg \in {0, 1} -> Inst(IF e.reg = 0 THEN "Inc" ELSE "Dec", <<RmField(e, W3264(e))>>)
           [] e.reg \in {2, 4} -> Inst(IF e.reg = 2 THEN "Call" ELSE "Jmp", <<RmField(e, 64)>>)
           [] OTHER -> Error)

OpFF(e) ==
    Only("66" \in e.pre => e.reg = 0 /\ ~Direct(e),
         CASE Direct(e) -> GroupFFReg(e)
           [] ~Direct(e) /\ e.reg = 0 -> GroupFFInc(e)
           [] ~Direct(e) /\ e.reg = 1 -> GroupFFDec(e)
           [] ~Direct(e) /\ e.reg = 2 -> GroupFFCall(e)
           [] ~Direct(e) /\ e.reg = 4 -> GroupFFJmp(e)
           [] ~Direct(e) /\ e.reg = 6 -> GroupFFPush(e)
           [] OTHER -> Error)

-----------------------------------------------------------------------------
(* The chain of branches, after the admission *)

Branch(e) ==
    CASE e.op = \h0D -> Op0D(e)
      [] e.op = \h24 -> Op24(e)
      [] e.op = \h25 -> Op25(e)
      [] e.op \in {\h34, \h0C, \h1C} -> Op34To1C(e)
      [] e.op \in {\h05, \h2D} -> Op05And2D(e)
      [] e.op \in {\h35, \h3D} -> RaxImm32(e)
      [] e.op = \h98 -> ConvertAcc(e)
      [] e.op \in \hB0 .. \hB7 -> MovByteImm(e)
      [] e.op \in \hB8 .. \hBF -> MovImm(e)
      [] e.op = \h69 -> ImulImm32(e)   [] e.op = \h6B -> ImulImm8(e)
      [] e.op = \h0F -> RexEscape(e)
      [] e.op = \h00 -> Op00(e) [] e.op = \h01 -> Op01(e) [] e.op = \h02 -> Op02(e)
      [] e.op = \h03 -> Op03(e) [] e.op = \h08 -> Op08(e) [] e.op = \h09 -> Op09(e)
      [] e.op = \h0A -> Op0A(e) [] e.op = \h0B -> Op0B(e) [] e.op = \h11 -> Op11(e)
      [] e.op = \h13 -> Op13(e) [] e.op = \h19 -> Op19(e) [] e.op = \h20 -> Op20(e)
      [] e.op = \h21 -> Op21(e) [] e.op = \h22 -> Op22(e) [] e.op = \h23 -> Op23(e)
      [] e.op = \h28 -> Op28(e) [] e.op = \h29 -> Op29(e) [] e.op = \h2B -> Op2B(e)
      [] e.op = \h30 -> Op30(e) [] e.op = \h31 -> Op31(e) [] e.op = \h32 -> Op32(e)
      [] e.op = \h33 -> Op33(e) [] e.op = \h38 -> Op38(e) [] e.op = \h39 -> Op39(e)
      [] e.op = \h3A -> Op3A(e) [] e.op = \h3B -> Op3B(e) [] e.op = \h63 -> Op63(e)
      [] e.op = \h80 -> Op80(e) [] e.op = \h81 -> Op81(e) [] e.op = \h83 -> Op83(e)
      [] e.op = \h84 -> Op84(e) [] e.op = \h85 -> Op85(e) [] e.op = \h86 -> Op86(e)
      [] e.op = \h87 -> Op87(e) [] e.op = \h88 -> Op88(e) [] e.op = \h8A -> Op8A(e)
      [] e.op \in {\h89, \h8B} -> Op89And8B(e)
      [] e.op = \h8D -> Op8D(e) [] e.op = \hC0 -> OpC0(e) [] e.op = \hC1 -> OpC1(e)
      [] e.op = \hC6 -> OpC6(e) [] e.op = \hC7 -> OpC7(e) [] e.op = \hD0 -> OpD0(e)
      [] e.op = \hD1 -> OpD1(e) [] e.op = \hD2 -> OpD2(e) [] e.op = \hD3 -> OpD3(e)
      [] e.op = \hF7 -> OpF7(e) [] e.op = \hFE -> OpFE(e) [] e.op = \hFF -> OpFF(e)
      [] OTHER -> Error

decodeGeneral(e) ==
    Only(e.pre \subseteq {"66", "65"} /\ Admitted(e), Branch(e))
=============================================================================
