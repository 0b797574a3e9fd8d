---------------------------- MODULE DecodePrefixed ----------------------------
(***************************************************************************)
(* The families that are tried before decodeGeneral, without their vector  *)
(* instructions: short forms, operand-size forms, string instructions,     *)
(* control transfers, LOCK and the plain 0F map.  A family answers with an *)
(* instruction, with Error, or with Pass when no branch of it matches.     *)
(***************************************************************************)
EXTENDS Encoding

NoPrefix(e) == e.pre = {} /\ ~e.hasRex
Full == {"rip", "ripB", "sib", "noBase", "looseX"}

-----------------------------------------------------------------------------
(* DecodeScalarSpecial.cpp *)

PushImm(e) == Bare("Push", <<SImm(IF e.op = \h6A THEN 1 ELSE 4)>>)

TestAcc(e) ==
    Bare("Test", IF e.op = \hA8 THEN <<Acc(8), ZImm(1)>> ELSE <<Acc(32), ZImm(4)>>)

\* 66 C1
RolWord(e) ==
    Only(Direct(e) /\ e.reg = 0, Inst("Rol", <<RmField(e, 16), ZImm(1)>>))

\* F6, with GS or a REX byte or both
GroupF6(e) ==
    LET lowByte == Direct(e) /\ ~LegacyHigh(e, e.rm)
    IN  CASE e.reg = 2 /\ lowByte /\ ~R(e) -> Inst("Not", <<RmField(e, 8)>>)
          [] e.reg \in {3, 6} /\ lowByte /\ ~R(e) /\ ~X(e) ->
               Inst(IF e.reg = 3 THEN "Neg" ELSE "Div", <<RmField(e, 8)>>)
          [] e.reg = 0 /\ lowByte -> Inst("Test", <<RmField(e, 8), ZImm(1)>>)
          [] e.reg = 0 /\ ~Direct(e) ->
               Inst("Test", <<Mem(8, Full \union {"gs"}), ZImm(1)>>)
          [] OTHER -> Error

AccShort(e) ==
    Bare(IF e.op = \h04 THEN "Add" ELSE "Cmp",
         IF e.op = \h3D THEN <<Acc(32), ZImm(4)>> ELSE <<Acc(8), ZImm(1)>>)
AccShortLogic(e) == Bare(IF e.op = \h35 THEN "Xor" ELSE "Or", <<Acc(32), ZImm(4)>>)

MovShort(e) ==
    Bare("Mov", IF e.op <= \hB3 THEN <<Reg(e.op - \hB0, 8), ZImm(1)>>
                   ELSE <<Reg(e.op - \hB8, 32), ZImm(4)>>)

PushPopReg(e) ==
    IF e.op < \h58
    THEN Bare("Push", <<Reg(decodeRegister(e.op - \h50, B(e)), 64)>>)
    ELSE Bare("Pop", <<Reg(decodeRegister(e.op - \h58, B(e)), 64)>>)

Leave == Bare("Leave", NoOperands)
Syscall == Bare("Syscall", NoOperands)
Nop == Bare("Nop", NoOperands)
SetDirection(e) == Bare(IF e.op = \hFC THEN "Cld" ELSE "Std", NoOperands)
Counter(e) == Bare(IF e.op2 = \h31 THEN "Rdtsc" ELSE "Cpuid", NoOperands)

\* Padding: any 66 and 2E bytes, a REX byte, 0F 1F /0.
\* Mutant: the padding of a long NOP is not bounded.
LongNopUnbounded(e) ==
    Only(e.reg = 0, Discard(Inst("Nop", <<IF Direct(e) THEN RmField(e, 32) ELSE Mem(32, Full)>>)))

LongNop(e) ==
    LET operand == IF Direct(e) THEN RmField(e, 32) ELSE MemoryForm(e, 32, Full)
    IN  Only(e.reg = 0 /\ operand # Error /\ HeaderLength(e) + 1 + Taken(operand) <= 15,
             Discard(Inst("Nop", <<operand>>)))

Fence(e) == Discard(Inst(IF e.reg = 5 THEN "Lfence" ELSE "Mfence", NoOperands))

Setcc(e) ==
    Only(e.reg = 0 /\ ~(Direct(e) /\ LegacyHigh(e, e.rm)),
         Cond(Inst("Set", <<IF Direct(e) THEN RmField(e, 8) ELSE Mem(8, Full)>>),
              Condition(e.op2 - \h90)))

MovsxWord(e) ==
    Inst("Movsx", <<RegField(e, W3264(e)),
                       IF Direct(e) THEN RmField(e, 16) ELSE Mem(16, Full)>>)

MovsxByteShort(e) ==
    Only(~(Direct(e) /\ e.rm >= 4),
         Inst("Movsx", <<RegField(e, 32),
                            IF Direct(e) THEN RmField(e, 8) ELSE Mem(8, {"sib"})>>))

MovzxByte(e) ==
    Inst("Movzx", <<RegField(e, W3264(e)),
                       IF ~Direct(e) THEN Mem(8, Full \ {"noBase"})
                       ELSE IF LegacyHigh(e, e.rm) THEN HighByte(e.rm - 4)
                       ELSE RmField(e, 8)>>)

MovzxWord(e) ==
    Only(~W(e), Inst("Movzx", <<RegField(e, 32),
                                   IF Direct(e) THEN RmField(e, 16)
                                   ELSE Mem(16, {"sib", "looseX"})>>))

BitScanShort(e) ==
    Only(Direct(e), Inst(IF e.op2 = \hBC THEN "BitScanForward" ELSE "BitScanReverse",
                         <<RegField(e, 32), RmField(e, 32)>>))

Bswap(e) == Bare("Bswap", <<Reg(decodeRegister(e.op2 - \hC8, B(e)), W3264(e))>>)

Escaped(e, ops) == e.pre = {} /\ e.op = \h0F /\ e.op2 \in ops

decodeScalarSpecial(e) ==
    CASE NoPrefix(e) /\ e.op \in {\h6A, \h68} -> PushImm(e)
      [] NoPrefix(e) /\ e.op \in {\hA8, \hA9} -> TestAcc(e)
      [] e.pre = {"66"} /\ ~e.hasRex /\ e.op = \hC1 -> RolWord(e)
      [] e.pre \subseteq {"65"} /\ e.op = \hF6 -> GroupF6(e)
      [] NoPrefix(e) /\ e.op \in {\h04, \h3C, \h3D} -> AccShort(e)
      [] NoPrefix(e) /\ e.op \in {\h35, \h0D} -> AccShortLogic(e)
      [] NoPrefix(e) /\ e.op \in (\hB0 .. \hB3) \union (\hB8 .. \hBF) -> MovShort(e)
      [] e.pre = {} /\ e.op \in \h50 .. \h5F -> PushPopReg(e)
      [] NoPrefix(e) /\ e.op = \hC9 -> Leave
      [] e.pre \subseteq {"66"} /\ ~e.hasRex /\ e.op = \h90 -> Nop
      [] NoPrefix(e) /\ e.op \in {\hFC, \hFD} -> SetDirection(e)
      [] e.pre \subseteq {"66", "2E"} /\ e.op = \h0F /\ e.op2 = \h1F -> LongNop(e)
      [] NoPrefix(e) /\ e.op = \h0F /\ e.op2 = \h05 -> Syscall
      [] NoPrefix(e) /\ e.op = \h0F /\ e.op2 \in {\h31, \hA2} -> Counter(e)
      [] NoPrefix(e) /\ e.op = \h0F /\ e.op2 = \hAE /\ Direct(e)
           /\ <<e.reg, e.rm>> \in {<<5, 0>>, <<6, 0>>} -> Fence(e)
      [] Escaped(e, {\h90 + c : c \in ByteConditions}) -> Setcc(e)
      [] Escaped(e, {\hBF}) -> MovsxWord(e)
      [] Escaped(e, {\hBE}) /\ ~e.hasRex -> MovsxByteShort(e)
      [] Escaped(e, {\hB6}) -> MovzxByte(e)
      [] Escaped(e, {\hB7}) -> MovzxWord(e)
      [] Escaped(e, {\hBC, \hBD}) /\ ~e.hasRex -> BitScanShort(e)
      [] Escaped(e, \hC8 .. \hCF) -> Bswap(e)
      [] OTHER -> Pass

-----------------------------------------------------------------------------
(* DecodeOperandOverride.cpp: word forms behind 66 *)

WordRegReg(e) ==
    IF ~W(e) /\ Direct(e)
    THEN Inst(IF e.op = \h01 THEN "Add" ELSE "Test", <<RmField(e, 16), RegField(e, 16)>>)
    ELSE IF e.op = \h01 THEN Pass ELSE Error

\* The guard reads REX.W and REX.X although its diagnostic names W and R.
WordLogicImm(e) ==
    Only(~W(e) /\ ~X(e) /\ e.reg \in {1, 4, 7},
         Inst(CASE e.reg = 1 -> "Or" [] e.reg = 4 -> "And" [] e.reg = 7 -> "Cmp",
              <<Mem(16, {"sib"}), ZImm(2)>>))

WordShortImm(e) ==
    Only(/\ ~W(e) /\ ~R(e)
         /\ \/ e.reg = 7 \/ (e.reg \in {3, 4} /\ Direct(e)) \/ (e.reg = 1 /\ ~Direct(e)),
         Inst(CASE e.reg = 1 -> "Or" [] e.reg = 3 -> "Sbb" [] e.reg = 4 -> "And" [] e.reg = 7 -> "Cmp",
              <<IF Direct(e) THEN RmField(e, 16) ELSE Mem(16, {"sib", "looseX"}), SImm(1)>>))

WordIncDec(e) ==
    Only(e.reg \in {0, 1},
         Inst(IF e.reg = 0 THEN "Inc" ELSE "Dec",
              <<IF Direct(e) THEN RmField(e, 16) ELSE Mem(16, {})>>))

WordStore(e) ==
    Only(~W(e), Inst("Mov", <<Mem(16, {"rip", "ripB", "sib"}), RegField(e, 16)>>))

WordStoreImm(e) ==
    Only(~W(e) /\ ~R(e) /\ e.reg = 0,
         Inst("Mov", <<Mem(16, {"rip", "ripB", "sib", "r13Sib"}), ZImm(2)>>))

decodeOperandOverride(e) ==
    IF e.pre # {"66"} THEN Pass
    ELSE CASE e.op \in {\h01, \h85} -> WordRegReg(e)
           [] e.op = \h81 -> WordLogicImm(e)
           [] e.op = \h83 -> WordShortImm(e)
           [] e.op = \hFF /\ ~e.hasRex -> WordIncDec(e)
           [] e.op = \h89 -> WordStore(e)
           [] e.op = \hC7 -> WordStoreImm(e)
           [] OTHER -> Pass

-----------------------------------------------------------------------------
(* DecodeRepeat.cpp: string instructions *)

RepMovsb(e) == Bare("RepMovsb", NoOperands)

RepStos(e) ==
    Only(e.rex \subseteq {"W"},
         Bare(IF e.op = \hAA THEN "RepStosb" ELSE IF W(e) THEN "RepStosq" ELSE "RepStosd", NoOperands))

decodeRepeat(e) ==
    CASE e.pre = {"F3"} /\ e.op = \hA4 /\ ~e.hasRex -> RepMovsb(e)
      [] e.pre = {"F3"} /\ e.op \in {\hAA, \hAB} -> RepStos(e)
      [] OTHER -> Pass

-----------------------------------------------------------------------------
(* DecodeControlTransfer.cpp *)

Relative32(e) == Bare(IF e.op = \hE8 THEN "Call" ELSE "Jmp", <<SImm(4)>>)

Relative8(e) ==
    IF e.op = \hEB THEN Bare("Jmp", <<SImm(1)>>)
    ELSE Cond(Bare("Jcc", <<SImm(1)>>), Condition(e.op - \h70))

decodeControlTransfer(e) ==
    CASE NoPrefix(e) /\ e.op \in {\hE8, \hE9} -> Relative32(e)
      [] NoPrefix(e) /\ e.op = \hEB -> Relative8(e)
      [] e.pre \subseteq {"2E"} /\ ~e.hasRex /\ e.op \in \h70 .. \h7F -> Relative8(e)
      [] OTHER -> Pass

-----------------------------------------------------------------------------
(* DecodeAtomic.cpp: LOCK *)

LockAddQword(e) ==
    Inst("LockAdd", <<Mem(64, {"rip", "ripB", "looseX"}), RegField(e, 64)>>)

LockName(ext) == IF ext = 1 THEN "LockOr" ELSE "LockAnd"

LockWordImm(e) ==
    Only(~W(e) /\ e.reg \in {1, 4},
         Inst(LockName(e.reg), <<Mem(16, {"plainSib", "looseX"}),
                                    IF e.op = \h83 THEN SImm(1) ELSE ZImm(2)>>))

\* The four bytes of opcode 81 are not sign extended, whatever the width.
LockImm(e) ==
    Only(~R(e) /\ ~X(e) /\ (e.op = \h80 => ~W(e)) /\ e.reg \in {1, 4},
         Inst(LockName(e.reg),
              <<Mem(IF e.op = \h80 THEN 8 ELSE W3264(e), {"rip", "plainSib"}),
                IF e.op = \h81 THEN ZImm(4) ELSE SImm(1)>>))

LockIncDecShort(e) ==
    Only(e.reg \in {0, 1},
         Inst(IF e.reg = 0 THEN "LockInc" ELSE "LockDec", <<Mem(32, {"rip"})>>))

LockCmpxchg16b(e) ==
    Only(e.reg = 1, Inst("Cmpxchg16b", <<Mem(128, {"rip", "looseX"})>>))

\* An index of 4 is no index here, REX.X or not.
LockXadd(e) ==
    LET w == IF "66" \in e.pre THEN 16 ELSE W3264(e)
    IN  Inst("LockXadd", <<Mem(w, {"rip", "sib", "noR12"}), RegField(e, w)>>)

LockIncDec(e) ==
    Only(e.reg \in {0, 1} /\ ~R(e) /\ ~X(e),
         Inst(IF e.reg = 0 THEN "LockInc" ELSE "LockDec",
              <<Mem(W3264(e), {"rip", "plainSib"})>>))

LockAddOr(e) ==
    Only(~X(e), Inst(IF e.op = \h01 THEN "LockAdd" ELSE "LockOr",
                     <<Mem(W3264(e), {"rip"}), RegField(e, W3264(e))>>))

LockBts(e) ==
    Only(e.reg = 5 /\ ~R(e) /\ ~X(e),
         Inst("LockBts", <<Mem(W3264(e), {"rip", "sib"}), ZImm(1)>>))

Cmpxchg(e) ==
    LET w == IF e.op2 = \hB0 THEN 8 ELSE W3264(e)
    IN  Only(e.op2 = \hB0 => ~W(e),
             Inst("Cmpxchg", <<Mem(w, {"rip", "sib", "noBase", "r13Sib"}),
                                  IF w = 8 /\ LegacyHigh(e, e.reg) THEN HighByte(e.reg - 4)
                                  ELSE RegField(e, w)>>))

decodeAtomic(e) ==
    CASE e.pre = {"66", "F0"} /\ e.op \in {\h81, \h83} -> LockWordImm(e)
      [] e.pre \in {{"F0"}, {"66", "F0"}} /\ e.op = \h0F /\ e.op2 = \hC1 -> LockXadd(e)
      [] e.pre = {"F0"} /\ W(e) /\ e.op = \h01 -> LockAddQword(e)
      [] e.pre = {"F0"} /\ e.op \in {\h80, \h81, \h83} -> LockImm(e)
      [] e.pre = {"F0"} /\ ~e.hasRex /\ e.op = \hFF -> LockIncDecShort(e)
      [] e.pre = {"F0"} /\ W(e) /\ e.op = \h0F /\ e.op2 = \hC7 -> LockCmpxchg16b(e)
      [] e.pre = {"F0"} /\ e.hasRex /\ e.op = \hFF -> LockIncDec(e)
      [] e.pre = {"F0"} /\ (e.op = \h09 \/ (e.op = \h01 /\ ~W(e))) -> LockAddOr(e)
      [] e.pre = {"F0"} /\ e.op = \h0F /\ e.op2 = \hBA -> LockBts(e)
      [] e.pre = {"F0"} /\ e.op = \h0F /\ e.op2 \in {\hB0, \hB1} -> Cmpxchg(e)
      [] "F0" \notin e.pre -> Pass
      [] OTHER -> Error

-----------------------------------------------------------------------------
(* DecodeExtended.cpp: 0F without prefix or REX, and 66 B8+r *)

Sidt(e) == Only(e.reg = 1, Inst("Sidt", <<Mem(80, {"plainSib", "scale1"})>>))

BitTestShort(e) ==
    Only(Direct(e), Inst("BitTest", <<RmField(e, 32), RegField(e, 32)>>))

BitTestImmShort(e) ==
    Only(e.reg = 4, Inst("BitTest", <<IF Direct(e) THEN RmField(e, 32)
                                         ELSE Mem(32, {}), ZImm(1)>>))

CmovShort(e) ==
    Cond(Inst("Cmov", <<RegField(e, 32),
                           IF Direct(e) THEN RmField(e, 32)
                           ELSE Mem(32, {"rip", "sib", "noBase"})>>),
         Condition(e.op2 - \h40))

ImulShort(e) ==
    Inst("Imul", <<RegField(e, 32),
                      IF Direct(e) THEN RmField(e, 32) ELSE Mem(32, {"rip", "sib"})>>)

JccRelative32(e) == Cond(Bare("Jcc", <<SImm(4)>>), Condition(e.op2 - \h80))

MovWordImm(e) ==
    Bare("Mov", <<Reg(decodeRegister(e.op - \hB8, B(e)), 16), ZImm(2)>>)

decodeExtended(e) ==
    CASE NoPrefix(e) /\ e.op = \h0F /\ e.op2 = \h01 -> Sidt(e)
      [] NoPrefix(e) /\ e.op = \h0F /\ e.op2 = \hA3 -> BitTestShort(e)
      [] NoPrefix(e) /\ e.op = \h0F /\ e.op2 = \hBA -> BitTestImmShort(e)
      [] NoPrefix(e) /\ e.op = \h0F /\ e.op2 \in CmovOps -> CmovShort(e)
      [] NoPrefix(e) /\ e.op = \h0F /\ e.op2 = \hAF -> ImulShort(e)
      [] NoPrefix(e) /\ e.op = \h0F /\ e.op2 \in \h80 .. \h8F -> JccRelative32(e)
      [] NoPrefix(e) /\ e.op = \h0F
           /\ e.op2 \notin {\h01, \hA3, \hBA, \hAF} \union CmovOps \union (\h80 .. \h8F) -> Error
      [] e.pre = {"66"} /\ ~W(e) /\ e.op \in \hB8 .. \hBF -> MovWordImm(e)
      [] OTHER -> Pass
=============================================================================
