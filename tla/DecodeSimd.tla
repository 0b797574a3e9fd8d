------------------------------ MODULE DecodeSimd ------------------------------
(***************************************************************************)
(* The vector instructions of the decoder, one definition per branch of    *)
(* the source: DecodeVex, DecodeSimdLanes, DecodeSimdMemory and the vector *)
(* branches of DecodeScalarSpecial, DecodeOperandOverride and              *)
(* DecodeRepeat.                                                           *)
(***************************************************************************)
EXTENDS Encoding

\* The mandatory prefix (none, 66, F2 or F3) and the escape selects a branch.
Coded(e, pre, ops) == e.pre = pre /\ e.op = \h0F /\ e.op2 \in ops
Coded38(e, op) == e.pre = {"66"} /\ e.op = \h0F /\ e.op2 = \h38 /\ e.op3 = op
Coded3A(e, op) == e.pre = {"66"} /\ e.op = \h0F /\ e.op2 = \h3A /\ e.op3 = op

NoWX(e) == ~W(e) /\ ~X(e)
XmmOrMem(e, w, p) == IF Direct(e) THEN XmmRm(e) ELSE Mem(w, p)
RegisterOnly(name, e) == Only(Direct(e) /\ NoWX(e), Inst(name, <<XmmField(e), XmmRm(e)>>))

-----------------------------------------------------------------------------
(* DecodeScalarSpecial.cpp *)

Movlhps(e) == Inst("Movlhps", <<XmmField(e), XmmOrMem(e, 64, {"rip", "looseX"})>>)
Xorps(e) == Inst("Xorps", <<XmmField(e), XmmOrMem(e, 128, {"rip"})>>)

(* DecodeOperandOverride.cpp *)

\* 66 0F 14 and 66 0F 15 are taken for the single-precision unpacks.
Unpcklps(e) == Only(NoWX(e), Inst("Unpcklps", <<XmmField(e), XmmOrMem(e, 128, {"rip"})>>))
Haddpd(e) == Only(NoWX(e), Inst("Haddpd", <<XmmField(e), XmmOrMem(e, 128, {"rip"})>>))
Unpckhps(e) == Only(NoWX(e), Inst("Unpckhps", <<XmmField(e), XmmOrMem(e, 128, {"rip"})>>))

PackedArithmetic == {\h51, \h58, \h59, \h5C, \h5E}
PackedDouble(e) ==
    Only(NoWX(e),
         Inst(CASE e.op2 = \h51 -> "Sqrtpd" [] e.op2 = \h58 -> "Addpd" [] e.op2 = \h59 -> "Mulpd"
                [] e.op2 = \h5C -> "Subpd" [] e.op2 = \h5E -> "Divpd",
                    <<XmmField(e), XmmOrMem(e, 128, {"rip"})>>))

Xorpd(e) == RegisterOnly("Xorpd", e)

MovdLoad(e) ==
    IF Direct(e) THEN Inst(IF W(e) THEN "Movq" ELSE "Movd", <<XmmField(e), RmField(e, W3264(e))>>)
    ELSE Only(~W(e), Inst("Movd", <<XmmField(e), Mem(32, {"rip", "ripB", "sib", "looseX"})>>))

MovdStore(e) ==
    IF Direct(e) THEN Inst(IF W(e) THEN "Movq" ELSE "Movd", <<RmField(e, W3264(e)), XmmField(e)>>)
    ELSE Only(~W(e), Inst("Movd", <<Mem(32, {"rip", "ripB", "sib", "looseX"}), XmmField(e)>>))

-----------------------------------------------------------------------------
(* DecodeSimdLanes.cpp *)

Pshufb(e) ==
    Only(~W(e), Inst("Pshufb", <<XmmField(e), IF Direct(e) THEN XmmRm(e)
                                                 ELSE decodeModrmMemory(128)>>))
Phaddd(e) == RegisterOnly("Phaddd", e)
Pmovzxbd(e) == RegisterOnly("Pmovzxbd", e)

\* Sign extensions whose source is RIP-relative.
PmovsxRip(e) ==
    Only(RipForm(e) /\ ~W(e) /\ ~X(e) /\ ~B(e),
         IF e.op3 = \h22 THEN Inst("Pmovsxbq", <<XmmField(e), Mem(16, {"rip"})>>)
         ELSE Inst("Pmovsxbd", <<XmmField(e), Mem(32, {"rip"})>>))

Pmovsxdq(e) ==
    Only(NoWX(e) /\ (Direct(e) \/ RipForm(e)),
         Inst("Pmovsxdq", <<XmmField(e), XmmOrMem(e, 64, {"rip"})>>))

Pcmpeqq(e) == Only(NoWX(e), Inst("Pcmpeqq", <<XmmField(e), XmmOrMem(e, 128, {"rip"})>>))
Blendvpd(e) == RegisterOnly("Blendvpd", e)

Pinsrw(e) ==
    IF Direct(e)
    THEN Only(~(~e.hasRex /\ e.rm >= 4),
              Inst("Pinsrw", <<XmmField(e), RmField(e, W3264(e)), ZImm(1)>>))
    ELSE Only(NoWX(e), Inst("Pinsrw", <<XmmField(e), Mem(16, {}), ZImm(1)>>))

Pextrw(e) ==
    Only(~W(e) /\ Direct(e), Inst("Pextrw", <<RegField(e, 32), XmmRm(e), ZImm(1)>>))

Extractps(e) == Inst("Extractps", <<Mem(32, {"plainSib"}), XmmField(e), ZImm(1)>>)
Ptest(e) == Only(Direct(e), Inst("Ptest", <<XmmField(e), XmmRm(e)>>))

Cmppd(e) == Only(Direct(e) /\ NoWX(e), Inst("Cmppd", <<XmmField(e), XmmRm(e), ZImm(1)>>))
Paddw(e) == RegisterOnly("Paddw", e)

PackedShift(e) ==
    LET name == CASE e.op2 = \h72 /\ e.reg = 2 -> "Psrld"
                  [] e.op2 = \h72 /\ e.reg = 6 /\ ~R(e) -> "Pslld"
                  [] e.op2 = \h73 /\ e.reg = 2 /\ ~R(e) -> "Psrlq"
                  [] e.op2 = \h73 /\ e.reg = 3 -> "Psrldq"
                  [] e.op2 = \h73 /\ e.reg = 7 -> "Pslldq"
                  [] OTHER -> "none"
    IN  Only(Direct(e) /\ NoWX(e) /\ name # "none", Inst(name, <<XmmRm(e), ZImm(1)>>))

PackedAdd(e) ==
    IF e.op2 = \hD4 THEN RegisterOnly("Paddq", e)
    ELSE Only(NoWX(e), Inst("Paddd", <<XmmField(e), XmmOrMem(e, 128, {"rip", "r13"})>>))

Punpckl(e) == RegisterOnly(IF e.op2 = \h61 THEN "Punpcklwd" ELSE "Punpcklqdq", e)
Por(e) == Only(Direct(e), Inst("Por", <<XmmField(e), XmmRm(e)>>))

Pxor(e) == Inst("Pxor", <<XmmField(e), XmmOrMem(e, 128, {"rip", "ripB", "looseX"})>>)
Pandn(e) == Only(Direct(e), Inst("Pandn", <<XmmField(e), XmmRm(e)>>))
Pand(e) == Inst("Pand", <<XmmField(e), XmmOrMem(e, 128, {"rip"})>>)
Pcmpeqb(e) == Inst("Pcmpeqb", <<XmmField(e), XmmOrMem(e, 128, {})>>)
Pcmpeqd(e) == RegisterOnly("Pcmpeqd", e)
Pshufd(e) == Only(Direct(e), Inst("Pshufd", <<XmmField(e), XmmRm(e), ZImm(1)>>))

\* 0F 2E without a prefix is taken for the double compare, 66 0F 2E for the
\* single one.
Ucomisd(e) == RegisterOnly("Ucomisd", e)
Ucomiss(e) ==
    Only(~W(e), Inst("Ucomiss", <<XmmField(e), XmmOrMem(e, 32, {"rip", "r13", "sib", "ripX"})>>))

Shufps(e) == Only(Direct(e) /\ NoWX(e), Inst("Shufps", <<XmmField(e), XmmRm(e), ZImm(1)>>))
Movmsk(e) ==
    Only(Direct(e) /\ NoWX(e),
         Inst(IF e.pre = {} THEN "Movmskps" ELSE "Movmskpd", <<RegField(e, 32), XmmRm(e)>>))
Shufpd(e) == Only(Direct(e), Inst("Shufpd", <<XmmField(e), XmmRm(e), ZImm(1)>>))
MovqStore(e) == Inst("Movq", <<Mem(64, {"rip", "sib", "looseX"}), XmmField(e)>>)

decodeSimdLanes(e) ==
    CASE Coded38(e, \h00) -> Pshufb(e)
      [] Coded38(e, \h02) -> Phaddd(e)
      [] Coded38(e, \h31) -> Pmovzxbd(e)
      [] Coded38(e, \h22) \/ Coded38(e, \h21) -> PmovsxRip(e)
      [] Coded38(e, \h25) -> Pmovsxdq(e)
      [] Coded38(e, \h29) -> Pcmpeqq(e)
      [] Coded38(e, \h15) -> Blendvpd(e)
      [] Coded(e, {"66"}, {\hC4}) -> Pinsrw(e)
      [] Coded(e, {"66"}, {\hC5}) -> Pextrw(e)
      [] Coded3A(e, \h17) /\ ~e.hasRex -> Extractps(e)
      [] Coded38(e, \h17) /\ ~e.hasRex -> Ptest(e)
      [] Coded(e, {"66"}, {\hC2}) -> Cmppd(e)
      [] Coded(e, {"66"}, {\hFD}) -> Paddw(e)
      [] Coded(e, {"66"}, {\h72, \h73}) -> PackedShift(e)
      [] Coded(e, {"66"}, {\hFE, \hD4}) -> PackedAdd(e)
      [] Coded(e, {"66"}, {\h61, \h6C}) -> Punpckl(e)
      [] Coded(e, {"66"}, {\hEB}) -> Por(e)
      [] Coded(e, {"66"}, {\hEF}) -> Pxor(e)
      [] Coded(e, {"66"}, {\hDF}) /\ ~e.hasRex -> Pandn(e)
      [] Coded(e, {"66"}, {\hDB}) /\ ~e.hasRex -> Pand(e)
      [] Coded(e, {"66"}, {\h74}) /\ ~e.hasRex -> Pcmpeqb(e)
      [] Coded(e, {"66"}, {\h76}) -> Pcmpeqd(e)
      [] Coded(e, {"66"}, {\h70}) /\ ~e.hasRex -> Pshufd(e)
      [] Coded(e, {}, {\h2E}) -> Ucomisd(e)
      [] Coded(e, {"66"}, {\h2E}) -> Ucomiss(e)
      [] Coded(e, {}, {\hC6}) -> Shufps(e)
      [] Coded(e, {}, {\h50}) \/ Coded(e, {"66"}, {\h50}) -> Movmsk(e)
      [] Coded(e, {"66"}, {\hC6}) -> Shufpd(e)
      [] Coded(e, {"66"}, {\hD6}) -> MovqStore(e)
      [] OTHER -> Pass

-----------------------------------------------------------------------------
(* DecodeSimdMemory.cpp *)

\* Loads put the register first, stores the memory operand.
LoadStore(name, e, load, m) ==
    Inst(name, IF load THEN <<XmmField(e), m>> ELSE <<m, XmmField(e)>>)

Movsd(e) == LoadStore("Movsd", e, e.op2 = \h10, Mem(64, {"rip", "ripB", "sib", "ripX"}))
Movlps(e) == LoadStore("Movlps", e, e.op2 = \h12, Mem(64, {"rip", "ripB", "sib", "ripX"}))

Cvttsd2si(e) ==
    Inst("Cvttsd2si", <<RegField(e, W3264(e)), XmmOrMem(e, 64, {"rip", "looseX"})>>)
Cvtsi2sd(e) ==
    Inst("Cvtsi2sd", <<XmmField(e), IF Direct(e) THEN RmField(e, W3264(e))
                                       ELSE Mem(W3264(e), {"rip", "looseX"})>>)

\* F2 0F 5A is taken for the widening conversion.
Cvtss2sd(e) ==
    Inst("Cvtss2sd", <<XmmField(e), XmmOrMem(e, 32, {"rip", "r13", "sib", "ripX"})>>)

ScalarArithmetic == {\h51, \h58, \h59} \union (\h5C .. \h5F)
ScalarDouble(e) ==
    Inst(CASE e.op2 = \h51 -> "Sqrtsd" [] e.op2 = \h58 -> "Addsd" [] e.op2 = \h59 -> "Mulsd"
           [] e.op2 = \h5C -> "Subsd" [] e.op2 = \h5D -> "Minsd" [] e.op2 = \h5F -> "Maxsd"
           [] e.op2 = \h5E -> "Divsd", <<XmmField(e), XmmOrMem(e, 64, {"rip", "looseX"})>>)

Movddup(e) == Only(NoWX(e), Inst("Movddup", <<XmmField(e), XmmOrMem(e, 64, {"rip"})>>))
Cvtdq2pd(e) == Inst("Cvtdq2pd", <<XmmField(e), XmmOrMem(e, 64, {"rip", "sib", "ripX"})>>)

Movss(e) ==
    IF Direct(e)
    THEN Only(~X(e), LoadStore("Movss", e, e.op2 = \h10, XmmRm(e)))
    ELSE LoadStore("Movss", e, e.op2 = \h10, Mem(32, {"rip", "sib", "ripX"}))

\* As in LOCK XADD an index of 4 is no index, REX.X or not.
MovqLoad(e) ==
    Inst("Movq", <<XmmField(e), Mem(64, {"rip", "ripB", "sib", "noBase", "looseX", "noR12"})>>)

Pmovmskb(e) == Only(Direct(e), Inst("Pmovmskb", <<RegField(e, 32), XmmRm(e)>>))

AlignedStore(e) ==
    Inst(IF e.pre = {} THEN "Movaps" ELSE "Movapd",
         <<Mem(128, {"rip", "ripB", "sib", "looseX"}), XmmField(e)>>)
UnalignedStore(e) ==
    Inst("Movups", <<Mem(128, {"rip", "ripB", "sib", "looseX"}), XmmField(e)>>)
VectorLoad(e) ==
    Inst(CASE Direct(e) -> IF e.pre = {} THEN "Movaps" ELSE "Movapd"
           [] ~Direct(e) /\ e.op2 = \h10 -> "Movups"
           [] OTHER -> IF e.pre = {} THEN "Movaps" ELSE "Movapd",
               <<XmmField(e), XmmOrMem(e, 128, {"rip", "ripB", "sib", "looseX"})>>)

\* The general register is read from the reg field, the vector from r/m.
Pextrd(e) == Only(Direct(e), Inst("Pextrd", <<RegField(e, 32), XmmRm(e), ZImm(1)>>))
Pblendw(e) == Only(Direct(e), Inst("Pblendw", <<XmmField(e), XmmRm(e), ZImm(1)>>))

Pinsrd(e) ==
    IF e.hasRex
    THEN Only(Direct(e), Inst("Pinsrd", <<XmmField(e), RmField(e, W3264(e)), ZImm(1)>>))
    ELSE Inst("Pinsrd", <<XmmField(e), IF Direct(e) THEN RmField(e, 32) ELSE Mem(32, {}), ZImm(1)>>)

Pinsrb(e) ==
    Only(~W(e), Inst("Pinsrb", <<XmmField(e),
                                    IF Direct(e) THEN RmField(e, 32) ELSE Mem(8, {"looseX"}),
                                    ZImm(1)>>))
Palignr(e) == Only(Direct(e), Inst("Palignr", <<XmmField(e), XmmRm(e), ZImm(1)>>))
MovdqaStore(e) == Inst("Movdqa", <<Mem(128, {"sib"}), XmmField(e)>>)

\* With REX.B, r/m 5 takes a displacement but is based on r13.
MovdqaLoadRex(e) ==
    Only(NoWX(e) /\ ~Direct(e), Inst("Movdqa", <<XmmField(e), Mem(128, {"rip", "r13Disp"})>>))
MovdqaLoad(e) == Inst("Movdqa", <<XmmField(e), XmmOrMem(e, 128, {"rip", "sib"})>>)

decodeSimdMemory(e) ==
    CASE Coded(e, {"F2"}, {\h10, \h11}) -> Movsd(e)
      [] Coded(e, {}, {\h12, \h13}) -> Movlps(e)
      [] Coded(e, {"F2"}, {\h2C}) -> Cvttsd2si(e)
      [] Coded(e, {"F2"}, {\h2A}) -> Cvtsi2sd(e)
      [] Coded(e, {"F2"}, {\h5A}) -> Cvtss2sd(e)
      [] Coded(e, {"F2"}, ScalarArithmetic) -> ScalarDouble(e)
      [] Coded(e, {"F2"}, {\h12}) -> Movddup(e)
      [] Coded(e, {"F3"}, {\hE6}) -> Cvtdq2pd(e)
      [] Coded(e, {"F3"}, {\h10, \h11}) -> Movss(e)
      [] Coded(e, {"F3"}, {\h7E}) -> IF Direct(e) THEN Error ELSE MovqLoad(e)
      [] Coded(e, {"66"}, {\hD7}) /\ ~e.hasRex -> Pmovmskb(e)
      [] Coded(e, {}, {\h29}) \/ Coded(e, {"66"}, {\h29}) -> AlignedStore(e)
      [] Coded(e, {}, {\h11}) \/ Coded(e, {"66"}, {\h11}) -> UnalignedStore(e)
      [] Coded(e, {}, {\h10, \h28}) \/ Coded(e, {"66"}, {\h10, \h28}) -> VectorLoad(e)
      [] Coded3A(e, \h16) /\ ~e.hasRex -> Pextrd(e)
      [] Coded3A(e, \h0E) /\ ~e.hasRex -> Pblendw(e)
      [] Coded3A(e, \h22) -> Pinsrd(e)
      [] Coded3A(e, \h20) -> Pinsrb(e)
      [] Coded3A(e, \h0F) /\ ~e.hasRex -> Palignr(e)
      [] Coded(e, {"66"}, {\h7F}) /\ ~e.hasRex -> MovdqaStore(e)
      [] Coded(e, {"66"}, {\h6F}) -> IF e.hasRex THEN MovdqaLoadRex(e) ELSE MovdqaLoad(e)
      [] OTHER -> Pass

-----------------------------------------------------------------------------
(* DecodeRepeat.cpp *)

MovdquStore(e) ==
    IF e.hasRex
    THEN Only(~W(e), Inst("Movdqu", <<Mem(128, {"r13", "sib"}), XmmField(e)>>))
    ELSE Inst("Movdqu", <<Mem(128, {"rip", "sib"}), XmmField(e)>>)
MovdquLoad(e) ==
    Inst("Movdqu", <<XmmField(e), Mem(128, {"rip", "ripB", "sib", "looseX"})>>)

\* The vector branches of the three families that hold other ones too.
decodeSimdShort(e) ==
    CASE Coded(e, {}, {\h16}) -> Movlhps(e)
      [] Coded(e, {}, {\h57}) /\ ~e.hasRex -> Xorps(e)
      [] Coded(e, {"66"}, {\h14}) -> Unpcklps(e)
      [] Coded(e, {"66"}, {\h7C}) -> Haddpd(e)
      [] Coded(e, {"66"}, {\h15}) -> Unpckhps(e)
      [] Coded(e, {"66"}, PackedArithmetic) -> PackedDouble(e)
      [] Coded(e, {"66"}, {\h57}) -> Xorpd(e)
      [] Coded(e, {"66"}, {\h6E}) -> MovdLoad(e)
      [] Coded(e, {"66"}, {\h7E}) -> MovdStore(e)
      [] Coded(e, {"F3"}, {\h7F}) -> MovdquStore(e)
      [] Coded(e, {"F3"}, {\h6F}) -> MovdquLoad(e)
      [] OTHER -> Pass

-----------------------------------------------------------------------------
(* DecodeVex.cpp *)

Vbroadcastss(e) ==
    Only(e.op3 = 2 /\ e.op2 = \h18 /\ ~W(e) /\ e.vl = 1 /\ e.pp = 1 /\ e.v = 0 /\ ~X(e) /\ Direct(e),
         Inst("Vbroadcastss", <<XmmField(e), XmmRm(e)>>))

Vzeroupper(e) ==
    Only(~R(e) /\ e.v = 0 /\ e.vl = 0 /\ e.pp = 0, Bare("Vzeroupper", NoOperands))

Vxorps(e) ==
    Only(e.pp = 0 /\ Direct(e),
         Inst(IF e.vl = 1 THEN "VxorpsYmm" ELSE "Vxorps",
              <<XmmField(e), Xmm(e.v), XmmRm(e)>>))

Vmov(e) ==
    LET name == CASE e.op2 \in {\h28, \h29} -> "VmovapsYmm"
                  [] OTHER -> IF e.vl = 1 THEN "VmovupsYmm" ELSE "Vmovups"
        m == Mem(IF e.vl = 1 THEN 256 ELSE 128, {"rip", "sib"})
    IN  Only((e.op2 \in {\h28, \h29} => e.vl = 1) /\ e.pp = 0 /\ e.v = 0,
             Inst(name, IF e.op2 \in {\h10, \h28} THEN <<XmmField(e), m>> ELSE <<m, XmmField(e)>>))

decodeVex(e) ==
    CASE e.pre = {} /\ ~e.hasRex /\ e.op = \hC4 -> Vbroadcastss(e)
      [] e.pre = {} /\ ~e.hasRex /\ e.op = \hC5 ->
           CASE e.op2 = \h77 -> Vzeroupper(e)
             [] e.op2 = \h57 -> Vxorps(e)
             [] e.op2 \in {\h10, \h11, \h28, \h29} -> Vmov(e)
             [] OTHER -> Error
      [] OTHER -> Pass
=============================================================================
