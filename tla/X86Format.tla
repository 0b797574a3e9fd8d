------------------------------ MODULE X86Format ------------------------------
(***************************************************************************)
(* What the x86-64 architecture makes of an encoding: the reference the    *)
(* decoder is compared with.  It is written from the regular structure of  *)
(* the opcode map (eight arithmetic rows of six columns, groups selected   *)
(* by ModRM.reg, one addressing form for every instruction), where the     *)
(* decoder has one branch per opcode.  `Undefined' is an encoding this     *)
(* reference says nothing of.                                              *)
(***************************************************************************)
EXTENDS Encoding

Undefined == [op |-> "Undefined"]

\* The low bit of an opcode tells the byte form from the others.
Width(e) == IF e.op % 2 = 0 THEN 8 ELSE W163264(e)

\* Every memory operand is formed alike, whichever instruction it is for:
\* REX.B does not change what r/m 5 and SIB base 5 mean under mode 0, and
\* REX.X only matters to a SIB byte.
MemoryOperand(e, w) ==
    LET seg == IF "65" \in e.pre THEN "gs" ELSE "none"
        sib == e.rm = 4
        idx == IF sib /\ (X(e) \/ e.index # 4) THEN e.index + (IF X(e) THEN 8 ELSE 0) ELSE None
        scale == IF idx = None THEN 1 ELSE 2 ^ e.ss
        low == IF sib THEN e.base ELSE e.rm
        wide == e.mod = 2 \/ (e.mod = 0 /\ low = 5)
        disp == IF wide THEN 4 ELSE e.mod
        at == CASE e.mod = 0 /\ low = 5 /\ sib -> None
                [] e.mod = 0 /\ low = 5 /\ ~sib -> Rip
                [] OTHER -> low + (IF B(e) THEN 8 ELSE 0)
    IN  Address(at, idx, scale, disp, w, seg, disp + (IF sib THEN 1 ELSE 0))

Memory(w) == [k |-> "form", w |-> w]

GeneralReg(e, low, extended, w) ==
    IF w = 8 /\ ~e.hasRex /\ low >= 4 THEN HighByte(low - 4)
    ELSE Reg(low + (IF extended THEN 8 ELSE 0), w)
G(e, w) == GeneralReg(e, e.reg, R(e), w)
E(e, w) == IF e.mod = 3 THEN GeneralReg(e, e.rm, B(e), w) ELSE Memory(w)
M(e, w) == IF e.mod = 3 THEN Error ELSE Memory(w)
V(e) == Xmm(e.reg + (IF R(e) THEN 8 ELSE 0))
U(e, w) == IF e.mod = 3 THEN Xmm(e.rm + (IF B(e) THEN 8 ELSE 0)) ELSE Memory(w)
OpReg(e, low, w) == GeneralReg(e, low, B(e), w)

\* Immediates are as wide as the operand up to 32 bits, and sign extended.
ImmZ(w) == SImm(CASE w = 8 -> 1 [] w = 16 -> 2 [] OTHER -> 4)
Count == ZImm(1)

-----------------------------------------------------------------------------
(* The one-byte map *)

Row(n) == <<"Add", "Or", "Adc", "Sbb", "And", "Sub", "Xor", "Cmp">>[n + 1]
ShiftGroup == <<"Rol", "Ror", "Rcl", "Rcr", "Shl", "Shr", "Shl", "Sar">>
ShiftClGroup == <<"RolCl", "RorCl", "RclCl", "RcrCl", "ShlCl", "ShrCl", "ShlCl", "SarCl">>

Arithmetic(e) ==
    LET w == Width(e)
        name == Row(e.op \div 8)
    IN  CASE e.op % 8 \in {0, 1} -> Inst(name, <<E(e, w), G(e, w)>>)
          [] e.op % 8 \in {2, 3} -> Inst(name, <<G(e, w), E(e, w)>>)
          [] OTHER -> Bare(name, <<Acc(w), ImmZ(w)>>)

ImmediateGroup(e) ==
    LET w == Width(e)
    IN  Inst(Row(e.reg), <<E(e, w), IF e.op = \h81 THEN ImmZ(w) ELSE SImm(1)>>)

Unary(e) ==
    LET w == Width(e)
    IN  IF e.reg < 2 THEN Inst("Test", <<E(e, w), ImmZ(w)>>)
        ELSE Inst(<<"Not", "Neg", "Mul", "Imul", "Div", "Idiv">>[e.reg - 1], <<E(e, w)>>)

IncDecGroup(e) ==
    LET w == Width(e)
    IN  CASE e.reg \in {0, 1} -> Inst(<<"Inc", "Dec">>[e.reg + 1], <<E(e, w)>>)
          [] e.op = \hFF /\ e.reg \in {2, 4, 6} ->
               Inst(CASE e.reg = 2 -> "Call" [] e.reg = 4 -> "Jmp" [] e.reg = 6 -> "Push",
                    <<E(e, 64)>>)
          [] OTHER -> Undefined

Shift(e) ==
    LET w == Width(e)
    IN  CASE e.op \in {\hC0, \hC1} -> Inst(ShiftGroup[e.reg + 1], <<E(e, w), Count>>)
          [] e.op \in {\hD0, \hD1} -> Inst(ShiftGroup[e.reg + 1], <<E(e, w), One>>)
          [] OTHER -> Inst(ShiftClGroup[e.reg + 1], <<E(e, w)>>)

OneByte(e) ==
    LET w == Width(e)
    IN  CASE e.op < \h40 /\ e.op % 8 < 6 -> Arithmetic(e)
          [] e.op \in \h50 .. \h57 -> Bare("Push", <<OpReg(e, e.op - \h50, 64)>>)
          [] e.op \in \h58 .. \h5F -> Bare("Pop", <<OpReg(e, e.op - \h58, 64)>>)
          [] e.op = \h63 -> Inst("Movsxd", <<G(e, w), E(e, 32)>>)
          [] e.op = \h68 -> Bare("Push", <<SImm(4)>>)
          [] e.op = \h6A -> Bare("Push", <<SImm(1)>>)
          [] e.op = \h69 -> Inst("Imul", <<G(e, w), E(e, w), ImmZ(w)>>)
          [] e.op = \h6B -> Inst("Imul", <<G(e, W163264(e)), E(e, W163264(e)), SImm(1)>>)
          [] e.op \in \h70 .. \h7F -> Cond(Bare("Jcc", <<SImm(1)>>), Condition(e.op % 16))
          [] e.op \in {\h80, \h81, \h83} -> ImmediateGroup(e)
          [] e.op \in {\h84, \h85} -> Inst("Test", <<E(e, w), G(e, w)>>)
          [] e.op \in {\h86, \h87} -> Inst("Xchg", <<E(e, w), G(e, w)>>)
          [] e.op \in {\h88, \h89} -> Inst("Mov", <<E(e, w), G(e, w)>>)
          [] e.op \in {\h8A, \h8B} -> Inst("Mov", <<G(e, w), E(e, w)>>)
          [] e.op = \h8D -> Inst("Lea", <<G(e, w), M(e, 64)>>)
          [] e.op = \h90 -> IF B(e) THEN Undefined ELSE Bare("Nop", NoOperands)
          [] e.op = \h98 -> Bare(IF W(e) THEN "Cdqe" ELSE "Cwde", NoOperands)
          [] e.op \in {\hA8, \hA9} -> Bare("Test", <<Acc(w), ImmZ(w)>>)
          [] e.op \in \hB0 .. \hB7 -> Bare("Mov", <<OpReg(e, e.op - \hB0, 8), SImm(1)>>)
          [] e.op \in \hB8 .. \hBF ->
               Bare("Mov", <<OpReg(e, e.op - \hB8, W163264(e)), SImm(W163264(e) \div 8)>>)
          [] e.op \in {\hC0, \hC1} \union (\hD0 .. \hD3) -> Shift(e)
          [] e.op \in {\hC6, \hC7} /\ e.reg = 0 -> Inst("Mov", <<E(e, w), ImmZ(w)>>)
          [] e.op = \hC3 -> Bare("Ret", NoOperands)
          [] e.op = \hC9 -> Bare("Leave", NoOperands)
          [] e.op = \hE8 -> Bare("Call", <<SImm(4)>>)
          [] e.op = \hE9 -> Bare("Jmp", <<SImm(4)>>)
          [] e.op = \hEB -> Bare("Jmp", <<SImm(1)>>)
          [] e.op \in {\hF6, \hF7} -> Unary(e)
          [] e.op = \hFC -> Bare("Cld", NoOperands)
          [] e.op = \hFD -> Bare("Std", NoOperands)
          [] e.op \in {\hFE, \hFF} -> IncDecGroup(e)
          [] OTHER -> Undefined

Strings(e) ==
    CASE e.op = \hA4 -> Bare("RepMovsb", NoOperands)
      [] e.op = \hAA -> Bare("RepStosb", NoOperands)
      [] e.op = \hAB -> Bare(IF W(e) THEN "RepStosq" ELSE "RepStosd", NoOperands)
      [] OTHER -> Undefined

-----------------------------------------------------------------------------
(* The 0F map: general-purpose instructions *)

BitGroup == <<"BitTest", "BitSet", "BitReset", "BitComplement">>

TwoByte(e) ==
    LET w == W163264(e)
    IN  CASE e.op2 = \h01 /\ e.reg = 1 -> Inst("Sidt", <<M(e, 80)>>)
          [] e.op2 = \h05 -> Bare("Syscall", NoOperands)
          [] e.op2 = \h1F -> Discard(Inst("Nop", <<E(e, w)>>))
          [] e.op2 = \h31 -> Bare("Rdtsc", NoOperands)
          [] e.op2 \in \h40 .. \h4F ->
               Cond(Inst("Cmov", <<G(e, w), E(e, w)>>), Condition(e.op2 % 16))
          [] e.op2 \in \h80 .. \h8F -> Cond(Bare("Jcc", <<SImm(4)>>), Condition(e.op2 % 16))
          [] e.op2 \in \h90 .. \h9F -> Cond(Inst("Set", <<E(e, 8)>>), Condition(e.op2 % 16))
          [] e.op2 = \hA2 -> Bare("Cpuid", NoOperands)
          [] e.op2 \in {\hA3, \hAB} ->
               Inst(IF e.op2 = \hA3 THEN "BitTest" ELSE "BitSet", <<E(e, w), G(e, w)>>)
          [] e.op2 = \hA4 -> Inst("Shld", <<E(e, w), G(e, w), Count>>)
          [] e.op2 = \hAC -> Inst("Shrd", <<E(e, w), G(e, w), Count>>)
          [] e.op2 = \hAE /\ Direct(e) /\ e.reg = 5 -> Inst("Lfence", NoOperands)
          [] e.op2 = \hAE /\ Direct(e) /\ e.reg = 6 -> Inst("Mfence", NoOperands)
          [] e.op2 = \hAF -> Inst("Imul", <<G(e, w), E(e, w)>>)
          [] e.op2 = \hB0 -> Inst("Cmpxchg", <<E(e, 8), G(e, 8)>>)
          [] e.op2 = \hB1 -> Inst("Cmpxchg", <<E(e, w), G(e, w)>>)
          [] e.op2 = \hB6 -> Inst("Movzx", <<G(e, w), E(e, 8)>>)
          [] e.op2 = \hB7 -> Inst("Movzx", <<G(e, w), E(e, 16)>>)
          [] e.op2 = \hBE -> Inst("Movsx", <<G(e, w), E(e, 8)>>)
          [] e.op2 = \hBF -> Inst("Movsx", <<G(e, w), E(e, 16)>>)
          [] e.op2 = \hBA /\ e.reg >= 4 -> Inst(BitGroup[e.reg - 3], <<E(e, w), Count>>)
          [] e.op2 = \hBC -> Inst("BitScanForward", <<G(e, w), E(e, w)>>)
          [] e.op2 = \hBD -> Inst("BitScanReverse", <<G(e, w), E(e, w)>>)
          [] e.op2 = \hC1 -> Inst("Xadd", <<E(e, w), G(e, w)>>)
          [] e.op2 = \hC7 /\ e.reg = 1 /\ W(e) -> Inst("Cmpxchg16b", <<M(e, 128)>>)
          [] e.op2 \in \hC8 .. \hCF -> Bare("Bswap", <<OpReg(e, e.op2 - \hC8, w)>>)
          [] OTHER -> Undefined

\* The LOCK prefix names the atomic form of the same instruction.
Locked(d) ==
    LET plain == <<"Add", "Or", "And", "Inc", "Dec", "Xadd", "BitSet">>
        atomic == <<"LockAdd", "LockOr", "LockAnd", "LockInc", "LockDec", "LockXadd", "LockBts">>
    IN  IF d = Error \/ d = Undefined THEN d
        ELSE IF d.op \in {"Cmpxchg", "Cmpxchg16b"} THEN d
        ELSE IF \E i \in DOMAIN plain : plain[i] = d.op
        THEN Made(atomic[CHOOSE i \in DOMAIN plain : plain[i] = d.op], d.args, d.cc, d.modrm, d.kept)
        ELSE Undefined

-----------------------------------------------------------------------------
(* The vector map: the mandatory prefix chooses the instruction *)

VU(name, e, w) == Inst(name, <<V(e), U(e, w)>>)
Moves(name, e, load, w) == Inst(name, IF load THEN <<V(e), U(e, w)>> ELSE <<U(e, w), V(e)>>)

VectorPlain(e) ==
    CASE e.op2 \in {\h10, \h28} /\ Direct(e) -> VU("Movaps", e, 128)
      [] e.op2 = \h11 \/ (e.op2 = \h10 /\ ~Direct(e)) -> Moves("Movups", e, e.op2 = \h10, 128)
      [] e.op2 = \h29 \/ (e.op2 = \h28 /\ ~Direct(e)) -> Moves("Movaps", e, e.op2 = \h28, 128)
      [] e.op2 \in {\h12, \h13} -> Moves("Movlps", e, e.op2 = \h12, 64)
      [] e.op2 = \h16 -> VU("Movlhps", e, 64)
      [] e.op2 = \h2E -> VU("Ucomiss", e, 32)
      [] e.op2 = \h50 -> Inst("Movmskps", <<G(e, 32), U(e, 128)>>)
      [] e.op2 = \h57 -> VU("Xorps", e, 128)
      [] e.op2 = \hC6 -> Inst("Shufps", <<V(e), U(e, 128), Count>>)
      [] OTHER -> Undefined

Vector38(e) ==
    CASE e.op3 = \h00 -> VU("Pshufb", e, 128)     [] e.op3 = \h02 -> VU("Phaddd", e, 128)
      [] e.op3 = \h15 -> VU("Blendvpd", e, 128)   [] e.op3 = \h17 -> VU("Ptest", e, 128)
      [] e.op3 = \h21 -> VU("Pmovsxbd", e, 32)    [] e.op3 = \h22 -> VU("Pmovsxbq", e, 16)
      [] e.op3 = \h25 -> VU("Pmovsxdq", e, 64)    [] e.op3 = \h29 -> VU("Pcmpeqq", e, 128)
      [] e.op3 = \h31 -> VU("Pmovzxbd", e, 32)    [] OTHER -> Undefined

Vector3A(e) ==
    CASE e.op3 = \h0E -> Inst("Pblendw", <<V(e), U(e, 128), Count>>)
      [] e.op3 = \h0F -> Inst("Palignr", <<V(e), U(e, 128), Count>>)
      [] e.op3 = \h16 -> Inst("Pextrd", <<E(e, W3264(e)), V(e), Count>>)
      [] e.op3 = \h17 -> Inst("Extractps", <<E(e, 32), V(e), Count>>)
      [] e.op3 = \h20 -> Inst("Pinsrb", <<V(e), E(e, IF Direct(e) THEN 32 ELSE 8), Count>>)
      [] e.op3 = \h22 -> Inst("Pinsrd", <<V(e), E(e, W3264(e)), Count>>)
      [] OTHER -> Undefined

PackedShiftGroup(e) ==
    CASE e.op2 = \h72 /\ e.reg = 2 -> "Psrld"   [] e.op2 = \h72 /\ e.reg = 6 -> "Pslld"
      [] e.op2 = \h73 /\ e.reg = 2 -> "Psrlq"   [] e.op2 = \h73 /\ e.reg = 3 -> "Psrldq"
      [] e.op2 = \h73 /\ e.reg = 6 -> "Psllq"   [] e.op2 = \h73 /\ e.reg = 7 -> "Pslldq"
      [] OTHER -> "Undefined"

Vector66(e) ==
    CASE e.op2 = \h38 -> Vector38(e)
      [] e.op2 = \h3A -> Vector3A(e)
      [] e.op2 \in {\h10, \h28} /\ Direct(e) -> VU("Movapd", e, 128)
      [] e.op2 = \h11 \/ (e.op2 = \h10 /\ ~Direct(e)) -> Moves("Movups", e, e.op2 = \h10, 128)
      [] e.op2 = \h29 \/ (e.op2 = \h28 /\ ~Direct(e)) -> Moves("Movapd", e, e.op2 = \h28, 128)
      [] e.op2 = \h14 -> VU("Unpcklpd", e, 128)   [] e.op2 = \h15 -> VU("Unpckhpd", e, 128)
      [] e.op2 = \h2E -> VU("Ucomisd", e, 64)
      [] e.op2 = \h50 -> Inst("Movmskpd", <<G(e, 32), U(e, 128)>>)
      [] e.op2 = \h51 -> VU("Sqrtpd", e, 128)     [] e.op2 = \h57 -> VU("Xorpd", e, 128)
      [] e.op2 = \h58 -> VU("Addpd", e, 128)      [] e.op2 = \h59 -> VU("Mulpd", e, 128)
      [] e.op2 = \h5C -> VU("Subpd", e, 128)      [] e.op2 = \h5E -> VU("Divpd", e, 128)
      [] e.op2 = \h61 -> VU("Punpcklwd", e, 128)  [] e.op2 = \h6C -> VU("Punpcklqdq", e, 128)
      [] e.op2 = \h6E -> Inst(IF W(e) THEN "Movq" ELSE "Movd", <<V(e), E(e, W3264(e))>>)
      [] e.op2 = \h7E -> Inst(IF W(e) THEN "Movq" ELSE "Movd", <<E(e, W3264(e)), V(e)>>)
      [] e.op2 \in {\h6F, \h7F} -> Moves("Movdqa", e, e.op2 = \h6F, 128)
      [] e.op2 = \h70 -> Inst("Pshufd", <<V(e), U(e, 128), Count>>)
      [] e.op2 \in {\h72, \h73} -> Inst(PackedShiftGroup(e), <<U(e, 128), Count>>)
      [] e.op2 = \h74 -> VU("Pcmpeqb", e, 128)    [] e.op2 = \h76 -> VU("Pcmpeqd", e, 128)
      [] e.op2 = \h7C -> VU("Haddpd", e, 128)
      [] e.op2 = \hC2 -> Inst("Cmppd", <<V(e), U(e, 128), Count>>)
      [] e.op2 = \hC4 -> Inst("Pinsrw", <<V(e), E(e, IF Direct(e) THEN W3264(e) ELSE 16), Count>>)
      [] e.op2 = \hC5 -> Inst("Pextrw", <<G(e, 32), U(e, 128), Count>>)
      [] e.op2 = \hC6 -> Inst("Shufpd", <<V(e), U(e, 128), Count>>)
      [] e.op2 = \hD4 -> VU("Paddq", e, 128)      [] e.op2 = \hD6 -> Moves("Movq", e, FALSE, 64)
      [] e.op2 = \hD7 -> Inst("Pmovmskb", <<G(e, 32), U(e, 128)>>)
      [] e.op2 = \hDB -> VU("Pand", e, 128)       [] e.op2 = \hDF -> VU("Pandn", e, 128)
      [] e.op2 = \hEB -> VU("Por", e, 128)        [] e.op2 = \hEF -> VU("Pxor", e, 128)
      [] e.op2 = \hFD -> VU("Paddw", e, 128)      [] e.op2 = \hFE -> VU("Paddd", e, 128)
      [] OTHER -> Undefined

VectorF2(e) ==
    CASE e.op2 \in {\h10, \h11} -> Moves("Movsd", e, e.op2 = \h10, 64)
      [] e.op2 = \h12 -> VU("Movddup", e, 64)     [] e.op2 = \h5A -> VU("Cvtsd2ss", e, 64)
      [] e.op2 = \h2A -> Inst("Cvtsi2sd", <<V(e), E(e, W3264(e))>>)
      [] e.op2 = \h2C -> Inst("Cvttsd2si", <<G(e, W3264(e)), U(e, 64)>>)
      [] e.op2 = \h51 -> VU("Sqrtsd", e, 64)      [] e.op2 = \h58 -> VU("Addsd", e, 64)
      [] e.op2 = \h59 -> VU("Mulsd", e, 64)       [] e.op2 = \h5C -> VU("Subsd", e, 64)
      [] e.op2 = \h5D -> VU("Minsd", e, 64)       [] e.op2 = \h5E -> VU("Divsd", e, 64)
      [] e.op2 = \h5F -> VU("Maxsd", e, 64)       [] OTHER -> Undefined

VectorF3(e) ==
    CASE e.op2 \in {\h10, \h11} -> Moves("Movss", e, e.op2 = \h10, 32)
      [] e.op2 \in {\h6F, \h7F} -> Moves("Movdqu", e, e.op2 = \h6F, 128)
      [] e.op2 = \h5A -> VU("Cvtss2sd", e, 32)    [] e.op2 = \h7E -> VU("Movq", e, 64)
      [] e.op2 = \hE6 -> VU("Cvtdq2pd", e, 64)    [] OTHER -> Undefined

Vex(e) ==
    LET w == IF e.vl = 1 THEN 256 ELSE 128
        Sized(narrow, wide) == IF e.vl = 1 THEN wide ELSE narrow
    IN  CASE e.op = \hC4 /\ e.op3 = 2 /\ e.op2 = \h18 /\ e.vl = 1 /\ e.pp = 1 ->
               VU("Vbroadcastss", e, 32)
          [] e.op = \hC5 /\ e.op2 = \h77 /\ e.vl = 0 /\ e.pp = 0 -> Bare("Vzeroupper", NoOperands)
          [] e.op = \hC5 /\ e.pp = 0 /\ e.op2 = \h57 ->
               Inst(Sized("Vxorps", "VxorpsYmm"), <<V(e), Xmm(e.v), U(e, w)>>)
          [] e.op = \hC5 /\ e.pp = 0 /\ e.v = 0 /\ e.op2 \in {\h10, \h11} ->
               Moves(Sized("Vmovups", "VmovupsYmm"), e, e.op2 = \h10, w)
          [] e.op = \hC5 /\ e.pp = 0 /\ e.v = 0 /\ e.op2 \in {\h28, \h29} ->
               Moves(Sized("Vmovaps", "VmovapsYmm"), e, e.op2 = \h28, w)
          [] OTHER -> Undefined

-----------------------------------------------------------------------------
(* Any encoding *)

\* An immediate at least as wide as its operand is not extended.
Normal(d) ==
    IF d = Error \/ d = Undefined \/ d.args = NoOperands THEN d
    ELSE LET first == d.args[1]
             Whole(a) == first.k \in {"reg", "mem"} /\ a.k = "imm" /\ 8 * a.n >= first.w
         IN  [op |-> d.op, cc |-> d.cc, len |-> d.len,
              args |-> [i \in DOMAIN d.args |->
                  IF Whole(d.args[i]) THEN ZImm(d.args[i].n) ELSE d.args[i]]]

Meaning(e) ==
    LET mandatory == e.pre \intersect {"66", "F2", "F3"}
        scalar == IF e.op = \h0F THEN TwoByte(e) ELSE OneByte(e)
        vector == CASE mandatory = {"66"} -> Vector66(e) [] mandatory = {"F2"} -> VectorF2(e)
                    [] mandatory = {"F3"} -> VectorF3(e) [] OTHER -> VectorPlain(e)
    IN  IF e.op \in {\hC4, \hC5} THEN Vex(e)
        ELSE IF "F0" \in e.pre THEN Locked(scalar)
        ELSE IF e.op = \h0F /\ e.op2 # \h1F /\ vector # Undefined THEN vector
        ELSE IF "F3" \in e.pre THEN Strings(e)
        ELSE IF "F2" \in e.pre THEN Undefined
        ELSE scalar

Formed(e, d) ==
    IF d \in {Error, Undefined} THEN d
    ELSE Complete(e, d, [i \in DOMAIN d.args |->
             IF d.args[i] # Error /\ d.args[i].k = "form" THEN MemoryOperand(e, d.args[i].w)
             ELSE d.args[i]])

Architecture(e) == Normal(Formed(e, Meaning(e)))
=============================================================================
