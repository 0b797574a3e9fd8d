------------------------------ MODULE Encoding ------------------------------
(***************************************************************************)
(* The bytes of one x86 instruction as the decoder sees them, and the      *)
(* pieces every family of the decoder shares (DecodeInternal.h).           *)
(*                                                                         *)
(* An encoding is a record: the legacy prefixes `pre' (a subset of         *)
(* {"66","65","F3","F2","F0","2E"}; 66 stands before 65), whether there is *)
(* a REX byte and its bits, the opcode byte `op' (and `op2', `op3' behind  *)
(* the 0F escape), the fields of ModRM and SIB.  Displacements and         *)
(* immediates are known by their size only: which bytes they hold does not *)
(* steer the decoder, how many it takes does.  `pad' counts 66 bytes       *)
(* beyond the first.  Behind a VEX escape (op C4 or C5) op2 is the opcode, *)
(* op3 the map of C4, and vl, pp and v are the L, pp and (decoded) vvvv    *)
(* fields; the inverted R, X and B bits stand in rex.                      *)
(***************************************************************************)
EXTENDS Integers, Sequences, FiniteSets

\* Bits that extend registers stand in a REX byte or behind a VEX escape, of which C5
\* has only R.
Encodings ==
    {e \in [pre : SUBSET {"66", "65", "F3", "F2", "F0", "2E"}, pad : Nat,
            hasRex : BOOLEAN, rex : SUBSET {"W", "R", "X", "B"},
            op : 0 .. 255, op2 : 0 .. 255, op3 : 0 .. 255,
            mod : 0 .. 3, reg : 0 .. 7, rm : 0 .. 7, ss : 0 .. 3, index : 0 .. 7, base : 0 .. 7,
            vl : 0 .. 1, pp : 0 .. 3, v : 0 .. 15] :
        /\ e.rex # {} => e.hasRex \/ e.op \in {\hC4, \hC5}
        /\ e.pad > 0 => "66" \in e.pre
        /\ e.op = \hC5 => e.rex \subseteq {"R"}}

\* What comes of an encoding that is no instruction: DecodeError was thrown, or
\* this family does not know it.
Error == [op |-> "Error"]
Pass == [op |-> "Pass"]

W(e) == "W" \in e.rex
R(e) == "R" \in e.rex
X(e) == "X" \in e.rex
B(e) == "B" \in e.rex

\* The operand widths: 32 bits, 64 under REX.W, and 16 under the 66 prefix
\* where a family looks at it.
W3264(e) == IF W(e) THEN 64 ELSE 32
W163264(e) == IF W(e) THEN 64 ELSE IF "66" \in e.pre THEN 16 ELSE 32

Direct(e) == e.mod = 3
RipForm(e) == e.mod = 0 /\ e.rm = 5
SibForm(e) == e.mod # 3 /\ e.rm = 4
NoBaseForm(e) == SibForm(e) /\ e.mod = 0 /\ e.base = 5
Indexed(e) == SibForm(e) /\ (e.index # 4 \/ X(e))

\* Without a REX byte the byte registers 4..7 are AH, CH, DH and BH.
LegacyHigh(e, enc) == ~e.hasRex /\ enc >= 4

-----------------------------------------------------------------------------
(* Operands *)

decodeRegister(lowBits, bit) == lowBits + IF bit THEN 8 ELSE 0

Reg(r, w) == [k |-> "reg", r |-> r, w |-> w, hi |-> FALSE]
HighByte(r) == [k |-> "reg", r |-> r, w |-> 8, hi |-> TRUE]
Xmm(r) == [k |-> "xmm", r |-> r]
RegField(e, w) == Reg(decodeRegister(e.reg, R(e)), w)
RmField(e, w) == Reg(decodeRegister(e.rm, B(e)), w)
XmmField(e) == Xmm(decodeRegister(e.reg, R(e)))
XmmRm(e) == Xmm(decodeRegister(e.rm, B(e)))
Acc(w) == Reg(0, w)

\* An immediate of n bytes, sign or zero extended by the decoder.
SImm(n) == [k |-> "imm", n |-> n, ext |-> "sign"]
ZImm(n) == [k |-> "imm", n |-> n, ext |-> "zero"]
\* 32 bits that become 64 under REX.W and stay 32 otherwise.
Imm32(e) == IF W(e) THEN SImm(4) ELSE ZImm(4)
\* The constant one of the shift-by-one forms takes no bytes.
One == [k |-> "imm", n |-> 0, ext |-> "zero"]

\* What an address may start from beside the sixteen registers.
Rip == 16
None == 17

\* A memory operand: `at' is the base, Rip or None, and the operand took `n'
\* bytes behind ModRM.
Address(at, index, scale, disp, w, seg, n) ==
    [k |-> "mem", at |-> at, index |-> index, scale |-> scale,
     disp |-> disp, w |-> w, seg |-> seg, n |-> n]

DispOf(e) == CASE e.mod = 1 -> 1 [] e.mod = 2 -> 4 [] OTHER -> 0

(***************************************************************************)
(* The memory form of ModRM, as the families decode it inline.  They       *)
(* differ in what they accept, which the policy p lists:                   *)
(*   "rip"      [rip+disp32] while REX.B is clear, "ripB" whatever REX.B;  *)
(*   "r13"      mode 0, r/m 5 under REX.B is [r13], without displacement;  *)
(*   "sib"      a SIB byte; "plainSib" one without an index, "scale1" also *)
(*              without a scale;                                           *)
(*   "noBase"   [index*scale+disp32]; "r13Sib" under REX.B it is           *)
(*              [r13+index*scale], without displacement;                   *)
(*   "r13Disp"  mode 0, r/m 5 under REX.B is [r13+disp32];                 *)
(*   "noR12"    index 4 is no index, REX.X or not;                         *)
(*   "looseX"   REX.X without a SIB byte is ignored, "ripX" with RIP only; *)
(*   "gs"       the operand carries the GS override.                       *)
(* Whatever is not accepted throws.  A branch asks for the operand by its  *)
(* width and policy; `MemoryForm' is what becomes of it.                   *)
(***************************************************************************)
Mem(w, p) == [k |-> "form", w |-> w, p |-> p]

MemoryForm(e, w, p) ==
    LET seg == IF "gs" \in p /\ "65" \in e.pre THEN "gs" ELSE "none"
        sib == IF SibForm(e) THEN 1 ELSE 0
        indexed == Indexed(e) /\ ("noR12" \in p => e.index # 4)
        idx == IF indexed THEN decodeRegister(e.index, X(e)) ELSE None
        scale == IF indexed THEN 2 ^ e.ss ELSE 1
        base == decodeRegister(IF SibForm(e) THEN e.base ELSE e.rm, B(e))
        Based(d) == Address(base, idx, scale, d, w, seg, sib + d)
        xOk == \/ ~X(e) \/ SibForm(e) \/ "looseX" \in p
               \/ RipForm(e) /\ "ripX" \in p /\ ~(B(e) /\ "r13" \in p)
        sibOk == \/ "sib" \in p
                 \/ /\ "plainSib" \in p
                    /\ ~Indexed(e)
                    /\ "scale1" \in p => e.ss = 0
    IN  CASE Direct(e) \/ ~xOk -> Error
          [] ~Direct(e) /\ xOk /\ RipForm(e) ->
               IF (B(e) /\ "ripB" \in p) \/ (~B(e) /\ "rip" \in p)
               THEN Address(Rip, None, 1, 4, w, seg, 4)
               ELSE IF B(e) /\ "r13" \in p THEN Based(0)
               ELSE IF B(e) /\ "r13Disp" \in p THEN Based(4) ELSE Error
          [] xOk /\ SibForm(e) /\ ~sibOk -> Error
          [] xOk /\ SibForm(e) /\ sibOk /\ NoBaseForm(e) ->
               IF B(e) /\ "r13Sib" \in p THEN Based(0)
               ELSE IF "noBase" \in p
               THEN Address(None, idx, scale, 4, w, seg, 5) ELSE Error
          [] OTHER -> Based(DispOf(e))

\* decodeModrmMemory, the shared decoder of the newer forms.
decodeModrmMemory(w) == Mem(w, {"rip", "ripB", "sib", "noBase", "looseX"})

-----------------------------------------------------------------------------
(* Instructions *)

Escape(e) ==
    CASE e.op = \hC4 -> 4
      [] e.op = \hC5 -> 3
      [] e.op = \h0F -> IF e.op2 \in {\h38, \h3A} THEN 3 ELSE 2
      [] OTHER -> 1

\* Prefixes, REX and opcode bytes.
HeaderLength(e) ==
    Cardinality(e.pre) + e.pad + (IF e.hasRex THEN 1 ELSE 0) + Escape(e)

\* The bytes behind the opcode and ModRM; an instruction has up to three operands.
Taken(a) == IF a.k \in {"mem", "imm"} THEN a.n ELSE 0
TakenAt(args, i) == IF i \in DOMAIN args THEN Taken(args[i]) ELSE 0
TakenBy(args) == TakenAt(args, 1) + TakenAt(args, 2) + TakenAt(args, 3)

NoOperands == <<>>

\* An instruction as a branch makes it: mnemonic, operands, condition, and
\* whether a ModRM byte stands before the operands (`Bare' has none).
Made(op, args, cc, modrm, kept) ==
    [op |-> op, args |-> args, cc |-> cc, modrm |-> modrm, kept |-> kept]
Bare(op, args) == Made(op, args, "none", 0, TRUE)
Inst(op, args) == Made(op, args, "none", 1, TRUE)
\* The operand is skipped over.
Discard(d) == Made(d.op, d.args, d.cc, d.modrm, FALSE)
Cond(d, cc) == Made(d.op, d.args, cc, d.modrm, d.kept)

\* The instruction with its operands in place and its length, or Error when
\* an operand is not accepted or no family knows the encoding.
Complete(e, d, args) ==
    IF \E i \in DOMAIN args : args[i] = Error THEN Error
    ELSE [op |-> d.op, args |-> IF d.kept THEN args ELSE NoOperands, cc |-> d.cc,
          len |-> HeaderLength(e) + d.modrm + TakenBy(args)]
Placed(e, a) == IF a # Error /\ a.k = "form" THEN MemoryForm(e, a.w, a.p) ELSE a
Decoded(e, d) ==
    IF d \in {Error, Pass} THEN Error
    ELSE Complete(e, d, [i \in DOMAIN d.args |-> Placed(e, d.args[i])])

\* The conditions of Jcc, SETcc and CMOVcc by their low four bits, and the
\* twelve that the last two support.
Condition(low) ==
    <<"Overflow", "NotOverflow", "Below", "AboveOrEqual", "Equal", "NotEqual",
      "BelowOrEqual", "Above", "Sign", "NotSign", "ParityEven", "ParityOdd",
      "Less", "GreaterOrEqual", "LessOrEqual", "Greater">>[low + 1]
ByteConditions == {0} \union (2 .. 9) \union (\hC .. \hF)
CmovOps == {\h40 + c : c \in ByteConditions}

\* Accepts d only where the family's guard holds.
Only(guard, d) == IF guard THEN d ELSE Error
=============================================================================
