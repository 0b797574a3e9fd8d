---------------------- MODULE DecoderInstructionProofs ----------------------
(***************************************************************************)
(* What Decoder::decodeInstruction makes of one instruction, for every     *)
(* encoding: it is what the architecture defines, or one of the            *)
(* misdecodings known by name. There is a lemma for every branch of the    *)
(* decoder; each compares the operands the branch names with the ones of   *)
(* the architecture's tables, under the conditions that lead to the        *)
(* branch.                                                                 *)
(***************************************************************************)
EXTENDS Decoder, FiniteSetTheorems, WellFoundedInduction, TLAPS

\* An operand as the architecture's tables name it, its addressing form filled in.
FormOf(e, b) == IF b # Error /\ b.k = "form" THEN MemoryOperand(e, b.w) ELSE b

\* What a branch recognised as d is rejected, or is what the architecture defines for e.
Same(e, d) == Decoded(e, d) = Error \/ Normal(Decoded(e, d)) = Architecture(e)

\* The decoder's operand a is rejected, or is the operand b of the architecture.
Fits(e, a, b) == Placed(e, a) = Error \/ Placed(e, a) = FormOf(e, b)

\* The first operand is no wider than an immediate of n bytes.
Whole(f, n) == f.k \in {"reg", "mem"} /\ 8 * n >= f.w

\* Operand a fits b behind a first operand b1: an immediate as wide as b1 needs no extension.
Follows(e, b1, a, b) ==
    \/ Fits(e, a, b)
    \/ \E n \in Nat : /\ a \in {SImm(n), ZImm(n)} /\ b \in {SImm(n), ZImm(n)}
                      /\ Whole(FormOf(e, b1), n)

\* A recognised instruction is neither of the outcomes that are none.
LEMMA MadeIsInstruction ==
    ASSUME NEW op, NEW args, NEW cc, NEW modrm, NEW kept
    PROVE  Made(op, args, cc, modrm, kept) \notin {Error, Pass, Undefined}
    BY DEF Made, Error, Pass, Undefined

\* Nor is a complete one.
LEMMA CompleteIsInstruction ==
    ASSUME NEW op, NEW args, NEW cc, NEW len
    PROVE  [op |-> op, args |-> args, cc |-> cc, len |-> len] \notin {Error, Pass, Undefined}
    BY DEF Error, Pass, Undefined

\* The fields of an immediate.
LEMMA ImmIsOperand ==
    ASSUME NEW n
    PROVE  /\ SImm(n) # Error /\ ZImm(n) # Error
           /\ SImm(n).k = "imm" /\ ZImm(n).k = "imm"
           /\ SImm(n).n = n /\ ZImm(n).n = n
    BY DEF SImm, ZImm, Error

\* Placing or forming an immediate leaves it as it is.
LEMMA ImmInPlace ==
    ASSUME NEW e, NEW n, NEW a \in {SImm(n), ZImm(n)}
    PROVE  Placed(e, a) = a /\ FormOf(e, a) = a /\ a # Error /\ a.k = "imm" /\ a.n = n
    BY ImmIsOperand DEF Placed, FormOf

\* The operands as the decoder places them.
PlacedAll(e, args) == [i \in DOMAIN args |-> Placed(e, args[i])]
\* The operands as the architecture forms them.
FormedAll(e, args) == [i \in DOMAIN args |-> FormOf(e, args[i])]

\* What decoding makes of a recognised instruction whose operands are kept.
LEMMA DecodedMade ==
    ASSUME NEW e, NEW op, NEW args, NEW cc, NEW modrm
    PROVE  Decoded(e, Made(op, args, cc, modrm, TRUE)) =
               IF \E i \in DOMAIN args : PlacedAll(e, args)[i] = Error THEN Error
               ELSE [op |-> op, args |-> PlacedAll(e, args), cc |-> cc,
                     len |-> HeaderLength(e) + modrm + TakenBy(PlacedAll(e, args))]
    <1> DEFINE p == PlacedAll(e, args)
               d == Made(op, args, cc, modrm, TRUE)
    <1>1. d \notin {Error, Pass}
      BY MadeIsInstruction
    <1>2. d.op = op /\ d.args = args /\ d.cc = cc /\ d.modrm = modrm /\ d.kept = TRUE
      BY DEF Made
    <1>3. Decoded(e, d) = Complete(e, d, p)
      BY <1>1, <1>2, Zenon DEF Decoded, PlacedAll
    <1>4. DOMAIN p = DOMAIN args
      BY DEF PlacedAll
    <1> HIDE DEF d
    <1> QED
      BY <1>2, <1>3, <1>4 DEF Complete, d

\* The same on the side of the architecture.
LEMMA FormedMade ==
    ASSUME NEW e, NEW op, NEW args, NEW cc, NEW modrm
    PROVE  Formed(e, Made(op, args, cc, modrm, TRUE)) =
               IF \E i \in DOMAIN args : FormedAll(e, args)[i] = Error THEN Error
               ELSE [op |-> op, args |-> FormedAll(e, args), cc |-> cc,
                     len |-> HeaderLength(e) + modrm + TakenBy(FormedAll(e, args))]
    <1> DEFINE p == FormedAll(e, args)
               d == Made(op, args, cc, modrm, TRUE)
    <1>1. d \notin {Error, Undefined}
      BY MadeIsInstruction
    <1>2. d.op = op /\ d.args = args /\ d.cc = cc /\ d.modrm = modrm /\ d.kept = TRUE
      BY DEF Made
    <1>3. Formed(e, d) = Complete(e, d, p)
      BY <1>1, <1>2, Zenon DEF Formed, FormedAll, FormOf
    <1>4. DOMAIN p = DOMAIN args
      BY DEF FormedAll
    <1> HIDE DEF d
    <1> QED
      BY <1>2, <1>3, <1>4 DEF Complete, d

\* Operand by operand: an instruction of the same name whose operands fit is the same.
LEMMA MadeAgrees ==
    ASSUME NEW e, NEW op, NEW args, NEW brgs, NEW cc, NEW modrm,
           NEW k \in 0 .. 3, DOMAIN args = 1 .. k, DOMAIN brgs = 1 .. k,
           Meaning(e) = Made(op, brgs, cc, modrm, TRUE),
           k > 0 => Fits(e, args[1], brgs[1]),
           \A i \in 2 .. k : Follows(e, brgs[1], args[i], brgs[i])
    PROVE  Same(e, Made(op, args, cc, modrm, TRUE))
    <1> DEFINE p == PlacedAll(e, args)
               q == FormedAll(e, brgs)
               d == [op |-> op, args |-> p, cc |-> cc, len |-> HeaderLength(e) + modrm + TakenBy(p)]
               m == [op |-> op, args |-> q, cc |-> cc, len |-> HeaderLength(e) + modrm + TakenBy(q)]
               Alike(i) == \/ p[i] = q[i]
                           \/ \E n \in Nat : /\ p[i] \in {SImm(n), ZImm(n)} /\ q[i] \in {SImm(n), ZImm(n)}
                                             /\ Whole(q[1], n)
    <1>0. /\ p = [i \in 1 .. k |-> Placed(e, args[i])]
          /\ q = [i \in 1 .. k |-> FormOf(e, brgs[i])]
      BY DEF PlacedAll, FormedAll
    <1>1. CASE \E i \in 1 .. k : p[i] = Error
      <2>1. Decoded(e, Made(op, args, cc, modrm, TRUE)) = Error
        BY <1>1, DecodedMade, ZenonT(60)
      <2> QED
        BY <2>1 DEF Same
    <1>2. CASE \A i \in 1 .. k : p[i] # Error
      <2>1. Decoded(e, Made(op, args, cc, modrm, TRUE)) = d
        BY <1>2, DecodedMade, ZenonT(60)
      <2>2. \A i \in 1 .. k : Alike(i)
        <3> TAKE i \in 1 .. k
        <3>1. CASE i = 1
          BY <3>1, <1>0, <1>2 DEF Fits
        <3>2. CASE i # 1
          <4>1. Follows(e, brgs[1], args[i], brgs[i])
            BY <3>2
          <4>2. p[i] = Placed(e, args[i]) /\ q[i] = FormOf(e, brgs[i]) /\ q[1] = FormOf(e, brgs[1])
            BY <3>2, <1>0
          <4>3. CASE Fits(e, args[i], brgs[i])
            BY <4>3, <4>2, <1>2 DEF Fits
          <4>4. ASSUME NEW n \in Nat, args[i] \in {SImm(n), ZImm(n)}, brgs[i] \in {SImm(n), ZImm(n)},
                       Whole(FormOf(e, brgs[1]), n)
                PROVE  Alike(i)
            <5>1. p[i] = args[i] /\ q[i] = brgs[i]
              BY <4>4, <4>2, ImmInPlace
            <5> QED
              BY <5>1, <4>4, <4>2
          <4> QED
            BY <4>1, <4>3, <4>4 DEF Follows
        <3> QED
          BY <3>1, <3>2
      <2>3. k > 0 => p[1] = q[1]
        BY <1>0, <1>2 DEF Fits
      <2> HIDE DEF p, q
      <2>4. \A i \in 1 .. k : q[i] # Error /\ Taken(p[i]) = Taken(q[i])
        BY <2>2, <1>2, ImmIsOperand DEF Taken
      <2>5. DOMAIN p = 1 .. k /\ DOMAIN q = 1 .. k
        BY <1>0
      <2>6. TakenBy(p) = TakenBy(q)
        BY <2>4, <2>5 DEF TakenBy, TakenAt
      <2>7. Formed(e, Meaning(e)) = m
        BY <2>4, FormedMade, ZenonT(60) DEF q
      <2>8. Normal(d) = Normal(m)
        <3>1. d.args = p /\ m.args = q /\ d.op = op /\ m.op = op /\ d.cc = cc /\ m.cc = cc /\ d.len = m.len
          BY <2>6
        <3>2. d \notin {Error, Pass, Undefined} /\ m \notin {Error, Pass, Undefined}
          BY CompleteIsInstruction
        <3>3. CASE k = 0
          <4>1. p = NoOperands /\ q = NoOperands
            BY <3>3, <1>0 DEF NoOperands
          <4> QED
            BY <4>1
        <3>4. CASE k # 0
          <4> DEFINE n(s) == [i \in 1 .. k |-> IF s[1].k \in {"reg", "mem"} /\ s[i].k = "imm"
                                                  /\ 8 * s[i].n >= s[1].w
                                               THEN ZImm(s[i].n) ELSE s[i]]
          <4>1. p # NoOperands /\ q # NoOperands
            BY <3>4, <2>5 DEF NoOperands
          <4>2. n(p) = n(q)
            <5> SUFFICES ASSUME NEW i \in 1 .. k PROVE n(p)[i] = n(q)[i]
              OBVIOUS
            <5>1. p[1] = q[1]
              BY <2>3, <3>4
            <5>2. ASSUME NEW z \in Nat, p[i] \in {SImm(z), ZImm(z)}, q[i] \in {SImm(z), ZImm(z)},
                         Whole(q[1], z)
                  PROVE  n(p)[i] = n(q)[i]
              BY <5>1, <5>2, ImmIsOperand DEF Whole
            <5> QED
              BY <5>1, <5>2, <2>2
          <4> HIDE DEF d, m
          <4>3. Normal(d) = [op |-> op, cc |-> cc, len |-> d.len, args |-> n(p)]
            BY <3>1, <3>2, <4>1, <2>5 DEF Normal
          <4>4. Normal(m) = [op |-> op, cc |-> cc, len |-> m.len, args |-> n(q)]
            BY <3>1, <3>2, <4>1, <2>5 DEF Normal
          <4> QED
            BY <4>2, <4>3, <4>4, <3>1
        <3> QED
          BY <3>3, <3>4
      <2> QED
        BY <2>1, <2>7, <2>8 DEF Same, Architecture
    <1> QED
      BY <1>1, <1>2

\* MadeAgrees without operands.
LEMMA Agree0 ==
    ASSUME NEW e, NEW op, NEW cc, NEW modrm,
           Meaning(e) = Made(op, NoOperands, cc, modrm, TRUE)
    PROVE  Same(e, Made(op, NoOperands, cc, modrm, TRUE))
    <1> DEFINE s == NoOperands  k == 0
    <1>1. k \in 0 .. 3 /\ DOMAIN s = 1 .. k /\ ~(k > 0) /\ 2 .. k = {}
      BY DEF NoOperands
    <1>2. Meaning(e) = Made(op, s, cc, modrm, TRUE)
      OBVIOUS
    <1> HIDE DEF s, k
    <1>3. Same(e, Made(op, s, cc, modrm, TRUE))
      BY ONLY <1>1, <1>2, MadeAgrees
    <1> QED
      BY <1>3 DEF s

\* MadeAgrees for one operand.
LEMMA Agree1 ==
    ASSUME NEW e, NEW op, NEW cc, NEW modrm, NEW a, NEW b,
           Meaning(e) = Made(op, <<b>>, cc, modrm, TRUE),
           Fits(e, a, b)
    PROVE  Same(e, Made(op, <<a>>, cc, modrm, TRUE))
    <1> DEFINE s == <<a>>  t == <<b>>  k == 1
    <1>1. k \in 0 .. 3 /\ DOMAIN s = 1 .. k /\ DOMAIN t = 1 .. k /\ 2 .. k = {}
          /\ s[1] = a /\ t[1] = b
      OBVIOUS
    <1>2. Meaning(e) = Made(op, t, cc, modrm, TRUE) /\ Fits(e, a, b)
      OBVIOUS
    <1> HIDE DEF s, t, k
    <1>3. Same(e, Made(op, s, cc, modrm, TRUE))
      BY ONLY <1>1, <1>2, MadeAgrees
    <1> QED
      BY <1>3 DEF s

\* MadeAgrees for two operands.
LEMMA Agree2 ==
    ASSUME NEW e, NEW op, NEW cc, NEW modrm, NEW a, NEW b, NEW a2, NEW b2,
           Meaning(e) = Made(op, <<b, b2>>, cc, modrm, TRUE),
           Fits(e, a, b), Follows(e, b, a2, b2)
    PROVE  Same(e, Made(op, <<a, a2>>, cc, modrm, TRUE))
    <1> DEFINE s == <<a, a2>>  t == <<b, b2>>  k == 2
    <1>1. /\ DOMAIN s = 1 .. k /\ DOMAIN t = 1 .. k
          /\ s[1] = a /\ t[1] = b /\ s[2] = a2 /\ t[2] = b2
      OBVIOUS
    <1>2. Meaning(e) = Made(op, t, cc, modrm, TRUE) /\ Fits(e, a, b) /\ Follows(e, b, a2, b2)
      OBVIOUS
    <1>4. k \in 0 .. 3 /\ (\A i \in 2 .. k : i = 2)
      OBVIOUS
    <1> HIDE DEF s, t, k
    <1>5. \A i \in 2 .. k : Follows(e, t[1], s[i], t[i])
      BY <1>1, <1>2, <1>4
    <1>3. Same(e, Made(op, s, cc, modrm, TRUE))
      BY ONLY <1>1, <1>2, <1>4, <1>5, MadeAgrees
    <1> QED
      BY <1>3 DEF s

\* MadeAgrees for three operands.
LEMMA Agree3 ==
    ASSUME NEW e, NEW op, NEW cc, NEW modrm, NEW a, NEW b, NEW a2, NEW b2, NEW a3, NEW b3,
           Meaning(e) = Made(op, <<b, b2, b3>>, cc, modrm, TRUE),
           Fits(e, a, b), Follows(e, b, a2, b2), Follows(e, b, a3, b3)
    PROVE  Same(e, Made(op, <<a, a2, a3>>, cc, modrm, TRUE))
    <1> DEFINE s == <<a, a2, a3>>  t == <<b, b2, b3>>  k == 3
    <1>1. /\ DOMAIN s = 1 .. k /\ DOMAIN t = 1 .. k
          /\ s[1] = a /\ t[1] = b /\ s[2] = a2 /\ t[2] = b2 /\ s[3] = a3 /\ t[3] = b3
      OBVIOUS
    <1>2. /\ Meaning(e) = Made(op, t, cc, modrm, TRUE)
          /\ Fits(e, a, b) /\ Follows(e, b, a2, b2) /\ Follows(e, b, a3, b3)
      OBVIOUS
    <1>4. k \in 0 .. 3 /\ (\A i \in 2 .. k : i = 2 \/ i = 3)
      OBVIOUS
    <1> HIDE DEF s, t, k
    <1>5. \A i \in 2 .. k : Follows(e, t[1], s[i], t[i])
      BY <1>1, <1>2, <1>4
    <1>3. Same(e, Made(op, s, cc, modrm, TRUE))
      BY ONLY <1>1, <1>2, <1>4, <1>5, MadeAgrees
    <1> QED
      BY <1>3 DEF s

-----------------------------------------------------------------------------
(* Operands *)

\* The fields of an encoding.
LEMMA Fields ==
    ASSUME NEW e \in Encodings
    PROVE  /\ e.pre \subseteq {"66", "65", "F3", "F2", "F0", "2E"} /\ e.pad \in Nat
           /\ e.hasRex \in BOOLEAN /\ e.rex \subseteq {"W", "R", "X", "B"}
           /\ e.op \in 0 .. 255 /\ e.op2 \in 0 .. 255 /\ e.op3 \in 0 .. 255
           /\ e.mod \in 0 .. 3 /\ e.reg \in 0 .. 7 /\ e.rm \in 0 .. 7
           /\ e.ss \in 0 .. 3 /\ e.index \in 0 .. 7 /\ e.base \in 0 .. 7
           /\ e.vl \in 0 .. 1 /\ e.pp \in 0 .. 3 /\ e.v \in 0 .. 15
           /\ e.rex # {} => e.hasRex \/ e.op \in {\hC4, \hC5}
           /\ e.pad > 0 => "66" \in e.pre
           /\ e.op = \hC5 => e.rex \subseteq {"R"}
    BY DEF Encodings

\* An operand that is no memory form fits itself.
LEMMA PlainFits ==
    ASSUME NEW e, NEW a, a.k # "form"
    PROVE  Fits(e, a, a) /\ FormOf(e, a) = a /\ Placed(e, a) = a
    BY DEF Fits, Placed, FormOf

\* The policy p accepts for e no addressing form that it misreads.
Trusted(e, p) ==
    /\ "65" \in e.pre => "gs" \in p
    /\ B(e) /\ RipForm(e) => "ripB" \in p \/ ("r13" \notin p /\ "r13Disp" \notin p)
    /\ B(e) /\ NoBaseForm(e) => "r13Sib" \notin p
    /\ X(e) /\ SibForm(e) /\ e.index = 4 => "noR12" \notin p

\* Under a policy that can be trusted, decodeMemoryForm finds the architecture's operand or
\* throws.
LEMMA MemoryAgrees ==
    ASSUME NEW e \in Encodings, NEW w, NEW p, Trusted(e, p)
    PROVE  MemoryForm(e, w, p) \in {Error, MemoryOperand(e, w)}
    <1> USE Fields
    <1>1. CASE Direct(e)
      BY <1>1 DEF MemoryForm, Direct, SibForm
    <1>2. CASE RipForm(e)
      BY <1>2 DEF MemoryForm, MemoryOperand, RipForm, SibForm, Direct, Trusted, Address, None, Indexed
    <1>3. CASE NoBaseForm(e)
      BY <1>3 DEF MemoryForm, MemoryOperand, RipForm, SibForm, NoBaseForm, Direct, Trusted, Address,
                  None, Indexed, decodeRegister
    <1>4. CASE SibForm(e) /\ ~NoBaseForm(e)
      BY <1>4 DEF MemoryForm, MemoryOperand, RipForm, SibForm, NoBaseForm, Direct, Trusted, Address,
                  None, Indexed, decodeRegister, DispOf
    <1>5. CASE ~Direct(e) /\ ~RipForm(e) /\ ~SibForm(e)
      BY <1>5 DEF MemoryForm, MemoryOperand, RipForm, SibForm, NoBaseForm, Direct, Trusted, Address,
                  None, Indexed, decodeRegister, DispOf
    <1> QED
      BY <1>1, <1>2, <1>3, <1>4, <1>5

\* Mode 3 names a register: no policy finds memory there.
LEMMA DirectRefusesMemory ==
    ASSUME NEW e, NEW w, NEW p, Direct(e)
    PROVE  MemoryForm(e, w, p) = Error
    BY DEF MemoryForm, Direct, SibForm

\* Placing a memory operand reads its addressing form.
LEMMA MemPlaced ==
    ASSUME NEW e, NEW w, NEW p
    PROVE  Placed(e, Mem(w, p)) = MemoryForm(e, w, p)
    BY DEF Placed, Mem, Error

\* The architecture's memory operand.
LEMMA MemoryFormed ==
    ASSUME NEW e, NEW w
    PROVE  /\ FormOf(e, Memory(w)) = MemoryOperand(e, w)
           /\ MemoryOperand(e, w).k = "mem" /\ MemoryOperand(e, w).w = w
    BY DEF FormOf, Memory, Error, MemoryOperand, Address

\* A memory operand read under a policy that can be trusted fits.
LEMMA MemFits ==
    ASSUME NEW e \in Encodings, NEW w, NEW p, Trusted(e, p)
    PROVE  /\ Fits(e, Mem(w, p), Memory(w))
           /\ Fits(e, Mem(w, p), E(e, w)) /\ Fits(e, Mem(w, p), M(e, w)) /\ Fits(e, Mem(w, p), U(e, w))
    <1>1. Fits(e, Mem(w, p), Memory(w))
      BY MemoryAgrees, MemPlaced, MemoryFormed DEF Fits
    <1>2. CASE Direct(e)
      BY <1>2, MemPlaced, DirectRefusesMemory DEF Fits
    <1>3. CASE ~Direct(e)
      BY <1>1, <1>3 DEF E, M, U, Direct
    <1> QED
      BY <1>1, <1>2, <1>3

\* The fields of a register operand.
LEMMA Registers ==
    ASSUME NEW r, NEW w
    PROVE  /\ Reg(r, w).k = "reg" /\ Reg(r, w).w = w
           /\ HighByte(r).k = "reg" /\ HighByte(r).w = 8
           /\ Xmm(r).k = "xmm"
    BY DEF Reg, HighByte, Xmm

\* The registers of the ModRM byte, the legacy high bytes set apart.
LEMMA RegFields ==
    ASSUME NEW e, NEW w
    PROVE  /\ w # 8 \/ ~LegacyHigh(e, e.reg) => RegField(e, w) = G(e, w)
           /\ w = 8 /\ LegacyHigh(e, e.reg) => HighByte(e.reg - 4) = G(e, w)
           /\ Direct(e) /\ (w # 8 \/ ~LegacyHigh(e, e.rm)) => RmField(e, w) = E(e, w)
           /\ Direct(e) /\ w = 8 /\ LegacyHigh(e, e.rm) => HighByte(e.rm - 4) = E(e, w)
           /\ XmmField(e) = V(e)
           /\ Direct(e) => XmmRm(e) = U(e, w)
    BY DEF RegField, RmField, G, E, GeneralReg, LegacyHigh, decodeRegister, XmmField, XmmRm, V, U, Direct

\* A register fits itself.
LEMMA RegFits ==
    ASSUME NEW e, NEW r, NEW w
    PROVE  Fits(e, Reg(r, w), Reg(r, w)) /\ Fits(e, HighByte(r), HighByte(r)) /\ Fits(e, Xmm(r), Xmm(r))
    BY Registers, PlainFits

\* The registers of the ModRM byte fit the architecture's operands.
LEMMA FieldsFit ==
    ASSUME NEW e, NEW w
    PROVE  /\ w # 8 \/ ~LegacyHigh(e, e.reg) => Fits(e, RegField(e, w), G(e, w))
           /\ w = 8 /\ LegacyHigh(e, e.reg) => Fits(e, HighByte(e.reg - 4), G(e, w))
           /\ Direct(e) /\ (w # 8 \/ ~LegacyHigh(e, e.rm)) => Fits(e, RmField(e, w), E(e, w))
           /\ Direct(e) /\ w = 8 /\ LegacyHigh(e, e.rm) => Fits(e, HighByte(e.rm - 4), E(e, w))
           /\ Fits(e, XmmField(e), V(e))
           /\ Direct(e) => Fits(e, XmmRm(e), U(e, w))
    <1>1. Fits(e, RegField(e, w), RegField(e, w)) /\ Fits(e, RmField(e, w), RmField(e, w))
      BY RegFits DEF RegField, RmField
    <1>2. Fits(e, XmmField(e), XmmField(e)) /\ Fits(e, XmmRm(e), XmmRm(e))
      BY RegFits DEF XmmField, XmmRm
    <1>3. Fits(e, HighByte(e.reg - 4), HighByte(e.reg - 4)) /\ Fits(e, HighByte(e.rm - 4), HighByte(e.rm - 4))
      BY RegFits
    <1> QED
      BY <1>1, <1>2, <1>3, RegFields

\* An immediate fits itself.
LEMMA ImmFits ==
    ASSUME NEW e, NEW n
    PROVE  Fits(e, SImm(n), SImm(n)) /\ Fits(e, ZImm(n), ZImm(n)) /\ Fits(e, One, One)
    BY ImmIsOperand, PlainFits DEF One

\* What is rejected fits anything.
LEMMA ErrorFits ==
    ASSUME NEW e, NEW b
    PROVE  Fits(e, Error, b)
    BY DEF Fits, Placed

\* What fits, fits behind any operand.
LEMMA FitsFollows ==
    ASSUME NEW e, NEW b1, NEW a, NEW b, Fits(e, a, b)
    PROVE  Follows(e, b1, a, b)
    BY DEF Follows

\* Behind an operand no wider than it, an immediate may be extended either way.
LEMMA WholeFollows ==
    ASSUME NEW e, NEW b1, NEW n \in Nat, Whole(FormOf(e, b1), n)
    PROVE  Follows(e, b1, ZImm(n), SImm(n)) /\ Follows(e, b1, SImm(n), ZImm(n))
    BY DEF Follows

\* The operands that n bytes cover.
LEMMA WholeOperands ==
    ASSUME NEW e, NEW w, NEW n, NEW r, 8 * n >= w
    PROVE  /\ Whole(FormOf(e, Reg(r, w)), n) /\ Whole(FormOf(e, G(e, w)), n)
           /\ Whole(FormOf(e, E(e, w)), n) /\ Whole(FormOf(e, Memory(w)), n)
           /\ Whole(FormOf(e, OpReg(e, r, w)), n)
    <1>1. Whole(FormOf(e, Reg(r, w)), n)
      BY Registers, PlainFits DEF Whole
    <1>2. \A low, ext : /\ GeneralReg(e, low, ext, w).k = "reg"
                        /\ GeneralReg(e, low, ext, w).w = w
      BY DEF GeneralReg, Reg, HighByte
    <1>3. \A low, ext : Whole(FormOf(e, GeneralReg(e, low, ext, w)), n)
      BY <1>2, PlainFits DEF Whole
    <1>4. Whole(FormOf(e, Memory(w)), n)
      BY MemoryFormed DEF Whole
    <1> QED
      BY <1>1, <1>3, <1>4 DEF G, E, OpReg

-----------------------------------------------------------------------------
(* What the architecture says, opcode by opcode *)

\* No lock or repeat prefix.
Scalar(e) == "F0" \notin e.pre /\ "F2" \notin e.pre /\ "F3" \notin e.pre

\* The operand sizes that REX.W and the operand-size prefix select.
LEMMA Widths ==
    ASSUME NEW e
    PROVE  /\ W3264(e) \in {32, 64} /\ W163264(e) \in {16, 32, 64}
           /\ W(e) => W3264(e) = 64 /\ W163264(e) = 64
           /\ ~W(e) => W3264(e) = 32
           /\ ~W(e) /\ "66" \in e.pre => W163264(e) = 16
           /\ "66" \notin e.pre => W163264(e) = W3264(e)
    BY DEF W3264, W163264

\* A branch that throws or passes makes nothing that could be wrong.
LEMMA ErrorSame ==
    ASSUME NEW e
    PROVE  Same(e, Error) /\ Same(e, Pass)
    BY DEF Same, Decoded

\* The eight arithmetic rows of the opcode map.
LEMMA Rows ==
    /\ Row(0) = "Add" /\ Row(1) = "Or" /\ Row(2) = "Adc" /\ Row(3) = "Sbb"
    /\ Row(4) = "And" /\ Row(5) = "Sub" /\ Row(6) = "Xor" /\ Row(7) = "Cmp"
    BY DEF Row

\* The decoder's table of the arithmetic group is the architecture's.
LEMMA AluNames ==
    ASSUME NEW n \in 0 .. 7
    PROVE  AluName(n) = Row(n)
    BY DEF AluName, Row

\* The architecture's table of one-byte opcodes.
LEMMA OneByteMeaning ==
    ASSUME NEW e, Scalar(e), e.op \notin {\h0F, \hC4, \hC5}
    PROVE  Meaning(e) = OneByte(e)
    BY DEF Meaning, Scalar

\* The arithmetic rows, by their low three bits.
LEMMA RowMeaning ==
    ASSUME NEW e, Scalar(e), e.op \in 0 .. 63, e.op # \h0F
    PROVE  /\ e.op % 8 \in {0, 1} => Meaning(e) = Inst(Row(e.op \div 8), <<E(e, Width(e)), G(e, Width(e))>>)
           /\ e.op % 8 \in {2, 3} => Meaning(e) = Inst(Row(e.op \div 8), <<G(e, Width(e)), E(e, Width(e))>>)
           /\ e.op % 8 \in {4, 5} => Meaning(e) = Bare(Row(e.op \div 8), <<Acc(Width(e)), ImmZ(Width(e))>>)
    <1>1. e.op % 8 \in 0 .. 5 => Meaning(e) = Arithmetic(e)
      <2>1. e.op % 8 \in 0 .. 5 => OneByte(e) = Arithmetic(e)
        BY DEF OneByte
      <2> QED
        BY <2>1, OneByteMeaning
    <1>2. e.op % 8 \in {0, 1} => Arithmetic(e) = Inst(Row(e.op \div 8), <<E(e, Width(e)), G(e, Width(e))>>)
      BY DEF Arithmetic
    <1>3. e.op % 8 \in {2, 3} => Arithmetic(e) = Inst(Row(e.op \div 8), <<G(e, Width(e)), E(e, Width(e))>>)
      BY DEF Arithmetic
    <1>4. e.op % 8 \in {4, 5} => Arithmetic(e) = Bare(Row(e.op \div 8), <<Acc(Width(e)), ImmZ(Width(e))>>)
      BY DEF Arithmetic
    <1> QED
      BY <1>1, <1>2, <1>3, <1>4

\* A row that stores to the ModRM operand.
LEMMA RowStore ==
    ASSUME NEW e, Scalar(e), e.op \in 0 .. 63, e.op # \h0F, e.op % 8 \in {0, 1},
           NEW name, name = Row(e.op \div 8),
           NEW a, NEW b, Fits(e, a, E(e, Width(e))), Fits(e, b, G(e, Width(e)))
    PROVE  Same(e, Inst(name, <<a, b>>))
    BY RowMeaning, Agree2, FitsFollows DEF Inst

\* A row that loads from the ModRM operand.
LEMMA RowLoad ==
    ASSUME NEW e, Scalar(e), e.op \in 0 .. 63, e.op # \h0F, e.op % 8 \in {2, 3},
           NEW name, name = Row(e.op \div 8),
           NEW a, NEW b, Fits(e, a, G(e, Width(e))), Fits(e, b, E(e, Width(e)))
    PROVE  Same(e, Inst(name, <<a, b>>))
    BY RowMeaning, Agree2, FitsFollows DEF Inst

\* A row on the accumulator.
LEMMA RowAcc ==
    ASSUME NEW e, Scalar(e), e.op \in 0 .. 63, e.op # \h0F, e.op % 8 \in {4, 5},
           NEW name, name = Row(e.op \div 8), NEW a,
           Follows(e, Acc(Width(e)), a, ImmZ(Width(e)))
    PROVE  Same(e, Bare(name, <<Acc(Width(e)), a>>))
    BY RowMeaning, Agree2, RegFits DEF Bare, Acc

-----------------------------------------------------------------------------
(* decodeGeneral *)

\* What reaches the branches of decodeGeneral.
General(e) == e \in Encodings /\ e.pre \subseteq {"66", "65"} /\ Admitted(e)

\* What decodeGeneral has already excluded when it looks at the opcode.
LEMMA GeneralFacts ==
    ASSUME NEW e, General(e)
    PROVE  /\ e \in Encodings /\ Scalar(e)
           /\ e.op \notin WithOperandSize => "66" \notin e.pre /\ W163264(e) = W3264(e)
           /\ e.op \notin WithGs => "65" \notin e.pre
           /\ e.op % 2 = 0 => Width(e) = 8
           /\ e.op % 2 = 1 => Width(e) = W163264(e)
           /\ e.op \notin {\hC4, \hC5} /\ ~e.hasRex => ~W(e) /\ ~R(e) /\ ~X(e) /\ ~B(e)
    <1>1. e.op % 2 = 0 => Width(e) = 8
      BY DEF Width
    <1>2. e.op % 2 = 1 => Width(e) = W163264(e)
      BY DEF Width
    <1>3. e.op \notin {\hC4, \hC5} /\ ~e.hasRex => ~W(e) /\ ~R(e) /\ ~X(e) /\ ~B(e)
      BY Fields DEF General, W, R, X, B
    <1> QED
      BY <1>1, <1>2, <1>3, Widths DEF General, Scalar, Admitted

\* A policy without the R13 and R12 exceptions can be trusted.
LEMMA SafePolicy ==
    ASSUME NEW e, NEW p, "65" \in e.pre => "gs" \in p,
           "r13" \notin p, "r13Disp" \notin p, "r13Sib" \notin p, "noR12" \notin p
    PROVE  Trusted(e, p)
    BY DEF Trusted

\* The ModRM operand, register or memory.
LEMMA RmFits ==
    ASSUME NEW e \in Encodings, NEW w, NEW p, w # 8 \/ ~LegacyHigh(e, e.rm), ~Direct(e) => Trusted(e, p)
    PROVE  Fits(e, IF Direct(e) THEN RmField(e, w) ELSE Mem(w, p), E(e, w))
    BY FieldsFit, MemFits

\* A memory operand under such a policy fits.
LEMMA SafeMem ==
    ASSUME NEW e \in Encodings, NEW p, "65" \in e.pre => "gs" \in p,
           "r13" \notin p, "r13Disp" \notin p, "r13Sib" \notin p, "noR12" \notin p
    PROVE  \A w : /\ Fits(e, Mem(w, p), Memory(w)) /\ Fits(e, Mem(w, p), E(e, w))
                  /\ Fits(e, Mem(w, p), M(e, w)) /\ Fits(e, Mem(w, p), U(e, w))
    BY SafePolicy, MemFits

\* 00: Op00 makes what the architecture defines, or nothing.
LEMMA Op00Right ==
    ASSUME NEW e, General(e), e.op = \h00
    PROVE  Same(e, Op00(e))
    <1>1. e \in Encodings /\ Scalar(e) /\ "65" \notin e.pre /\ Width(e) = 8
      BY GeneralFacts, Widths DEF WithOperandSize, WithGs
    <1>2. \A w : Fits(e, Mem(w, {"sib"}), E(e, w))
      BY <1>1, SafeMem
    <1> QED
      BY <1>1, <1>2, FieldsFit, ErrorFits, ErrorSame, RowStore, Rows DEF Op00, Byte, Byte2, Only

\* 01: Op01 makes what the architecture defines, or nothing.
LEMMA Op01Right ==
    ASSUME NEW e, General(e), e.op = \h01,
           Direct(e) /\ ~W(e) => "66" \notin e.pre
    PROVE  Same(e, Op01(e))
    <1>1. e \in Encodings /\ Scalar(e) /\ "65" \notin e.pre /\ Width(e) = W163264(e) /\ Width(e) # 8
          /\ (Direct(e) => W163264(e) = W3264(e))
      BY GeneralFacts, Widths DEF WithOperandSize, WithGs
    <1>2. \A w : Fits(e, Mem(w, {"rip", "ripB", "sib", "noBase"}), E(e, w))
      BY <1>1, SafeMem
    <1> QED
      BY <1>1, <1>2, FieldsFit, ErrorFits, ErrorSame, RowStore, Rows DEF Op01

\* 02: Op02 makes what the architecture defines, or nothing.
LEMMA Op02Right ==
    ASSUME NEW e, General(e), e.op = \h02
    PROVE  Same(e, Op02(e))
    <1>1. e \in Encodings /\ Scalar(e) /\ "65" \notin e.pre /\ Width(e) = 8
      BY GeneralFacts, Widths DEF WithOperandSize, WithGs
    <1>2. \A w : Fits(e, Mem(w, {"sib", "looseX"}), E(e, w))
      BY <1>1, SafeMem
    <1> QED
      BY <1>1, <1>2, FieldsFit, ErrorFits, ErrorSame, RowLoad, Rows DEF Op02, Byte, Byte2, Only

\* 03: Op03 makes what the architecture defines, or nothing.
LEMMA Op03Right ==
    ASSUME NEW e, General(e), e.op = \h03
    PROVE  Same(e, Op03(e))
    <1>1. e \in Encodings /\ Scalar(e) /\ "65" \notin e.pre /\ Width(e) = W163264(e) /\ Width(e) # 8
      BY GeneralFacts, Widths DEF WithOperandSize, WithGs
    <1>2. \A w : Fits(e, Mem(w, {"rip", "sib"}), E(e, w))
      BY <1>1, SafeMem
    <1> QED
      BY <1>1, <1>2, FieldsFit, ErrorFits, ErrorSame, RowLoad, Rows DEF Op03

\* 08: Op08 makes what the architecture defines, or nothing.
LEMMA Op08Right ==
    ASSUME NEW e, General(e), e.op = \h08
    PROVE  Same(e, Op08(e))
    <1>1. e \in Encodings /\ Scalar(e) /\ "65" \notin e.pre /\ Width(e) = 8
      BY GeneralFacts, Widths DEF WithOperandSize, WithGs
    <1>2. \A w : Fits(e, Mem(w, {"sib", "looseX"}), E(e, w))
      BY <1>1, SafeMem
    <1> QED
      BY <1>1, <1>2, FieldsFit, ErrorFits, ErrorSame, RowStore, Rows DEF Op08, Byte, Byte2, Only

\* 09: Op09 makes what the architecture defines, or nothing.
LEMMA Op09Right ==
    ASSUME NEW e, General(e), e.op = \h09
    PROVE  Same(e, Op09(e))
    <1>1. e \in Encodings /\ Scalar(e) /\ "65" \notin e.pre /\ Width(e) = W163264(e) /\ Width(e) # 8
      BY GeneralFacts, Widths DEF WithOperandSize, WithGs
    <1>2. \A w : Fits(e, Mem(w, {"rip", "ripB", "sib", "noBase", "looseX"}), E(e, w))
      BY <1>1, SafeMem
    <1> QED
      BY <1>1, <1>2, FieldsFit, ErrorFits, ErrorSame, RowStore, Rows DEF Op09

\* 0A: Op0A makes what the architecture defines, or nothing.
LEMMA Op0ARight ==
    ASSUME NEW e, General(e), e.op = \h0A
    PROVE  Same(e, Op0A(e))
    <1>1. e \in Encodings /\ Scalar(e) /\ "65" \notin e.pre /\ Width(e) = 8
      BY GeneralFacts, Widths DEF WithOperandSize, WithGs
    <1>2. \A w : Fits(e, Mem(w, {"rip", "ripB", "sib"}), E(e, w))
      BY <1>1, SafeMem
    <1> QED
      BY <1>1, <1>2, FieldsFit, ErrorFits, ErrorSame, RowLoad, Rows DEF Op0A, Byte, Byte2, Only

\* 0B: Op0B makes what the architecture defines, or nothing.
LEMMA Op0BRight ==
    ASSUME NEW e, General(e), e.op = \h0B, ~Direct(e)
    PROVE  Same(e, Op0B(e))
    <1>1. e \in Encodings /\ Scalar(e) /\ "65" \notin e.pre /\ Width(e) = W163264(e) /\ Width(e) # 8
      BY GeneralFacts, Widths DEF WithOperandSize, WithGs
    <1>2. \A w : Fits(e, Mem(w, {"rip", "ripB", "sib"}), E(e, w))
      BY <1>1, SafeMem
    <1> QED
      BY <1>1, <1>2, FieldsFit, ErrorFits, ErrorSame, RowLoad, Rows DEF Op0B

\* 11: Op11 makes what the architecture defines, or nothing.
LEMMA Op11Right ==
    ASSUME NEW e, General(e), e.op = \h11
    PROVE  Same(e, Op11(e))
    <1>1. e \in Encodings /\ Scalar(e) /\ "65" \notin e.pre /\ Width(e) = W3264(e) /\ Width(e) # 8
      BY GeneralFacts, Widths DEF WithOperandSize, WithGs
    <1> QED
      BY <1>1, FieldsFit, ErrorFits, ErrorSame, RowStore, Rows DEF Op11, Only

\* 13: Op13 makes what the architecture defines, or nothing.
LEMMA Op13Right ==
    ASSUME NEW e, General(e), e.op = \h13
    PROVE  Same(e, Op13(e))
    <1>1. e \in Encodings /\ Scalar(e) /\ "65" \notin e.pre /\ Width(e) = W3264(e) /\ Width(e) # 8
      BY GeneralFacts, Widths DEF WithOperandSize, WithGs
    <1>2. \A w : Fits(e, Mem(w, {"rip", "sib"}), E(e, w))
      BY <1>1, SafeMem
    <1> QED
      BY <1>1, <1>2, FieldsFit, ErrorFits, ErrorSame, RowLoad, Rows DEF Op13

\* 19: Op19 makes what the architecture defines, or nothing.
LEMMA Op19Right ==
    ASSUME NEW e, General(e), e.op = \h19
    PROVE  Same(e, Op19(e))
    <1>1. e \in Encodings /\ Scalar(e) /\ "65" \notin e.pre /\ Width(e) = W3264(e) /\ Width(e) # 8
      BY GeneralFacts, Widths DEF WithOperandSize, WithGs
    <1> QED
      BY <1>1, FieldsFit, ErrorFits, ErrorSame, RowStore, Rows DEF Op19, Only

\* 20: Op20 makes what the architecture defines, or nothing.
LEMMA Op20Right ==
    ASSUME NEW e, General(e), e.op = \h20
    PROVE  Same(e, Op20(e))
    <1>1. e \in Encodings /\ Scalar(e) /\ "65" \notin e.pre /\ Width(e) = 8
      BY GeneralFacts, Widths DEF WithOperandSize, WithGs
    <1> QED
      BY <1>1, FieldsFit, ErrorFits, ErrorSame, RowStore, Rows DEF Op20, Byte, Byte2, Only

\* 21: Op21 makes what the architecture defines, or nothing.
LEMMA Op21Right ==
    ASSUME NEW e, General(e), e.op = \h21
    PROVE  Same(e, Op21(e))
    <1>1. e \in Encodings /\ Scalar(e) /\ "65" \notin e.pre /\ Width(e) = W163264(e) /\ Width(e) # 8
      BY GeneralFacts, Widths DEF WithOperandSize, WithGs
    <1>2. \A w : Fits(e, Mem(w, {"rip", "ripB", "sib", "noBase", "looseX"}), E(e, w))
      BY <1>1, SafeMem
    <1> QED
      BY <1>1, <1>2, FieldsFit, ErrorFits, ErrorSame, RowStore, Rows DEF Op21

\* 22: Op22 makes what the architecture defines, or nothing.
LEMMA Op22Right ==
    ASSUME NEW e, General(e), e.op = \h22
    PROVE  Same(e, Op22(e))
    <1>1. e \in Encodings /\ Scalar(e) /\ "65" \notin e.pre /\ Width(e) = 8
      BY GeneralFacts, Widths DEF WithOperandSize, WithGs
    <1>2. \A w : Fits(e, Mem(w, {"rip", "sib"}), E(e, w))
      BY <1>1, SafeMem
    <1> QED
      BY <1>1, <1>2, FieldsFit, ErrorFits, ErrorSame, RowLoad, Rows DEF Op22, Byte, Byte2, Only

\* 23: Op23 makes what the architecture defines, or nothing.
LEMMA Op23Right ==
    ASSUME NEW e, General(e), e.op = \h23
    PROVE  Same(e, Op23(e))
    <1>1. e \in Encodings /\ Scalar(e) /\ "65" \notin e.pre /\ Width(e) = W3264(e) /\ Width(e) # 8
      BY GeneralFacts, Widths DEF WithOperandSize, WithGs
    <1>2. \A w : Fits(e, Mem(w, ({"rip", "sib"} \union IF RipForm(e) THEN {} ELSE {"looseX"})), E(e, w))
      BY <1>1, SafeMem
    <1> QED
      BY <1>1, <1>2, FieldsFit, ErrorFits, ErrorSame, RowLoad, Rows DEF Op23

\* 28: Op28 makes what the architecture defines, or nothing.
LEMMA Op28Right ==
    ASSUME NEW e, General(e), e.op = \h28
    PROVE  Same(e, Op28(e))
    <1>1. e \in Encodings /\ Scalar(e) /\ "65" \notin e.pre /\ Width(e) = 8
      BY GeneralFacts, Widths DEF WithOperandSize, WithGs
    <1>2. \A w : Fits(e, Mem(w, {"rip", "ripB", "plainSib", "scale1"}), E(e, w))
      BY <1>1, SafeMem
    <1> QED
      BY <1>1, <1>2, FieldsFit, ErrorFits, ErrorSame, RowStore, Rows DEF Op28, Byte, Byte2, Only

\* 29: Op29 makes what the architecture defines, or nothing.
LEMMA Op29Right ==
    ASSUME NEW e, General(e), e.op = \h29
    PROVE  Same(e, Op29(e))
    <1>1. e \in Encodings /\ Scalar(e) /\ "65" \notin e.pre /\ Width(e) = W3264(e) /\ Width(e) # 8
      BY GeneralFacts, Widths DEF WithOperandSize, WithGs
    <1>2. \A w : Fits(e, Mem(w, {"rip", "ripB", "sib", "noBase"}), E(e, w))
      BY <1>1, SafeMem
    <1> QED
      BY <1>1, <1>2, FieldsFit, ErrorFits, ErrorSame, RowStore, Rows DEF Op29

\* 30: Op30 makes what the architecture defines, or nothing.
LEMMA Op30Right ==
    ASSUME NEW e, General(e), e.op = \h30
    PROVE  Same(e, Op30(e))
    <1>1. e \in Encodings /\ Scalar(e) /\ "65" \notin e.pre /\ Width(e) = 8
      BY GeneralFacts, Widths DEF WithOperandSize, WithGs
    <1> QED
      BY <1>1, FieldsFit, ErrorFits, ErrorSame, RowStore, Rows DEF Op30, Byte, Byte2, Only

\* 31: Op31 makes what the architecture defines, or nothing.
LEMMA Op31Right ==
    ASSUME NEW e, General(e), e.op = \h31
    PROVE  Same(e, Op31(e))
    <1>1. e \in Encodings /\ Scalar(e) /\ "65" \notin e.pre /\ Width(e) = W3264(e) /\ Width(e) # 8
      BY GeneralFacts, Widths DEF WithOperandSize, WithGs
    <1> QED
      BY <1>1, FieldsFit, ErrorFits, ErrorSame, RowStore, Rows DEF Op31, Only

\* 32: Op32 makes what the architecture defines, or nothing.
LEMMA Op32Right ==
    ASSUME NEW e, General(e), e.op = \h32
    PROVE  Same(e, Op32(e))
    <1>1. e \in Encodings /\ Scalar(e) /\ "65" \notin e.pre /\ Width(e) = 8
      BY GeneralFacts, Widths DEF WithOperandSize, WithGs
    <1>2. \A w : Fits(e, Mem(w, {"sib"}), E(e, w))
      BY <1>1, SafeMem
    <1> QED
      BY <1>1, <1>2, FieldsFit, ErrorFits, ErrorSame, RowLoad, Rows DEF Op32, Byte, Byte2, Only

\* 33: Op33 makes what the architecture defines, or nothing.
LEMMA Op33Right ==
    ASSUME NEW e, General(e), e.op = \h33
    PROVE  Same(e, Op33(e))
    <1>1. e \in Encodings /\ Scalar(e) /\ "65" \notin e.pre /\ Width(e) = W163264(e) /\ Width(e) # 8
      BY GeneralFacts, Widths DEF WithOperandSize, WithGs
    <1>2. \A w : Fits(e, Mem(w, {"rip", "sib", "ripX"}), E(e, w))
      BY <1>1, SafeMem
    <1> QED
      BY <1>1, <1>2, FieldsFit, ErrorFits, ErrorSame, RowLoad, Rows DEF Op33

\* 38: Op38 makes what the architecture defines, or nothing.
LEMMA Op38Right ==
    ASSUME NEW e, General(e), e.op = \h38
    PROVE  Same(e, Op38(e))
    <1>1. e \in Encodings /\ Scalar(e) /\ "65" \notin e.pre /\ Width(e) = 8
      BY GeneralFacts, Widths DEF WithOperandSize, WithGs
    <1>2. \A w : Fits(e, Mem(w, {"rip", "ripB", "sib"}), E(e, w))
      BY <1>1, SafeMem
    <1> QED
      BY <1>1, <1>2, FieldsFit, ErrorFits, ErrorSame, RowStore, Rows DEF Op38, Byte, Byte2, Only

\* 39: Op39 makes what the architecture defines, or nothing.
LEMMA Op39Right ==
    ASSUME NEW e, General(e), e.op = \h39
    PROVE  Same(e, Op39(e))
    <1>1. e \in Encodings /\ Scalar(e) /\ Width(e) = W163264(e) /\ Width(e) # 8
      BY GeneralFacts, Widths DEF WithOperandSize, WithGs
    <1>2. \A w : Fits(e, Mem(w, ({"rip", "ripB", "sib", "gs"}
                                \union IF "65" \in e.pre /\ ~Indexed(e) THEN {"noBase"} ELSE {})), E(e, w))
      BY <1>1, SafeMem
    <1> QED
      BY <1>1, <1>2, FieldsFit, ErrorFits, ErrorSame, RowStore, Rows DEF Op39

\* 3A: Op3A makes what the architecture defines, or nothing.
LEMMA Op3ARight ==
    ASSUME NEW e, General(e), e.op = \h3A
    PROVE  Same(e, Op3A(e))
    <1>1. e \in Encodings /\ Scalar(e) /\ "65" \notin e.pre /\ Width(e) = 8
      BY GeneralFacts, Widths DEF WithOperandSize, WithGs
    <1>2. \A w : Fits(e, Mem(w, {"sib", "looseX"}), E(e, w))
      BY <1>1, SafeMem
    <1> QED
      BY <1>1, <1>2, FieldsFit, ErrorFits, ErrorSame, RowLoad, Rows DEF Op3A, Byte, Byte2, Only

\* 2B: Op2B makes what the architecture defines, or nothing.
LEMMA Op2BRight ==
    ASSUME NEW e, General(e), e.op = \h2B, ~KnownMisdecode(e)
    PROVE  Same(e, Op2B(e))
    <1>1. e \in Encodings /\ Scalar(e) /\ "65" \notin e.pre /\ Width(e) = W3264(e) /\ Width(e) # 8
      BY GeneralFacts, Widths DEF WithOperandSize, WithGs
    <1>2. Trusted(e, {"rip", "r13", "sib"})
      BY <1>1 DEF Trusted, KnownMisdecode, TakenForR13
    <1>3. \A w : Fits(e, Mem(w, {"rip", "r13", "sib"}), E(e, w))
      BY <1>1, <1>2, MemFits
    <1> QED
      BY <1>1, <1>3, FieldsFit, ErrorFits, ErrorSame, RowLoad, Rows DEF Op2B

\* 3B: Op3B makes what the architecture defines, or nothing.
LEMMA Op3BRight ==
    ASSUME NEW e, General(e), e.op = \h3B, ~KnownMisdecode(e)
    PROVE  Same(e, Op3B(e))
    <1>1. e \in Encodings /\ Scalar(e) /\ Width(e) = W163264(e) /\ Width(e) # 8
      BY GeneralFacts, Widths DEF WithOperandSize, WithGs
    <1>2. Trusted(e, {"rip", "sib", "noBase", "r13Sib", "gs"})
      BY <1>1 DEF Trusted, KnownMisdecode, TakenForR13
    <1>3. \A w : Fits(e, Mem(w, {"rip", "sib", "noBase", "r13Sib", "gs"}), E(e, w))
      BY <1>1, <1>2, MemFits
    <1> QED
      BY <1>1, <1>3, FieldsFit, ErrorFits, ErrorSame, RowLoad, Rows DEF Op3B

\* The architecture's vector tables, by prefix.
LEMMA VectorMeaning ==
    ASSUME NEW e, e.op = \h0F, e.op2 # \h1F, NEW d, d # Undefined
    PROVE  /\ e.pre = {} /\ VectorPlain(e) = d => Meaning(e) = d
           /\ e.pre = {"66"} /\ Vector66(e) = d => Meaning(e) = d
           /\ e.pre = {"F2"} /\ VectorF2(e) = d => Meaning(e) = d
           /\ e.pre = {"F3"} /\ VectorF3(e) = d => Meaning(e) = d
    <1>1. CASE e.pre = {}
      <2>1. e.pre \intersect {"66", "F2", "F3"} = {}
        BY <1>1
      <2> QED
        BY <1>1, <2>1 DEF Meaning
    <1>2. CASE e.pre = {"66"}
      <2>1. e.pre \intersect {"66", "F2", "F3"} = {"66"}
        BY <1>2
      <2> QED
        BY <1>2, <2>1 DEF Meaning
    <1>3. CASE e.pre = {"F2"}
      <2>1. e.pre \intersect {"66", "F2", "F3"} = {"F2"}
        BY <1>3
      <2> QED
        BY <1>3, <2>1 DEF Meaning
    <1>4. CASE e.pre = {"F3"}
      <2>1. e.pre \intersect {"66", "F2", "F3"} = {"F3"}
        BY <1>4
      <2> QED
        BY <1>4, <2>1 DEF Meaning
    <1> QED
      BY <1>1, <1>2, <1>3, <1>4

\* An instruction is defined.
LEMMA InstIsInstruction ==
    ASSUME NEW name, NEW args
    PROVE  Inst(name, args) # Undefined /\ Bare(name, args) # Undefined
    BY MadeIsInstruction DEF Inst, Bare

\* Two operands that fit.
LEMMA SameInst2 ==
    ASSUME NEW e, NEW name, NEW a, NEW b, NEW a2, NEW b2,
           Meaning(e) = Inst(name, <<b, b2>>), Fits(e, a, b), Fits(e, a2, b2)
    PROVE  Same(e, Inst(name, <<a, a2>>))
    BY Agree2, FitsFollows DEF Inst

\* Two operands that fit, and an immediate.
LEMMA SameInst3 ==
    ASSUME NEW e, NEW name, NEW a, NEW b, NEW a2, NEW b2, NEW a3,
           Meaning(e) = Inst(name, <<b, b2, a3>>), Fits(e, a, b), Fits(e, a2, b2), a3.k = "imm"
    PROVE  Same(e, Inst(name, <<a, a2, a3>>))
    <1>1. Follows(e, b, a2, b2) /\ Follows(e, b, a3, a3)
      BY FitsFollows, PlainFits
    <1>2. Meaning(e) = Made(name, <<b, b2, a3>>, "none", 1, TRUE)
      BY DEF Inst
    <1>3. Same(e, Made(name, <<a, a2, a3>>, "none", 1, TRUE))
      BY <1>1, <1>2, Agree3
    <1> QED
      BY <1>3 DEF Inst

\* The vector operand, register or memory.
LEMMA XmmOrMemFits ==
    ASSUME NEW e \in Encodings, NEW p, "65" \notin e.pre,
           "r13" \notin p, "r13Disp" \notin p, "r13Sib" \notin p, "noR12" \notin p
    PROVE  \A w : Fits(e, XmmOrMem(e, w, p), U(e, w))
    <1>1. \A w : Fits(e, Mem(w, p), U(e, w))
      BY SafeMem
    <1> QED
      BY <1>1, FieldsFit DEF XmmOrMem

\* 0F 16: Movlhps makes what the architecture defines, or nothing.
LEMMA MovlhpsRight ==
    ASSUME NEW e \in Encodings, e.pre = {}, e.op = \h0F, e.op2 = \h16
    PROVE  Same(e, Movlhps(e))
    <1>1. VectorPlain(e) = Inst("Movlhps", <<V(e), U(e, 64)>>)
      BY DEF VectorPlain, VU, Moves, PackedShiftGroup
    <1>2. Meaning(e) = Inst("Movlhps", <<V(e), U(e, 64)>>)
      BY <1>1, InstIsInstruction, VectorMeaning
    <1>3. \A w : Fits(e, XmmOrMem(e, w, {"rip", "looseX"}), U(e, w))
      BY XmmOrMemFits
    <1> QED
      BY <1>2, <1>3, SameInst2, FieldsFit, ErrorFits, ErrorSame, Widths DEF Movlhps

\* 0F 57: Xorps makes what the architecture defines, or nothing.
LEMMA XorpsRight ==
    ASSUME NEW e \in Encodings, e.pre = {}, e.op = \h0F, e.op2 = \h57
    PROVE  Same(e, Xorps(e))
    <1>1. VectorPlain(e) = Inst("Xorps", <<V(e), U(e, 128)>>)
      BY DEF VectorPlain, VU, Moves, PackedShiftGroup
    <1>2. Meaning(e) = Inst("Xorps", <<V(e), U(e, 128)>>)
      BY <1>1, InstIsInstruction, VectorMeaning
    <1>3. \A w : Fits(e, XmmOrMem(e, w, {"rip"}), U(e, w))
      BY XmmOrMemFits
    <1> QED
      BY <1>2, <1>3, SameInst2, FieldsFit, ErrorFits, ErrorSame, Widths DEF Xorps

\* 66 0F 7C: Haddpd makes what the architecture defines, or nothing.
LEMMA HaddpdRight ==
    ASSUME NEW e \in Encodings, e.pre = {"66"}, e.op = \h0F, e.op2 = \h7C
    PROVE  Same(e, Haddpd(e))
    <1>1. Vector66(e) = Inst("Haddpd", <<V(e), U(e, 128)>>)
      BY DEF Vector66, VU, Moves, PackedShiftGroup
    <1>2. Meaning(e) = Inst("Haddpd", <<V(e), U(e, 128)>>)
      BY <1>1, InstIsInstruction, VectorMeaning
    <1>3. \A w : Fits(e, XmmOrMem(e, w, {"rip"}), U(e, w))
      BY XmmOrMemFits
    <1> QED
      BY <1>2, <1>3, SameInst2, FieldsFit, ErrorFits, ErrorSame, Widths DEF Haddpd, Only

\* 66 0F 51: PackedDouble makes what the architecture defines, or nothing.
LEMMA PackedDoubleSqrtpdRight ==
    ASSUME NEW e \in Encodings, e.pre = {"66"}, e.op = \h0F, e.op2 = \h51
    PROVE  Same(e, PackedDouble(e))
    <1>1. Vector66(e) = Inst("Sqrtpd", <<V(e), U(e, 128)>>)
      BY DEF Vector66, VU, Moves, PackedShiftGroup
    <1>2. Meaning(e) = Inst("Sqrtpd", <<V(e), U(e, 128)>>)
      BY <1>1, InstIsInstruction, VectorMeaning
    <1>3. \A w : Fits(e, XmmOrMem(e, w, {"rip"}), U(e, w))
      BY XmmOrMemFits
    <1> QED
      BY <1>2, <1>3, SameInst2, FieldsFit, ErrorFits, ErrorSame, Widths DEF PackedDouble, Only

\* 66 0F 58: PackedDouble makes what the architecture defines, or nothing.
LEMMA PackedDoubleAddpdRight ==
    ASSUME NEW e \in Encodings, e.pre = {"66"}, e.op = \h0F, e.op2 = \h58
    PROVE  Same(e, PackedDouble(e))
    <1>1. Vector66(e) = Inst("Addpd", <<V(e), U(e, 128)>>)
      BY DEF Vector66, VU, Moves, PackedShiftGroup
    <1>2. Meaning(e) = Inst("Addpd", <<V(e), U(e, 128)>>)
      BY <1>1, InstIsInstruction, VectorMeaning
    <1>3. \A w : Fits(e, XmmOrMem(e, w, {"rip"}), U(e, w))
      BY XmmOrMemFits
    <1> QED
      BY <1>2, <1>3, SameInst2, FieldsFit, ErrorFits, ErrorSame, Widths DEF PackedDouble, Only

\* 66 0F 59: PackedDouble makes what the architecture defines, or nothing.
LEMMA PackedDoubleMulpdRight ==
    ASSUME NEW e \in Encodings, e.pre = {"66"}, e.op = \h0F, e.op2 = \h59
    PROVE  Same(e, PackedDouble(e))
    <1>1. Vector66(e) = Inst("Mulpd", <<V(e), U(e, 128)>>)
      BY DEF Vector66, VU, Moves, PackedShiftGroup
    <1>2. Meaning(e) = Inst("Mulpd", <<V(e), U(e, 128)>>)
      BY <1>1, InstIsInstruction, VectorMeaning
    <1>3. \A w : Fits(e, XmmOrMem(e, w, {"rip"}), U(e, w))
      BY XmmOrMemFits
    <1> QED
      BY <1>2, <1>3, SameInst2, FieldsFit, ErrorFits, ErrorSame, Widths DEF PackedDouble, Only

\* 66 0F 5C: PackedDouble makes what the architecture defines, or nothing.
LEMMA PackedDoubleSubpdRight ==
    ASSUME NEW e \in Encodings, e.pre = {"66"}, e.op = \h0F, e.op2 = \h5C
    PROVE  Same(e, PackedDouble(e))
    <1>1. Vector66(e) = Inst("Subpd", <<V(e), U(e, 128)>>)
      BY DEF Vector66, VU, Moves, PackedShiftGroup
    <1>2. Meaning(e) = Inst("Subpd", <<V(e), U(e, 128)>>)
      BY <1>1, InstIsInstruction, VectorMeaning
    <1>3. \A w : Fits(e, XmmOrMem(e, w, {"rip"}), U(e, w))
      BY XmmOrMemFits
    <1> QED
      BY <1>2, <1>3, SameInst2, FieldsFit, ErrorFits, ErrorSame, Widths DEF PackedDouble, Only

\* 66 0F 5E: PackedDouble makes what the architecture defines, or nothing.
LEMMA PackedDoubleDivpdRight ==
    ASSUME NEW e \in Encodings, e.pre = {"66"}, e.op = \h0F, e.op2 = \h5E
    PROVE  Same(e, PackedDouble(e))
    <1>1. Vector66(e) = Inst("Divpd", <<V(e), U(e, 128)>>)
      BY DEF Vector66, VU, Moves, PackedShiftGroup
    <1>2. Meaning(e) = Inst("Divpd", <<V(e), U(e, 128)>>)
      BY <1>1, InstIsInstruction, VectorMeaning
    <1>3. \A w : Fits(e, XmmOrMem(e, w, {"rip"}), U(e, w))
      BY XmmOrMemFits
    <1> QED
      BY <1>2, <1>3, SameInst2, FieldsFit, ErrorFits, ErrorSame, Widths DEF PackedDouble, Only

\* 66 0F 57: Xorpd makes what the architecture defines, or nothing.
LEMMA XorpdRight ==
    ASSUME NEW e \in Encodings, e.pre = {"66"}, e.op = \h0F, e.op2 = \h57
    PROVE  Same(e, Xorpd(e))
    <1>1. Vector66(e) = Inst("Xorpd", <<V(e), U(e, 128)>>)
      BY DEF Vector66, VU, Moves, PackedShiftGroup
    <1>2. Meaning(e) = Inst("Xorpd", <<V(e), U(e, 128)>>)
      BY <1>1, InstIsInstruction, VectorMeaning
    <1> QED
      BY <1>2, SameInst2, FieldsFit, ErrorFits, ErrorSame, Widths DEF Xorpd, RegisterOnly, Only

\* 66 0F 6E: MovdLoad makes what the architecture defines, or nothing.
LEMMA MovdLoadRight ==
    ASSUME NEW e \in Encodings, e.pre = {"66"}, e.op = \h0F, e.op2 = \h6E
    PROVE  Same(e, MovdLoad(e))
    <1>1. Vector66(e) = Inst(IF W(e) THEN "Movq" ELSE "Movd", <<V(e), E(e, W3264(e))>>)
      BY DEF Vector66, VU, Moves, PackedShiftGroup
    <1>2. Meaning(e) = Inst(IF W(e) THEN "Movq" ELSE "Movd", <<V(e), E(e, W3264(e))>>)
      BY <1>1, InstIsInstruction, VectorMeaning
    <1>3. \A w : Fits(e, Mem(w, {"rip", "ripB", "sib", "looseX"}), E(e, w))
      BY SafeMem
    <1> QED
      BY <1>2, <1>3, SameInst2, FieldsFit, ErrorFits, ErrorSame, Widths DEF MovdLoad, Only

\* 66 0F 7E: MovdStore makes what the architecture defines, or nothing.
LEMMA MovdStoreRight ==
    ASSUME NEW e \in Encodings, e.pre = {"66"}, e.op = \h0F, e.op2 = \h7E
    PROVE  Same(e, MovdStore(e))
    <1>1. Vector66(e) = Inst(IF W(e) THEN "Movq" ELSE "Movd", <<E(e, W3264(e)), V(e)>>)
      BY DEF Vector66, VU, Moves, PackedShiftGroup
    <1>2. Meaning(e) = Inst(IF W(e) THEN "Movq" ELSE "Movd", <<E(e, W3264(e)), V(e)>>)
      BY <1>1, InstIsInstruction, VectorMeaning
    <1>3. \A w : Fits(e, Mem(w, {"rip", "ripB", "sib", "looseX"}), E(e, w))
      BY SafeMem
    <1> QED
      BY <1>2, <1>3, SameInst2, FieldsFit, ErrorFits, ErrorSame, Widths DEF MovdStore, Only

\* F3 0F 7F: MovdquStore makes what the architecture defines, or nothing.
LEMMA MovdquStoreRight ==
    ASSUME NEW e \in Encodings, e.pre = {"F3"}, e.op = \h0F, e.op2 = \h7F, ~KnownMisdecode(e)
    PROVE  Same(e, MovdquStore(e))
    <1>1. VectorF3(e) = Inst("Movdqu", <<U(e, 128), V(e)>>)
      BY DEF VectorF3, VU, Moves, PackedShiftGroup
    <1>2. Meaning(e) = Inst("Movdqu", <<U(e, 128), V(e)>>)
      BY <1>1, InstIsInstruction, VectorMeaning
    <1>3. Trusted(e, {"r13", "sib"})
      BY DEF Trusted, KnownMisdecode, TakenForR13, IndexDropped, TwoByteForm
    <1>4. \A w : Fits(e, Mem(w, {"r13", "sib"}), U(e, w))
      BY <1>3, MemFits
    <1>5. Trusted(e, {"rip", "sib"})
      BY DEF Trusted, KnownMisdecode, TakenForR13, IndexDropped, TwoByteForm
    <1>6. \A w : Fits(e, Mem(w, {"rip", "sib"}), U(e, w))
      BY <1>5, MemFits
    <1> QED
      BY <1>2, <1>4, <1>6, SameInst2, FieldsFit, ErrorFits, ErrorSame, Widths DEF MovdquStore, Only

\* F3 0F 6F: MovdquLoad makes what the architecture defines, or nothing.
LEMMA MovdquLoadRight ==
    ASSUME NEW e \in Encodings, e.pre = {"F3"}, e.op = \h0F, e.op2 = \h6F
    PROVE  Same(e, MovdquLoad(e))
    <1>1. VectorF3(e) = Inst("Movdqu", <<V(e), U(e, 128)>>)
      BY DEF VectorF3, VU, Moves, PackedShiftGroup
    <1>2. Meaning(e) = Inst("Movdqu", <<V(e), U(e, 128)>>)
      BY <1>1, InstIsInstruction, VectorMeaning
    <1>3. \A w : Fits(e, Mem(w, {"rip", "ripB", "sib", "looseX"}), U(e, w))
      BY SafeMem
    <1> QED
      BY <1>2, <1>3, SameInst2, FieldsFit, ErrorFits, ErrorSame, Widths DEF MovdquLoad

\* 66 0F 38 00: Pshufb makes what the architecture defines, or nothing.
LEMMA PshufbRight ==
    ASSUME NEW e \in Encodings, e.pre = {"66"}, e.op = \h0F, e.op2 = \h38, e.op3 = \h00
    PROVE  Same(e, Pshufb(e))
    <1>1. Vector66(e) = Inst("Pshufb", <<V(e), U(e, 128)>>)
      BY DEF Vector66, VU, Vector38, Moves, PackedShiftGroup
    <1>2. Meaning(e) = Inst("Pshufb", <<V(e), U(e, 128)>>)
      BY <1>1, InstIsInstruction, VectorMeaning
    <1>3. \A w : Fits(e, Mem(w, {"rip", "ripB", "sib", "noBase", "looseX"}), U(e, w))
      BY SafeMem
    <1> QED
      BY <1>2, <1>3, SameInst2, FieldsFit, ErrorFits, ErrorSame, Widths DEF Pshufb, Only, decodeModrmMemory

\* 66 0F 38 02: Phaddd makes what the architecture defines, or nothing.
LEMMA PhadddRight ==
    ASSUME NEW e \in Encodings, e.pre = {"66"}, e.op = \h0F, e.op2 = \h38, e.op3 = \h02
    PROVE  Same(e, Phaddd(e))
    <1>1. Vector66(e) = Inst("Phaddd", <<V(e), U(e, 128)>>)
      BY DEF Vector66, VU, Vector38, Moves, PackedShiftGroup
    <1>2. Meaning(e) = Inst("Phaddd", <<V(e), U(e, 128)>>)
      BY <1>1, InstIsInstruction, VectorMeaning
    <1> QED
      BY <1>2, SameInst2, FieldsFit, ErrorFits, ErrorSame, Widths DEF Phaddd, RegisterOnly, Only

\* 66 0F 38 31: Pmovzxbd makes what the architecture defines, or nothing.
LEMMA PmovzxbdRight ==
    ASSUME NEW e \in Encodings, e.pre = {"66"}, e.op = \h0F, e.op2 = \h38, e.op3 = \h31
    PROVE  Same(e, Pmovzxbd(e))
    <1>1. Vector66(e) = Inst("Pmovzxbd", <<V(e), U(e, 32)>>)
      BY DEF Vector66, VU, Vector38, Moves, PackedShiftGroup
    <1>2. Meaning(e) = Inst("Pmovzxbd", <<V(e), U(e, 32)>>)
      BY <1>1, InstIsInstruction, VectorMeaning
    <1> QED
      BY <1>2, SameInst2, FieldsFit, ErrorFits, ErrorSame, Widths DEF Pmovzxbd, RegisterOnly, Only

\* 66 0F 38 22: PmovsxRip makes what the architecture defines, or nothing.
LEMMA PmovsxRipBqRight ==
    ASSUME NEW e \in Encodings, e.pre = {"66"}, e.op = \h0F, e.op2 = \h38, e.op3 = \h22
    PROVE  Same(e, PmovsxRip(e))
    <1>1. Vector66(e) = Inst("Pmovsxbq", <<V(e), U(e, 16)>>)
      BY DEF Vector66, VU, Vector38, Moves, PackedShiftGroup
    <1>2. Meaning(e) = Inst("Pmovsxbq", <<V(e), U(e, 16)>>)
      BY <1>1, InstIsInstruction, VectorMeaning
    <1>3. \A w : Fits(e, Mem(w, {"rip"}), U(e, w))
      BY SafeMem
    <1> QED
      BY <1>2, <1>3, SameInst2, FieldsFit, ErrorFits, ErrorSame, Widths DEF PmovsxRip, Only

\* 66 0F 38 21: PmovsxRip makes what the architecture defines, or nothing.
LEMMA PmovsxRipBdRight ==
    ASSUME NEW e \in Encodings, e.pre = {"66"}, e.op = \h0F, e.op2 = \h38, e.op3 = \h21
    PROVE  Same(e, PmovsxRip(e))
    <1>1. Vector66(e) = Inst("Pmovsxbd", <<V(e), U(e, 32)>>)
      BY DEF Vector66, VU, Vector38, Moves, PackedShiftGroup
    <1>2. Meaning(e) = Inst("Pmovsxbd", <<V(e), U(e, 32)>>)
      BY <1>1, InstIsInstruction, VectorMeaning
    <1>3. \A w : Fits(e, Mem(w, {"rip"}), U(e, w))
      BY SafeMem
    <1> QED
      BY <1>2, <1>3, SameInst2, FieldsFit, ErrorFits, ErrorSame, Widths DEF PmovsxRip, Only

\* 66 0F 38 25: Pmovsxdq makes what the architecture defines, or nothing.
LEMMA PmovsxdqRight ==
    ASSUME NEW e \in Encodings, e.pre = {"66"}, e.op = \h0F, e.op2 = \h38, e.op3 = \h25
    PROVE  Same(e, Pmovsxdq(e))
    <1>1. Vector66(e) = Inst("Pmovsxdq", <<V(e), U(e, 64)>>)
      BY DEF Vector66, VU, Vector38, Moves, PackedShiftGroup
    <1>2. Meaning(e) = Inst("Pmovsxdq", <<V(e), U(e, 64)>>)
      BY <1>1, InstIsInstruction, VectorMeaning
    <1>3. \A w : Fits(e, XmmOrMem(e, w, {"rip"}), U(e, w))
      BY XmmOrMemFits
    <1> QED
      BY <1>2, <1>3, SameInst2, FieldsFit, ErrorFits, ErrorSame, Widths DEF Pmovsxdq, Only

\* 66 0F 38 29: Pcmpeqq makes what the architecture defines, or nothing.
LEMMA PcmpeqqRight ==
    ASSUME NEW e \in Encodings, e.pre = {"66"}, e.op = \h0F, e.op2 = \h38, e.op3 = \h29
    PROVE  Same(e, Pcmpeqq(e))
    <1>1. Vector66(e) = Inst("Pcmpeqq", <<V(e), U(e, 128)>>)
      BY DEF Vector66, VU, Vector38, Moves, PackedShiftGroup
    <1>2. Meaning(e) = Inst("Pcmpeqq", <<V(e), U(e, 128)>>)
      BY <1>1, InstIsInstruction, VectorMeaning
    <1>3. \A w : Fits(e, XmmOrMem(e, w, {"rip"}), U(e, w))
      BY XmmOrMemFits
    <1> QED
      BY <1>2, <1>3, SameInst2, FieldsFit, ErrorFits, ErrorSame, Widths DEF Pcmpeqq, Only

\* 66 0F 38 15: Blendvpd makes what the architecture defines, or nothing.
LEMMA BlendvpdRight ==
    ASSUME NEW e \in Encodings, e.pre = {"66"}, e.op = \h0F, e.op2 = \h38, e.op3 = \h15
    PROVE  Same(e, Blendvpd(e))
    <1>1. Vector66(e) = Inst("Blendvpd", <<V(e), U(e, 128)>>)
      BY DEF Vector66, VU, Vector38, Moves, PackedShiftGroup
    <1>2. Meaning(e) = Inst("Blendvpd", <<V(e), U(e, 128)>>)
      BY <1>1, InstIsInstruction, VectorMeaning
    <1> QED
      BY <1>2, SameInst2, FieldsFit, ErrorFits, ErrorSame, Widths DEF Blendvpd, RegisterOnly, Only

\* 66 0F C4: Pinsrw makes what the architecture defines, or nothing.
LEMMA PinsrwRight ==
    ASSUME NEW e \in Encodings, e.pre = {"66"}, e.op = \h0F, e.op2 = \hC4
    PROVE  Same(e, Pinsrw(e))
    <1>1. Vector66(e) = Inst("Pinsrw", <<V(e), E(e, IF Direct(e) THEN W3264(e) ELSE 16), Count>>)
      BY DEF Vector66, VU, Moves, PackedShiftGroup
    <1>2. Meaning(e) = Inst("Pinsrw", <<V(e), E(e, IF Direct(e) THEN W3264(e) ELSE 16), Count>>)
      BY <1>1, InstIsInstruction, VectorMeaning
    <1>3. \A w : Fits(e, Mem(w, {}), E(e, w))
      BY SafeMem
    <1> QED
      BY <1>2, <1>3, SameInst3, ImmIsOperand, FieldsFit, ErrorFits, ErrorSame, Widths DEF Pinsrw, Only, Count

\* 66 0F C5: Pextrw makes what the architecture defines, or nothing.
LEMMA PextrwRight ==
    ASSUME NEW e \in Encodings, e.pre = {"66"}, e.op = \h0F, e.op2 = \hC5
    PROVE  Same(e, Pextrw(e))
    <1>1. Vector66(e) = Inst("Pextrw", <<G(e, 32), U(e, 128), Count>>)
      BY DEF Vector66, VU, Moves, PackedShiftGroup
    <1>2. Meaning(e) = Inst("Pextrw", <<G(e, 32), U(e, 128), Count>>)
      BY <1>1, InstIsInstruction, VectorMeaning
    <1> QED
      BY <1>2, SameInst3, ImmIsOperand, FieldsFit, ErrorFits, ErrorSame, Widths DEF Pextrw, Only, Count

\* 66 0F 3A 17: Extractps makes what the architecture defines, or nothing.
LEMMA ExtractpsRight ==
    ASSUME NEW e \in Encodings, e.pre = {"66"}, e.op = \h0F, e.op2 = \h3A, e.op3 = \h17
    PROVE  Same(e, Extractps(e))
    <1>1. Vector66(e) = Inst("Extractps", <<E(e, 32), V(e), Count>>)
      BY DEF Vector66, VU, Vector3A, Moves, PackedShiftGroup
    <1>2. Meaning(e) = Inst("Extractps", <<E(e, 32), V(e), Count>>)
      BY <1>1, InstIsInstruction, VectorMeaning
    <1>3. \A w : Fits(e, Mem(w, {"plainSib"}), E(e, w))
      BY SafeMem
    <1> QED
      BY <1>2, <1>3, SameInst3, ImmIsOperand, FieldsFit, ErrorFits, ErrorSame, Widths DEF Extractps, Count

\* 66 0F 38 17: Ptest makes what the architecture defines, or nothing.
LEMMA PtestRight ==
    ASSUME NEW e \in Encodings, e.pre = {"66"}, e.op = \h0F, e.op2 = \h38, e.op3 = \h17
    PROVE  Same(e, Ptest(e))
    <1>1. Vector66(e) = Inst("Ptest", <<V(e), U(e, 128)>>)
      BY DEF Vector66, VU, Vector38, Moves, PackedShiftGroup
    <1>2. Meaning(e) = Inst("Ptest", <<V(e), U(e, 128)>>)
      BY <1>1, InstIsInstruction, VectorMeaning
    <1> QED
      BY <1>2, SameInst2, FieldsFit, ErrorFits, ErrorSame, Widths DEF Ptest, Only

\* 66 0F C2: Cmppd makes what the architecture defines, or nothing.
LEMMA CmppdRight ==
    ASSUME NEW e \in Encodings, e.pre = {"66"}, e.op = \h0F, e.op2 = \hC2
    PROVE  Same(e, Cmppd(e))
    <1>1. Vector66(e) = Inst("Cmppd", <<V(e), U(e, 128), Count>>)
      BY DEF Vector66, VU, Moves, PackedShiftGroup
    <1>2. Meaning(e) = Inst("Cmppd", <<V(e), U(e, 128), Count>>)
      BY <1>1, InstIsInstruction, VectorMeaning
    <1> QED
      BY <1>2, SameInst3, ImmIsOperand, FieldsFit, ErrorFits, ErrorSame, Widths DEF Cmppd, Only, Count

\* 66 0F FD: Paddw makes what the architecture defines, or nothing.
LEMMA PaddwRight ==
    ASSUME NEW e \in Encodings, e.pre = {"66"}, e.op = \h0F, e.op2 = \hFD
    PROVE  Same(e, Paddw(e))
    <1>1. Vector66(e) = Inst("Paddw", <<V(e), U(e, 128)>>)
      BY DEF Vector66, VU, Moves, PackedShiftGroup
    <1>2. Meaning(e) = Inst("Paddw", <<V(e), U(e, 128)>>)
      BY <1>1, InstIsInstruction, VectorMeaning
    <1> QED
      BY <1>2, SameInst2, FieldsFit, ErrorFits, ErrorSame, Widths DEF Paddw, RegisterOnly, Only

\* 66 0F D4: PackedAdd makes what the architecture defines, or nothing.
LEMMA PackedAddQRight ==
    ASSUME NEW e \in Encodings, e.pre = {"66"}, e.op = \h0F, e.op2 = \hD4
    PROVE  Same(e, PackedAdd(e))
    <1>1. Vector66(e) = Inst("Paddq", <<V(e), U(e, 128)>>)
      BY DEF Vector66, VU, Moves, PackedShiftGroup
    <1>2. Meaning(e) = Inst("Paddq", <<V(e), U(e, 128)>>)
      BY <1>1, InstIsInstruction, VectorMeaning
    <1> QED
      BY <1>2, SameInst2, FieldsFit, ErrorFits, ErrorSame, Widths DEF PackedAdd, RegisterOnly, Only

\* 66 0F FE: PackedAdd makes what the architecture defines, or nothing.
LEMMA PackedAddDRight ==
    ASSUME NEW e \in Encodings, e.pre = {"66"}, e.op = \h0F, e.op2 = \hFE, ~KnownMisdecode(e)
    PROVE  Same(e, PackedAdd(e))
    <1>1. Vector66(e) = Inst("Paddd", <<V(e), U(e, 128)>>)
      BY DEF Vector66, VU, Moves, PackedShiftGroup
    <1>2. Meaning(e) = Inst("Paddd", <<V(e), U(e, 128)>>)
      BY <1>1, InstIsInstruction, VectorMeaning
    <1>3. Trusted(e, {"rip", "r13"})
      BY DEF Trusted, KnownMisdecode, TakenForR13, IndexDropped, TwoByteForm
    <1>4. \A w : Fits(e, XmmOrMem(e, w, {"rip", "r13"}), U(e, w))
      BY <1>3, MemFits, FieldsFit DEF XmmOrMem
    <1> QED
      BY <1>2, <1>4, SameInst2, FieldsFit, ErrorFits, ErrorSame, Widths DEF PackedAdd, Only

\* 66 0F 61: Punpckl makes what the architecture defines, or nothing.
LEMMA PunpcklwdRight ==
    ASSUME NEW e \in Encodings, e.pre = {"66"}, e.op = \h0F, e.op2 = \h61
    PROVE  Same(e, Punpckl(e))
    <1>1. Vector66(e) = Inst("Punpcklwd", <<V(e), U(e, 128)>>)
      BY DEF Vector66, VU, Moves, PackedShiftGroup
    <1>2. Meaning(e) = Inst("Punpcklwd", <<V(e), U(e, 128)>>)
      BY <1>1, InstIsInstruction, VectorMeaning
    <1> QED
      BY <1>2, SameInst2, FieldsFit, ErrorFits, ErrorSame, Widths DEF Punpckl, RegisterOnly, Only

\* 66 0F 6C: Punpckl makes what the architecture defines, or nothing.
LEMMA PunpcklqdqRight ==
    ASSUME NEW e \in Encodings, e.pre = {"66"}, e.op = \h0F, e.op2 = \h6C
    PROVE  Same(e, Punpckl(e))
    <1>1. Vector66(e) = Inst("Punpcklqdq", <<V(e), U(e, 128)>>)
      BY DEF Vector66, VU, Moves, PackedShiftGroup
    <1>2. Meaning(e) = Inst("Punpcklqdq", <<V(e), U(e, 128)>>)
      BY <1>1, InstIsInstruction, VectorMeaning
    <1> QED
      BY <1>2, SameInst2, FieldsFit, ErrorFits, ErrorSame, Widths DEF Punpckl, RegisterOnly, Only

\* 66 0F EB: Por makes what the architecture defines, or nothing.
LEMMA PorRight ==
    ASSUME NEW e \in Encodings, e.pre = {"66"}, e.op = \h0F, e.op2 = \hEB
    PROVE  Same(e, Por(e))
    <1>1. Vector66(e) = Inst("Por", <<V(e), U(e, 128)>>)
      BY DEF Vector66, VU, Moves, PackedShiftGroup
    <1>2. Meaning(e) = Inst("Por", <<V(e), U(e, 128)>>)
      BY <1>1, InstIsInstruction, VectorMeaning
    <1> QED
      BY <1>2, SameInst2, FieldsFit, ErrorFits, ErrorSame, Widths DEF Por, Only

\* 66 0F EF: Pxor makes what the architecture defines, or nothing.
LEMMA PxorRight ==
    ASSUME NEW e \in Encodings, e.pre = {"66"}, e.op = \h0F, e.op2 = \hEF
    PROVE  Same(e, Pxor(e))
    <1>1. Vector66(e) = Inst("Pxor", <<V(e), U(e, 128)>>)
      BY DEF Vector66, VU, Moves, PackedShiftGroup
    <1>2. Meaning(e) = Inst("Pxor", <<V(e), U(e, 128)>>)
      BY <1>1, InstIsInstruction, VectorMeaning
    <1>3. \A w : Fits(e, XmmOrMem(e, w, {"rip", "ripB", "looseX"}), U(e, w))
      BY XmmOrMemFits
    <1> QED
      BY <1>2, <1>3, SameInst2, FieldsFit, ErrorFits, ErrorSame, Widths DEF Pxor

\* 66 0F DF: Pandn makes what the architecture defines, or nothing.
LEMMA PandnRight ==
    ASSUME NEW e \in Encodings, e.pre = {"66"}, e.op = \h0F, e.op2 = \hDF
    PROVE  Same(e, Pandn(e))
    <1>1. Vector66(e) = Inst("Pandn", <<V(e), U(e, 128)>>)
      BY DEF Vector66, VU, Moves, PackedShiftGroup
    <1>2. Meaning(e) = Inst("Pandn", <<V(e), U(e, 128)>>)
      BY <1>1, InstIsInstruction, VectorMeaning
    <1> QED
      BY <1>2, SameInst2, FieldsFit, ErrorFits, ErrorSame, Widths DEF Pandn, Only

\* 66 0F DB: Pand makes what the architecture defines, or nothing.
LEMMA PandRight ==
    ASSUME NEW e \in Encodings, e.pre = {"66"}, e.op = \h0F, e.op2 = \hDB
    PROVE  Same(e, Pand(e))
    <1>1. Vector66(e) = Inst("Pand", <<V(e), U(e, 128)>>)
      BY DEF Vector66, VU, Moves, PackedShiftGroup
    <1>2. Meaning(e) = Inst("Pand", <<V(e), U(e, 128)>>)
      BY <1>1, InstIsInstruction, VectorMeaning
    <1>3. \A w : Fits(e, XmmOrMem(e, w, {"rip"}), U(e, w))
      BY XmmOrMemFits
    <1> QED
      BY <1>2, <1>3, SameInst2, FieldsFit, ErrorFits, ErrorSame, Widths DEF Pand

\* 66 0F 74: Pcmpeqb makes what the architecture defines, or nothing.
LEMMA PcmpeqbRight ==
    ASSUME NEW e \in Encodings, e.pre = {"66"}, e.op = \h0F, e.op2 = \h74
    PROVE  Same(e, Pcmpeqb(e))
    <1>1. Vector66(e) = Inst("Pcmpeqb", <<V(e), U(e, 128)>>)
      BY DEF Vector66, VU, Moves, PackedShiftGroup
    <1>2. Meaning(e) = Inst("Pcmpeqb", <<V(e), U(e, 128)>>)
      BY <1>1, InstIsInstruction, VectorMeaning
    <1>3. \A w : Fits(e, XmmOrMem(e, w, {}), U(e, w))
      BY XmmOrMemFits
    <1> QED
      BY <1>2, <1>3, SameInst2, FieldsFit, ErrorFits, ErrorSame, Widths DEF Pcmpeqb

\* 66 0F 76: Pcmpeqd makes what the architecture defines, or nothing.
LEMMA PcmpeqdRight ==
    ASSUME NEW e \in Encodings, e.pre = {"66"}, e.op = \h0F, e.op2 = \h76
    PROVE  Same(e, Pcmpeqd(e))
    <1>1. Vector66(e) = Inst("Pcmpeqd", <<V(e), U(e, 128)>>)
      BY DEF Vector66, VU, Moves, PackedShiftGroup
    <1>2. Meaning(e) = Inst("Pcmpeqd", <<V(e), U(e, 128)>>)
      BY <1>1, InstIsInstruction, VectorMeaning
    <1> QED
      BY <1>2, SameInst2, FieldsFit, ErrorFits, ErrorSame, Widths DEF Pcmpeqd, RegisterOnly, Only

\* 66 0F 70: Pshufd makes what the architecture defines, or nothing.
LEMMA PshufdRight ==
    ASSUME NEW e \in Encodings, e.pre = {"66"}, e.op = \h0F, e.op2 = \h70
    PROVE  Same(e, Pshufd(e))
    <1>1. Vector66(e) = Inst("Pshufd", <<V(e), U(e, 128), Count>>)
      BY DEF Vector66, VU, Moves, PackedShiftGroup
    <1>2. Meaning(e) = Inst("Pshufd", <<V(e), U(e, 128), Count>>)
      BY <1>1, InstIsInstruction, VectorMeaning
    <1> QED
      BY <1>2, SameInst3, ImmIsOperand, FieldsFit, ErrorFits, ErrorSame, Widths DEF Pshufd, Only, Count

\* 0F C6: Shufps makes what the architecture defines, or nothing.
LEMMA ShufpsRight ==
    ASSUME NEW e \in Encodings, e.pre = {}, e.op = \h0F, e.op2 = \hC6
    PROVE  Same(e, Shufps(e))
    <1>1. VectorPlain(e) = Inst("Shufps", <<V(e), U(e, 128), Count>>)
      BY DEF VectorPlain, VU, Moves, PackedShiftGroup
    <1>2. Meaning(e) = Inst("Shufps", <<V(e), U(e, 128), Count>>)
      BY <1>1, InstIsInstruction, VectorMeaning
    <1> QED
      BY <1>2, SameInst3, ImmIsOperand, FieldsFit, ErrorFits, ErrorSame, Widths DEF Shufps, Only, Count

\* 0F 50: Movmsk makes what the architecture defines, or nothing.
LEMMA MovmskSingleRight ==
    ASSUME NEW e \in Encodings, e.pre = {}, e.op = \h0F, e.op2 = \h50
    PROVE  Same(e, Movmsk(e))
    <1>1. VectorPlain(e) = Inst("Movmskps", <<G(e, 32), U(e, 128)>>)
      BY DEF VectorPlain, VU, Moves, PackedShiftGroup
    <1>2. Meaning(e) = Inst("Movmskps", <<G(e, 32), U(e, 128)>>)
      BY <1>1, InstIsInstruction, VectorMeaning
    <1> QED
      BY <1>2, SameInst2, FieldsFit, ErrorFits, ErrorSame, Widths DEF Movmsk, Only

\* 66 0F 50: Movmsk makes what the architecture defines, or nothing.
LEMMA MovmskDoubleRight ==
    ASSUME NEW e \in Encodings, e.pre = {"66"}, e.op = \h0F, e.op2 = \h50
    PROVE  Same(e, Movmsk(e))
    <1>1. Vector66(e) = Inst("Movmskpd", <<G(e, 32), U(e, 128)>>)
      BY DEF Vector66, VU, Moves, PackedShiftGroup
    <1>2. Meaning(e) = Inst("Movmskpd", <<G(e, 32), U(e, 128)>>)
      BY <1>1, InstIsInstruction, VectorMeaning
    <1> QED
      BY <1>2, SameInst2, FieldsFit, ErrorFits, ErrorSame, Widths DEF Movmsk, Only

\* 66 0F C6: Shufpd makes what the architecture defines, or nothing.
LEMMA ShufpdRight ==
    ASSUME NEW e \in Encodings, e.pre = {"66"}, e.op = \h0F, e.op2 = \hC6
    PROVE  Same(e, Shufpd(e))
    <1>1. Vector66(e) = Inst("Shufpd", <<V(e), U(e, 128), Count>>)
      BY DEF Vector66, VU, Moves, PackedShiftGroup
    <1>2. Meaning(e) = Inst("Shufpd", <<V(e), U(e, 128), Count>>)
      BY <1>1, InstIsInstruction, VectorMeaning
    <1> QED
      BY <1>2, SameInst3, ImmIsOperand, FieldsFit, ErrorFits, ErrorSame, Widths DEF Shufpd, Only, Count

\* 66 0F D6: MovqStore makes what the architecture defines, or nothing.
LEMMA MovqStoreRight ==
    ASSUME NEW e \in Encodings, e.pre = {"66"}, e.op = \h0F, e.op2 = \hD6
    PROVE  Same(e, MovqStore(e))
    <1>1. Vector66(e) = Inst("Movq", <<U(e, 64), V(e)>>)
      BY DEF Vector66, VU, Moves, PackedShiftGroup
    <1>2. Meaning(e) = Inst("Movq", <<U(e, 64), V(e)>>)
      BY <1>1, InstIsInstruction, VectorMeaning
    <1>3. \A w : Fits(e, Mem(w, {"rip", "sib", "looseX"}), U(e, w))
      BY SafeMem
    <1> QED
      BY <1>2, <1>3, SameInst2, FieldsFit, ErrorFits, ErrorSame, Widths DEF MovqStore

\* F2 0F 10: Movsd makes what the architecture defines, or nothing.
LEMMA MovsdLoadRight ==
    ASSUME NEW e \in Encodings, e.pre = {"F2"}, e.op = \h0F, e.op2 = \h10
    PROVE  Same(e, Movsd(e))
    <1>1. VectorF2(e) = Inst("Movsd", <<V(e), U(e, 64)>>)
      BY DEF VectorF2, VU, Moves, PackedShiftGroup
    <1>2. Meaning(e) = Inst("Movsd", <<V(e), U(e, 64)>>)
      BY <1>1, InstIsInstruction, VectorMeaning
    <1>3. \A w : Fits(e, Mem(w, {"rip", "ripB", "sib", "ripX"}), U(e, w))
      BY SafeMem
    <1> QED
      BY <1>2, <1>3, SameInst2, FieldsFit, ErrorFits, ErrorSame, Widths DEF Movsd, LoadStore

\* F2 0F 11: Movsd makes what the architecture defines, or nothing.
LEMMA MovsdStoreRight ==
    ASSUME NEW e \in Encodings, e.pre = {"F2"}, e.op = \h0F, e.op2 = \h11
    PROVE  Same(e, Movsd(e))
    <1>1. VectorF2(e) = Inst("Movsd", <<U(e, 64), V(e)>>)
      BY DEF VectorF2, VU, Moves, PackedShiftGroup
    <1>2. Meaning(e) = Inst("Movsd", <<U(e, 64), V(e)>>)
      BY <1>1, InstIsInstruction, VectorMeaning
    <1>3. \A w : Fits(e, Mem(w, {"rip", "ripB", "sib", "ripX"}), U(e, w))
      BY SafeMem
    <1> QED
      BY <1>2, <1>3, SameInst2, FieldsFit, ErrorFits, ErrorSame, Widths DEF Movsd, LoadStore

\* 0F 12: Movlps makes what the architecture defines, or nothing.
LEMMA MovlpsLoadRight ==
    ASSUME NEW e \in Encodings, e.pre = {}, e.op = \h0F, e.op2 = \h12
    PROVE  Same(e, Movlps(e))
    <1>1. VectorPlain(e) = Inst("Movlps", <<V(e), U(e, 64)>>)
      BY DEF VectorPlain, VU, Moves, PackedShiftGroup
    <1>2. Meaning(e) = Inst("Movlps", <<V(e), U(e, 64)>>)
      BY <1>1, InstIsInstruction, VectorMeaning
    <1>3. \A w : Fits(e, Mem(w, {"rip", "ripB", "sib", "ripX"}), U(e, w))
      BY SafeMem
    <1> QED
      BY <1>2, <1>3, SameInst2, FieldsFit, ErrorFits, ErrorSame, Widths DEF Movlps, LoadStore

\* 0F 13: Movlps makes what the architecture defines, or nothing.
LEMMA MovlpsStoreRight ==
    ASSUME NEW e \in Encodings, e.pre = {}, e.op = \h0F, e.op2 = \h13
    PROVE  Same(e, Movlps(e))
    <1>1. VectorPlain(e) = Inst("Movlps", <<U(e, 64), V(e)>>)
      BY DEF VectorPlain, VU, Moves, PackedShiftGroup
    <1>2. Meaning(e) = Inst("Movlps", <<U(e, 64), V(e)>>)
      BY <1>1, InstIsInstruction, VectorMeaning
    <1>3. \A w : Fits(e, Mem(w, {"rip", "ripB", "sib", "ripX"}), U(e, w))
      BY SafeMem
    <1> QED
      BY <1>2, <1>3, SameInst2, FieldsFit, ErrorFits, ErrorSame, Widths DEF Movlps, LoadStore

\* F2 0F 2C: Cvttsd2si makes what the architecture defines, or nothing.
LEMMA Cvttsd2siRight ==
    ASSUME NEW e \in Encodings, e.pre = {"F2"}, e.op = \h0F, e.op2 = \h2C
    PROVE  Same(e, Cvttsd2si(e))
    <1>1. VectorF2(e) = Inst("Cvttsd2si", <<G(e, W3264(e)), U(e, 64)>>)
      BY DEF VectorF2, VU, Moves, PackedShiftGroup
    <1>2. Meaning(e) = Inst("Cvttsd2si", <<G(e, W3264(e)), U(e, 64)>>)
      BY <1>1, InstIsInstruction, VectorMeaning
    <1>3. \A w : Fits(e, XmmOrMem(e, w, {"rip", "looseX"}), U(e, w))
      BY XmmOrMemFits
    <1> QED
      BY <1>2, <1>3, SameInst2, FieldsFit, ErrorFits, ErrorSame, Widths DEF Cvttsd2si

\* F2 0F 2A: Cvtsi2sd makes what the architecture defines, or nothing.
LEMMA Cvtsi2sdRight ==
    ASSUME NEW e \in Encodings, e.pre = {"F2"}, e.op = \h0F, e.op2 = \h2A
    PROVE  Same(e, Cvtsi2sd(e))
    <1>1. VectorF2(e) = Inst("Cvtsi2sd", <<V(e), E(e, W3264(e))>>)
      BY DEF VectorF2, VU, Moves, PackedShiftGroup
    <1>2. Meaning(e) = Inst("Cvtsi2sd", <<V(e), E(e, W3264(e))>>)
      BY <1>1, InstIsInstruction, VectorMeaning
    <1>3. \A w : Fits(e, Mem(w, {"rip", "looseX"}), E(e, w))
      BY SafeMem
    <1> QED
      BY <1>2, <1>3, SameInst2, FieldsFit, ErrorFits, ErrorSame, Widths DEF Cvtsi2sd

\* F2 0F 51: ScalarDouble makes what the architecture defines, or nothing.
LEMMA ScalarDoubleSqrtsdRight ==
    ASSUME NEW e \in Encodings, e.pre = {"F2"}, e.op = \h0F, e.op2 = \h51
    PROVE  Same(e, ScalarDouble(e))
    <1>1. VectorF2(e) = Inst("Sqrtsd", <<V(e), U(e, 64)>>)
      BY DEF VectorF2, VU, Moves, PackedShiftGroup
    <1>2. Meaning(e) = Inst("Sqrtsd", <<V(e), U(e, 64)>>)
      BY <1>1, InstIsInstruction, VectorMeaning
    <1>3. \A w : Fits(e, XmmOrMem(e, w, {"rip", "looseX"}), U(e, w))
      BY XmmOrMemFits
    <1> QED
      BY <1>2, <1>3, SameInst2, FieldsFit, ErrorFits, ErrorSame, Widths DEF ScalarDouble

\* F2 0F 58: ScalarDouble makes what the architecture defines, or nothing.
LEMMA ScalarDoubleAddsdRight ==
    ASSUME NEW e \in Encodings, e.pre = {"F2"}, e.op = \h0F, e.op2 = \h58
    PROVE  Same(e, ScalarDouble(e))
    <1>1. VectorF2(e) = Inst("Addsd", <<V(e), U(e, 64)>>)
      BY DEF VectorF2, VU, Moves, PackedShiftGroup
    <1>2. Meaning(e) = Inst("Addsd", <<V(e), U(e, 64)>>)
      BY <1>1, InstIsInstruction, VectorMeaning
    <1>3. \A w : Fits(e, XmmOrMem(e, w, {"rip", "looseX"}), U(e, w))
      BY XmmOrMemFits
    <1> QED
      BY <1>2, <1>3, SameInst2, FieldsFit, ErrorFits, ErrorSame, Widths DEF ScalarDouble

\* F2 0F 59: ScalarDouble makes what the architecture defines, or nothing.
LEMMA ScalarDoubleMulsdRight ==
    ASSUME NEW e \in Encodings, e.pre = {"F2"}, e.op = \h0F, e.op2 = \h59
    PROVE  Same(e, ScalarDouble(e))
    <1>1. VectorF2(e) = Inst("Mulsd", <<V(e), U(e, 64)>>)
      BY DEF VectorF2, VU, Moves, PackedShiftGroup
    <1>2. Meaning(e) = Inst("Mulsd", <<V(e), U(e, 64)>>)
      BY <1>1, InstIsInstruction, VectorMeaning
    <1>3. \A w : Fits(e, XmmOrMem(e, w, {"rip", "looseX"}), U(e, w))
      BY XmmOrMemFits
    <1> QED
      BY <1>2, <1>3, SameInst2, FieldsFit, ErrorFits, ErrorSame, Widths DEF ScalarDouble

\* F2 0F 5C: ScalarDouble makes what the architecture defines, or nothing.
LEMMA ScalarDoubleSubsdRight ==
    ASSUME NEW e \in Encodings, e.pre = {"F2"}, e.op = \h0F, e.op2 = \h5C
    PROVE  Same(e, ScalarDouble(e))
    <1>1. VectorF2(e) = Inst("Subsd", <<V(e), U(e, 64)>>)
      BY DEF VectorF2, VU, Moves, PackedShiftGroup
    <1>2. Meaning(e) = Inst("Subsd", <<V(e), U(e, 64)>>)
      BY <1>1, InstIsInstruction, VectorMeaning
    <1>3. \A w : Fits(e, XmmOrMem(e, w, {"rip", "looseX"}), U(e, w))
      BY XmmOrMemFits
    <1> QED
      BY <1>2, <1>3, SameInst2, FieldsFit, ErrorFits, ErrorSame, Widths DEF ScalarDouble

\* F2 0F 5D: ScalarDouble makes what the architecture defines, or nothing.
LEMMA ScalarDoubleMinsdRight ==
    ASSUME NEW e \in Encodings, e.pre = {"F2"}, e.op = \h0F, e.op2 = \h5D
    PROVE  Same(e, ScalarDouble(e))
    <1>1. VectorF2(e) = Inst("Minsd", <<V(e), U(e, 64)>>)
      BY DEF VectorF2, VU, Moves, PackedShiftGroup
    <1>2. Meaning(e) = Inst("Minsd", <<V(e), U(e, 64)>>)
      BY <1>1, InstIsInstruction, VectorMeaning
    <1>3. \A w : Fits(e, XmmOrMem(e, w, {"rip", "looseX"}), U(e, w))
      BY XmmOrMemFits
    <1> QED
      BY <1>2, <1>3, SameInst2, FieldsFit, ErrorFits, ErrorSame, Widths DEF ScalarDouble

\* F2 0F 5E: ScalarDouble makes what the architecture defines, or nothing.
LEMMA ScalarDoubleDivsdRight ==
    ASSUME NEW e \in Encodings, e.pre = {"F2"}, e.op = \h0F, e.op2 = \h5E
    PROVE  Same(e, ScalarDouble(e))
    <1>1. VectorF2(e) = Inst("Divsd", <<V(e), U(e, 64)>>)
      BY DEF VectorF2, VU, Moves, PackedShiftGroup
    <1>2. Meaning(e) = Inst("Divsd", <<V(e), U(e, 64)>>)
      BY <1>1, InstIsInstruction, VectorMeaning
    <1>3. \A w : Fits(e, XmmOrMem(e, w, {"rip", "looseX"}), U(e, w))
      BY XmmOrMemFits
    <1> QED
      BY <1>2, <1>3, SameInst2, FieldsFit, ErrorFits, ErrorSame, Widths DEF ScalarDouble

\* F2 0F 5F: ScalarDouble makes what the architecture defines, or nothing.
LEMMA ScalarDoubleMaxsdRight ==
    ASSUME NEW e \in Encodings, e.pre = {"F2"}, e.op = \h0F, e.op2 = \h5F
    PROVE  Same(e, ScalarDouble(e))
    <1>1. VectorF2(e) = Inst("Maxsd", <<V(e), U(e, 64)>>)
      BY DEF VectorF2, VU, Moves, PackedShiftGroup
    <1>2. Meaning(e) = Inst("Maxsd", <<V(e), U(e, 64)>>)
      BY <1>1, InstIsInstruction, VectorMeaning
    <1>3. \A w : Fits(e, XmmOrMem(e, w, {"rip", "looseX"}), U(e, w))
      BY XmmOrMemFits
    <1> QED
      BY <1>2, <1>3, SameInst2, FieldsFit, ErrorFits, ErrorSame, Widths DEF ScalarDouble

\* F2 0F 12: Movddup makes what the architecture defines, or nothing.
LEMMA MovddupRight ==
    ASSUME NEW e \in Encodings, e.pre = {"F2"}, e.op = \h0F, e.op2 = \h12
    PROVE  Same(e, Movddup(e))
    <1>1. VectorF2(e) = Inst("Movddup", <<V(e), U(e, 64)>>)
      BY DEF VectorF2, VU, Moves, PackedShiftGroup
    <1>2. Meaning(e) = Inst("Movddup", <<V(e), U(e, 64)>>)
      BY <1>1, InstIsInstruction, VectorMeaning
    <1>3. \A w : Fits(e, XmmOrMem(e, w, {"rip"}), U(e, w))
      BY XmmOrMemFits
    <1> QED
      BY <1>2, <1>3, SameInst2, FieldsFit, ErrorFits, ErrorSame, Widths DEF Movddup, Only

\* F3 0F E6: Cvtdq2pd makes what the architecture defines, or nothing.
LEMMA Cvtdq2pdRight ==
    ASSUME NEW e \in Encodings, e.pre = {"F3"}, e.op = \h0F, e.op2 = \hE6
    PROVE  Same(e, Cvtdq2pd(e))
    <1>1. VectorF3(e) = Inst("Cvtdq2pd", <<V(e), U(e, 64)>>)
      BY DEF VectorF3, VU, Moves, PackedShiftGroup
    <1>2. Meaning(e) = Inst("Cvtdq2pd", <<V(e), U(e, 64)>>)
      BY <1>1, InstIsInstruction, VectorMeaning
    <1>3. \A w : Fits(e, XmmOrMem(e, w, {"rip", "sib", "ripX"}), U(e, w))
      BY XmmOrMemFits
    <1> QED
      BY <1>2, <1>3, SameInst2, FieldsFit, ErrorFits, ErrorSame, Widths DEF Cvtdq2pd

\* F3 0F 10: Movss makes what the architecture defines, or nothing.
LEMMA MovssLoadRight ==
    ASSUME NEW e \in Encodings, e.pre = {"F3"}, e.op = \h0F, e.op2 = \h10
    PROVE  Same(e, Movss(e))
    <1>1. VectorF3(e) = Inst("Movss", <<V(e), U(e, 32)>>)
      BY DEF VectorF3, VU, Moves, PackedShiftGroup
    <1>2. Meaning(e) = Inst("Movss", <<V(e), U(e, 32)>>)
      BY <1>1, InstIsInstruction, VectorMeaning
    <1>3. \A w : Fits(e, Mem(w, {"rip", "sib", "ripX"}), U(e, w))
      BY SafeMem
    <1> QED
      BY <1>2, <1>3, SameInst2, FieldsFit, ErrorFits, ErrorSame, Widths DEF Movss, LoadStore, Only

\* F3 0F 11: Movss makes what the architecture defines, or nothing.
LEMMA MovssStoreRight ==
    ASSUME NEW e \in Encodings, e.pre = {"F3"}, e.op = \h0F, e.op2 = \h11
    PROVE  Same(e, Movss(e))
    <1>1. VectorF3(e) = Inst("Movss", <<U(e, 32), V(e)>>)
      BY DEF VectorF3, VU, Moves, PackedShiftGroup
    <1>2. Meaning(e) = Inst("Movss", <<U(e, 32), V(e)>>)
      BY <1>1, InstIsInstruction, VectorMeaning
    <1>3. \A w : Fits(e, Mem(w, {"rip", "sib", "ripX"}), U(e, w))
      BY SafeMem
    <1> QED
      BY <1>2, <1>3, SameInst2, FieldsFit, ErrorFits, ErrorSame, Widths DEF Movss, LoadStore, Only

\* F3 0F 7E: MovqLoad makes what the architecture defines, or nothing.
LEMMA MovqLoadRight ==
    ASSUME NEW e \in Encodings, e.pre = {"F3"}, e.op = \h0F, e.op2 = \h7E, ~KnownMisdecode(e)
    PROVE  Same(e, MovqLoad(e))
    <1>1. VectorF3(e) = Inst("Movq", <<V(e), U(e, 64)>>)
      BY DEF VectorF3, VU, Moves, PackedShiftGroup
    <1>2. Meaning(e) = Inst("Movq", <<V(e), U(e, 64)>>)
      BY <1>1, InstIsInstruction, VectorMeaning
    <1>3. Trusted(e, {"rip", "ripB", "sib", "noBase", "looseX", "noR12"})
      BY DEF Trusted, KnownMisdecode, TakenForR13, IndexDropped, TwoByteForm
    <1>4. \A w : Fits(e, Mem(w, {"rip", "ripB", "sib", "noBase", "looseX", "noR12"}), U(e, w))
      BY <1>3, MemFits
    <1> QED
      BY <1>2, <1>4, SameInst2, FieldsFit, ErrorFits, ErrorSame, Widths DEF MovqLoad

\* 66 0F D7: Pmovmskb makes what the architecture defines, or nothing.
LEMMA PmovmskbRight ==
    ASSUME NEW e \in Encodings, e.pre = {"66"}, e.op = \h0F, e.op2 = \hD7
    PROVE  Same(e, Pmovmskb(e))
    <1>1. Vector66(e) = Inst("Pmovmskb", <<G(e, 32), U(e, 128)>>)
      BY DEF Vector66, VU, Moves, PackedShiftGroup
    <1>2. Meaning(e) = Inst("Pmovmskb", <<G(e, 32), U(e, 128)>>)
      BY <1>1, InstIsInstruction, VectorMeaning
    <1> QED
      BY <1>2, SameInst2, FieldsFit, ErrorFits, ErrorSame, Widths DEF Pmovmskb, Only

\* 0F 29: AlignedStore makes what the architecture defines, or nothing.
LEMMA AlignedStoreMovapsRight ==
    ASSUME NEW e \in Encodings, e.pre = {}, e.op = \h0F, e.op2 = \h29
    PROVE  Same(e, AlignedStore(e))
    <1>1. VectorPlain(e) = Inst("Movaps", <<U(e, 128), V(e)>>)
      BY DEF VectorPlain, VU, Moves, PackedShiftGroup
    <1>2. Meaning(e) = Inst("Movaps", <<U(e, 128), V(e)>>)
      BY <1>1, InstIsInstruction, VectorMeaning
    <1>3. \A w : Fits(e, Mem(w, {"rip", "ripB", "sib", "looseX"}), U(e, w))
      BY SafeMem
    <1> QED
      BY <1>2, <1>3, SameInst2, FieldsFit, ErrorFits, ErrorSame, Widths DEF AlignedStore

\* 0F 11: UnalignedStore makes what the architecture defines, or nothing.
LEMMA UnalignedStorePsRight ==
    ASSUME NEW e \in Encodings, e.pre = {}, e.op = \h0F, e.op2 = \h11
    PROVE  Same(e, UnalignedStore(e))
    <1>1. VectorPlain(e) = Inst("Movups", <<U(e, 128), V(e)>>)
      BY DEF VectorPlain, VU, Moves, PackedShiftGroup
    <1>2. Meaning(e) = Inst("Movups", <<U(e, 128), V(e)>>)
      BY <1>1, InstIsInstruction, VectorMeaning
    <1>3. \A w : Fits(e, Mem(w, {"rip", "ripB", "sib", "looseX"}), U(e, w))
      BY SafeMem
    <1> QED
      BY <1>2, <1>3, SameInst2, FieldsFit, ErrorFits, ErrorSame, Widths DEF UnalignedStore

\* 0F 28: VectorLoad makes what the architecture defines, or nothing.
LEMMA VectorLoadMovapsRight ==
    ASSUME NEW e \in Encodings, e.pre = {}, e.op = \h0F, e.op2 = \h28
    PROVE  Same(e, VectorLoad(e))
    <1>1. VectorPlain(e) = Inst("Movaps", <<V(e), U(e, 128)>>)
      BY DEF VectorPlain, VU, Moves, PackedShiftGroup
    <1>2. Meaning(e) = Inst("Movaps", <<V(e), U(e, 128)>>)
      BY <1>1, InstIsInstruction, VectorMeaning
    <1>3. \A w : Fits(e, XmmOrMem(e, w, {"rip", "ripB", "sib", "looseX"}), U(e, w))
      BY XmmOrMemFits
    <1> QED
      BY <1>2, <1>3, SameInst2, FieldsFit, ErrorFits, ErrorSame, Widths DEF VectorLoad

\* 0F 10: VectorLoad makes what the architecture defines, or nothing.
LEMMA VectorLoadMovupsPsRight ==
    ASSUME NEW e \in Encodings, e.pre = {}, e.op = \h0F, e.op2 = \h10
    PROVE  Same(e, VectorLoad(e))
    <1>1. VectorPlain(e) = Inst(IF Direct(e) THEN "Movaps" ELSE "Movups", <<V(e), U(e, 128)>>)
      BY DEF VectorPlain, VU, Moves, PackedShiftGroup
    <1>2. Meaning(e) = Inst(IF Direct(e) THEN "Movaps" ELSE "Movups", <<V(e), U(e, 128)>>)
      BY <1>1, InstIsInstruction, VectorMeaning
    <1>3. \A w : Fits(e, XmmOrMem(e, w, {"rip", "ripB", "sib", "looseX"}), U(e, w))
      BY XmmOrMemFits
    <1> QED
      BY <1>2, <1>3, SameInst2, FieldsFit, ErrorFits, ErrorSame, Widths DEF VectorLoad

\* 66 0F 29: AlignedStore makes what the architecture defines, or nothing.
LEMMA AlignedStoreMovapdRight ==
    ASSUME NEW e \in Encodings, e.pre = {"66"}, e.op = \h0F, e.op2 = \h29
    PROVE  Same(e, AlignedStore(e))
    <1>1. Vector66(e) = Inst("Movapd", <<U(e, 128), V(e)>>)
      BY DEF Vector66, VU, Moves, PackedShiftGroup
    <1>2. Meaning(e) = Inst("Movapd", <<U(e, 128), V(e)>>)
      BY <1>1, InstIsInstruction, VectorMeaning
    <1>3. \A w : Fits(e, Mem(w, {"rip", "ripB", "sib", "looseX"}), U(e, w))
      BY SafeMem
    <1> QED
      BY <1>2, <1>3, SameInst2, FieldsFit, ErrorFits, ErrorSame, Widths DEF AlignedStore

\* 66 0F 11: UnalignedStore makes what the architecture defines, or nothing.
LEMMA UnalignedStorePdRight ==
    ASSUME NEW e \in Encodings, e.pre = {"66"}, e.op = \h0F, e.op2 = \h11
    PROVE  Same(e, UnalignedStore(e))
    <1>1. Vector66(e) = Inst("Movups", <<U(e, 128), V(e)>>)
      BY DEF Vector66, VU, Moves, PackedShiftGroup
    <1>2. Meaning(e) = Inst("Movups", <<U(e, 128), V(e)>>)
      BY <1>1, InstIsInstruction, VectorMeaning
    <1>3. \A w : Fits(e, Mem(w, {"rip", "ripB", "sib", "looseX"}), U(e, w))
      BY SafeMem
    <1> QED
      BY <1>2, <1>3, SameInst2, FieldsFit, ErrorFits, ErrorSame, Widths DEF UnalignedStore

\* 66 0F 28: VectorLoad makes what the architecture defines, or nothing.
LEMMA VectorLoadMovapdRight ==
    ASSUME NEW e \in Encodings, e.pre = {"66"}, e.op = \h0F, e.op2 = \h28
    PROVE  Same(e, VectorLoad(e))
    <1>1. Vector66(e) = Inst("Movapd", <<V(e), U(e, 128)>>)
      BY DEF Vector66, VU, Moves, PackedShiftGroup
    <1>2. Meaning(e) = Inst("Movapd", <<V(e), U(e, 128)>>)
      BY <1>1, InstIsInstruction, VectorMeaning
    <1>3. \A w : Fits(e, XmmOrMem(e, w, {"rip", "ripB", "sib", "looseX"}), U(e, w))
      BY XmmOrMemFits
    <1> QED
      BY <1>2, <1>3, SameInst2, FieldsFit, ErrorFits, ErrorSame, Widths DEF VectorLoad

\* 66 0F 10: VectorLoad makes what the architecture defines, or nothing.
LEMMA VectorLoadMovupsPdRight ==
    ASSUME NEW e \in Encodings, e.pre = {"66"}, e.op = \h0F, e.op2 = \h10
    PROVE  Same(e, VectorLoad(e))
    <1>1. Vector66(e) = Inst(IF Direct(e) THEN "Movapd" ELSE "Movups", <<V(e), U(e, 128)>>)
      BY DEF Vector66, VU, Moves, PackedShiftGroup
    <1>2. Meaning(e) = Inst(IF Direct(e) THEN "Movapd" ELSE "Movups", <<V(e), U(e, 128)>>)
      BY <1>1, InstIsInstruction, VectorMeaning
    <1>3. \A w : Fits(e, XmmOrMem(e, w, {"rip", "ripB", "sib", "looseX"}), U(e, w))
      BY XmmOrMemFits
    <1> QED
      BY <1>2, <1>3, SameInst2, FieldsFit, ErrorFits, ErrorSame, Widths DEF VectorLoad

\* 66 0F 3A 0E: Pblendw makes what the architecture defines, or nothing.
LEMMA PblendwRight ==
    ASSUME NEW e \in Encodings, e.pre = {"66"}, e.op = \h0F, e.op2 = \h3A, e.op3 = \h0E
    PROVE  Same(e, Pblendw(e))
    <1>1. Vector66(e) = Inst("Pblendw", <<V(e), U(e, 128), Count>>)
      BY DEF Vector66, VU, Vector3A, Moves, PackedShiftGroup
    <1>2. Meaning(e) = Inst("Pblendw", <<V(e), U(e, 128), Count>>)
      BY <1>1, InstIsInstruction, VectorMeaning
    <1> QED
      BY <1>2, SameInst3, ImmIsOperand, FieldsFit, ErrorFits, ErrorSame, Widths DEF Pblendw, Only, Count

\* 66 0F 3A 22: Pinsrd makes what the architecture defines, or nothing.
LEMMA PinsrdRight ==
    ASSUME NEW e \in Encodings, e.pre = {"66"}, e.op = \h0F, e.op2 = \h3A, e.op3 = \h22, ~e.hasRex => ~W(e)
    PROVE  Same(e, Pinsrd(e))
    <1>1. Vector66(e) = Inst("Pinsrd", <<V(e), E(e, W3264(e)), Count>>)
      BY DEF Vector66, VU, Vector3A, Moves, PackedShiftGroup
    <1>2. Meaning(e) = Inst("Pinsrd", <<V(e), E(e, W3264(e)), Count>>)
      BY <1>1, InstIsInstruction, VectorMeaning
    <1>3. \A w : Fits(e, Mem(w, {}), E(e, w))
      BY SafeMem
    <1> QED
      BY <1>2, <1>3, SameInst3, ImmIsOperand, FieldsFit, ErrorFits, ErrorSame, Widths DEF Pinsrd, Only, Count

\* 66 0F 3A 20: Pinsrb makes what the architecture defines, or nothing.
LEMMA PinsrbRight ==
    ASSUME NEW e \in Encodings, e.pre = {"66"}, e.op = \h0F, e.op2 = \h3A, e.op3 = \h20
    PROVE  Same(e, Pinsrb(e))
    <1>1. Vector66(e) = Inst("Pinsrb", <<V(e), E(e, IF Direct(e) THEN 32 ELSE 8), Count>>)
      BY DEF Vector66, VU, Vector3A, Moves, PackedShiftGroup
    <1>2. Meaning(e) = Inst("Pinsrb", <<V(e), E(e, IF Direct(e) THEN 32 ELSE 8), Count>>)
      BY <1>1, InstIsInstruction, VectorMeaning
    <1>3. \A w : Fits(e, Mem(w, {"looseX"}), E(e, w))
      BY SafeMem
    <1> QED
      BY <1>2, <1>3, SameInst3, ImmIsOperand, FieldsFit, ErrorFits, ErrorSame, Widths DEF Pinsrb, Only, Count

\* 66 0F 3A 0F: Palignr makes what the architecture defines, or nothing.
LEMMA PalignrRight ==
    ASSUME NEW e \in Encodings, e.pre = {"66"}, e.op = \h0F, e.op2 = \h3A, e.op3 = \h0F
    PROVE  Same(e, Palignr(e))
    <1>1. Vector66(e) = Inst("Palignr", <<V(e), U(e, 128), Count>>)
      BY DEF Vector66, VU, Vector3A, Moves, PackedShiftGroup
    <1>2. Meaning(e) = Inst("Palignr", <<V(e), U(e, 128), Count>>)
      BY <1>1, InstIsInstruction, VectorMeaning
    <1> QED
      BY <1>2, SameInst3, ImmIsOperand, FieldsFit, ErrorFits, ErrorSame, Widths DEF Palignr, Only, Count

\* 66 0F 7F: MovdqaStore makes what the architecture defines, or nothing.
LEMMA MovdqaStoreRight ==
    ASSUME NEW e \in Encodings, e.pre = {"66"}, e.op = \h0F, e.op2 = \h7F
    PROVE  Same(e, MovdqaStore(e))
    <1>1. Vector66(e) = Inst("Movdqa", <<U(e, 128), V(e)>>)
      BY DEF Vector66, VU, Moves, PackedShiftGroup
    <1>2. Meaning(e) = Inst("Movdqa", <<U(e, 128), V(e)>>)
      BY <1>1, InstIsInstruction, VectorMeaning
    <1>3. \A w : Fits(e, Mem(w, {"sib"}), U(e, w))
      BY SafeMem
    <1> QED
      BY <1>2, <1>3, SameInst2, FieldsFit, ErrorFits, ErrorSame, Widths DEF MovdqaStore

\* 66 0F 6F: MovdqaLoadRex makes what the architecture defines, or nothing.
LEMMA MovdqaLoadRexRight ==
    ASSUME NEW e \in Encodings, e.pre = {"66"}, e.op = \h0F, e.op2 = \h6F, ~KnownMisdecode(e)
    PROVE  Same(e, MovdqaLoadRex(e))
    <1>1. Vector66(e) = Inst("Movdqa", <<V(e), U(e, 128)>>)
      BY DEF Vector66, VU, Moves, PackedShiftGroup
    <1>2. Meaning(e) = Inst("Movdqa", <<V(e), U(e, 128)>>)
      BY <1>1, InstIsInstruction, VectorMeaning
    <1>3. Trusted(e, {"rip", "r13Disp"})
      BY DEF Trusted, KnownMisdecode, TakenForR13, IndexDropped, TwoByteForm
    <1>4. \A w : Fits(e, Mem(w, {"rip", "r13Disp"}), U(e, w))
      BY <1>3, MemFits
    <1> QED
      BY <1>2, <1>4, SameInst2, FieldsFit, ErrorFits, ErrorSame, Widths DEF MovdqaLoadRex, Only

\* 66 0F 6F: MovdqaLoad makes what the architecture defines, or nothing.
LEMMA MovdqaLoadRight ==
    ASSUME NEW e \in Encodings, e.pre = {"66"}, e.op = \h0F, e.op2 = \h6F
    PROVE  Same(e, MovdqaLoad(e))
    <1>1. Vector66(e) = Inst("Movdqa", <<V(e), U(e, 128)>>)
      BY DEF Vector66, VU, Moves, PackedShiftGroup
    <1>2. Meaning(e) = Inst("Movdqa", <<V(e), U(e, 128)>>)
      BY <1>1, InstIsInstruction, VectorMeaning
    <1>3. \A w : Fits(e, XmmOrMem(e, w, {"rip", "sib"}), U(e, w))
      BY XmmOrMemFits
    <1> QED
      BY <1>2, <1>3, SameInst2, FieldsFit, ErrorFits, ErrorSame, Widths DEF MovdqaLoad

\* Three operands that fit.
LEMMA SameFits3 ==
    ASSUME NEW e, NEW name, NEW a, NEW b, NEW a2, NEW b2, NEW a3, NEW b3,
           Meaning(e) = Inst(name, <<b, b2, b3>>), Fits(e, a, b), Fits(e, a2, b2), Fits(e, a3, b3)
    PROVE  Same(e, Inst(name, <<a, a2, a3>>))
    <1>1. Follows(e, b, a2, b2) /\ Follows(e, b, a3, b3)
      BY FitsFollows
    <1>2. Meaning(e) = Made(name, <<b, b2, b3>>, "none", 1, TRUE)
      BY DEF Inst
    <1>3. Same(e, Made(name, <<a, a2, a3>>, "none", 1, TRUE))
      BY <1>1, <1>2, Agree3
    <1> QED
      BY <1>3 DEF Inst

\* 66 0F: PackedShift makes what the architecture defines, or nothing.
LEMMA PackedShiftRight ==
    ASSUME NEW e \in Encodings, e.pre = {"66"}, e.op = \h0F, e.op2 \in {\h72, \h73}
    PROVE  Same(e, PackedShift(e))
    <1>1. Vector66(e) = Inst(PackedShiftGroup(e), <<U(e, 128), Count>>)
      <2>1. CASE e.op2 = \h72
        BY <2>1 DEF Vector66
      <2>2. CASE e.op2 = \h73
        BY <2>2 DEF Vector66
      <2> QED
        BY <2>1, <2>2
    <1>2. Meaning(e) = Inst(PackedShiftGroup(e), <<U(e, 128), Count>>)
      BY <1>1, InstIsInstruction, VectorMeaning
    <1>3. ASSUME Direct(e) PROVE Same(e, Inst(PackedShiftGroup(e), <<XmmRm(e), ZImm(1)>>))
      BY <1>2, <1>3, SameInst2, FieldsFit, ImmFits DEF Count
    <1>4. PackedShift(e) \in {Error, Inst(PackedShiftGroup(e), <<XmmRm(e), ZImm(1)>>)}
      <2>1. CASE e.op2 = \h72
        BY <2>1 DEF PackedShift, PackedShiftGroup, Only
      <2>2. CASE e.op2 = \h73
        BY <2>2 DEF PackedShift, PackedShiftGroup, Only
      <2> QED
        BY <2>1, <2>2
    <1>5. ~Direct(e) => PackedShift(e) = Error
      BY DEF PackedShift, Only
    <1> QED
      BY <1>3, <1>4, <1>5, ErrorSame

\* C4: Vbroadcastss makes what the architecture defines, or nothing.
LEMMA VbroadcastssRight ==
    ASSUME NEW e \in Encodings, e.pre = {}, e.op = \hC4
    PROVE  Same(e, Vbroadcastss(e))
    <1>1. CASE e.op3 = 2 /\ e.op2 = \h18 /\ e.vl = 1 /\ e.pp = 1
      <2>1. Meaning(e) = Inst("Vbroadcastss", <<V(e), U(e, 32)>>)
        BY <1>1 DEF Meaning, Vex, VU
      <2> QED
        BY <2>1, SameInst2, FieldsFit, ErrorSame DEF Vbroadcastss, Only
    <1>2. CASE ~(e.op3 = 2 /\ e.op2 = \h18 /\ e.vl = 1 /\ e.pp = 1)
      BY <1>2, ErrorSame DEF Vbroadcastss, Only
    <1> QED
      BY <1>1, <1>2

\* C5 77: Vzeroupper makes what the architecture defines, or nothing.
LEMMA VzeroupperRight ==
    ASSUME NEW e \in Encodings, e.pre = {}, e.op = \hC5, e.op2 = \h77
    PROVE  Same(e, Vzeroupper(e))
    <1>1. CASE e.vl = 0 /\ e.pp = 0
      <2>1. Meaning(e) = Bare("Vzeroupper", NoOperands)
        BY <1>1 DEF Meaning, Vex
      <2> QED
        BY <2>1, Agree0, ErrorSame, ZenonT(60) DEF Vzeroupper, Only, Bare
    <1>2. CASE ~(e.vl = 0 /\ e.pp = 0)
      BY <1>2, ErrorSame DEF Vzeroupper, Only
    <1> QED
      BY <1>1, <1>2

\* C5 57: Vxorps makes what the architecture defines, or nothing.
LEMMA VxorpsRight ==
    ASSUME NEW e \in Encodings, e.pre = {}, e.op = \hC5, e.op2 = \h57
    PROVE  Same(e, Vxorps(e))
    <1>1. ASSUME e.pp = 0, Direct(e), NEW name, name = IF e.vl = 1 THEN "VxorpsYmm" ELSE "Vxorps"
          PROVE  Same(e, Inst(name, <<XmmField(e), Xmm(e.v), XmmRm(e)>>))
      <2>1. \E w : Meaning(e) = Inst(name, <<V(e), Xmm(e.v), U(e, w)>>)
        BY <1>1 DEF Meaning, Vex
      <2>2. PICK w : Meaning(e) = Inst(name, <<V(e), Xmm(e.v), U(e, w)>>)
        BY <2>1
      <2>3. Fits(e, XmmField(e), V(e)) /\ Fits(e, Xmm(e.v), Xmm(e.v)) /\ Fits(e, XmmRm(e), U(e, w))
        BY <1>1, FieldsFit, RegFits
      <2> QED
        BY <2>2, <2>3, SameFits3
    <1> QED
      BY <1>1, ErrorSame DEF Vxorps, Only

\* C5: Vmov makes what the architecture defines, or nothing.
LEMMA VmovRight ==
    ASSUME NEW e \in Encodings, e.pre = {}, e.op = \hC5, e.op2 \in {\h10, \h11, \h28, \h29}
    PROVE  Same(e, Vmov(e))
    <1> DEFINE w == IF e.vl = 1 THEN 256 ELSE 128
               name == IF e.op2 \in {\h28, \h29} THEN "VmovapsYmm"
                       ELSE IF e.vl = 1 THEN "VmovupsYmm" ELSE "Vmovups"
    <1>1. \A z : Fits(e, Mem(z, {"rip", "sib"}), U(e, z))
      BY SafeMem
    <1>2. CASE ~((e.op2 \in {\h28, \h29} => e.vl = 1) /\ e.pp = 0 /\ e.v = 0)
      BY <1>2, ErrorSame DEF Vmov, Only
    <1>3. ASSUME (e.op2 \in {\h28, \h29} => e.vl = 1), e.pp = 0, e.v = 0, e.op2 \in {\h10, \h28}
          PROVE  Same(e, Vmov(e))
      <2>1. Meaning(e) = Inst(name, <<V(e), U(e, w)>>)
        BY <1>3 DEF Meaning, Vex, Moves
      <2>2. Vmov(e) = Inst(name, <<XmmField(e), Mem(w, {"rip", "sib"})>>)
        BY <1>3 DEF Vmov, Only
      <2> HIDE DEF w, name
      <2> QED
        BY <2>1, <2>2, <1>1, SameInst2, FieldsFit
    <1>4. ASSUME (e.op2 \in {\h28, \h29} => e.vl = 1), e.pp = 0, e.v = 0, e.op2 \in {\h11, \h29}
          PROVE  Same(e, Vmov(e))
      <2>1. Meaning(e) = Inst(name, <<U(e, w), V(e)>>)
        BY <1>4 DEF Meaning, Vex, Moves
      <2>2. Vmov(e) = Inst(name, <<Mem(w, {"rip", "sib"}), XmmField(e)>>)
        BY <1>4 DEF Vmov, Only
      <2> HIDE DEF w, name
      <2> QED
        BY <2>1, <2>2, <1>1, SameInst2, FieldsFit
    <1> QED
      BY <1>2, <1>3, <1>4

\* decodeVex makes what the architecture defines, or nothing.
LEMMA VexRight ==
    ASSUME NEW e \in Encodings
    PROVE  Same(e, decodeVex(e))
    BY VbroadcastssRight, VzeroupperRight, VxorpsRight, VmovRight, ErrorSame DEF decodeVex

\* Without a REX prefix none of its bits is set.
LEMMA NoRexBits ==
    ASSUME NEW e \in Encodings, e.op \notin {\hC4, \hC5}, ~e.hasRex
    PROVE  ~W(e) /\ ~R(e) /\ ~X(e) /\ ~B(e)
    BY Fields DEF W, R, X, B

\* decodeSimdShort makes what the architecture defines, or nothing.
LEMMA SimdShortRight ==
    ASSUME NEW e \in Encodings, ~KnownMisdecode(e)
    PROVE  Same(e, decodeSimdShort(e))
    <1>1. CASE Coded(e, {}, {\h16})
      <2>1. CASE e.pre = {} /\ e.op = \h0F /\ e.op2 = \h16
        <3>1. decodeSimdShort(e) = Movlhps(e)
          BY <1>1, <2>1 DEF decodeSimdShort, Coded, Coded38, Coded3A, PackedArithmetic
        <3> QED
          BY <3>1, <2>1, MovlhpsRight
      <2> QED
        BY <1>1, <2>1 DEF Coded, Coded38, Coded3A, PackedArithmetic
    <1>2. CASE Coded(e, {}, {\h57}) /\ ~e.hasRex
      <2>1. CASE e.pre = {} /\ e.op = \h0F /\ e.op2 = \h57
        <3>1. decodeSimdShort(e) = Xorps(e)
          BY <1>2, <2>1 DEF decodeSimdShort, Coded, Coded38, Coded3A, PackedArithmetic
        <3> QED
          BY <3>1, <2>1, XorpsRight
      <2> QED
        BY <1>2, <2>1 DEF Coded, Coded38, Coded3A, PackedArithmetic
    <1>3. CASE Coded(e, {"66"}, {\h14})
      <2>1. ~(e.pre = {"66"} /\ e.op = \h0F /\ e.op2 = \h14)
        BY DEF KnownMisdecode, TwoByteForm
      <2> QED
        BY <1>3, <2>1 DEF Coded, Coded38, Coded3A, PackedArithmetic
    <1>4. CASE Coded(e, {"66"}, {\h7C})
      <2>1. CASE e.pre = {"66"} /\ e.op = \h0F /\ e.op2 = \h7C
        <3>1. decodeSimdShort(e) = Haddpd(e)
          BY <1>4, <2>1 DEF decodeSimdShort, Coded, Coded38, Coded3A, PackedArithmetic
        <3> QED
          BY <3>1, <2>1, HaddpdRight
      <2> QED
        BY <1>4, <2>1 DEF Coded, Coded38, Coded3A, PackedArithmetic
    <1>5. CASE Coded(e, {"66"}, {\h15})
      <2>1. ~(e.pre = {"66"} /\ e.op = \h0F /\ e.op2 = \h15)
        BY DEF KnownMisdecode, TwoByteForm
      <2> QED
        BY <1>5, <2>1 DEF Coded, Coded38, Coded3A, PackedArithmetic
    <1>6. CASE Coded(e, {"66"}, PackedArithmetic)
      <2>1. CASE e.pre = {"66"} /\ e.op = \h0F /\ e.op2 = \h51
        <3>1. decodeSimdShort(e) = PackedDouble(e)
          BY <1>6, <2>1 DEF decodeSimdShort, Coded, Coded38, Coded3A, PackedArithmetic
        <3> QED
          BY <3>1, <2>1, PackedDoubleSqrtpdRight
      <2>2. CASE e.pre = {"66"} /\ e.op = \h0F /\ e.op2 = \h58
        <3>1. decodeSimdShort(e) = PackedDouble(e)
          BY <1>6, <2>2 DEF decodeSimdShort, Coded, Coded38, Coded3A, PackedArithmetic
        <3> QED
          BY <3>1, <2>2, PackedDoubleAddpdRight
      <2>3. CASE e.pre = {"66"} /\ e.op = \h0F /\ e.op2 = \h59
        <3>1. decodeSimdShort(e) = PackedDouble(e)
          BY <1>6, <2>3 DEF decodeSimdShort, Coded, Coded38, Coded3A, PackedArithmetic
        <3> QED
          BY <3>1, <2>3, PackedDoubleMulpdRight
      <2>4. CASE e.pre = {"66"} /\ e.op = \h0F /\ e.op2 = \h5C
        <3>1. decodeSimdShort(e) = PackedDouble(e)
          BY <1>6, <2>4 DEF decodeSimdShort, Coded, Coded38, Coded3A, PackedArithmetic
        <3> QED
          BY <3>1, <2>4, PackedDoubleSubpdRight
      <2>5. CASE e.pre = {"66"} /\ e.op = \h0F /\ e.op2 = \h5E
        <3>1. decodeSimdShort(e) = PackedDouble(e)
          BY <1>6, <2>5 DEF decodeSimdShort, Coded, Coded38, Coded3A, PackedArithmetic
        <3> QED
          BY <3>1, <2>5, PackedDoubleDivpdRight
      <2> QED
        BY <1>6, <2>1, <2>2, <2>3, <2>4, <2>5 DEF Coded, Coded38, Coded3A, PackedArithmetic
    <1>7. CASE Coded(e, {"66"}, {\h57})
      <2>1. CASE e.pre = {"66"} /\ e.op = \h0F /\ e.op2 = \h57
        <3>1. decodeSimdShort(e) = Xorpd(e)
          BY <1>7, <2>1 DEF decodeSimdShort, Coded, Coded38, Coded3A, PackedArithmetic
        <3> QED
          BY <3>1, <2>1, XorpdRight
      <2> QED
        BY <1>7, <2>1 DEF Coded, Coded38, Coded3A, PackedArithmetic
    <1>8. CASE Coded(e, {"66"}, {\h6E})
      <2>1. CASE e.pre = {"66"} /\ e.op = \h0F /\ e.op2 = \h6E
        <3>1. decodeSimdShort(e) = MovdLoad(e)
          BY <1>8, <2>1 DEF decodeSimdShort, Coded, Coded38, Coded3A, PackedArithmetic
        <3> QED
          BY <3>1, <2>1, MovdLoadRight
      <2> QED
        BY <1>8, <2>1 DEF Coded, Coded38, Coded3A, PackedArithmetic
    <1>9. CASE Coded(e, {"66"}, {\h7E})
      <2>1. CASE e.pre = {"66"} /\ e.op = \h0F /\ e.op2 = \h7E
        <3>1. decodeSimdShort(e) = MovdStore(e)
          BY <1>9, <2>1 DEF decodeSimdShort, Coded, Coded38, Coded3A, PackedArithmetic
        <3> QED
          BY <3>1, <2>1, MovdStoreRight
      <2> QED
        BY <1>9, <2>1 DEF Coded, Coded38, Coded3A, PackedArithmetic
    <1>10. CASE Coded(e, {"F3"}, {\h7F})
      <2>1. CASE e.pre = {"F3"} /\ e.op = \h0F /\ e.op2 = \h7F
        <3>1. decodeSimdShort(e) = MovdquStore(e)
          BY <1>10, <2>1 DEF decodeSimdShort, Coded, Coded38, Coded3A, PackedArithmetic
        <3> QED
          BY <3>1, <2>1, MovdquStoreRight
      <2> QED
        BY <1>10, <2>1 DEF Coded, Coded38, Coded3A, PackedArithmetic
    <1>11. CASE Coded(e, {"F3"}, {\h6F})
      <2>1. CASE e.pre = {"F3"} /\ e.op = \h0F /\ e.op2 = \h6F
        <3>1. decodeSimdShort(e) = MovdquLoad(e)
          BY <1>11, <2>1 DEF decodeSimdShort, Coded, Coded38, Coded3A, PackedArithmetic
        <3> QED
          BY <3>1, <2>1, MovdquLoadRight
      <2> QED
        BY <1>11, <2>1 DEF Coded, Coded38, Coded3A, PackedArithmetic
    <1>12. CASE /\ ~(Coded(e, {}, {\h16}))
                /\ ~(Coded(e, {}, {\h57}) /\ ~e.hasRex)
                /\ ~(Coded(e, {"66"}, {\h14}))
                /\ ~(Coded(e, {"66"}, {\h7C}))
                /\ ~(Coded(e, {"66"}, {\h15}))
                /\ ~(Coded(e, {"66"}, PackedArithmetic))
                /\ ~(Coded(e, {"66"}, {\h57}))
                /\ ~(Coded(e, {"66"}, {\h6E}))
                /\ ~(Coded(e, {"66"}, {\h7E}))
                /\ ~(Coded(e, {"F3"}, {\h7F}))
                /\ ~(Coded(e, {"F3"}, {\h6F}))
      BY <1>12, ErrorSame DEF decodeSimdShort
    <1> QED
      BY <1>1, <1>2, <1>3, <1>4, <1>5, <1>6, <1>7, <1>8, <1>9, <1>10, <1>11, <1>12

\* decodeSimdLanes makes what the architecture defines, or nothing.
LEMMA SimdLanesRight ==
    ASSUME NEW e \in Encodings, ~KnownMisdecode(e)
    PROVE  Same(e, decodeSimdLanes(e))
    <1>1. CASE Coded38(e, \h00)
      <2>1. CASE e.pre = {"66"} /\ e.op = \h0F /\ e.op2 = \h38 /\ e.op3 = \h00
        <3>1. decodeSimdLanes(e) = Pshufb(e)
          BY <1>1, <2>1 DEF decodeSimdLanes, Coded, Coded38, Coded3A
        <3> QED
          BY <3>1, <2>1, PshufbRight
      <2> QED
        BY <1>1, <2>1 DEF Coded, Coded38, Coded3A
    <1>2. CASE Coded38(e, \h02)
      <2>1. CASE e.pre = {"66"} /\ e.op = \h0F /\ e.op2 = \h38 /\ e.op3 = \h02
        <3>1. decodeSimdLanes(e) = Phaddd(e)
          BY <1>2, <2>1 DEF decodeSimdLanes, Coded, Coded38, Coded3A
        <3> QED
          BY <3>1, <2>1, PhadddRight
      <2> QED
        BY <1>2, <2>1 DEF Coded, Coded38, Coded3A
    <1>3. CASE Coded38(e, \h31)
      <2>1. CASE e.pre = {"66"} /\ e.op = \h0F /\ e.op2 = \h38 /\ e.op3 = \h31
        <3>1. decodeSimdLanes(e) = Pmovzxbd(e)
          BY <1>3, <2>1 DEF decodeSimdLanes, Coded, Coded38, Coded3A
        <3> QED
          BY <3>1, <2>1, PmovzxbdRight
      <2> QED
        BY <1>3, <2>1 DEF Coded, Coded38, Coded3A
    <1>4. CASE Coded38(e, \h22) \/ Coded38(e, \h21)
      <2>1. CASE e.pre = {"66"} /\ e.op = \h0F /\ e.op2 = \h38 /\ e.op3 = \h22
        <3>1. decodeSimdLanes(e) = PmovsxRip(e)
          BY <1>4, <2>1 DEF decodeSimdLanes, Coded, Coded38, Coded3A
        <3> QED
          BY <3>1, <2>1, PmovsxRipBqRight
      <2>2. CASE e.pre = {"66"} /\ e.op = \h0F /\ e.op2 = \h38 /\ e.op3 = \h21
        <3>1. decodeSimdLanes(e) = PmovsxRip(e)
          BY <1>4, <2>2 DEF decodeSimdLanes, Coded, Coded38, Coded3A
        <3> QED
          BY <3>1, <2>2, PmovsxRipBdRight
      <2> QED
        BY <1>4, <2>1, <2>2 DEF Coded, Coded38, Coded3A
    <1>5. CASE Coded38(e, \h25)
      <2>1. CASE e.pre = {"66"} /\ e.op = \h0F /\ e.op2 = \h38 /\ e.op3 = \h25
        <3>1. decodeSimdLanes(e) = Pmovsxdq(e)
          BY <1>5, <2>1 DEF decodeSimdLanes, Coded, Coded38, Coded3A
        <3> QED
          BY <3>1, <2>1, PmovsxdqRight
      <2> QED
        BY <1>5, <2>1 DEF Coded, Coded38, Coded3A
    <1>6. CASE Coded38(e, \h29)
      <2>1. CASE e.pre = {"66"} /\ e.op = \h0F /\ e.op2 = \h38 /\ e.op3 = \h29
        <3>1. decodeSimdLanes(e) = Pcmpeqq(e)
          BY <1>6, <2>1 DEF decodeSimdLanes, Coded, Coded38, Coded3A
        <3> QED
          BY <3>1, <2>1, PcmpeqqRight
      <2> QED
        BY <1>6, <2>1 DEF Coded, Coded38, Coded3A
    <1>7. CASE Coded38(e, \h15)
      <2>1. CASE e.pre = {"66"} /\ e.op = \h0F /\ e.op2 = \h38 /\ e.op3 = \h15
        <3>1. decodeSimdLanes(e) = Blendvpd(e)
          BY <1>7, <2>1 DEF decodeSimdLanes, Coded, Coded38, Coded3A
        <3> QED
          BY <3>1, <2>1, BlendvpdRight
      <2> QED
        BY <1>7, <2>1 DEF Coded, Coded38, Coded3A
    <1>8. CASE Coded(e, {"66"}, {\hC4})
      <2>1. CASE e.pre = {"66"} /\ e.op = \h0F /\ e.op2 = \hC4
        <3>1. decodeSimdLanes(e) = Pinsrw(e)
          BY <1>8, <2>1 DEF decodeSimdLanes, Coded, Coded38, Coded3A
        <3> QED
          BY <3>1, <2>1, PinsrwRight
      <2> QED
        BY <1>8, <2>1 DEF Coded, Coded38, Coded3A
    <1>9. CASE Coded(e, {"66"}, {\hC5})
      <2>1. CASE e.pre = {"66"} /\ e.op = \h0F /\ e.op2 = \hC5
        <3>1. decodeSimdLanes(e) = Pextrw(e)
          BY <1>9, <2>1 DEF decodeSimdLanes, Coded, Coded38, Coded3A
        <3> QED
          BY <3>1, <2>1, PextrwRight
      <2> QED
        BY <1>9, <2>1 DEF Coded, Coded38, Coded3A
    <1>10. CASE Coded3A(e, \h17) /\ ~e.hasRex
      <2>1. CASE e.pre = {"66"} /\ e.op = \h0F /\ e.op2 = \h3A /\ e.op3 = \h17
        <3>1. decodeSimdLanes(e) = Extractps(e)
          BY <1>10, <2>1 DEF decodeSimdLanes, Coded, Coded38, Coded3A
        <3> QED
          BY <3>1, <2>1, ExtractpsRight
      <2> QED
        BY <1>10, <2>1 DEF Coded, Coded38, Coded3A
    <1>11. CASE Coded38(e, \h17) /\ ~e.hasRex
      <2>1. CASE e.pre = {"66"} /\ e.op = \h0F /\ e.op2 = \h38 /\ e.op3 = \h17
        <3>1. decodeSimdLanes(e) = Ptest(e)
          BY <1>11, <2>1 DEF decodeSimdLanes, Coded, Coded38, Coded3A
        <3> QED
          BY <3>1, <2>1, PtestRight
      <2> QED
        BY <1>11, <2>1 DEF Coded, Coded38, Coded3A
    <1>12. CASE Coded(e, {"66"}, {\hC2})
      <2>1. CASE e.pre = {"66"} /\ e.op = \h0F /\ e.op2 = \hC2
        <3>1. decodeSimdLanes(e) = Cmppd(e)
          BY <1>12, <2>1 DEF decodeSimdLanes, Coded, Coded38, Coded3A
        <3> QED
          BY <3>1, <2>1, CmppdRight
      <2> QED
        BY <1>12, <2>1 DEF Coded, Coded38, Coded3A
    <1>13. CASE Coded(e, {"66"}, {\hFD})
      <2>1. CASE e.pre = {"66"} /\ e.op = \h0F /\ e.op2 = \hFD
        <3>1. decodeSimdLanes(e) = Paddw(e)
          BY <1>13, <2>1 DEF decodeSimdLanes, Coded, Coded38, Coded3A
        <3> QED
          BY <3>1, <2>1, PaddwRight
      <2> QED
        BY <1>13, <2>1 DEF Coded, Coded38, Coded3A
    <1>14. CASE Coded(e, {"66"}, {\h72, \h73})
      <2>1. CASE e.pre = {"66"} /\ e.op = \h0F /\ e.op2 = \h72
        <3>1. decodeSimdLanes(e) = PackedShift(e)
          BY <1>14, <2>1 DEF decodeSimdLanes, Coded, Coded38, Coded3A
        <3> QED
          BY <3>1, <2>1, PackedShiftRight
      <2>2. CASE e.pre = {"66"} /\ e.op = \h0F /\ e.op2 = \h73
        <3>1. decodeSimdLanes(e) = PackedShift(e)
          BY <1>14, <2>2 DEF decodeSimdLanes, Coded, Coded38, Coded3A
        <3> QED
          BY <3>1, <2>2, PackedShiftRight
      <2> QED
        BY <1>14, <2>1, <2>2 DEF Coded, Coded38, Coded3A
    <1>15. CASE Coded(e, {"66"}, {\hFE, \hD4})
      <2>1. CASE e.pre = {"66"} /\ e.op = \h0F /\ e.op2 = \hFE
        <3>1. decodeSimdLanes(e) = PackedAdd(e)
          BY <1>15, <2>1 DEF decodeSimdLanes, Coded, Coded38, Coded3A
        <3> QED
          BY <3>1, <2>1, PackedAddDRight
      <2>2. CASE e.pre = {"66"} /\ e.op = \h0F /\ e.op2 = \hD4
        <3>1. decodeSimdLanes(e) = PackedAdd(e)
          BY <1>15, <2>2 DEF decodeSimdLanes, Coded, Coded38, Coded3A
        <3> QED
          BY <3>1, <2>2, PackedAddQRight
      <2> QED
        BY <1>15, <2>1, <2>2 DEF Coded, Coded38, Coded3A
    <1>16. CASE Coded(e, {"66"}, {\h61, \h6C})
      <2>1. CASE e.pre = {"66"} /\ e.op = \h0F /\ e.op2 = \h61
        <3>1. decodeSimdLanes(e) = Punpckl(e)
          BY <1>16, <2>1 DEF decodeSimdLanes, Coded, Coded38, Coded3A
        <3> QED
          BY <3>1, <2>1, PunpcklwdRight
      <2>2. CASE e.pre = {"66"} /\ e.op = \h0F /\ e.op2 = \h6C
        <3>1. decodeSimdLanes(e) = Punpckl(e)
          BY <1>16, <2>2 DEF decodeSimdLanes, Coded, Coded38, Coded3A
        <3> QED
          BY <3>1, <2>2, PunpcklqdqRight
      <2> QED
        BY <1>16, <2>1, <2>2 DEF Coded, Coded38, Coded3A
    <1>17. CASE Coded(e, {"66"}, {\hEB})
      <2>1. CASE e.pre = {"66"} /\ e.op = \h0F /\ e.op2 = \hEB
        <3>1. decodeSimdLanes(e) = Por(e)
          BY <1>17, <2>1 DEF decodeSimdLanes, Coded, Coded38, Coded3A
        <3> QED
          BY <3>1, <2>1, PorRight
      <2> QED
        BY <1>17, <2>1 DEF Coded, Coded38, Coded3A
    <1>18. CASE Coded(e, {"66"}, {\hEF})
      <2>1. CASE e.pre = {"66"} /\ e.op = \h0F /\ e.op2 = \hEF
        <3>1. decodeSimdLanes(e) = Pxor(e)
          BY <1>18, <2>1 DEF decodeSimdLanes, Coded, Coded38, Coded3A
        <3> QED
          BY <3>1, <2>1, PxorRight
      <2> QED
        BY <1>18, <2>1 DEF Coded, Coded38, Coded3A
    <1>19. CASE Coded(e, {"66"}, {\hDF}) /\ ~e.hasRex
      <2>1. CASE e.pre = {"66"} /\ e.op = \h0F /\ e.op2 = \hDF
        <3>1. decodeSimdLanes(e) = Pandn(e)
          BY <1>19, <2>1 DEF decodeSimdLanes, Coded, Coded38, Coded3A
        <3> QED
          BY <3>1, <2>1, PandnRight
      <2> QED
        BY <1>19, <2>1 DEF Coded, Coded38, Coded3A
    <1>20. CASE Coded(e, {"66"}, {\hDB}) /\ ~e.hasRex
      <2>1. CASE e.pre = {"66"} /\ e.op = \h0F /\ e.op2 = \hDB
        <3>1. decodeSimdLanes(e) = Pand(e)
          BY <1>20, <2>1 DEF decodeSimdLanes, Coded, Coded38, Coded3A
        <3> QED
          BY <3>1, <2>1, PandRight
      <2> QED
        BY <1>20, <2>1 DEF Coded, Coded38, Coded3A
    <1>21. CASE Coded(e, {"66"}, {\h74}) /\ ~e.hasRex
      <2>1. CASE e.pre = {"66"} /\ e.op = \h0F /\ e.op2 = \h74
        <3>1. decodeSimdLanes(e) = Pcmpeqb(e)
          BY <1>21, <2>1 DEF decodeSimdLanes, Coded, Coded38, Coded3A
        <3> QED
          BY <3>1, <2>1, PcmpeqbRight
      <2> QED
        BY <1>21, <2>1 DEF Coded, Coded38, Coded3A
    <1>22. CASE Coded(e, {"66"}, {\h76})
      <2>1. CASE e.pre = {"66"} /\ e.op = \h0F /\ e.op2 = \h76
        <3>1. decodeSimdLanes(e) = Pcmpeqd(e)
          BY <1>22, <2>1 DEF decodeSimdLanes, Coded, Coded38, Coded3A
        <3> QED
          BY <3>1, <2>1, PcmpeqdRight
      <2> QED
        BY <1>22, <2>1 DEF Coded, Coded38, Coded3A
    <1>23. CASE Coded(e, {"66"}, {\h70}) /\ ~e.hasRex
      <2>1. CASE e.pre = {"66"} /\ e.op = \h0F /\ e.op2 = \h70
        <3>1. decodeSimdLanes(e) = Pshufd(e)
          BY <1>23, <2>1 DEF decodeSimdLanes, Coded, Coded38, Coded3A
        <3> QED
          BY <3>1, <2>1, PshufdRight
      <2> QED
        BY <1>23, <2>1 DEF Coded, Coded38, Coded3A
    <1>24. CASE Coded(e, {}, {\h2E})
      <2>1. ~(e.pre = {} /\ e.op = \h0F /\ e.op2 = \h2E)
        BY DEF KnownMisdecode, TwoByteForm
      <2> QED
        BY <1>24, <2>1 DEF Coded, Coded38, Coded3A
    <1>25. CASE Coded(e, {"66"}, {\h2E})
      <2>1. ~(e.pre = {"66"} /\ e.op = \h0F /\ e.op2 = \h2E)
        BY DEF KnownMisdecode, TwoByteForm
      <2> QED
        BY <1>25, <2>1 DEF Coded, Coded38, Coded3A
    <1>26. CASE Coded(e, {}, {\hC6})
      <2>1. CASE e.pre = {} /\ e.op = \h0F /\ e.op2 = \hC6
        <3>1. decodeSimdLanes(e) = Shufps(e)
          BY <1>26, <2>1 DEF decodeSimdLanes, Coded, Coded38, Coded3A
        <3> QED
          BY <3>1, <2>1, ShufpsRight
      <2> QED
        BY <1>26, <2>1 DEF Coded, Coded38, Coded3A
    <1>27. CASE Coded(e, {}, {\h50}) \/ Coded(e, {"66"}, {\h50})
      <2>1. CASE e.pre = {} /\ e.op = \h0F /\ e.op2 = \h50
        <3>1. decodeSimdLanes(e) = Movmsk(e)
          BY <1>27, <2>1 DEF decodeSimdLanes, Coded, Coded38, Coded3A
        <3> QED
          BY <3>1, <2>1, MovmskSingleRight
      <2>2. CASE e.pre = {"66"} /\ e.op = \h0F /\ e.op2 = \h50
        <3>1. decodeSimdLanes(e) = Movmsk(e)
          BY <1>27, <2>2 DEF decodeSimdLanes, Coded, Coded38, Coded3A
        <3> QED
          BY <3>1, <2>2, MovmskDoubleRight
      <2> QED
        BY <1>27, <2>1, <2>2 DEF Coded, Coded38, Coded3A
    <1>28. CASE Coded(e, {"66"}, {\hC6})
      <2>1. CASE e.pre = {"66"} /\ e.op = \h0F /\ e.op2 = \hC6
        <3>1. decodeSimdLanes(e) = Shufpd(e)
          BY <1>28, <2>1 DEF decodeSimdLanes, Coded, Coded38, Coded3A
        <3> QED
          BY <3>1, <2>1, ShufpdRight
      <2> QED
        BY <1>28, <2>1 DEF Coded, Coded38, Coded3A
    <1>29. CASE Coded(e, {"66"}, {\hD6})
      <2>1. CASE e.pre = {"66"} /\ e.op = \h0F /\ e.op2 = \hD6
        <3>1. decodeSimdLanes(e) = MovqStore(e)
          BY <1>29, <2>1 DEF decodeSimdLanes, Coded, Coded38, Coded3A
        <3> QED
          BY <3>1, <2>1, MovqStoreRight
      <2> QED
        BY <1>29, <2>1 DEF Coded, Coded38, Coded3A
    <1>30. CASE /\ ~(Coded38(e, \h00))
                /\ ~(Coded38(e, \h02))
                /\ ~(Coded38(e, \h31))
                /\ ~(Coded38(e, \h22) \/ Coded38(e, \h21))
                /\ ~(Coded38(e, \h25))
                /\ ~(Coded38(e, \h29))
                /\ ~(Coded38(e, \h15))
                /\ ~(Coded(e, {"66"}, {\hC4}))
                /\ ~(Coded(e, {"66"}, {\hC5}))
                /\ ~(Coded3A(e, \h17) /\ ~e.hasRex)
                /\ ~(Coded38(e, \h17) /\ ~e.hasRex)
                /\ ~(Coded(e, {"66"}, {\hC2}))
                /\ ~(Coded(e, {"66"}, {\hFD}))
                /\ ~(Coded(e, {"66"}, {\h72, \h73}))
                /\ ~(Coded(e, {"66"}, {\hFE, \hD4}))
                /\ ~(Coded(e, {"66"}, {\h61, \h6C}))
                /\ ~(Coded(e, {"66"}, {\hEB}))
                /\ ~(Coded(e, {"66"}, {\hEF}))
                /\ ~(Coded(e, {"66"}, {\hDF}) /\ ~e.hasRex)
                /\ ~(Coded(e, {"66"}, {\hDB}) /\ ~e.hasRex)
                /\ ~(Coded(e, {"66"}, {\h74}) /\ ~e.hasRex)
                /\ ~(Coded(e, {"66"}, {\h76}))
                /\ ~(Coded(e, {"66"}, {\h70}) /\ ~e.hasRex)
                /\ ~(Coded(e, {}, {\h2E}))
                /\ ~(Coded(e, {"66"}, {\h2E}))
                /\ ~(Coded(e, {}, {\hC6}))
                /\ ~(Coded(e, {}, {\h50}) \/ Coded(e, {"66"}, {\h50}))
                /\ ~(Coded(e, {"66"}, {\hC6}))
                /\ ~(Coded(e, {"66"}, {\hD6}))
      BY <1>30, ErrorSame DEF decodeSimdLanes
    <1> QED
      BY <1>1, <1>2, <1>3, <1>4, <1>5, <1>6, <1>7, <1>8, <1>9, <1>10, <1>11, <1>12, <1>13, <1>14, <1>15, <1>16, <1>17, <1>18, <1>19, <1>20, <1>21, <1>22, <1>23, <1>24, <1>25, <1>26, <1>27, <1>28, <1>29, <1>30

\* decodeSimdMemory makes what the architecture defines, or nothing.
LEMMA SimdMemoryRight ==
    ASSUME NEW e \in Encodings, ~KnownMisdecode(e)
    PROVE  Same(e, decodeSimdMemory(e))
    <1>1. CASE Coded(e, {"F2"}, {\h10, \h11})
      <2>1. CASE e.pre = {"F2"} /\ e.op = \h0F /\ e.op2 = \h10
        <3>1. decodeSimdMemory(e) = Movsd(e)
          BY <1>1, <2>1 DEF decodeSimdMemory, Coded, Coded38, Coded3A, ScalarArithmetic
        <3> QED
          BY <3>1, <2>1, MovsdLoadRight
      <2>2. CASE e.pre = {"F2"} /\ e.op = \h0F /\ e.op2 = \h11
        <3>1. decodeSimdMemory(e) = Movsd(e)
          BY <1>1, <2>2 DEF decodeSimdMemory, Coded, Coded38, Coded3A, ScalarArithmetic
        <3> QED
          BY <3>1, <2>2, MovsdStoreRight
      <2> QED
        BY <1>1, <2>1, <2>2 DEF Coded, Coded38, Coded3A, ScalarArithmetic
    <1>2. CASE Coded(e, {}, {\h12, \h13})
      <2>1. CASE e.pre = {} /\ e.op = \h0F /\ e.op2 = \h12
        <3>1. decodeSimdMemory(e) = Movlps(e)
          BY <1>2, <2>1 DEF decodeSimdMemory, Coded, Coded38, Coded3A, ScalarArithmetic
        <3> QED
          BY <3>1, <2>1, MovlpsLoadRight
      <2>2. CASE e.pre = {} /\ e.op = \h0F /\ e.op2 = \h13
        <3>1. decodeSimdMemory(e) = Movlps(e)
          BY <1>2, <2>2 DEF decodeSimdMemory, Coded, Coded38, Coded3A, ScalarArithmetic
        <3> QED
          BY <3>1, <2>2, MovlpsStoreRight
      <2> QED
        BY <1>2, <2>1, <2>2 DEF Coded, Coded38, Coded3A, ScalarArithmetic
    <1>3. CASE Coded(e, {"F2"}, {\h2C})
      <2>1. CASE e.pre = {"F2"} /\ e.op = \h0F /\ e.op2 = \h2C
        <3>1. decodeSimdMemory(e) = Cvttsd2si(e)
          BY <1>3, <2>1 DEF decodeSimdMemory, Coded, Coded38, Coded3A, ScalarArithmetic
        <3> QED
          BY <3>1, <2>1, Cvttsd2siRight
      <2> QED
        BY <1>3, <2>1 DEF Coded, Coded38, Coded3A, ScalarArithmetic
    <1>4. CASE Coded(e, {"F2"}, {\h2A})
      <2>1. CASE e.pre = {"F2"} /\ e.op = \h0F /\ e.op2 = \h2A
        <3>1. decodeSimdMemory(e) = Cvtsi2sd(e)
          BY <1>4, <2>1 DEF decodeSimdMemory, Coded, Coded38, Coded3A, ScalarArithmetic
        <3> QED
          BY <3>1, <2>1, Cvtsi2sdRight
      <2> QED
        BY <1>4, <2>1 DEF Coded, Coded38, Coded3A, ScalarArithmetic
    <1>5. CASE Coded(e, {"F2"}, {\h5A})
      <2>1. ~(e.pre = {"F2"} /\ e.op = \h0F /\ e.op2 = \h5A)
        BY DEF KnownMisdecode, TwoByteForm
      <2> QED
        BY <1>5, <2>1 DEF Coded, Coded38, Coded3A, ScalarArithmetic
    <1>6. CASE Coded(e, {"F2"}, ScalarArithmetic)
      <2>1. CASE e.pre = {"F2"} /\ e.op = \h0F /\ e.op2 = \h51
        <3>1. decodeSimdMemory(e) = ScalarDouble(e)
          BY <1>6, <2>1 DEF decodeSimdMemory, Coded, Coded38, Coded3A, ScalarArithmetic
        <3> QED
          BY <3>1, <2>1, ScalarDoubleSqrtsdRight
      <2>2. CASE e.pre = {"F2"} /\ e.op = \h0F /\ e.op2 = \h58
        <3>1. decodeSimdMemory(e) = ScalarDouble(e)
          BY <1>6, <2>2 DEF decodeSimdMemory, Coded, Coded38, Coded3A, ScalarArithmetic
        <3> QED
          BY <3>1, <2>2, ScalarDoubleAddsdRight
      <2>3. CASE e.pre = {"F2"} /\ e.op = \h0F /\ e.op2 = \h59
        <3>1. decodeSimdMemory(e) = ScalarDouble(e)
          BY <1>6, <2>3 DEF decodeSimdMemory, Coded, Coded38, Coded3A, ScalarArithmetic
        <3> QED
          BY <3>1, <2>3, ScalarDoubleMulsdRight
      <2>4. CASE e.pre = {"F2"} /\ e.op = \h0F /\ e.op2 = \h5C
        <3>1. decodeSimdMemory(e) = ScalarDouble(e)
          BY <1>6, <2>4 DEF decodeSimdMemory, Coded, Coded38, Coded3A, ScalarArithmetic
        <3> QED
          BY <3>1, <2>4, ScalarDoubleSubsdRight
      <2>5. CASE e.pre = {"F2"} /\ e.op = \h0F /\ e.op2 = \h5D
        <3>1. decodeSimdMemory(e) = ScalarDouble(e)
          BY <1>6, <2>5 DEF decodeSimdMemory, Coded, Coded38, Coded3A, ScalarArithmetic
        <3> QED
          BY <3>1, <2>5, ScalarDoubleMinsdRight
      <2>6. CASE e.pre = {"F2"} /\ e.op = \h0F /\ e.op2 = \h5E
        <3>1. decodeSimdMemory(e) = ScalarDouble(e)
          BY <1>6, <2>6 DEF decodeSimdMemory, Coded, Coded38, Coded3A, ScalarArithmetic
        <3> QED
          BY <3>1, <2>6, ScalarDoubleDivsdRight
      <2>7. CASE e.pre = {"F2"} /\ e.op = \h0F /\ e.op2 = \h5F
        <3>1. decodeSimdMemory(e) = ScalarDouble(e)
          BY <1>6, <2>7 DEF decodeSimdMemory, Coded, Coded38, Coded3A, ScalarArithmetic
        <3> QED
          BY <3>1, <2>7, ScalarDoubleMaxsdRight
      <2> QED
        BY <1>6, <2>1, <2>2, <2>3, <2>4, <2>5, <2>6, <2>7 DEF Coded, Coded38, Coded3A, ScalarArithmetic
    <1>7. CASE Coded(e, {"F2"}, {\h12})
      <2>1. CASE e.pre = {"F2"} /\ e.op = \h0F /\ e.op2 = \h12
        <3>1. decodeSimdMemory(e) = Movddup(e)
          BY <1>7, <2>1 DEF decodeSimdMemory, Coded, Coded38, Coded3A, ScalarArithmetic
        <3> QED
          BY <3>1, <2>1, MovddupRight
      <2> QED
        BY <1>7, <2>1 DEF Coded, Coded38, Coded3A, ScalarArithmetic
    <1>8. CASE Coded(e, {"F3"}, {\hE6})
      <2>1. CASE e.pre = {"F3"} /\ e.op = \h0F /\ e.op2 = \hE6
        <3>1. decodeSimdMemory(e) = Cvtdq2pd(e)
          BY <1>8, <2>1 DEF decodeSimdMemory, Coded, Coded38, Coded3A, ScalarArithmetic
        <3> QED
          BY <3>1, <2>1, Cvtdq2pdRight
      <2> QED
        BY <1>8, <2>1 DEF Coded, Coded38, Coded3A, ScalarArithmetic
    <1>9. CASE Coded(e, {"F3"}, {\h10, \h11})
      <2>1. CASE e.pre = {"F3"} /\ e.op = \h0F /\ e.op2 = \h10
        <3>1. decodeSimdMemory(e) = Movss(e)
          BY <1>9, <2>1 DEF decodeSimdMemory, Coded, Coded38, Coded3A, ScalarArithmetic
        <3> QED
          BY <3>1, <2>1, MovssLoadRight
      <2>2. CASE e.pre = {"F3"} /\ e.op = \h0F /\ e.op2 = \h11
        <3>1. decodeSimdMemory(e) = Movss(e)
          BY <1>9, <2>2 DEF decodeSimdMemory, Coded, Coded38, Coded3A, ScalarArithmetic
        <3> QED
          BY <3>1, <2>2, MovssStoreRight
      <2> QED
        BY <1>9, <2>1, <2>2 DEF Coded, Coded38, Coded3A, ScalarArithmetic
    <1>10. CASE Coded(e, {"F3"}, {\h7E})
      <2>1. CASE e.pre = {"F3"} /\ e.op = \h0F /\ e.op2 = \h7E
        <3>1. decodeSimdMemory(e) = IF Direct(e) THEN Error ELSE MovqLoad(e)
          BY <1>10, <2>1 DEF decodeSimdMemory, Coded, Coded38, Coded3A, ScalarArithmetic
        <3> QED
          BY <3>1, <2>1, MovqLoadRight, ErrorSame
      <2> QED
        BY <1>10, <2>1 DEF Coded, Coded38, Coded3A, ScalarArithmetic
    <1>11. CASE Coded(e, {"66"}, {\hD7}) /\ ~e.hasRex
      <2>1. CASE e.pre = {"66"} /\ e.op = \h0F /\ e.op2 = \hD7
        <3>1. decodeSimdMemory(e) = Pmovmskb(e)
          BY <1>11, <2>1 DEF decodeSimdMemory, Coded, Coded38, Coded3A, ScalarArithmetic
        <3> QED
          BY <3>1, <2>1, PmovmskbRight
      <2> QED
        BY <1>11, <2>1 DEF Coded, Coded38, Coded3A, ScalarArithmetic
    <1>12. CASE Coded(e, {}, {\h29}) \/ Coded(e, {"66"}, {\h29})
      <2>1. CASE e.pre = {} /\ e.op = \h0F /\ e.op2 = \h29
        <3>1. decodeSimdMemory(e) = AlignedStore(e)
          BY <1>12, <2>1 DEF decodeSimdMemory, Coded, Coded38, Coded3A, ScalarArithmetic
        <3> QED
          BY <3>1, <2>1, AlignedStoreMovapsRight
      <2>2. CASE e.pre = {"66"} /\ e.op = \h0F /\ e.op2 = \h29
        <3>1. decodeSimdMemory(e) = AlignedStore(e)
          BY <1>12, <2>2 DEF decodeSimdMemory, Coded, Coded38, Coded3A, ScalarArithmetic
        <3> QED
          BY <3>1, <2>2, AlignedStoreMovapdRight
      <2> QED
        BY <1>12, <2>1, <2>2 DEF Coded, Coded38, Coded3A, ScalarArithmetic
    <1>13. CASE Coded(e, {}, {\h11}) \/ Coded(e, {"66"}, {\h11})
      <2>1. CASE e.pre = {} /\ e.op = \h0F /\ e.op2 = \h11
        <3>1. decodeSimdMemory(e) = UnalignedStore(e)
          BY <1>13, <2>1 DEF decodeSimdMemory, Coded, Coded38, Coded3A, ScalarArithmetic
        <3> QED
          BY <3>1, <2>1, UnalignedStorePsRight
      <2>2. CASE e.pre = {"66"} /\ e.op = \h0F /\ e.op2 = \h11
        <3>1. decodeSimdMemory(e) = UnalignedStore(e)
          BY <1>13, <2>2 DEF decodeSimdMemory, Coded, Coded38, Coded3A, ScalarArithmetic
        <3> QED
          BY <3>1, <2>2, UnalignedStorePdRight
      <2> QED
        BY <1>13, <2>1, <2>2 DEF Coded, Coded38, Coded3A, ScalarArithmetic
    <1>14. CASE Coded(e, {}, {\h10, \h28}) \/ Coded(e, {"66"}, {\h10, \h28})
      <2>1. CASE e.pre = {} /\ e.op = \h0F /\ e.op2 = \h10
        <3>1. decodeSimdMemory(e) = VectorLoad(e)
          BY <1>14, <2>1 DEF decodeSimdMemory, Coded, Coded38, Coded3A, ScalarArithmetic
        <3> QED
          BY <3>1, <2>1, VectorLoadMovupsPsRight
      <2>2. CASE e.pre = {} /\ e.op = \h0F /\ e.op2 = \h28
        <3>1. decodeSimdMemory(e) = VectorLoad(e)
          BY <1>14, <2>2 DEF decodeSimdMemory, Coded, Coded38, Coded3A, ScalarArithmetic
        <3> QED
          BY <3>1, <2>2, VectorLoadMovapsRight
      <2>3. CASE e.pre = {"66"} /\ e.op = \h0F /\ e.op2 = \h10
        <3>1. decodeSimdMemory(e) = VectorLoad(e)
          BY <1>14, <2>3 DEF decodeSimdMemory, Coded, Coded38, Coded3A, ScalarArithmetic
        <3> QED
          BY <3>1, <2>3, VectorLoadMovupsPdRight
      <2>4. CASE e.pre = {"66"} /\ e.op = \h0F /\ e.op2 = \h28
        <3>1. decodeSimdMemory(e) = VectorLoad(e)
          BY <1>14, <2>4 DEF decodeSimdMemory, Coded, Coded38, Coded3A, ScalarArithmetic
        <3> QED
          BY <3>1, <2>4, VectorLoadMovapdRight
      <2> QED
        BY <1>14, <2>1, <2>2, <2>3, <2>4 DEF Coded, Coded38, Coded3A, ScalarArithmetic
    <1>15. CASE Coded3A(e, \h16) /\ ~e.hasRex
      <2>1. ~(e.pre = {"66"} /\ e.op = \h0F /\ e.op2 = \h3A /\ e.op3 = \h16)
        BY DEF KnownMisdecode, TwoByteForm
      <2> QED
        BY <1>15, <2>1 DEF Coded, Coded38, Coded3A, ScalarArithmetic
    <1>16. CASE Coded3A(e, \h0E) /\ ~e.hasRex
      <2>1. CASE e.pre = {"66"} /\ e.op = \h0F /\ e.op2 = \h3A /\ e.op3 = \h0E
        <3>1. decodeSimdMemory(e) = Pblendw(e)
          BY <1>16, <2>1 DEF decodeSimdMemory, Coded, Coded38, Coded3A, ScalarArithmetic
        <3> QED
          BY <3>1, <2>1, PblendwRight
      <2> QED
        BY <1>16, <2>1 DEF Coded, Coded38, Coded3A, ScalarArithmetic
    <1>17. CASE Coded3A(e, \h22)
      <2>1. CASE e.pre = {"66"} /\ e.op = \h0F /\ e.op2 = \h3A /\ e.op3 = \h22
        <3>1. decodeSimdMemory(e) = Pinsrd(e)
          BY <1>17, <2>1 DEF decodeSimdMemory, Coded, Coded38, Coded3A, ScalarArithmetic
        <3> QED
          BY <3>1, <2>1, PinsrdRight, NoRexBits
      <2> QED
        BY <1>17, <2>1 DEF Coded, Coded38, Coded3A, ScalarArithmetic
    <1>18. CASE Coded3A(e, \h20)
      <2>1. CASE e.pre = {"66"} /\ e.op = \h0F /\ e.op2 = \h3A /\ e.op3 = \h20
        <3>1. decodeSimdMemory(e) = Pinsrb(e)
          BY <1>18, <2>1 DEF decodeSimdMemory, Coded, Coded38, Coded3A, ScalarArithmetic
        <3> QED
          BY <3>1, <2>1, PinsrbRight
      <2> QED
        BY <1>18, <2>1 DEF Coded, Coded38, Coded3A, ScalarArithmetic
    <1>19. CASE Coded3A(e, \h0F) /\ ~e.hasRex
      <2>1. CASE e.pre = {"66"} /\ e.op = \h0F /\ e.op2 = \h3A /\ e.op3 = \h0F
        <3>1. decodeSimdMemory(e) = Palignr(e)
          BY <1>19, <2>1 DEF decodeSimdMemory, Coded, Coded38, Coded3A, ScalarArithmetic
        <3> QED
          BY <3>1, <2>1, PalignrRight
      <2> QED
        BY <1>19, <2>1 DEF Coded, Coded38, Coded3A, ScalarArithmetic
    <1>20. CASE Coded(e, {"66"}, {\h7F}) /\ ~e.hasRex
      <2>1. CASE e.pre = {"66"} /\ e.op = \h0F /\ e.op2 = \h7F
        <3>1. decodeSimdMemory(e) = MovdqaStore(e)
          BY <1>20, <2>1 DEF decodeSimdMemory, Coded, Coded38, Coded3A, ScalarArithmetic
        <3> QED
          BY <3>1, <2>1, MovdqaStoreRight
      <2> QED
        BY <1>20, <2>1 DEF Coded, Coded38, Coded3A, ScalarArithmetic
    <1>21. CASE Coded(e, {"66"}, {\h6F})
      <2>1. CASE e.pre = {"66"} /\ e.op = \h0F /\ e.op2 = \h6F
        <3>1. decodeSimdMemory(e) = IF e.hasRex THEN MovdqaLoadRex(e) ELSE MovdqaLoad(e)
          BY <1>21, <2>1 DEF decodeSimdMemory, Coded, Coded38, Coded3A, ScalarArithmetic
        <3> QED
          BY <3>1, <2>1, MovdqaLoadRight, MovdqaLoadRexRight
      <2> QED
        BY <1>21, <2>1 DEF Coded, Coded38, Coded3A, ScalarArithmetic
    <1>22. CASE /\ ~(Coded(e, {"F2"}, {\h10, \h11}))
                /\ ~(Coded(e, {}, {\h12, \h13}))
                /\ ~(Coded(e, {"F2"}, {\h2C}))
                /\ ~(Coded(e, {"F2"}, {\h2A}))
                /\ ~(Coded(e, {"F2"}, {\h5A}))
                /\ ~(Coded(e, {"F2"}, ScalarArithmetic))
                /\ ~(Coded(e, {"F2"}, {\h12}))
                /\ ~(Coded(e, {"F3"}, {\hE6}))
                /\ ~(Coded(e, {"F3"}, {\h10, \h11}))
                /\ ~(Coded(e, {"F3"}, {\h7E}))
                /\ ~(Coded(e, {"66"}, {\hD7}) /\ ~e.hasRex)
                /\ ~(Coded(e, {}, {\h29}) \/ Coded(e, {"66"}, {\h29}))
                /\ ~(Coded(e, {}, {\h11}) \/ Coded(e, {"66"}, {\h11}))
                /\ ~(Coded(e, {}, {\h10, \h28}) \/ Coded(e, {"66"}, {\h10, \h28}))
                /\ ~(Coded3A(e, \h16) /\ ~e.hasRex)
                /\ ~(Coded3A(e, \h0E) /\ ~e.hasRex)
                /\ ~(Coded3A(e, \h22))
                /\ ~(Coded3A(e, \h20))
                /\ ~(Coded3A(e, \h0F) /\ ~e.hasRex)
                /\ ~(Coded(e, {"66"}, {\h7F}) /\ ~e.hasRex)
                /\ ~(Coded(e, {"66"}, {\h6F}))
      BY <1>22, ErrorSame DEF decodeSimdMemory
    <1> QED
      BY <1>1, <1>2, <1>3, <1>4, <1>5, <1>6, <1>7, <1>8, <1>9, <1>10, <1>11, <1>12, <1>13, <1>14, <1>15, <1>16, <1>17, <1>18, <1>19, <1>20, <1>21, <1>22

\* The architecture's table of two-byte opcodes.
LEMMA TwoByteMeaning ==
    ASSUME NEW e, e.op = \h0F, e.pre = {}, e.op2 = \h1F \/ VectorPlain(e) = Undefined
    PROVE  Meaning(e) = TwoByte(e)
    <1>1. e.pre \intersect {"66", "F2", "F3"} = {}
      OBVIOUS
    <1> QED
      BY <1>1 DEF Meaning

\* The opcodes without a prefix that are vector instructions.
LEMMA PlainTable ==
    ASSUME NEW e, e.op2 \notin {\h10, \h11, \h12, \h13, \h16, \h28, \h29, \h2E, \h50, \h57, \hC6}
    PROVE  VectorPlain(e) = Undefined
    BY DEF VectorPlain

\* The architecture's string instructions.
LEMMA StringsMeaning ==
    ASSUME NEW e, e.pre = {"F3"}, e.op \notin {\h0F, \hC4, \hC5}
    PROVE  Meaning(e) = Strings(e)
    BY DEF Meaning

\* The architecture's locked instructions.
LEMMA LockedMeaning ==
    ASSUME NEW e, "F0" \in e.pre, e.op \notin {\hC4, \hC5}
    PROVE  Meaning(e) = Locked(IF e.op = \h0F THEN TwoByte(e) ELSE OneByte(e))
    BY DEF Meaning

\* The immediate of an operand size.
LEMMA Immediates ==
    /\ ImmZ(8) = SImm(1) /\ ImmZ(16) = SImm(2) /\ ImmZ(32) = SImm(4) /\ ImmZ(64) = SImm(4)
    BY DEF ImmZ

\* An immediate as wide as the operand before it.
LEMMA WholeImm ==
    ASSUME NEW e, NEW r, NEW w \in {8, 16, 32, 64}, NEW n \in Nat, 8 * n >= w
    PROVE  /\ Follows(e, Acc(w), ZImm(n), SImm(n)) /\ Follows(e, E(e, w), ZImm(n), SImm(n))
           /\ Follows(e, OpReg(e, r, w), ZImm(n), SImm(n))
    <1>1. /\ Whole(FormOf(e, Acc(w)), n) /\ Whole(FormOf(e, E(e, w)), n)
          /\ Whole(FormOf(e, OpReg(e, r, w)), n)
      BY WholeOperands DEF Acc
    <1> QED
      BY <1>1, WholeFollows

\* Byte immediates behind byte operands.
LEMMA ByteImm ==
    ASSUME NEW e, NEW r
    PROVE  /\ Follows(e, Acc(8), ZImm(1), ImmZ(8)) /\ Follows(e, E(e, 8), ZImm(1), ImmZ(8))
           /\ Follows(e, OpReg(e, r, 8), ZImm(1), SImm(1))
           /\ Follows(e, E(e, 8), ZImm(1), SImm(1))
    BY WholeImm, Immediates

\* Word immediates behind word operands.
LEMMA WordImm ==
    ASSUME NEW e, NEW r
    PROVE  /\ Follows(e, E(e, 16), ZImm(2), ImmZ(16))
           /\ Follows(e, OpReg(e, r, 16), ZImm(2), SImm(2))
    BY WholeImm, Immediates

\* Immediates as long as their register.
LEMMA LongImm ==
    ASSUME NEW e, NEW r
    PROVE  /\ Follows(e, E(e, 32), ZImm(4), ImmZ(32)) /\ Follows(e, Acc(32), ZImm(4), ImmZ(32))
           /\ Follows(e, OpReg(e, r, 32), ZImm(4), SImm(4))
           /\ Follows(e, OpReg(e, r, 64), ZImm(8), SImm(8))
    BY WholeImm, Immediates

\* An immediate fits itself behind any operand.
LEMMA SameImm ==
    ASSUME NEW e, NEW b, NEW n
    PROVE  Follows(e, b, SImm(n), SImm(n)) /\ Follows(e, b, ZImm(n), ZImm(n)) /\ Follows(e, b, One, One)
    BY ImmFits, FitsFollows

\* The 32-bit immediate, sign extended under REX.W.
LEMMA Imm32Follows ==
    ASSUME NEW e
    PROVE  /\ Follows(e, E(e, W3264(e)), Imm32(e), ImmZ(W3264(e)))
           /\ Follows(e, Acc(W3264(e)), Imm32(e), ImmZ(W3264(e)))
           /\ Follows(e, G(e, W3264(e)), Imm32(e), ImmZ(W3264(e)))
    <1>1. CASE W(e)
      BY <1>1, SameImm, Immediates DEF W3264, Imm32
    <1>2. CASE ~W(e)
      <2>1. Whole(FormOf(e, G(e, 32)), 4)
        BY WholeOperands
      <2>2. Follows(e, G(e, 32), ZImm(4), SImm(4))
        BY <2>1, WholeFollows
      <2> QED
        BY <1>2, <2>2, LongImm, Immediates DEF W3264, Imm32
    <1> QED
      BY <1>1, <1>2

\* The register in the low bits of the opcode.
LEMMA OpRegs ==
    ASSUME NEW e, NEW w, NEW low \in Nat
    PROVE  /\ w # 8 \/ low < 4 \/ e.hasRex => OpReg(e, low, w) = Reg(decodeRegister(low, B(e)), w)
           /\ Fits(e, OpReg(e, low, w), OpReg(e, low, w))
    <1>1. w # 8 \/ low < 4 \/ e.hasRex => OpReg(e, low, w) = Reg(decodeRegister(low, B(e)), w)
      BY DEF OpReg, GeneralReg, decodeRegister
    <1>2. OpReg(e, low, w).k = "reg"
      BY DEF OpReg, GeneralReg, Reg, HighByte
    <1> QED
      BY <1>1, <1>2, PlainFits

\* One operand that fits.
LEMMA SameInst1 ==
    ASSUME NEW e, NEW name, NEW a, NEW b, Meaning(e) = Inst(name, <<b>>), Fits(e, a, b)
    PROVE  Same(e, Inst(name, <<a>>))
    BY Agree1 DEF Inst

\* An operand and an immediate behind it.
LEMMA SameImm2 ==
    ASSUME NEW e, NEW name, NEW a, NEW b, NEW a2, NEW b2,
           Meaning(e) = Inst(name, <<b, b2>>), Fits(e, a, b), Follows(e, b, a2, b2)
    PROVE  Same(e, Inst(name, <<a, a2>>))
    BY Agree2 DEF Inst

\* Two operands and an immediate behind them.
LEMMA SameImm3 ==
    ASSUME NEW e, NEW name, NEW a, NEW b, NEW a2, NEW b2, NEW a3, NEW b3,
           Meaning(e) = Inst(name, <<b, b2, b3>>), Fits(e, a, b), Fits(e, a2, b2), Follows(e, b, a3, b3)
    PROVE  Same(e, Inst(name, <<a, a2, a3>>))
    <1>1. Follows(e, b, a2, b2)
      BY FitsFollows
    <1>2. Meaning(e) = Made(name, <<b, b2, b3>>, "none", 1, TRUE)
      BY DEF Inst
    <1>3. Same(e, Made(name, <<a, a2, a3>>, "none", 1, TRUE))
      BY <1>1, <1>2, Agree3
    <1> QED
      BY <1>3 DEF Inst

\* No ModRM byte and no operand.
LEMMA SameBare0 ==
    ASSUME NEW e, NEW name, Meaning(e) = Bare(name, NoOperands)
    PROVE  Same(e, Bare(name, NoOperands))
    BY Agree0 DEF Bare

\* No ModRM byte and one operand.
LEMMA SameBare1 ==
    ASSUME NEW e, NEW name, NEW a, NEW b, Meaning(e) = Bare(name, <<b>>), Fits(e, a, b)
    PROVE  Same(e, Bare(name, <<a>>))
    BY Agree1 DEF Bare

\* No ModRM byte, an operand and an immediate.
LEMMA SameBare2 ==
    ASSUME NEW e, NEW name, NEW a, NEW b, NEW a2, NEW b2,
           Meaning(e) = Bare(name, <<b, b2>>), Fits(e, a, b), Follows(e, b, a2, b2)
    PROVE  Same(e, Bare(name, <<a, a2>>))
    BY Agree2 DEF Bare

\* An instruction with a condition.
LEMMA CondMade ==
    ASSUME NEW name, NEW args, NEW cc
    PROVE  /\ Cond(Inst(name, args), cc) = Made(name, args, cc, 1, TRUE)
           /\ Cond(Bare(name, args), cc) = Made(name, args, cc, 0, TRUE)
    BY DEF Cond, Inst, Bare, Made

\* A condition and one operand.
LEMMA SameCond1 ==
    ASSUME NEW e, NEW name, NEW cc, NEW a, NEW b, Fits(e, a, b)
    PROVE  /\ Meaning(e) = Cond(Inst(name, <<b>>), cc) => Same(e, Cond(Inst(name, <<a>>), cc))
           /\ Meaning(e) = Cond(Bare(name, <<b>>), cc) => Same(e, Cond(Bare(name, <<a>>), cc))
    <1>1. ASSUME NEW m, Meaning(e) = Made(name, <<b>>, cc, m, TRUE)
          PROVE  Same(e, Made(name, <<a>>, cc, m, TRUE))
      BY <1>1, Agree1
    <1> QED
      BY <1>1, CondMade

\* A condition and two operands.
LEMMA SameCond2 ==
    ASSUME NEW e, NEW name, NEW cc, NEW a, NEW b, NEW a2, NEW b2, Fits(e, a, b), Fits(e, a2, b2),
           Meaning(e) = Cond(Inst(name, <<b, b2>>), cc)
    PROVE  Same(e, Cond(Inst(name, <<a, a2>>), cc))
    <1>1. Meaning(e) = Made(name, <<b, b2>>, cc, 1, TRUE)
      BY CondMade
    <1>2. Follows(e, b, a2, b2)
      BY FitsFollows
    <1>3. Same(e, Made(name, <<a, a2>>, cc, 1, TRUE))
      BY <1>1, <1>2, Agree2
    <1> QED
      BY <1>3, CondMade

\* 6A: PushImm makes what the architecture defines, or nothing.
LEMMA PushImmByteRight ==
    ASSUME NEW e \in Encodings, NoPrefix(e), e.op = \h6A
    PROVE  Same(e, PushImm(e))
    <1>1. OneByte(e) = Bare("Push", <<SImm(1)>>)
      BY DEF OneByte
    <1>2. Meaning(e) = Bare("Push", <<SImm(1)>>)
      BY <1>1, OneByteMeaning DEF Scalar, NoPrefix
    <1> QED
      BY <1>2, SameBare1, ImmFits DEF PushImm

\* 68: PushImm makes what the architecture defines, or nothing.
LEMMA PushImmLongRight ==
    ASSUME NEW e \in Encodings, NoPrefix(e), e.op = \h68
    PROVE  Same(e, PushImm(e))
    <1>1. OneByte(e) = Bare("Push", <<SImm(4)>>)
      BY DEF OneByte
    <1>2. Meaning(e) = Bare("Push", <<SImm(4)>>)
      BY <1>1, OneByteMeaning DEF Scalar, NoPrefix
    <1> QED
      BY <1>2, SameBare1, ImmFits DEF PushImm

\* A8: TestAcc makes what the architecture defines, or nothing.
LEMMA TestAccByteRight ==
    ASSUME NEW e \in Encodings, NoPrefix(e), e.op = \hA8
    PROVE  Same(e, TestAcc(e))
    <1>1. OneByte(e) = Bare("Test", <<Acc(8), ImmZ(8)>>)
      BY DEF OneByte, Width
    <1>2. Meaning(e) = Bare("Test", <<Acc(8), ImmZ(8)>>)
      BY <1>1, OneByteMeaning DEF Scalar, NoPrefix
    <1> QED
      BY <1>2, SameBare2, RegFits, ByteImm DEF TestAcc, Acc

\* A9: TestAcc makes what the architecture defines, or nothing.
LEMMA TestAccLongRight ==
    ASSUME NEW e \in Encodings, NoPrefix(e), e.op = \hA9
    PROVE  Same(e, TestAcc(e))
    <1>1. Width(e) = 32
      BY NoRexBits, Widths DEF NoPrefix, Width
    <1>2. OneByte(e) = Bare("Test", <<Acc(32), ImmZ(32)>>)
      BY <1>1 DEF OneByte
    <1>3. Meaning(e) = Bare("Test", <<Acc(32), ImmZ(32)>>)
      BY <1>2, OneByteMeaning DEF Scalar, NoPrefix
    <1> QED
      BY <1>1, <1>3, SameBare2, RegFits, LongImm DEF TestAcc, Acc

\* 66 C1: RolWord makes what the architecture defines, or nothing.
LEMMA RolWordRight ==
    ASSUME NEW e \in Encodings, e.pre = {"66"}, ~e.hasRex, e.op = \hC1
    PROVE  Same(e, RolWord(e))
    <1>1. Width(e) = 16
      BY NoRexBits, Widths DEF NoPrefix, Width
    <1>2. OneByte(e) = Inst(ShiftGroup[e.reg + 1], <<E(e, 16), Count>>)
      BY <1>1 DEF OneByte, Shift
    <1>3. Meaning(e) = Inst(ShiftGroup[e.reg + 1], <<E(e, 16), Count>>)
      BY <1>2, OneByteMeaning DEF Scalar, NoPrefix
    <1> QED
      BY <1>1, <1>3, SameImm2, SameImm, FieldsFit, ErrorFits, ErrorSame DEF RolWord, Only, Count, ShiftGroup

\* F6 /0: GroupF6 makes what the architecture defines, or nothing.
LEMMA GroupF6TestRight ==
    ASSUME NEW e \in Encodings, e.pre \subseteq {"65"}, e.op = \hF6, e.reg = 0
    PROVE  Same(e, GroupF6(e))
    <1>1. OneByte(e) = Inst("Test", <<E(e, 8), ImmZ(8)>>)
      BY DEF OneByte, Unary, Width
    <1>2. Meaning(e) = Inst("Test", <<E(e, 8), ImmZ(8)>>)
      BY <1>1, OneByteMeaning DEF Scalar, NoPrefix
    <1>3. \A w : Fits(e, Mem(w, (Full \union {"gs"})), E(e, w))
      BY SafeMem DEF NoPrefix, Full
    <1> QED
      BY <1>2, <1>3, SameImm2, ByteImm, FieldsFit, ErrorFits, ErrorSame DEF GroupF6

\* F6 /2: GroupF6 makes what the architecture defines, or nothing.
LEMMA GroupF6NotRight ==
    ASSUME NEW e \in Encodings, e.pre \subseteq {"65"}, e.op = \hF6, e.reg = 2
    PROVE  Same(e, GroupF6(e))
    <1>1. OneByte(e) = Inst("Not", <<E(e, 8)>>)
      BY DEF OneByte, Unary, Width
    <1>2. Meaning(e) = Inst("Not", <<E(e, 8)>>)
      BY <1>1, OneByteMeaning DEF Scalar, NoPrefix
    <1> QED
      BY <1>2, SameInst1, FieldsFit, ErrorFits, ErrorSame DEF GroupF6

\* F6 /3: GroupF6 makes what the architecture defines, or nothing.
LEMMA GroupF6NegRight ==
    ASSUME NEW e \in Encodings, e.pre \subseteq {"65"}, e.op = \hF6, e.reg = 3
    PROVE  Same(e, GroupF6(e))
    <1>1. OneByte(e) = Inst("Neg", <<E(e, 8)>>)
      BY DEF OneByte, Unary, Width
    <1>2. Meaning(e) = Inst("Neg", <<E(e, 8)>>)
      BY <1>1, OneByteMeaning DEF Scalar, NoPrefix
    <1> QED
      BY <1>2, SameInst1, FieldsFit, ErrorFits, ErrorSame DEF GroupF6

\* F6 /6: GroupF6 makes what the architecture defines, or nothing.
LEMMA GroupF6DivRight ==
    ASSUME NEW e \in Encodings, e.pre \subseteq {"65"}, e.op = \hF6, e.reg = 6
    PROVE  Same(e, GroupF6(e))
    <1>1. OneByte(e) = Inst("Div", <<E(e, 8)>>)
      BY DEF OneByte, Unary, Width
    <1>2. Meaning(e) = Inst("Div", <<E(e, 8)>>)
      BY <1>1, OneByteMeaning DEF Scalar, NoPrefix
    <1> QED
      BY <1>2, SameInst1, FieldsFit, ErrorFits, ErrorSame DEF GroupF6

\* 04: AccShort makes what the architecture defines, or nothing.
LEMMA AccShortAddRight ==
    ASSUME NEW e \in Encodings, NoPrefix(e), e.op = \h04
    PROVE  Same(e, AccShort(e))
    <1>1. Width(e) = 8
      BY NoRexBits, Widths DEF NoPrefix, Width
    <1>2. OneByte(e) = Bare("Add", <<Acc(8), ImmZ(8)>>)
      BY <1>1, Rows DEF OneByte, Arithmetic
    <1>3. Meaning(e) = Bare("Add", <<Acc(8), ImmZ(8)>>)
      BY <1>2, OneByteMeaning DEF Scalar, NoPrefix
    <1> QED
      BY <1>1, <1>3, SameBare2, RegFits, ByteImm DEF AccShort, Acc

\* 3C: AccShort makes what the architecture defines, or nothing.
LEMMA AccShortCmpRight ==
    ASSUME NEW e \in Encodings, NoPrefix(e), e.op = \h3C
    PROVE  Same(e, AccShort(e))
    <1>1. Width(e) = 8
      BY NoRexBits, Widths DEF NoPrefix, Width
    <1>2. OneByte(e) = Bare("Cmp", <<Acc(8), ImmZ(8)>>)
      BY <1>1, Rows DEF OneByte, Arithmetic
    <1>3. Meaning(e) = Bare("Cmp", <<Acc(8), ImmZ(8)>>)
      BY <1>2, OneByteMeaning DEF Scalar, NoPrefix
    <1> QED
      BY <1>1, <1>3, SameBare2, RegFits, ByteImm DEF AccShort, Acc

\* 3D: AccShort makes what the architecture defines, or nothing.
LEMMA AccShortCmpLongRight ==
    ASSUME NEW e \in Encodings, NoPrefix(e), e.op = \h3D
    PROVE  Same(e, AccShort(e))
    <1>1. Width(e) = 32
      BY NoRexBits, Widths DEF NoPrefix, Width
    <1>2. OneByte(e) = Bare("Cmp", <<Acc(32), ImmZ(32)>>)
      BY <1>1, Rows DEF OneByte, Arithmetic
    <1>3. Meaning(e) = Bare("Cmp", <<Acc(32), ImmZ(32)>>)
      BY <1>2, OneByteMeaning DEF Scalar, NoPrefix
    <1> QED
      BY <1>1, <1>3, SameBare2, RegFits, LongImm DEF AccShort, Acc

\* 35: AccShortLogic makes what the architecture defines, or nothing.
LEMMA AccShortLogicXorRight ==
    ASSUME NEW e \in Encodings, NoPrefix(e), e.op = \h35
    PROVE  Same(e, AccShortLogic(e))
    <1>1. Width(e) = 32
      BY NoRexBits, Widths DEF NoPrefix, Width
    <1>2. OneByte(e) = Bare("Xor", <<Acc(32), ImmZ(32)>>)
      BY <1>1, Rows DEF OneByte, Arithmetic
    <1>3. Meaning(e) = Bare("Xor", <<Acc(32), ImmZ(32)>>)
      BY <1>2, OneByteMeaning DEF Scalar, NoPrefix
    <1> QED
      BY <1>1, <1>3, SameBare2, RegFits, LongImm DEF AccShortLogic, Acc

\* 0D: AccShortLogic makes what the architecture defines, or nothing.
LEMMA AccShortLogicOrRight ==
    ASSUME NEW e \in Encodings, NoPrefix(e), e.op = \h0D
    PROVE  Same(e, AccShortLogic(e))
    <1>1. Width(e) = 32
      BY NoRexBits, Widths DEF NoPrefix, Width
    <1>2. OneByte(e) = Bare("Or", <<Acc(32), ImmZ(32)>>)
      BY <1>1, Rows DEF OneByte, Arithmetic
    <1>3. Meaning(e) = Bare("Or", <<Acc(32), ImmZ(32)>>)
      BY <1>2, OneByteMeaning DEF Scalar, NoPrefix
    <1> QED
      BY <1>1, <1>3, SameBare2, RegFits, LongImm DEF AccShortLogic, Acc

\* MovShort makes what the architecture defines, or nothing.
LEMMA MovShortByteRight ==
    ASSUME NEW e \in Encodings, NoPrefix(e), e.op \in \hB0 .. \hB3
    PROVE  Same(e, MovShort(e))
    <1>1. ~W(e) /\ ~R(e) /\ ~X(e) /\ ~B(e)
      BY NoRexBits, Widths DEF NoPrefix, Width
    <1>2. OneByte(e) = Bare("Mov", <<OpReg(e, e.op - \hB0, 8), SImm(1)>>)
      BY <1>1 DEF OneByte
    <1>3. Meaning(e) = Bare("Mov", <<OpReg(e, e.op - \hB0, 8), SImm(1)>>)
      BY <1>2, OneByteMeaning DEF Scalar, NoPrefix
    <1> QED
      BY <1>1, <1>3, SameBare2, RegFits, ByteImm, OpRegs DEF MovShort, decodeRegister

\* MovShort makes what the architecture defines, or nothing.
LEMMA MovShortLongRight ==
    ASSUME NEW e \in Encodings, NoPrefix(e), e.op \in \hB8 .. \hBF
    PROVE  Same(e, MovShort(e))
    <1>1. ~W(e) /\ ~R(e) /\ ~X(e) /\ ~B(e) /\ W163264(e) = 32
      BY NoRexBits, Widths DEF NoPrefix, Width
    <1>2. OneByte(e) = Bare("Mov", <<OpReg(e, e.op - \hB8, 32), SImm(4)>>)
      BY <1>1 DEF OneByte
    <1>3. Meaning(e) = Bare("Mov", <<OpReg(e, e.op - \hB8, 32), SImm(4)>>)
      BY <1>2, OneByteMeaning DEF Scalar, NoPrefix
    <1> QED
      BY <1>1, <1>3, SameBare2, RegFits, LongImm, OpRegs DEF MovShort, decodeRegister

\* PushPopReg makes what the architecture defines, or nothing.
LEMMA PushPopRegPushRight ==
    ASSUME NEW e \in Encodings, e.pre = {}, e.op \in \h50 .. \h57
    PROVE  Same(e, PushPopReg(e))
    <1>1. OneByte(e) = Bare("Push", <<OpReg(e, e.op - \h50, 64)>>)
      BY DEF OneByte
    <1>2. Meaning(e) = Bare("Push", <<OpReg(e, e.op - \h50, 64)>>)
      BY <1>1, OneByteMeaning DEF Scalar, NoPrefix
    <1> QED
      BY <1>2, SameBare1, OpRegs DEF PushPopReg

\* PushPopReg makes what the architecture defines, or nothing.
LEMMA PushPopRegPopRight ==
    ASSUME NEW e \in Encodings, e.pre = {}, e.op \in \h58 .. \h5F
    PROVE  Same(e, PushPopReg(e))
    <1>1. OneByte(e) = Bare("Pop", <<OpReg(e, e.op - \h58, 64)>>)
      BY DEF OneByte
    <1>2. Meaning(e) = Bare("Pop", <<OpReg(e, e.op - \h58, 64)>>)
      BY <1>1, OneByteMeaning DEF Scalar, NoPrefix
    <1> QED
      BY <1>2, SameBare1, OpRegs DEF PushPopReg

\* C9: Leave makes what the architecture defines, or nothing.
LEMMA LeaveRight ==
    ASSUME NEW e \in Encodings, NoPrefix(e), e.op = \hC9
    PROVE  Same(e, Leave)
    <1>1. OneByte(e) = Leave
      BY DEF OneByte, Leave
    <1>2. Meaning(e) = Leave
      BY <1>1, OneByteMeaning DEF Scalar, NoPrefix
    <1> QED
      BY <1>2, SameBare0 DEF Leave

\* 90: Nop makes what the architecture defines, or nothing.
LEMMA NopRight ==
    ASSUME NEW e \in Encodings, e.pre \subseteq {"66"}, ~e.hasRex, e.op = \h90
    PROVE  Same(e, Nop)
    <1>1. ~W(e) /\ ~R(e) /\ ~X(e) /\ ~B(e)
      BY NoRexBits, Widths DEF NoPrefix, Width
    <1>2. OneByte(e) = Nop
      BY <1>1 DEF OneByte, Nop
    <1>3. Meaning(e) = Nop
      BY <1>2, OneByteMeaning DEF Scalar, NoPrefix
    <1> QED
      BY <1>1, <1>3, SameBare0 DEF Nop

\* SetDirection makes what the architecture defines, or nothing.
LEMMA SetDirectionRight ==
    ASSUME NEW e \in Encodings, NoPrefix(e), e.op \in {\hFC, \hFD}
    PROVE  Same(e, SetDirection(e))
    <1>1. OneByte(e) = SetDirection(e)
      BY DEF OneByte, SetDirection
    <1>2. Meaning(e) = SetDirection(e)
      BY <1>1, OneByteMeaning DEF Scalar, NoPrefix
    <1> QED
      BY <1>2, SameBare0 DEF SetDirection

\* 0F 05: Syscall makes what the architecture defines, or nothing.
LEMMA SyscallRight ==
    ASSUME NEW e \in Encodings, NoPrefix(e), e.op = \h0F, e.op2 = \h05
    PROVE  Same(e, Syscall)
    <1>1. TwoByte(e) = Syscall
      BY DEF TwoByte, Syscall
    <1>2. Meaning(e) = Syscall
      BY <1>1, TwoByteMeaning, PlainTable DEF NoPrefix
    <1> QED
      BY <1>2, SameBare0 DEF Syscall

\* 0F: Counter makes what the architecture defines, or nothing.
LEMMA CounterRight ==
    ASSUME NEW e \in Encodings, NoPrefix(e), e.op = \h0F, e.op2 \in {\h31, \hA2}
    PROVE  Same(e, Counter(e))
    <1>1. TwoByte(e) = Counter(e)
      BY DEF TwoByte, Counter
    <1>2. Meaning(e) = Counter(e)
      BY <1>1, TwoByteMeaning, PlainTable DEF NoPrefix
    <1> QED
      BY <1>2, SameBare0 DEF Counter

\* 0F: Setcc makes what the architecture defines, or nothing.
LEMMA SetccRight ==
    ASSUME NEW e \in Encodings, e.pre = {}, e.op = \h0F, e.op2 \in {\h90 + c : c \in ByteConditions}
    PROVE  Same(e, Setcc(e))
    <1>1. e.op2 \in \h90 .. \h9F /\ e.op2 % 16 = e.op2 - \h90
      BY DEF ByteConditions
    <1>2. TwoByte(e) = Cond(Inst("Set", <<E(e, 8)>>), Condition(e.op2 - \h90))
      BY <1>1 DEF TwoByte
    <1>3. Meaning(e) = Cond(Inst("Set", <<E(e, 8)>>), Condition(e.op2 - \h90))
      BY <1>2, <1>1, TwoByteMeaning, PlainTable DEF NoPrefix
    <1>4. \A w : Fits(e, Mem(w, Full), E(e, w))
      BY SafeMem DEF NoPrefix, Full
    <1> QED
      BY <1>1, <1>3, <1>4, SameCond1, FieldsFit, ErrorFits, ErrorSame DEF Setcc, Only

\* 0F BF: MovsxWord makes what the architecture defines, or nothing.
LEMMA MovsxWordRight ==
    ASSUME NEW e \in Encodings, e.pre = {}, e.op = \h0F, e.op2 = \hBF
    PROVE  Same(e, MovsxWord(e))
    <1>1. W163264(e) = W3264(e)
      BY NoRexBits, Widths DEF NoPrefix, Width
    <1>2. TwoByte(e) = Inst("Movsx", <<G(e, W3264(e)), E(e, 16)>>)
      BY <1>1 DEF TwoByte
    <1>3. Meaning(e) = Inst("Movsx", <<G(e, W3264(e)), E(e, 16)>>)
      BY <1>2, TwoByteMeaning, PlainTable DEF NoPrefix
    <1>4. \A w : Fits(e, Mem(w, Full), E(e, w))
      BY SafeMem DEF NoPrefix, Full
    <1> QED
      BY <1>1, <1>3, <1>4, SameInst2, Widths, FieldsFit, ErrorFits, ErrorSame DEF MovsxWord

\* 0F BE: MovsxByteShort makes what the architecture defines, or nothing.
LEMMA MovsxByteShortRight ==
    ASSUME NEW e \in Encodings, NoPrefix(e), e.op = \h0F, e.op2 = \hBE
    PROVE  Same(e, MovsxByteShort(e))
    <1>1. W163264(e) = 32
      BY NoRexBits, Widths DEF NoPrefix, Width
    <1>2. TwoByte(e) = Inst("Movsx", <<G(e, 32), E(e, 8)>>)
      BY <1>1 DEF TwoByte
    <1>3. Meaning(e) = Inst("Movsx", <<G(e, 32), E(e, 8)>>)
      BY <1>2, TwoByteMeaning, PlainTable DEF NoPrefix
    <1>4. \A w : Fits(e, Mem(w, {"sib"}), E(e, w))
      BY SafeMem DEF NoPrefix, Full
    <1> QED
      BY <1>1, <1>3, <1>4, SameInst2, Widths, Fields, FieldsFit, ErrorFits, ErrorSame DEF MovsxByteShort, Only, LegacyHigh

\* 0F B6: MovzxByte makes what the architecture defines, or nothing.
LEMMA MovzxByteRight ==
    ASSUME NEW e \in Encodings, e.pre = {}, e.op = \h0F, e.op2 = \hB6
    PROVE  Same(e, MovzxByte(e))
    <1>1. W163264(e) = W3264(e)
      BY NoRexBits, Widths DEF NoPrefix, Width
    <1>2. TwoByte(e) = Inst("Movzx", <<G(e, W3264(e)), E(e, 8)>>)
      BY <1>1 DEF TwoByte
    <1>3. Meaning(e) = Inst("Movzx", <<G(e, W3264(e)), E(e, 8)>>)
      BY <1>2, TwoByteMeaning, PlainTable DEF NoPrefix
    <1>4. \A w : Fits(e, Mem(w, (Full \ {"noBase"})), E(e, w))
      BY SafeMem DEF NoPrefix, Full
    <1> QED
      BY <1>1, <1>3, <1>4, SameInst2, Widths, FieldsFit, ErrorFits, ErrorSame DEF MovzxByte

\* 0F B7: MovzxWord makes what the architecture defines, or nothing.
LEMMA MovzxWordRight ==
    ASSUME NEW e \in Encodings, e.pre = {}, e.op = \h0F, e.op2 = \hB7
    PROVE  Same(e, MovzxWord(e))
    <1>1. W163264(e) = W3264(e)
      BY NoRexBits, Widths DEF NoPrefix, Width
    <1>2. TwoByte(e) = Inst("Movzx", <<G(e, W3264(e)), E(e, 16)>>)
      BY <1>1 DEF TwoByte
    <1>3. Meaning(e) = Inst("Movzx", <<G(e, W3264(e)), E(e, 16)>>)
      BY <1>2, TwoByteMeaning, PlainTable DEF NoPrefix
    <1>4. \A w : Fits(e, Mem(w, {"sib", "looseX"}), E(e, w))
      BY SafeMem DEF NoPrefix, Full
    <1> QED
      BY <1>1, <1>3, <1>4, SameInst2, Widths, FieldsFit, ErrorFits, ErrorSame DEF MovzxWord, Only

\* 0F BC: BitScanShort makes what the architecture defines, or nothing.
LEMMA BitScanShortForwardRight ==
    ASSUME NEW e \in Encodings, NoPrefix(e), e.op = \h0F, e.op2 = \hBC
    PROVE  Same(e, BitScanShort(e))
    <1>1. W163264(e) = 32
      BY NoRexBits, Widths DEF NoPrefix, Width
    <1>2. TwoByte(e) = Inst("BitScanForward", <<G(e, 32), E(e, 32)>>)
      BY <1>1 DEF TwoByte
    <1>3. Meaning(e) = Inst("BitScanForward", <<G(e, 32), E(e, 32)>>)
      BY <1>2, TwoByteMeaning, PlainTable DEF NoPrefix
    <1> QED
      BY <1>1, <1>3, SameInst2, FieldsFit, ErrorFits, ErrorSame DEF BitScanShort, Only

\* 0F BD: BitScanShort makes what the architecture defines, or nothing.
LEMMA BitScanShortReverseRight ==
    ASSUME NEW e \in Encodings, NoPrefix(e), e.op = \h0F, e.op2 = \hBD
    PROVE  Same(e, BitScanShort(e))
    <1>1. W163264(e) = 32
      BY NoRexBits, Widths DEF NoPrefix, Width
    <1>2. TwoByte(e) = Inst("BitScanReverse", <<G(e, 32), E(e, 32)>>)
      BY <1>1 DEF TwoByte
    <1>3. Meaning(e) = Inst("BitScanReverse", <<G(e, 32), E(e, 32)>>)
      BY <1>2, TwoByteMeaning, PlainTable DEF NoPrefix
    <1> QED
      BY <1>1, <1>3, SameInst2, FieldsFit, ErrorFits, ErrorSame DEF BitScanShort, Only

\* 0F: Bswap makes what the architecture defines, or nothing.
LEMMA BswapRight ==
    ASSUME NEW e \in Encodings, e.pre = {}, e.op = \h0F, e.op2 \in \hC8 .. \hCF
    PROVE  Same(e, Bswap(e))
    <1>1. W163264(e) = W3264(e)
      BY NoRexBits, Widths DEF NoPrefix, Width
    <1>2. TwoByte(e) = Bare("Bswap", <<OpReg(e, e.op2 - \hC8, W3264(e))>>)
      BY <1>1 DEF TwoByte
    <1>3. Meaning(e) = Bare("Bswap", <<OpReg(e, e.op2 - \hC8, W3264(e))>>)
      BY <1>2, TwoByteMeaning, PlainTable DEF NoPrefix
    <1> QED
      BY <1>1, <1>3, SameBare1, OpRegs, Widths DEF Bswap

\* An operand whose bytes are read and dropped.
LEMMA Skipped ==
    ASSUME NEW e, NEW op, NEW a, NEW modrm
    PROVE  /\ Placed(e, a) # Error =>
                 Decoded(e, Made(op, <<a>>, "none", modrm, FALSE)) =
                     [op |-> op, args |-> NoOperands, cc |-> "none",
                      len |-> HeaderLength(e) + modrm + TakenBy(<<Placed(e, a)>>)]
           /\ FormOf(e, a) # Error =>
                 Formed(e, Made(op, <<a>>, "none", modrm, FALSE)) =
                     [op |-> op, args |-> NoOperands, cc |-> "none",
                      len |-> HeaderLength(e) + modrm + TakenBy(<<FormOf(e, a)>>)]
    <1> DEFINE d == Made(op, <<a>>, "none", modrm, FALSE)
    <1>1. d \notin {Error, Pass, Undefined}
      BY MadeIsInstruction
    <1>2. d.op = op /\ d.args = <<a>> /\ d.cc = "none" /\ d.modrm = modrm /\ d.kept = FALSE
      BY DEF Made
    <1> HIDE DEF d
    <1>3. Decoded(e, d) = Complete(e, d, [i \in DOMAIN d.args |-> Placed(e, d.args[i])])
      BY <1>1, Zenon DEF Decoded
    <1>4. Formed(e, d) = Complete(e, d, [i \in DOMAIN d.args |-> FormOf(e, d.args[i])])
      BY <1>1, Zenon DEF Formed, FormOf
    <1>5. /\ [i \in DOMAIN d.args |-> Placed(e, d.args[i])] = <<Placed(e, a)>>
          /\ [i \in DOMAIN d.args |-> FormOf(e, d.args[i])] = <<FormOf(e, a)>>
      BY <1>2
    <1>6. ASSUME NEW p, p # Error
          PROVE  Complete(e, d, <<p>>) = [op |-> op, args |-> NoOperands, cc |-> "none",
                                          len |-> HeaderLength(e) + modrm + TakenBy(<<p>>)]
      BY <1>2, <1>6 DEF Complete
    <1> QED
      BY <1>3, <1>4, <1>5, <1>6 DEF d

\* There is nothing to normalise without operands.
LEMMA NormalOfNone ==
    ASSUME NEW op, NEW cc, NEW len
    PROVE  Normal([op |-> op, args |-> NoOperands, cc |-> cc, len |-> len]) =
               [op |-> op, args |-> NoOperands, cc |-> cc, len |-> len]
    BY DEF Normal

\* A dropped operand has to span the same bytes only.
LEMMA SameSkipped ==
    ASSUME NEW e, NEW op, NEW a, NEW b, Meaning(e) = Discard(Inst(op, <<b>>)),
           FormOf(e, b) # Error, Placed(e, a) # Error,
           Taken(Placed(e, a)) = Taken(FormOf(e, b))
    PROVE  Same(e, Discard(Inst(op, <<a>>)))
    <1>1. \A z : Discard(Inst(op, <<z>>)) = Made(op, <<z>>, "none", 1, FALSE)
      BY DEF Discard, Inst, Made
    <1>2. TakenBy(<<Placed(e, a)>>) = TakenBy(<<FormOf(e, b)>>)
      BY DEF TakenBy, TakenAt
    <1>3. Decoded(e, Discard(Inst(op, <<a>>))) = [op |-> op, args |-> NoOperands, cc |-> "none",
                      len |-> HeaderLength(e) + 1 + TakenBy(<<Placed(e, a)>>)]
      BY <1>1, Skipped
    <1>4. Formed(e, Meaning(e)) = [op |-> op, args |-> NoOperands, cc |-> "none",
                      len |-> HeaderLength(e) + 1 + TakenBy(<<FormOf(e, b)>>)]
      BY <1>1, Skipped
    <1> QED
      BY <1>2, <1>3, <1>4, NormalOfNone DEF Same, Architecture

\* The bytes of an addressing form do not depend on the operand size.
LEMMA SkippedSize ==
    ASSUME NEW e, NEW w, NEW z
    PROVE  Taken(MemoryOperand(e, w)) = Taken(MemoryOperand(e, z)) /\ MemoryOperand(e, w) # Error
           /\ MemoryOperand(e, w).k = "mem"
    BY DEF MemoryOperand, Address, Taken, Error

\* 0F 1F: LongNop makes what the architecture defines, or nothing.
LEMMA LongNopRight ==
    ASSUME NEW e \in Encodings, e.pre \subseteq {"66", "2E"}, e.op = \h0F, e.op2 = \h1F
    PROVE  Same(e, LongNop(e))
    <1> DEFINE w == W163264(e)
               a == IF Direct(e) THEN RmField(e, 32) ELSE MemoryForm(e, 32, Full)
    <1>1. TwoByte(e) = Discard(Inst("Nop", <<E(e, w)>>))
      BY DEF TwoByte
    <1>2. Meaning(e) = Discard(Inst("Nop", <<E(e, w)>>))
      BY <1>1 DEF Meaning
    <1>3. LongNop(e) \in {Error, Discard(Inst("Nop", <<a>>))} /\ (a = Error => LongNop(e) = Error)
      BY DEF LongNop, Only
    <1>4. CASE Direct(e)
      <2>1. a.k = "reg" /\ a # Error
        BY <1>4 DEF RmField, Reg, Error
      <2>2. E(e, w).k = "reg" /\ E(e, w) # Error
        BY <1>4 DEF E, GeneralReg, Reg, HighByte, Error, Direct
      <2>3. Placed(e, a) = a /\ FormOf(e, E(e, w)) = E(e, w)
        BY <2>1, <2>2 DEF Placed, FormOf
      <2>4. Taken(a) = Taken(E(e, w))
        BY <2>1, <2>2 DEF Taken
      <2> HIDE DEF a, w
      <2> QED
        BY <1>2, <1>3, <2>1, <2>2, <2>3, <2>4, SameSkipped, ErrorSame
    <1>5. CASE ~Direct(e)
      <2>1. Trusted(e, Full)
        BY SafePolicy DEF Full
      <2>2. a \in {Error, MemoryOperand(e, 32)}
        BY <1>5, <2>1, MemoryAgrees
      <2>3. FormOf(e, E(e, w)) = MemoryOperand(e, w)
        BY <1>5, MemoryFormed DEF E, Direct
      <2> HIDE DEF a, w
      <2>4. CASE a = Error
        BY <2>4, <1>3, ErrorSame
      <2>5. CASE a = MemoryOperand(e, 32)
        <3>1. Placed(e, a) = a /\ a # Error
          BY <2>5, SkippedSize DEF Placed
        <3>2. Taken(a) = Taken(MemoryOperand(e, w))
          BY <2>5, SkippedSize
        <3>3. Same(e, Discard(Inst("Nop", <<a>>)))
          BY <1>2, <3>1, <3>2, <2>3, SkippedSize, SameSkipped
        <3> QED
          BY <3>3, <1>3, ErrorSame
      <2> QED
        BY <2>2, <2>4, <2>5
    <1> QED
      BY <1>4, <1>5

\* Dropping no operands changes nothing.
LEMMA DiscardNone ==
    ASSUME NEW e, NEW op
    PROVE  Decoded(e, Discard(Inst(op, NoOperands))) = Decoded(e, Inst(op, NoOperands))
    <1> DEFINE d == Discard(Inst(op, NoOperands))
               z == Inst(op, NoOperands)
    <1>1. /\ d \notin {Error, Pass} /\ z \notin {Error, Pass}
      BY MadeIsInstruction DEF Discard, Inst
    <1>2. /\ d.op = z.op /\ d.args = NoOperands /\ z.args = NoOperands /\ d.cc = z.cc /\ d.modrm = z.modrm
          /\ d.kept = FALSE /\ z.kept = TRUE
      BY DEF Discard, Inst, Made
    <1> HIDE DEF d, z
    <1> DEFINE p == [i \in DOMAIN NoOperands |-> Placed(e, NoOperands[i])]
    <1>3. Decoded(e, d) = Complete(e, d, p) /\ Decoded(e, z) = Complete(e, z, p)
      BY <1>1, <1>2, Zenon DEF Decoded
    <1>4. p = NoOperands
      BY DEF NoOperands
    <1> HIDE DEF p
    <1> QED
      BY <1>2, <1>3, <1>4 DEF Complete, d, z

\* 0F AE: Fence makes what the architecture defines, or nothing.
LEMMA FenceRight ==
    ASSUME NEW e \in Encodings, NoPrefix(e), e.op = \h0F, e.op2 = \hAE, Direct(e), e.reg \in {5, 6}
    PROVE  Same(e, Fence(e))
    <1> DEFINE name == IF e.reg = 5 THEN "Lfence" ELSE "Mfence"
    <1>1. TwoByte(e) = Inst(name, NoOperands)
      BY DEF TwoByte
    <1>2. Meaning(e) = Inst(name, NoOperands)
      BY <1>1, TwoByteMeaning, PlainTable DEF NoPrefix
    <1>3. Same(e, Inst(name, NoOperands))
      BY <1>2, Agree0 DEF Inst
    <1> QED
      BY <1>3, DiscardNone DEF Fence, Same

\* 66 01: WordRegReg makes what the architecture defines, or nothing.
LEMMA WordRegRegAddRight ==
    ASSUME NEW e \in Encodings, e.pre = {"66"}, e.op = \h01, ~W(e)
    PROVE  Same(e, WordRegReg(e))
    <1>1. Width(e) = 16
      BY NoRexBits, Widths DEF Width
    <1>2. OneByte(e) = Inst("Add", <<E(e, 16), G(e, 16)>>)
      BY <1>1, Rows DEF OneByte, Arithmetic
    <1>3. Meaning(e) = Inst("Add", <<E(e, 16), G(e, 16)>>)
      BY <1>2, OneByteMeaning DEF Scalar, NoPrefix
    <1> QED
      BY <1>1, <1>3, SameInst2, FieldsFit, ErrorFits, ErrorSame DEF WordRegReg

\* 66 85: WordRegReg makes what the architecture defines, or nothing.
LEMMA WordRegRegTestRight ==
    ASSUME NEW e \in Encodings, e.pre = {"66"}, e.op = \h85, ~W(e)
    PROVE  Same(e, WordRegReg(e))
    <1>1. Width(e) = 16
      BY NoRexBits, Widths DEF Width
    <1>2. OneByte(e) = Inst("Test", <<E(e, 16), G(e, 16)>>)
      BY <1>1 DEF OneByte
    <1>3. Meaning(e) = Inst("Test", <<E(e, 16), G(e, 16)>>)
      BY <1>2, OneByteMeaning DEF Scalar, NoPrefix
    <1> QED
      BY <1>1, <1>3, SameInst2, FieldsFit, ErrorFits, ErrorSame DEF WordRegReg

\* 66 81 /1: WordLogicImm makes what the architecture defines, or nothing.
LEMMA WordLogicImmOrRight ==
    ASSUME NEW e \in Encodings, e.pre = {"66"}, e.op = \h81, e.reg = 1, ~W(e)
    PROVE  Same(e, WordLogicImm(e))
    <1>1. Width(e) = 16
      BY NoRexBits, Widths DEF Width
    <1>2. OneByte(e) = Inst("Or", <<E(e, 16), ImmZ(16)>>)
      BY <1>1, Rows DEF OneByte, ImmediateGroup
    <1>3. Meaning(e) = Inst("Or", <<E(e, 16), ImmZ(16)>>)
      BY <1>2, OneByteMeaning DEF Scalar, NoPrefix
    <1>4. \A w : Fits(e, Mem(w, {"sib"}), E(e, w))
      BY SafeMem DEF NoPrefix
    <1> QED
      BY <1>1, <1>3, <1>4, SameImm2, WordImm, FieldsFit, ErrorFits, ErrorSame DEF WordLogicImm, Only

\* 66 81 /4: WordLogicImm makes what the architecture defines, or nothing.
LEMMA WordLogicImmAndRight ==
    ASSUME NEW e \in Encodings, e.pre = {"66"}, e.op = \h81, e.reg = 4, ~W(e)
    PROVE  Same(e, WordLogicImm(e))
    <1>1. Width(e) = 16
      BY NoRexBits, Widths DEF Width
    <1>2. OneByte(e) = Inst("And", <<E(e, 16), ImmZ(16)>>)
      BY <1>1, Rows DEF OneByte, ImmediateGroup
    <1>3. Meaning(e) = Inst("And", <<E(e, 16), ImmZ(16)>>)
      BY <1>2, OneByteMeaning DEF Scalar, NoPrefix
    <1>4. \A w : Fits(e, Mem(w, {"sib"}), E(e, w))
      BY SafeMem DEF NoPrefix
    <1> QED
      BY <1>1, <1>3, <1>4, SameImm2, WordImm, FieldsFit, ErrorFits, ErrorSame DEF WordLogicImm, Only

\* 66 81 /7: WordLogicImm makes what the architecture defines, or nothing.
LEMMA WordLogicImmCmpRight ==
    ASSUME NEW e \in Encodings, e.pre = {"66"}, e.op = \h81, e.reg = 7, ~W(e)
    PROVE  Same(e, WordLogicImm(e))
    <1>1. Width(e) = 16
      BY NoRexBits, Widths DEF Width
    <1>2. OneByte(e) = Inst("Cmp", <<E(e, 16), ImmZ(16)>>)
      BY <1>1, Rows DEF OneByte, ImmediateGroup
    <1>3. Meaning(e) = Inst("Cmp", <<E(e, 16), ImmZ(16)>>)
      BY <1>2, OneByteMeaning DEF Scalar, NoPrefix
    <1>4. \A w : Fits(e, Mem(w, {"sib"}), E(e, w))
      BY SafeMem DEF NoPrefix
    <1> QED
      BY <1>1, <1>3, <1>4, SameImm2, WordImm, FieldsFit, ErrorFits, ErrorSame DEF WordLogicImm, Only

\* 66 83 /1: WordShortImm makes what the architecture defines, or nothing.
LEMMA WordShortImmOrRight ==
    ASSUME NEW e \in Encodings, e.pre = {"66"}, e.op = \h83, e.reg = 1, ~W(e)
    PROVE  Same(e, WordShortImm(e))
    <1>1. Width(e) = 16
      BY NoRexBits, Widths DEF Width
    <1>2. OneByte(e) = Inst("Or", <<E(e, 16), SImm(1)>>)
      BY <1>1, Rows DEF OneByte, ImmediateGroup
    <1>3. Meaning(e) = Inst("Or", <<E(e, 16), SImm(1)>>)
      BY <1>2, OneByteMeaning DEF Scalar, NoPrefix
    <1>4. \A w : Fits(e, Mem(w, {"sib", "looseX"}), E(e, w))
      BY SafeMem DEF NoPrefix
    <1> QED
      BY <1>1, <1>3, <1>4, SameImm2, SameImm, FieldsFit, ErrorFits, ErrorSame DEF WordShortImm, Only

\* 66 83 /3: WordShortImm makes what the architecture defines, or nothing.
LEMMA WordShortImmSbbRight ==
    ASSUME NEW e \in Encodings, e.pre = {"66"}, e.op = \h83, e.reg = 3, ~W(e)
    PROVE  Same(e, WordShortImm(e))
    <1>1. Width(e) = 16
      BY NoRexBits, Widths DEF Width
    <1>2. OneByte(e) = Inst("Sbb", <<E(e, 16), SImm(1)>>)
      BY <1>1, Rows DEF OneByte, ImmediateGroup
    <1>3. Meaning(e) = Inst("Sbb", <<E(e, 16), SImm(1)>>)
      BY <1>2, OneByteMeaning DEF Scalar, NoPrefix
    <1>4. \A w : Fits(e, Mem(w, {"sib", "looseX"}), E(e, w))
      BY SafeMem DEF NoPrefix
    <1> QED
      BY <1>1, <1>3, <1>4, SameImm2, SameImm, FieldsFit, ErrorFits, ErrorSame DEF WordShortImm, Only

\* 66 83 /4: WordShortImm makes what the architecture defines, or nothing.
LEMMA WordShortImmAndRight ==
    ASSUME NEW e \in Encodings, e.pre = {"66"}, e.op = \h83, e.reg = 4, ~W(e)
    PROVE  Same(e, WordShortImm(e))
    <1>1. Width(e) = 16
      BY NoRexBits, Widths DEF Width
    <1>2. OneByte(e) = Inst("And", <<E(e, 16), SImm(1)>>)
      BY <1>1, Rows DEF OneByte, ImmediateGroup
    <1>3. Meaning(e) = Inst("And", <<E(e, 16), SImm(1)>>)
      BY <1>2, OneByteMeaning DEF Scalar, NoPrefix
    <1>4. \A w : Fits(e, Mem(w, {"sib", "looseX"}), E(e, w))
      BY SafeMem DEF NoPrefix
    <1> QED
      BY <1>1, <1>3, <1>4, SameImm2, SameImm, FieldsFit, ErrorFits, ErrorSame DEF WordShortImm, Only

\* 66 83 /7: WordShortImm makes what the architecture defines, or nothing.
LEMMA WordShortImmCmpRight ==
    ASSUME NEW e \in Encodings, e.pre = {"66"}, e.op = \h83, e.reg = 7, ~W(e)
    PROVE  Same(e, WordShortImm(e))
    <1>1. Width(e) = 16
      BY NoRexBits, Widths DEF Width
    <1>2. OneByte(e) = Inst("Cmp", <<E(e, 16), SImm(1)>>)
      BY <1>1, Rows DEF OneByte, ImmediateGroup
    <1>3. Meaning(e) = Inst("Cmp", <<E(e, 16), SImm(1)>>)
      BY <1>2, OneByteMeaning DEF Scalar, NoPrefix
    <1>4. \A w : Fits(e, Mem(w, {"sib", "looseX"}), E(e, w))
      BY SafeMem DEF NoPrefix
    <1> QED
      BY <1>1, <1>3, <1>4, SameImm2, SameImm, FieldsFit, ErrorFits, ErrorSame DEF WordShortImm, Only

\* 66 FF /0: WordIncDec makes what the architecture defines, or nothing.
LEMMA WordIncDecIncRight ==
    ASSUME NEW e \in Encodings, e.pre = {"66"}, ~e.hasRex, e.op = \hFF, e.reg = 0
    PROVE  Same(e, WordIncDec(e))
    <1>1. Width(e) = 16
      BY NoRexBits, Widths DEF Width
    <1>2. OneByte(e) = Inst("Inc", <<E(e, 16)>>)
      BY <1>1 DEF OneByte, IncDecGroup
    <1>3. Meaning(e) = Inst("Inc", <<E(e, 16)>>)
      BY <1>2, OneByteMeaning DEF Scalar, NoPrefix
    <1>4. \A w : Fits(e, Mem(w, {}), E(e, w))
      BY SafeMem DEF NoPrefix
    <1> QED
      BY <1>1, <1>3, <1>4, SameInst1, FieldsFit, ErrorFits, ErrorSame DEF WordIncDec, Only

\* 66 FF /1: WordIncDec makes what the architecture defines, or nothing.
LEMMA WordIncDecDecRight ==
    ASSUME NEW e \in Encodings, e.pre = {"66"}, ~e.hasRex, e.op = \hFF, e.reg = 1
    PROVE  Same(e, WordIncDec(e))
    <1>1. Width(e) = 16
      BY NoRexBits, Widths DEF Width
    <1>2. OneByte(e) = Inst("Dec", <<E(e, 16)>>)
      BY <1>1 DEF OneByte, IncDecGroup
    <1>3. Meaning(e) = Inst("Dec", <<E(e, 16)>>)
      BY <1>2, OneByteMeaning DEF Scalar, NoPrefix
    <1>4. \A w : Fits(e, Mem(w, {}), E(e, w))
      BY SafeMem DEF NoPrefix
    <1> QED
      BY <1>1, <1>3, <1>4, SameInst1, FieldsFit, ErrorFits, ErrorSame DEF WordIncDec, Only

\* 66 89: WordStore makes what the architecture defines, or nothing.
LEMMA WordStoreRight ==
    ASSUME NEW e \in Encodings, e.pre = {"66"}, e.op = \h89, ~W(e)
    PROVE  Same(e, WordStore(e))
    <1>1. Width(e) = 16
      BY NoRexBits, Widths DEF Width
    <1>2. OneByte(e) = Inst("Mov", <<E(e, 16), G(e, 16)>>)
      BY <1>1 DEF OneByte
    <1>3. Meaning(e) = Inst("Mov", <<E(e, 16), G(e, 16)>>)
      BY <1>2, OneByteMeaning DEF Scalar, NoPrefix
    <1>4. \A w : Fits(e, Mem(w, {"rip", "ripB", "sib"}), E(e, w))
      BY SafeMem DEF NoPrefix
    <1> QED
      BY <1>1, <1>3, <1>4, SameInst2, FieldsFit, ErrorFits, ErrorSame DEF WordStore, Only

\* 66 C7 /0: WordStoreImm makes what the architecture defines, or nothing.
LEMMA WordStoreImmRight ==
    ASSUME NEW e \in Encodings, e.pre = {"66"}, e.op = \hC7, ~W(e), e.reg = 0, ~KnownMisdecode(e)
    PROVE  Same(e, WordStoreImm(e))
    <1>1. Width(e) = 16
      BY NoRexBits, Widths DEF Width
    <1>2. OneByte(e) = Inst("Mov", <<E(e, 16), ImmZ(16)>>)
      BY <1>1 DEF OneByte
    <1>3. Meaning(e) = Inst("Mov", <<E(e, 16), ImmZ(16)>>)
      BY <1>2, OneByteMeaning DEF Scalar, NoPrefix
    <1>4. Trusted(e, {"rip", "ripB", "sib", "r13Sib"})
      BY <1>1 DEF Trusted, KnownMisdecode, TakenForR13, IndexDropped, TwoByteForm, NoPrefix
    <1>5. \A w : Fits(e, Mem(w, {"rip", "ripB", "sib", "r13Sib"}), E(e, w))
      BY <1>4, MemFits
    <1> QED
      BY <1>1, <1>3, <1>5, SameImm2, WordImm, FieldsFit, ErrorFits, ErrorSame DEF WordStoreImm, Only

\* F3 A4: RepMovsb makes what the architecture defines, or nothing.
LEMMA RepMovsbRight ==
    ASSUME NEW e \in Encodings, e.pre = {"F3"}, e.op = \hA4
    PROVE  Same(e, RepMovsb(e))
    <1>1. Strings(e) = RepMovsb(e)
      BY DEF Strings, RepMovsb
    <1>2. Meaning(e) = RepMovsb(e)
      BY <1>1, StringsMeaning
    <1> QED
      BY <1>2, SameBare0 DEF RepMovsb

\* F3 AA: RepStos makes what the architecture defines, or nothing.
LEMMA RepStosByteRight ==
    ASSUME NEW e \in Encodings, e.pre = {"F3"}, e.op = \hAA
    PROVE  Same(e, RepStos(e))
    <1>1. Strings(e) = Bare("RepStosb", NoOperands)
      BY DEF Strings
    <1>2. Meaning(e) = Bare("RepStosb", NoOperands)
      BY <1>1, StringsMeaning
    <1> QED
      BY <1>2, SameBare0, ErrorSame DEF RepStos, Only

\* F3 AB: RepStos makes what the architecture defines, or nothing.
LEMMA RepStosLongRight ==
    ASSUME NEW e \in Encodings, e.pre = {"F3"}, e.op = \hAB
    PROVE  Same(e, RepStos(e))
    <1>1. Strings(e) = Bare(IF W(e) THEN "RepStosq" ELSE "RepStosd", NoOperands)
      BY DEF Strings
    <1>2. Meaning(e) = Bare(IF W(e) THEN "RepStosq" ELSE "RepStosd", NoOperands)
      BY <1>1, StringsMeaning
    <1> QED
      BY <1>2, SameBare0, ErrorSame DEF RepStos, Only

\* Relative32 makes what the architecture defines, or nothing.
LEMMA Relative32Right ==
    ASSUME NEW e \in Encodings, NoPrefix(e), e.op \in {\hE8, \hE9}
    PROVE  Same(e, Relative32(e))
    <1>1. OneByte(e) = Bare(IF e.op = \hE8 THEN "Call" ELSE "Jmp", <<SImm(4)>>)
      BY DEF OneByte
    <1>2. Meaning(e) = Bare(IF e.op = \hE8 THEN "Call" ELSE "Jmp", <<SImm(4)>>)
      BY <1>1, OneByteMeaning DEF Scalar, NoPrefix
    <1> QED
      BY <1>2, SameBare1, ImmFits DEF Relative32

\* EB: Relative8 makes what the architecture defines, or nothing.
LEMMA Relative8JmpRight ==
    ASSUME NEW e \in Encodings, NoPrefix(e), e.op = \hEB
    PROVE  Same(e, Relative8(e))
    <1>1. OneByte(e) = Bare("Jmp", <<SImm(1)>>)
      BY DEF OneByte
    <1>2. Meaning(e) = Bare("Jmp", <<SImm(1)>>)
      BY <1>1, OneByteMeaning DEF Scalar, NoPrefix
    <1> QED
      BY <1>2, SameBare1, ImmFits DEF Relative8

\* Relative8 makes what the architecture defines, or nothing.
LEMMA Relative8JccRight ==
    ASSUME NEW e \in Encodings, e.pre \subseteq {"2E"}, e.op \in \h70 .. \h7F
    PROVE  Same(e, Relative8(e))
    <1>1. e.op % 16 = e.op - \h70
      OBVIOUS
    <1>2. OneByte(e) = Cond(Bare("Jcc", <<SImm(1)>>), Condition(e.op - \h70))
      BY <1>1 DEF OneByte
    <1>3. Meaning(e) = Cond(Bare("Jcc", <<SImm(1)>>), Condition(e.op - \h70))
      BY <1>2, OneByteMeaning DEF Scalar, NoPrefix
    <1> QED
      BY <1>1, <1>3, SameCond1, ImmFits DEF Relative8

\* 0F 01 /1: Sidt makes what the architecture defines, or nothing.
LEMMA SidtRight ==
    ASSUME NEW e \in Encodings, NoPrefix(e), e.op = \h0F, e.op2 = \h01, e.reg = 1
    PROVE  Same(e, Sidt(e))
    <1>1. TwoByte(e) = Inst("Sidt", <<M(e, 80)>>)
      BY DEF TwoByte
    <1>2. Meaning(e) = Inst("Sidt", <<M(e, 80)>>)
      BY <1>1, TwoByteMeaning, PlainTable DEF NoPrefix
    <1>3. \A w : Fits(e, Mem(w, {"plainSib", "scale1"}), M(e, w))
      BY SafeMem DEF NoPrefix
    <1> QED
      BY <1>2, <1>3, SameInst1, FieldsFit, ErrorFits, ErrorSame DEF Sidt, Only

\* 0F A3: BitTestShort makes what the architecture defines, or nothing.
LEMMA BitTestShortRight ==
    ASSUME NEW e \in Encodings, NoPrefix(e), e.op = \h0F, e.op2 = \hA3
    PROVE  Same(e, BitTestShort(e))
    <1>1. W163264(e) = 32
      BY NoRexBits, Widths DEF NoPrefix, Width
    <1>2. TwoByte(e) = Inst("BitTest", <<E(e, 32), G(e, 32)>>)
      BY <1>1 DEF TwoByte
    <1>3. Meaning(e) = Inst("BitTest", <<E(e, 32), G(e, 32)>>)
      BY <1>2, TwoByteMeaning, PlainTable DEF NoPrefix
    <1> QED
      BY <1>1, <1>3, SameInst2, FieldsFit, ErrorFits, ErrorSame DEF BitTestShort, Only

\* 0F BA /4: BitTestImmShort makes what the architecture defines, or nothing.
LEMMA BitTestImmShortRight ==
    ASSUME NEW e \in Encodings, NoPrefix(e), e.op = \h0F, e.op2 = \hBA, e.reg = 4
    PROVE  Same(e, BitTestImmShort(e))
    <1>1. W163264(e) = 32
      BY NoRexBits, Widths DEF NoPrefix, Width
    <1>2. TwoByte(e) = Inst("BitTest", <<E(e, 32), Count>>)
      BY <1>1 DEF TwoByte, BitGroup
    <1>3. Meaning(e) = Inst("BitTest", <<E(e, 32), Count>>)
      BY <1>2, TwoByteMeaning, PlainTable DEF NoPrefix
    <1>4. \A w : Fits(e, Mem(w, {}), E(e, w))
      BY SafeMem DEF NoPrefix
    <1> QED
      BY <1>1, <1>3, <1>4, SameImm2, SameImm, FieldsFit, ErrorFits, ErrorSame DEF BitTestImmShort, Only, Count

\* 0F: CmovShort makes what the architecture defines, or nothing.
LEMMA CmovShortRight ==
    ASSUME NEW e \in Encodings, NoPrefix(e), e.op = \h0F, e.op2 \in CmovOps
    PROVE  Same(e, CmovShort(e))
    <1>1. W163264(e) = 32 /\ e.op2 \in \h40 .. \h4F /\ e.op2 % 16 = e.op2 - \h40
      BY NoRexBits, Widths DEF NoPrefix, CmovOps, ByteConditions
    <1>2. TwoByte(e) = Cond(Inst("Cmov", <<G(e, 32), E(e, 32)>>), Condition(e.op2 - \h40))
      BY <1>1 DEF TwoByte
    <1>3. Meaning(e) = Cond(Inst("Cmov", <<G(e, 32), E(e, 32)>>), Condition(e.op2 - \h40))
      BY <1>2, <1>1, TwoByteMeaning, PlainTable DEF NoPrefix
    <1>4. \A w : Fits(e, Mem(w, {"rip", "sib", "noBase"}), E(e, w))
      BY SafeMem DEF NoPrefix
    <1> QED
      BY <1>1, <1>3, <1>4, SameCond2, FieldsFit, ErrorFits, ErrorSame DEF CmovShort

\* 0F AF: ImulShort makes what the architecture defines, or nothing.
LEMMA ImulShortRight ==
    ASSUME NEW e \in Encodings, NoPrefix(e), e.op = \h0F, e.op2 = \hAF
    PROVE  Same(e, ImulShort(e))
    <1>1. W163264(e) = 32
      BY NoRexBits, Widths DEF NoPrefix, Width
    <1>2. TwoByte(e) = Inst("Imul", <<G(e, 32), E(e, 32)>>)
      BY <1>1 DEF TwoByte
    <1>3. Meaning(e) = Inst("Imul", <<G(e, 32), E(e, 32)>>)
      BY <1>2, TwoByteMeaning, PlainTable DEF NoPrefix
    <1>4. \A w : Fits(e, Mem(w, {"rip", "sib"}), E(e, w))
      BY SafeMem DEF NoPrefix
    <1> QED
      BY <1>1, <1>3, <1>4, SameInst2, FieldsFit, ErrorFits, ErrorSame DEF ImulShort

\* 0F: JccRelative32 makes what the architecture defines, or nothing.
LEMMA JccRelative32Right ==
    ASSUME NEW e \in Encodings, NoPrefix(e), e.op = \h0F, e.op2 \in \h80 .. \h8F
    PROVE  Same(e, JccRelative32(e))
    <1>1. e.op2 % 16 = e.op2 - \h80
      OBVIOUS
    <1>2. TwoByte(e) = Cond(Bare("Jcc", <<SImm(4)>>), Condition(e.op2 - \h80))
      BY <1>1 DEF TwoByte
    <1>3. Meaning(e) = Cond(Bare("Jcc", <<SImm(4)>>), Condition(e.op2 - \h80))
      BY <1>2, TwoByteMeaning, PlainTable DEF NoPrefix
    <1> QED
      BY <1>1, <1>3, SameCond1, ImmFits DEF JccRelative32

\* 66: MovWordImm makes what the architecture defines, or nothing.
LEMMA MovWordImmRight ==
    ASSUME NEW e \in Encodings, e.pre = {"66"}, ~W(e), e.op \in \hB8 .. \hBF
    PROVE  Same(e, MovWordImm(e))
    <1>1. W163264(e) = 16
      BY NoRexBits, Widths DEF NoPrefix, Width
    <1>2. OneByte(e) = Bare("Mov", <<OpReg(e, e.op - \hB8, 16), SImm(2)>>)
      BY <1>1 DEF OneByte
    <1>3. Meaning(e) = Bare("Mov", <<OpReg(e, e.op - \hB8, 16), SImm(2)>>)
      BY <1>2, OneByteMeaning DEF Scalar, NoPrefix
    <1> QED
      BY <1>1, <1>3, SameBare2, WordImm, OpRegs DEF MovWordImm

\* The names of the locked instructions.
LEMMA LockedNames ==
    ASSUME NEW args
    PROVE  /\ Locked(Inst("Add", args)) = Inst("LockAdd", args)
           /\ Locked(Inst("Or", args)) = Inst("LockOr", args)
           /\ Locked(Inst("And", args)) = Inst("LockAnd", args)
           /\ Locked(Inst("Inc", args)) = Inst("LockInc", args)
           /\ Locked(Inst("Dec", args)) = Inst("LockDec", args)
           /\ Locked(Inst("Xadd", args)) = Inst("LockXadd", args)
           /\ Locked(Inst("BitSet", args)) = Inst("LockBts", args)
           /\ Locked(Inst("Cmpxchg", args)) = Inst("Cmpxchg", args)
           /\ Locked(Inst("Cmpxchg16b", args)) = Inst("Cmpxchg16b", args)
    <1> DEFINE plain == <<"Add", "Or", "And", "Inc", "Dec", "Xadd", "BitSet">>
               atomic == <<"LockAdd", "LockOr", "LockAnd", "LockInc", "LockDec", "LockXadd", "LockBts">>
    <1>1. ASSUME NEW n \in 1 .. 7 PROVE (CHOOSE i \in DOMAIN plain : plain[i] = plain[n]) = n
      <2>1. \A i \in DOMAIN plain : plain[i] = plain[n] => i = n
        OBVIOUS
      <2>2. n \in DOMAIN plain
        OBVIOUS
      <2> HIDE DEF plain
      <2> QED
        BY <2>1, <2>2
    <1>2. ASSUME NEW n \in 1 .. 7
          PROVE  Locked(Inst(plain[n], args)) = Inst(atomic[n], args)
      <2> DEFINE d == Inst(plain[n], args)
      <2>1. d \notin {Error, Undefined}
        BY MadeIsInstruction DEF Inst
      <2>2. d.op = plain[n] /\ d.args = args /\ d.cc = "none" /\ d.modrm = 1 /\ d.kept = TRUE
        BY DEF Inst, Made
      <2>3. plain[n] \notin {"Cmpxchg", "Cmpxchg16b"} /\ n \in DOMAIN plain
        OBVIOUS
      <2> HIDE DEF d
      <2>4. Locked(d) = Made(atomic[CHOOSE i \in DOMAIN plain : plain[i] = d.op], d.args, d.cc, d.modrm, d.kept)
        BY <2>1, <2>2, <2>3, Zenon DEF Locked
      <2> HIDE DEF plain, atomic
      <2>5. (CHOOSE i \in DOMAIN plain : plain[i] = plain[n]) = n
        BY <1>1
      <2>6. Locked(d) = Made(atomic[n], args, "none", 1, TRUE)
        BY <2>2, <2>4, <2>5, Zenon
      <2> QED
        BY <2>6, Zenon DEF d, Inst
    <1>3. ASSUME NEW name \in {"Cmpxchg", "Cmpxchg16b"} PROVE Locked(Inst(name, args)) = Inst(name, args)
      BY <1>3 DEF Locked, Inst, Made
    <1> QED
      BY <1>2, <1>3

\* 81 /1: LockWordImm makes what the architecture defines, or nothing.
LEMMA LockWordImmOrWordRight ==
    ASSUME NEW e \in Encodings, e.pre = {"66", "F0"}, e.op = \h81, e.reg = 1, ~W(e)
    PROVE  Same(e, LockWordImm(e))
    <1>1. Width(e) = 16
      BY NoRexBits, Widths DEF Width
    <1>2. OneByte(e) = Inst("Or", <<E(e, 16), ImmZ(16)>>)
      BY <1>1, Rows DEF OneByte, ImmediateGroup
    <1>3. Meaning(e) = Inst("LockOr", <<E(e, 16), ImmZ(16)>>)
      BY <1>2, LockedMeaning, LockedNames
    <1>4. \A w : Fits(e, Mem(w, {"plainSib", "looseX"}), E(e, w))
      BY SafeMem
    <1> QED
      BY <1>1, <1>3, <1>4, SameImm2, WordImm, FieldsFit, ErrorFits, ErrorSame DEF LockWordImm, Only, LockName

\* 83 /1: LockWordImm makes what the architecture defines, or nothing.
LEMMA LockWordImmOrShortRight ==
    ASSUME NEW e \in Encodings, e.pre = {"66", "F0"}, e.op = \h83, e.reg = 1, ~W(e)
    PROVE  Same(e, LockWordImm(e))
    <1>1. Width(e) = 16
      BY NoRexBits, Widths DEF Width
    <1>2. OneByte(e) = Inst("Or", <<E(e, 16), SImm(1)>>)
      BY <1>1, Rows DEF OneByte, ImmediateGroup
    <1>3. Meaning(e) = Inst("LockOr", <<E(e, 16), SImm(1)>>)
      BY <1>2, LockedMeaning, LockedNames
    <1>4. \A w : Fits(e, Mem(w, {"plainSib", "looseX"}), E(e, w))
      BY SafeMem
    <1> QED
      BY <1>1, <1>3, <1>4, SameImm2, SameImm, FieldsFit, ErrorFits, ErrorSame DEF LockWordImm, Only, LockName

\* F0 80 /1: LockImm makes what the architecture defines, or nothing.
LEMMA LockImmOrByteRight ==
    ASSUME NEW e \in Encodings, e.pre = {"F0"}, e.op = \h80, e.reg = 1
    PROVE  Same(e, LockImm(e))
    <1>1. Width(e) = 8
      BY NoRexBits, Widths DEF Width
    <1>2. OneByte(e) = Inst("Or", <<E(e, 8), SImm(1)>>)
      BY <1>1, Rows DEF OneByte, ImmediateGroup
    <1>3. Meaning(e) = Inst("LockOr", <<E(e, 8), SImm(1)>>)
      BY <1>2, LockedMeaning, LockedNames
    <1>4. \A w : Fits(e, Mem(w, {"rip", "plainSib"}), E(e, w))
      BY SafeMem
    <1> QED
      BY <1>1, <1>3, <1>4, SameImm2, SameImm, FieldsFit, ErrorFits, ErrorSame DEF LockImm, Only, LockName

\* F0 81 /1: LockImm makes what the architecture defines, or nothing.
LEMMA LockImmOrLongRight ==
    ASSUME NEW e \in Encodings, e.pre = {"F0"}, e.op = \h81, e.reg = 1, ~KnownMisdecode(e)
    PROVE  Same(e, LockImm(e))
    <1>1. Width(e) = 32 /\ W3264(e) = 32
      BY NoRexBits, Widths DEF Width, KnownMisdecode, TwoByteForm
    <1>2. OneByte(e) = Inst("Or", <<E(e, 32), ImmZ(32)>>)
      BY <1>1, Rows DEF OneByte, ImmediateGroup
    <1>3. Meaning(e) = Inst("LockOr", <<E(e, 32), ImmZ(32)>>)
      BY <1>2, LockedMeaning, LockedNames
    <1>4. \A w : Fits(e, Mem(w, {"rip", "plainSib"}), E(e, w))
      BY SafeMem
    <1> QED
      BY <1>1, <1>3, <1>4, SameImm2, LongImm, FieldsFit, ErrorFits, ErrorSame DEF LockImm, Only, LockName

\* F0 83 /1: LockImm makes what the architecture defines, or nothing.
LEMMA LockImmOrShortRight ==
    ASSUME NEW e \in Encodings, e.pre = {"F0"}, e.op = \h83, e.reg = 1
    PROVE  Same(e, LockImm(e))
    <1>1. Width(e) = W3264(e)
      BY NoRexBits, Widths DEF Width
    <1>2. OneByte(e) = Inst("Or", <<E(e, W3264(e)), SImm(1)>>)
      BY <1>1, Rows DEF OneByte, ImmediateGroup
    <1>3. Meaning(e) = Inst("LockOr", <<E(e, W3264(e)), SImm(1)>>)
      BY <1>2, LockedMeaning, LockedNames
    <1>4. \A w : Fits(e, Mem(w, {"rip", "plainSib"}), E(e, w))
      BY SafeMem
    <1> QED
      BY <1>1, <1>3, <1>4, SameImm2, SameImm, FieldsFit, ErrorFits, ErrorSame DEF LockImm, Only, LockName

\* 81 /4: LockWordImm makes what the architecture defines, or nothing.
LEMMA LockWordImmAndWordRight ==
    ASSUME NEW e \in Encodings, e.pre = {"66", "F0"}, e.op = \h81, e.reg = 4, ~W(e)
    PROVE  Same(e, LockWordImm(e))
    <1>1. Width(e) = 16
      BY NoRexBits, Widths DEF Width
    <1>2. OneByte(e) = Inst("And", <<E(e, 16), ImmZ(16)>>)
      BY <1>1, Rows DEF OneByte, ImmediateGroup
    <1>3. Meaning(e) = Inst("LockAnd", <<E(e, 16), ImmZ(16)>>)
      BY <1>2, LockedMeaning, LockedNames
    <1>4. \A w : Fits(e, Mem(w, {"plainSib", "looseX"}), E(e, w))
      BY SafeMem
    <1> QED
      BY <1>1, <1>3, <1>4, SameImm2, WordImm, FieldsFit, ErrorFits, ErrorSame DEF LockWordImm, Only, LockName

\* 83 /4: LockWordImm makes what the architecture defines, or nothing.
LEMMA LockWordImmAndShortRight ==
    ASSUME NEW e \in Encodings, e.pre = {"66", "F0"}, e.op = \h83, e.reg = 4, ~W(e)
    PROVE  Same(e, LockWordImm(e))
    <1>1. Width(e) = 16
      BY NoRexBits, Widths DEF Width
    <1>2. OneByte(e) = Inst("And", <<E(e, 16), SImm(1)>>)
      BY <1>1, Rows DEF OneByte, ImmediateGroup
    <1>3. Meaning(e) = Inst("LockAnd", <<E(e, 16), SImm(1)>>)
      BY <1>2, LockedMeaning, LockedNames
    <1>4. \A w : Fits(e, Mem(w, {"plainSib", "looseX"}), E(e, w))
      BY SafeMem
    <1> QED
      BY <1>1, <1>3, <1>4, SameImm2, SameImm, FieldsFit, ErrorFits, ErrorSame DEF LockWordImm, Only, LockName

\* F0 80 /4: LockImm makes what the architecture defines, or nothing.
LEMMA LockImmAndByteRight ==
    ASSUME NEW e \in Encodings, e.pre = {"F0"}, e.op = \h80, e.reg = 4
    PROVE  Same(e, LockImm(e))
    <1>1. Width(e) = 8
      BY NoRexBits, Widths DEF Width
    <1>2. OneByte(e) = Inst("And", <<E(e, 8), SImm(1)>>)
      BY <1>1, Rows DEF OneByte, ImmediateGroup
    <1>3. Meaning(e) = Inst("LockAnd", <<E(e, 8), SImm(1)>>)
      BY <1>2, LockedMeaning, LockedNames
    <1>4. \A w : Fits(e, Mem(w, {"rip", "plainSib"}), E(e, w))
      BY SafeMem
    <1> QED
      BY <1>1, <1>3, <1>4, SameImm2, SameImm, FieldsFit, ErrorFits, ErrorSame DEF LockImm, Only, LockName

\* F0 81 /4: LockImm makes what the architecture defines, or nothing.
LEMMA LockImmAndLongRight ==
    ASSUME NEW e \in Encodings, e.pre = {"F0"}, e.op = \h81, e.reg = 4, ~KnownMisdecode(e)
    PROVE  Same(e, LockImm(e))
    <1>1. Width(e) = 32 /\ W3264(e) = 32
      BY NoRexBits, Widths DEF Width, KnownMisdecode, TwoByteForm
    <1>2. OneByte(e) = Inst("And", <<E(e, 32), ImmZ(32)>>)
      BY <1>1, Rows DEF OneByte, ImmediateGroup
    <1>3. Meaning(e) = Inst("LockAnd", <<E(e, 32), ImmZ(32)>>)
      BY <1>2, LockedMeaning, LockedNames
    <1>4. \A w : Fits(e, Mem(w, {"rip", "plainSib"}), E(e, w))
      BY SafeMem
    <1> QED
      BY <1>1, <1>3, <1>4, SameImm2, LongImm, FieldsFit, ErrorFits, ErrorSame DEF LockImm, Only, LockName

\* F0 83 /4: LockImm makes what the architecture defines, or nothing.
LEMMA LockImmAndShortRight ==
    ASSUME NEW e \in Encodings, e.pre = {"F0"}, e.op = \h83, e.reg = 4
    PROVE  Same(e, LockImm(e))
    <1>1. Width(e) = W3264(e)
      BY NoRexBits, Widths DEF Width
    <1>2. OneByte(e) = Inst("And", <<E(e, W3264(e)), SImm(1)>>)
      BY <1>1, Rows DEF OneByte, ImmediateGroup
    <1>3. Meaning(e) = Inst("LockAnd", <<E(e, W3264(e)), SImm(1)>>)
      BY <1>2, LockedMeaning, LockedNames
    <1>4. \A w : Fits(e, Mem(w, {"rip", "plainSib"}), E(e, w))
      BY SafeMem
    <1> QED
      BY <1>1, <1>3, <1>4, SameImm2, SameImm, FieldsFit, ErrorFits, ErrorSame DEF LockImm, Only, LockName

\* 0F C1: LockXadd makes what the architecture defines, or nothing.
LEMMA LockXaddRight ==
    ASSUME NEW e \in Encodings, e.pre \in {{"F0"}, {"66", "F0"}}, e.op = \h0F, e.op2 = \hC1, ~KnownMisdecode(e)
    PROVE  Same(e, LockXadd(e))
    <1>1. W163264(e) = IF "66" \in e.pre THEN 16 ELSE W3264(e)
      BY NoRexBits, Widths DEF Width, KnownMisdecode, TwoByteForm
    <1>2. TwoByte(e) = Inst("Xadd", <<E(e, W163264(e)), G(e, W163264(e))>>)
      BY <1>1, Rows DEF TwoByte
    <1>3. Meaning(e) = Inst("LockXadd", <<E(e, W163264(e)), G(e, W163264(e))>>)
      BY <1>2, LockedMeaning, LockedNames
    <1>4. Trusted(e, {"rip", "sib", "noR12"})
      BY DEF Trusted, KnownMisdecode, TakenForR13, IndexDropped, TwoByteForm
    <1>5. \A w : Fits(e, Mem(w, {"rip", "sib", "noR12"}), E(e, w))
      BY <1>4, MemFits
    <1> QED
      BY <1>1, <1>3, <1>5, SameInst2, Widths, FieldsFit, ErrorFits, ErrorSame DEF LockXadd

\* F0 01: LockAddQword makes what the architecture defines, or nothing.
LEMMA LockAddQwordRight ==
    ASSUME NEW e \in Encodings, e.pre = {"F0"}, W(e), e.op = \h01
    PROVE  Same(e, LockAddQword(e))
    <1>1. Width(e) = 64
      BY NoRexBits, Widths DEF Width
    <1>2. OneByte(e) = Inst("Add", <<E(e, 64), G(e, 64)>>)
      BY <1>1, Rows DEF OneByte, Arithmetic
    <1>3. Meaning(e) = Inst("LockAdd", <<E(e, 64), G(e, 64)>>)
      BY <1>2, LockedMeaning, LockedNames
    <1>4. \A w : Fits(e, Mem(w, {"rip", "ripB", "looseX"}), E(e, w))
      BY SafeMem
    <1> QED
      BY <1>1, <1>3, <1>4, SameInst2, FieldsFit, ErrorFits, ErrorSame DEF LockAddQword

\* F0 FF /0: LockIncDecShort makes what the architecture defines, or nothing.
LEMMA LockIncDecShortIncRight ==
    ASSUME NEW e \in Encodings, e.pre = {"F0"}, ~e.hasRex, e.op = \hFF, e.reg = 0
    PROVE  Same(e, LockIncDecShort(e))
    <1>1. Width(e) = 32
      BY NoRexBits, Widths DEF Width
    <1>2. OneByte(e) = Inst("Inc", <<E(e, 32)>>)
      BY <1>1, Rows DEF OneByte, IncDecGroup
    <1>3. Meaning(e) = Inst("LockInc", <<E(e, 32)>>)
      BY <1>2, LockedMeaning, LockedNames
    <1>4. \A w : Fits(e, Mem(w, {"rip"}), E(e, w))
      BY SafeMem
    <1> QED
      BY <1>1, <1>3, <1>4, SameInst1, FieldsFit, ErrorFits, ErrorSame DEF LockIncDecShort, Only

\* F0 FF /0: LockIncDec makes what the architecture defines, or nothing.
LEMMA LockIncDecIncRight ==
    ASSUME NEW e \in Encodings, e.pre = {"F0"}, e.op = \hFF, e.reg = 0
    PROVE  Same(e, LockIncDec(e))
    <1>1. Width(e) = W3264(e)
      BY NoRexBits, Widths DEF Width
    <1>2. OneByte(e) = Inst("Inc", <<E(e, W3264(e))>>)
      BY <1>1, Rows DEF OneByte, IncDecGroup
    <1>3. Meaning(e) = Inst("LockInc", <<E(e, W3264(e))>>)
      BY <1>2, LockedMeaning, LockedNames
    <1>4. \A w : Fits(e, Mem(w, {"rip", "plainSib"}), E(e, w))
      BY SafeMem
    <1> QED
      BY <1>1, <1>3, <1>4, SameInst1, FieldsFit, ErrorFits, ErrorSame DEF LockIncDec, Only

\* F0 FF /1: LockIncDecShort makes what the architecture defines, or nothing.
LEMMA LockIncDecShortDecRight ==
    ASSUME NEW e \in Encodings, e.pre = {"F0"}, ~e.hasRex, e.op = \hFF, e.reg = 1
    PROVE  Same(e, LockIncDecShort(e))
    <1>1. Width(e) = 32
      BY NoRexBits, Widths DEF Width
    <1>2. OneByte(e) = Inst("Dec", <<E(e, 32)>>)
      BY <1>1, Rows DEF OneByte, IncDecGroup
    <1>3. Meaning(e) = Inst("LockDec", <<E(e, 32)>>)
      BY <1>2, LockedMeaning, LockedNames
    <1>4. \A w : Fits(e, Mem(w, {"rip"}), E(e, w))
      BY SafeMem
    <1> QED
      BY <1>1, <1>3, <1>4, SameInst1, FieldsFit, ErrorFits, ErrorSame DEF LockIncDecShort, Only

\* F0 FF /1: LockIncDec makes what the architecture defines, or nothing.
LEMMA LockIncDecDecRight ==
    ASSUME NEW e \in Encodings, e.pre = {"F0"}, e.op = \hFF, e.reg = 1
    PROVE  Same(e, LockIncDec(e))
    <1>1. Width(e) = W3264(e)
      BY NoRexBits, Widths DEF Width
    <1>2. OneByte(e) = Inst("Dec", <<E(e, W3264(e))>>)
      BY <1>1, Rows DEF OneByte, IncDecGroup
    <1>3. Meaning(e) = Inst("LockDec", <<E(e, W3264(e))>>)
      BY <1>2, LockedMeaning, LockedNames
    <1>4. \A w : Fits(e, Mem(w, {"rip", "plainSib"}), E(e, w))
      BY SafeMem
    <1> QED
      BY <1>1, <1>3, <1>4, SameInst1, FieldsFit, ErrorFits, ErrorSame DEF LockIncDec, Only

\* F0 0F C7 /1: LockCmpxchg16b makes what the architecture defines, or nothing.
LEMMA LockCmpxchg16bRight ==
    ASSUME NEW e \in Encodings, e.pre = {"F0"}, W(e), e.op = \h0F, e.op2 = \hC7, e.reg = 1
    PROVE  Same(e, LockCmpxchg16b(e))
    <1>1. W163264(e) = 64
      BY NoRexBits, Widths DEF Width
    <1>2. TwoByte(e) = Inst("Cmpxchg16b", <<M(e, 128)>>)
      BY <1>1, Rows DEF TwoByte
    <1>3. Meaning(e) = Inst("Cmpxchg16b", <<M(e, 128)>>)
      BY <1>2, LockedMeaning, LockedNames
    <1>4. \A w : Fits(e, Mem(w, {"rip", "looseX"}), M(e, w))
      BY SafeMem
    <1> QED
      BY <1>1, <1>3, <1>4, SameInst1, FieldsFit, ErrorFits, ErrorSame DEF LockCmpxchg16b, Only

\* F0 01: LockAddOr makes what the architecture defines, or nothing.
LEMMA LockAddOrAddRight ==
    ASSUME NEW e \in Encodings, e.pre = {"F0"}, e.op = \h01
    PROVE  Same(e, LockAddOr(e))
    <1>1. Width(e) = W3264(e)
      BY NoRexBits, Widths DEF Width
    <1>2. OneByte(e) = Inst("Add", <<E(e, W3264(e)), G(e, W3264(e))>>)
      BY <1>1, Rows DEF OneByte, Arithmetic
    <1>3. Meaning(e) = Inst("LockAdd", <<E(e, W3264(e)), G(e, W3264(e))>>)
      BY <1>2, LockedMeaning, LockedNames
    <1>4. \A w : Fits(e, Mem(w, {"rip"}), E(e, w))
      BY SafeMem
    <1> QED
      BY <1>1, <1>3, <1>4, SameInst2, Widths, FieldsFit, ErrorFits, ErrorSame DEF LockAddOr, Only

\* F0 09: LockAddOr makes what the architecture defines, or nothing.
LEMMA LockAddOrOrRight ==
    ASSUME NEW e \in Encodings, e.pre = {"F0"}, e.op = \h09
    PROVE  Same(e, LockAddOr(e))
    <1>1. Width(e) = W3264(e)
      BY NoRexBits, Widths DEF Width
    <1>2. OneByte(e) = Inst("Or", <<E(e, W3264(e)), G(e, W3264(e))>>)
      BY <1>1, Rows DEF OneByte, Arithmetic
    <1>3. Meaning(e) = Inst("LockOr", <<E(e, W3264(e)), G(e, W3264(e))>>)
      BY <1>2, LockedMeaning, LockedNames
    <1>4. \A w : Fits(e, Mem(w, {"rip"}), E(e, w))
      BY SafeMem
    <1> QED
      BY <1>1, <1>3, <1>4, SameInst2, Widths, FieldsFit, ErrorFits, ErrorSame DEF LockAddOr, Only

\* F0 0F BA /5: LockBts makes what the architecture defines, or nothing.
LEMMA LockBtsRight ==
    ASSUME NEW e \in Encodings, e.pre = {"F0"}, e.op = \h0F, e.op2 = \hBA, e.reg = 5
    PROVE  Same(e, LockBts(e))
    <1>1. W163264(e) = W3264(e)
      BY NoRexBits, Widths DEF Width
    <1>2. TwoByte(e) = Inst("BitSet", <<E(e, W3264(e)), Count>>)
      BY <1>1, Rows DEF TwoByte, BitGroup
    <1>3. Meaning(e) = Inst("LockBts", <<E(e, W3264(e)), Count>>)
      BY <1>2, LockedMeaning, LockedNames
    <1>4. \A w : Fits(e, Mem(w, {"rip", "sib"}), E(e, w))
      BY SafeMem
    <1> QED
      BY <1>1, <1>3, <1>4, SameImm2, SameImm, FieldsFit, ErrorFits, ErrorSame DEF LockBts, Only, Count

\* F0 0F B0: Cmpxchg makes what the architecture defines, or nothing.
LEMMA CmpxchgByteRight ==
    ASSUME NEW e \in Encodings, e.pre = {"F0"}, e.op = \h0F, e.op2 = \hB0, ~KnownMisdecode(e)
    PROVE  Same(e, Cmpxchg(e))
    <1>1. W163264(e) = W3264(e)
      BY NoRexBits, Widths DEF Width, KnownMisdecode, TwoByteForm
    <1>2. TwoByte(e) = Inst("Cmpxchg", <<E(e, 8), G(e, 8)>>)
      BY <1>1, Rows DEF TwoByte
    <1>3. Meaning(e) = Inst("Cmpxchg", <<E(e, 8), G(e, 8)>>)
      BY <1>2, LockedMeaning, LockedNames
    <1>4. Trusted(e, {"rip", "sib", "noBase", "r13Sib"})
      BY DEF Trusted, KnownMisdecode, TakenForR13, IndexDropped, TwoByteForm
    <1>5. \A w : Fits(e, Mem(w, {"rip", "sib", "noBase", "r13Sib"}), E(e, w))
      BY <1>4, MemFits
    <1> QED
      BY <1>1, <1>3, <1>5, SameInst2, FieldsFit, ErrorFits, ErrorSame DEF Cmpxchg, Only

\* F0 0F B1: Cmpxchg makes what the architecture defines, or nothing.
LEMMA CmpxchgLongRight ==
    ASSUME NEW e \in Encodings, e.pre = {"F0"}, e.op = \h0F, e.op2 = \hB1, ~KnownMisdecode(e)
    PROVE  Same(e, Cmpxchg(e))
    <1>1. W163264(e) = W3264(e)
      BY NoRexBits, Widths DEF Width, KnownMisdecode, TwoByteForm
    <1>2. TwoByte(e) = Inst("Cmpxchg", <<E(e, W3264(e)), G(e, W3264(e))>>)
      BY <1>1, Rows DEF TwoByte
    <1>3. Meaning(e) = Inst("Cmpxchg", <<E(e, W3264(e)), G(e, W3264(e))>>)
      BY <1>2, LockedMeaning, LockedNames
    <1>4. Trusted(e, {"rip", "sib", "noBase", "r13Sib"})
      BY DEF Trusted, KnownMisdecode, TakenForR13, IndexDropped, TwoByteForm
    <1>5. \A w : Fits(e, Mem(w, {"rip", "sib", "noBase", "r13Sib"}), E(e, w))
      BY <1>4, MemFits
    <1> QED
      BY <1>1, <1>3, <1>5, SameInst2, Widths, FieldsFit, ErrorFits, ErrorSame DEF Cmpxchg, Only

\* decodeScalarSpecial makes what the architecture defines, or nothing.
LEMMA ScalarSpecialRight ==
    ASSUME NEW e \in Encodings, ~KnownMisdecode(e)
    PROVE  Same(e, decodeScalarSpecial(e))
    <1>1. CASE NoPrefix(e) /\ e.op \in {\h6A, \h68}
      <2>1. decodeScalarSpecial(e) = PushImm(e)
        BY <1>1 DEF decodeScalarSpecial, NoPrefix, Escaped, ByteConditions
      <2>2. CASE e.op = \h6A
        BY <1>1, <2>1, <2>2, PushImmByteRight DEF NoPrefix, Escaped, ByteConditions
      <2>3. CASE e.op = \h68
        BY <1>1, <2>1, <2>3, PushImmLongRight DEF NoPrefix, Escaped, ByteConditions
      <2> QED
        BY <1>1, <2>2, <2>3
    <1>2. CASE NoPrefix(e) /\ e.op \in {\hA8, \hA9}
      <2>1. decodeScalarSpecial(e) = TestAcc(e)
        BY <1>2 DEF decodeScalarSpecial, NoPrefix, Escaped, ByteConditions
      <2>2. CASE e.op = \hA8
        BY <1>2, <2>1, <2>2, TestAccByteRight DEF NoPrefix, Escaped, ByteConditions
      <2>3. CASE e.op = \hA9
        BY <1>2, <2>1, <2>3, TestAccLongRight DEF NoPrefix, Escaped, ByteConditions
      <2> QED
        BY <1>2, <2>2, <2>3
    <1>3. CASE e.pre = {"66"} /\ ~e.hasRex /\ e.op = \hC1
      <2>1. decodeScalarSpecial(e) = RolWord(e)
        BY <1>3 DEF decodeScalarSpecial, NoPrefix, Escaped, ByteConditions
      <2> QED
        BY <1>3, <2>1, RolWordRight DEF NoPrefix, Escaped, ByteConditions
    <1>4. CASE e.pre \subseteq {"65"} /\ e.op = \hF6
      <2>1. decodeScalarSpecial(e) = GroupF6(e)
        BY <1>4 DEF decodeScalarSpecial, NoPrefix, Escaped, ByteConditions
      <2>2. CASE e.reg = 0
        BY <1>4, <2>1, <2>2, GroupF6TestRight DEF NoPrefix, Escaped, ByteConditions
      <2>3. CASE e.reg = 2
        BY <1>4, <2>1, <2>3, GroupF6NotRight DEF NoPrefix, Escaped, ByteConditions
      <2>4. CASE e.reg = 3
        BY <1>4, <2>1, <2>4, GroupF6NegRight DEF NoPrefix, Escaped, ByteConditions
      <2>5. CASE e.reg = 6
        BY <1>4, <2>1, <2>5, GroupF6DivRight DEF NoPrefix, Escaped, ByteConditions
      <2>6. CASE e.reg \notin {0, 2, 3, 6}
        BY <1>4, <2>1, <2>6, ErrorSame DEF GroupF6
      <2> QED
        BY <1>4, <2>2, <2>3, <2>4, <2>5, <2>6
    <1>5. CASE NoPrefix(e) /\ e.op \in {\h04, \h3C, \h3D}
      <2>1. decodeScalarSpecial(e) = AccShort(e)
        BY <1>5 DEF decodeScalarSpecial, NoPrefix, Escaped, ByteConditions
      <2>2. CASE e.op = \h04
        BY <1>5, <2>1, <2>2, AccShortAddRight DEF NoPrefix, Escaped, ByteConditions
      <2>3. CASE e.op = \h3C
        BY <1>5, <2>1, <2>3, AccShortCmpRight DEF NoPrefix, Escaped, ByteConditions
      <2>4. CASE e.op = \h3D
        BY <1>5, <2>1, <2>4, AccShortCmpLongRight DEF NoPrefix, Escaped, ByteConditions
      <2> QED
        BY <1>5, <2>2, <2>3, <2>4
    <1>6. CASE NoPrefix(e) /\ e.op \in {\h35, \h0D}
      <2>1. decodeScalarSpecial(e) = AccShortLogic(e)
        BY <1>6 DEF decodeScalarSpecial, NoPrefix, Escaped, ByteConditions
      <2>2. CASE e.op = \h35
        BY <1>6, <2>1, <2>2, AccShortLogicXorRight DEF NoPrefix, Escaped, ByteConditions
      <2>3. CASE e.op = \h0D
        BY <1>6, <2>1, <2>3, AccShortLogicOrRight DEF NoPrefix, Escaped, ByteConditions
      <2> QED
        BY <1>6, <2>2, <2>3
    <1>7. CASE NoPrefix(e) /\ e.op \in (\hB0 .. \hB3) \union (\hB8 .. \hBF)
      <2>1. decodeScalarSpecial(e) = MovShort(e)
        BY <1>7 DEF decodeScalarSpecial, NoPrefix, Escaped, ByteConditions
      <2>2. CASE e.op \in \hB0 .. \hB3
        BY <1>7, <2>1, <2>2, MovShortByteRight DEF NoPrefix, Escaped, ByteConditions
      <2>3. CASE e.op \in \hB8 .. \hBF
        BY <1>7, <2>1, <2>3, MovShortLongRight DEF NoPrefix, Escaped, ByteConditions
      <2> QED
        BY <1>7, <2>2, <2>3
    <1>8. CASE e.pre = {} /\ e.op \in \h50 .. \h5F
      <2>1. decodeScalarSpecial(e) = PushPopReg(e)
        BY <1>8 DEF decodeScalarSpecial, NoPrefix, Escaped, ByteConditions
      <2>2. CASE e.op \in \h50 .. \h57
        BY <1>8, <2>1, <2>2, PushPopRegPushRight DEF NoPrefix, Escaped, ByteConditions
      <2>3. CASE e.op \in \h58 .. \h5F
        BY <1>8, <2>1, <2>3, PushPopRegPopRight DEF NoPrefix, Escaped, ByteConditions
      <2> QED
        BY <1>8, <2>2, <2>3
    <1>9. CASE NoPrefix(e) /\ e.op = \hC9
      <2>1. decodeScalarSpecial(e) = Leave
        BY <1>9 DEF decodeScalarSpecial, NoPrefix, Escaped, ByteConditions
      <2> QED
        BY <1>9, <2>1, LeaveRight DEF NoPrefix, Escaped, ByteConditions
    <1>10. CASE e.pre \subseteq {"66"} /\ ~e.hasRex /\ e.op = \h90
      <2>1. decodeScalarSpecial(e) = Nop
        BY <1>10 DEF decodeScalarSpecial, NoPrefix, Escaped, ByteConditions
      <2> QED
        BY <1>10, <2>1, NopRight DEF NoPrefix, Escaped, ByteConditions
    <1>11. CASE NoPrefix(e) /\ e.op \in {\hFC, \hFD}
      <2>1. decodeScalarSpecial(e) = SetDirection(e)
        BY <1>11 DEF decodeScalarSpecial, NoPrefix, Escaped, ByteConditions
      <2> QED
        BY <1>11, <2>1, SetDirectionRight DEF NoPrefix, Escaped, ByteConditions
    <1>12. CASE e.pre \subseteq {"66", "2E"} /\ e.op = \h0F /\ e.op2 = \h1F
      <2>1. decodeScalarSpecial(e) = LongNop(e)
        BY <1>12 DEF decodeScalarSpecial, NoPrefix, Escaped, ByteConditions
      <2> QED
        BY <1>12, <2>1, LongNopRight DEF NoPrefix, Escaped, ByteConditions
    <1>13. CASE NoPrefix(e) /\ e.op = \h0F /\ e.op2 = \h05
      <2>1. decodeScalarSpecial(e) = Syscall
        BY <1>13 DEF decodeScalarSpecial, NoPrefix, Escaped, ByteConditions
      <2> QED
        BY <1>13, <2>1, SyscallRight DEF NoPrefix, Escaped, ByteConditions
    <1>14. CASE NoPrefix(e) /\ e.op = \h0F /\ e.op2 \in {\h31, \hA2}
      <2>1. decodeScalarSpecial(e) = Counter(e)
        BY <1>14 DEF decodeScalarSpecial, NoPrefix, Escaped, ByteConditions
      <2> QED
        BY <1>14, <2>1, CounterRight DEF NoPrefix, Escaped, ByteConditions
    <1>15. CASE NoPrefix(e) /\ e.op = \h0F /\ e.op2 = \hAE /\ Direct(e) /\ <<e.reg, e.rm>> \in {<<5, 0>>, <<6, 0>>}
      <2>1. decodeScalarSpecial(e) = Fence(e)
        BY <1>15 DEF decodeScalarSpecial, NoPrefix, Escaped, ByteConditions
      <2> QED
        BY <1>15, <2>1, FenceRight DEF NoPrefix, Escaped, ByteConditions
    <1>16. CASE Escaped(e, {\h90 + c : c \in ByteConditions})
      <2>1. decodeScalarSpecial(e) = Setcc(e)
        BY <1>16 DEF decodeScalarSpecial, NoPrefix, Escaped, ByteConditions
      <2> QED
        BY <1>16, <2>1, SetccRight DEF NoPrefix, Escaped, ByteConditions
    <1>17. CASE Escaped(e, {\hBF})
      <2>1. decodeScalarSpecial(e) = MovsxWord(e)
        BY <1>17 DEF decodeScalarSpecial, NoPrefix, Escaped, ByteConditions
      <2> QED
        BY <1>17, <2>1, MovsxWordRight DEF NoPrefix, Escaped, ByteConditions
    <1>18. CASE Escaped(e, {\hBE}) /\ ~e.hasRex
      <2>1. decodeScalarSpecial(e) = MovsxByteShort(e)
        BY <1>18 DEF decodeScalarSpecial, NoPrefix, Escaped, ByteConditions
      <2> QED
        BY <1>18, <2>1, MovsxByteShortRight DEF NoPrefix, Escaped, ByteConditions
    <1>19. CASE Escaped(e, {\hB6})
      <2>1. decodeScalarSpecial(e) = MovzxByte(e)
        BY <1>19 DEF decodeScalarSpecial, NoPrefix, Escaped, ByteConditions
      <2> QED
        BY <1>19, <2>1, MovzxByteRight DEF NoPrefix, Escaped, ByteConditions
    <1>20. CASE Escaped(e, {\hB7})
      <2>1. decodeScalarSpecial(e) = MovzxWord(e)
        BY <1>20 DEF decodeScalarSpecial, NoPrefix, Escaped, ByteConditions
      <2> QED
        BY <1>20, <2>1, MovzxWordRight DEF NoPrefix, Escaped, ByteConditions
    <1>21. CASE Escaped(e, {\hBC, \hBD}) /\ ~e.hasRex
      <2>1. decodeScalarSpecial(e) = BitScanShort(e)
        BY <1>21 DEF decodeScalarSpecial, NoPrefix, Escaped, ByteConditions
      <2>2. CASE e.op2 = \hBC
        BY <1>21, <2>1, <2>2, BitScanShortForwardRight DEF NoPrefix, Escaped, ByteConditions
      <2>3. CASE e.op2 = \hBD
        BY <1>21, <2>1, <2>3, BitScanShortReverseRight DEF NoPrefix, Escaped, ByteConditions
      <2> QED
        BY <1>21, <2>2, <2>3 DEF Escaped
    <1>22. CASE Escaped(e, \hC8 .. \hCF)
      <2>1. decodeScalarSpecial(e) = Bswap(e)
        BY <1>22 DEF decodeScalarSpecial, NoPrefix, Escaped, ByteConditions
      <2> QED
        BY <1>22, <2>1, BswapRight DEF NoPrefix, Escaped, ByteConditions
    <1>23. CASE /\ ~(NoPrefix(e) /\ e.op \in {\h6A, \h68})
                /\ ~(NoPrefix(e) /\ e.op \in {\hA8, \hA9})
                /\ ~(e.pre = {"66"} /\ ~e.hasRex /\ e.op = \hC1)
                /\ ~(e.pre \subseteq {"65"} /\ e.op = \hF6)
                /\ ~(NoPrefix(e) /\ e.op \in {\h04, \h3C, \h3D})
                /\ ~(NoPrefix(e) /\ e.op \in {\h35, \h0D})
                /\ ~(NoPrefix(e) /\ e.op \in (\hB0 .. \hB3) \union (\hB8 .. \hBF))
                /\ ~(e.pre = {} /\ e.op \in \h50 .. \h5F)
                /\ ~(NoPrefix(e) /\ e.op = \hC9)
                /\ ~(e.pre \subseteq {"66"} /\ ~e.hasRex /\ e.op = \h90)
                /\ ~(NoPrefix(e) /\ e.op \in {\hFC, \hFD})
                /\ ~(e.pre \subseteq {"66", "2E"} /\ e.op = \h0F /\ e.op2 = \h1F)
                /\ ~(NoPrefix(e) /\ e.op = \h0F /\ e.op2 = \h05)
                /\ ~(NoPrefix(e) /\ e.op = \h0F /\ e.op2 \in {\h31, \hA2})
                /\ ~(NoPrefix(e) /\ e.op = \h0F /\ e.op2 = \hAE /\ Direct(e) /\ <<e.reg, e.rm>> \in {<<5, 0>>, <<6, 0>>})
                /\ ~(Escaped(e, {\h90 + c : c \in ByteConditions}))
                /\ ~(Escaped(e, {\hBF}))
                /\ ~(Escaped(e, {\hBE}) /\ ~e.hasRex)
                /\ ~(Escaped(e, {\hB6}))
                /\ ~(Escaped(e, {\hB7}))
                /\ ~(Escaped(e, {\hBC, \hBD}) /\ ~e.hasRex)
                /\ ~(Escaped(e, \hC8 .. \hCF))
      BY <1>23, ErrorSame DEF decodeScalarSpecial
    <1> QED
      BY <1>1, <1>2, <1>3, <1>4, <1>5, <1>6, <1>7, <1>8, <1>9, <1>10, <1>11, <1>12, <1>13, <1>14, <1>15, <1>16, <1>17, <1>18, <1>19, <1>20, <1>21, <1>22, <1>23

\* decodeOperandOverride makes what the architecture defines, or nothing.
LEMMA OperandOverrideRight ==
    ASSUME NEW e \in Encodings, ~KnownMisdecode(e)
    PROVE  Same(e, decodeOperandOverride(e))
    <1>1. CASE e.pre = {"66"} /\ e.op \in {\h01, \h85}
      <2>1. decodeOperandOverride(e) = WordRegReg(e)
        BY <1>1 DEF decodeOperandOverride, NoPrefix
      <2>2. CASE e.op = \h01 /\ ~W(e)
        BY <1>1, <2>1, <2>2, WordRegRegAddRight DEF NoPrefix
      <2>3. CASE e.op = \h85 /\ ~W(e)
        BY <1>1, <2>1, <2>3, WordRegRegTestRight DEF NoPrefix
      <2>4. CASE W(e)
        BY <1>1, <2>1, <2>4, ErrorSame DEF WordRegReg
      <2> QED
        BY <1>1, <2>2, <2>3, <2>4
    <1>2. CASE e.pre = {"66"} /\ e.op = \h81
      <2>1. decodeOperandOverride(e) = WordLogicImm(e)
        BY <1>2 DEF decodeOperandOverride, NoPrefix
      <2>2. CASE e.reg = 1 /\ ~W(e)
        BY <1>2, <2>1, <2>2, WordLogicImmOrRight DEF NoPrefix
      <2>3. CASE e.reg = 4 /\ ~W(e)
        BY <1>2, <2>1, <2>3, WordLogicImmAndRight DEF NoPrefix
      <2>4. CASE e.reg = 7 /\ ~W(e)
        BY <1>2, <2>1, <2>4, WordLogicImmCmpRight DEF NoPrefix
      <2>5. CASE e.reg \notin {1, 4, 7} \/ W(e)
        BY <1>2, <2>1, <2>5, ErrorSame DEF WordLogicImm, Only
      <2> QED
        BY <1>2, <2>2, <2>3, <2>4, <2>5
    <1>3. CASE e.pre = {"66"} /\ e.op = \h83
      <2>1. decodeOperandOverride(e) = WordShortImm(e)
        BY <1>3 DEF decodeOperandOverride, NoPrefix
      <2>2. CASE e.reg = 1 /\ ~W(e)
        BY <1>3, <2>1, <2>2, WordShortImmOrRight DEF NoPrefix
      <2>3. CASE e.reg = 3 /\ ~W(e)
        BY <1>3, <2>1, <2>3, WordShortImmSbbRight DEF NoPrefix
      <2>4. CASE e.reg = 4 /\ ~W(e)
        BY <1>3, <2>1, <2>4, WordShortImmAndRight DEF NoPrefix
      <2>5. CASE e.reg = 7 /\ ~W(e)
        BY <1>3, <2>1, <2>5, WordShortImmCmpRight DEF NoPrefix
      <2>6. CASE e.reg \notin {1, 3, 4, 7} \/ W(e)
        BY <1>3, <2>1, <2>6, ErrorSame DEF WordShortImm, Only
      <2> QED
        BY <1>3, <2>2, <2>3, <2>4, <2>5, <2>6
    <1>4. CASE e.pre = {"66"} /\ e.op = \hFF /\ ~e.hasRex
      <2>1. decodeOperandOverride(e) = WordIncDec(e)
        BY <1>4 DEF decodeOperandOverride, NoPrefix
      <2>2. CASE e.reg = 0
        BY <1>4, <2>1, <2>2, WordIncDecIncRight DEF NoPrefix
      <2>3. CASE e.reg = 1
        BY <1>4, <2>1, <2>3, WordIncDecDecRight DEF NoPrefix
      <2>4. CASE e.reg \notin {0, 1}
        BY <1>4, <2>1, <2>4, ErrorSame DEF WordIncDec, Only
      <2> QED
        BY <1>4, <2>2, <2>3, <2>4
    <1>5. CASE e.pre = {"66"} /\ e.op = \h89
      <2>1. decodeOperandOverride(e) = WordStore(e)
        BY <1>5 DEF decodeOperandOverride, NoPrefix
      <2>2. CASE ~W(e)
        BY <1>5, <2>1, <2>2, WordStoreRight DEF NoPrefix
      <2>3. CASE W(e)
        BY <1>5, <2>1, <2>3, ErrorSame DEF WordStore, Only
      <2> QED
        BY <1>5, <2>2, <2>3
    <1>6. CASE e.pre = {"66"} /\ e.op = \hC7
      <2>1. decodeOperandOverride(e) = WordStoreImm(e)
        BY <1>6 DEF decodeOperandOverride, NoPrefix
      <2>2. CASE e.reg = 0 /\ ~W(e)
        BY <1>6, <2>1, <2>2, WordStoreImmRight DEF NoPrefix
      <2>3. CASE e.reg # 0 \/ W(e)
        BY <1>6, <2>1, <2>3, ErrorSame DEF WordStoreImm, Only
      <2> QED
        BY <1>6, <2>2, <2>3
    <1>7. CASE /\ ~(e.pre = {"66"} /\ e.op \in {\h01, \h85})
                /\ ~(e.pre = {"66"} /\ e.op = \h81)
                /\ ~(e.pre = {"66"} /\ e.op = \h83)
                /\ ~(e.pre = {"66"} /\ e.op = \hFF /\ ~e.hasRex)
                /\ ~(e.pre = {"66"} /\ e.op = \h89)
                /\ ~(e.pre = {"66"} /\ e.op = \hC7)
      BY <1>7, ErrorSame DEF decodeOperandOverride
    <1> QED
      BY <1>1, <1>2, <1>3, <1>4, <1>5, <1>6, <1>7

\* decodeRepeat makes what the architecture defines, or nothing.
LEMMA RepeatRight ==
    ASSUME NEW e \in Encodings, ~KnownMisdecode(e)
    PROVE  Same(e, decodeRepeat(e))
    <1>1. CASE e.pre = {"F3"} /\ e.op = \hA4 /\ ~e.hasRex
      <2>1. decodeRepeat(e) = RepMovsb(e)
        BY <1>1 DEF decodeRepeat, NoPrefix
      <2> QED
        BY <1>1, <2>1, RepMovsbRight DEF NoPrefix
    <1>2. CASE e.pre = {"F3"} /\ e.op \in {\hAA, \hAB}
      <2>1. decodeRepeat(e) = RepStos(e)
        BY <1>2 DEF decodeRepeat, NoPrefix
      <2>2. CASE e.op = \hAA
        BY <1>2, <2>1, <2>2, RepStosByteRight DEF NoPrefix
      <2>3. CASE e.op = \hAB
        BY <1>2, <2>1, <2>3, RepStosLongRight DEF NoPrefix
      <2> QED
        BY <1>2, <2>2, <2>3
    <1>3. CASE /\ ~(e.pre = {"F3"} /\ e.op = \hA4 /\ ~e.hasRex)
                /\ ~(e.pre = {"F3"} /\ e.op \in {\hAA, \hAB})
      BY <1>3, ErrorSame DEF decodeRepeat
    <1> QED
      BY <1>1, <1>2, <1>3

\* decodeControlTransfer makes what the architecture defines, or nothing.
LEMMA ControlTransferRight ==
    ASSUME NEW e \in Encodings, ~KnownMisdecode(e)
    PROVE  Same(e, decodeControlTransfer(e))
    <1>1. CASE NoPrefix(e) /\ e.op \in {\hE8, \hE9}
      <2>1. decodeControlTransfer(e) = Relative32(e)
        BY <1>1 DEF decodeControlTransfer, NoPrefix
      <2> QED
        BY <1>1, <2>1, Relative32Right DEF NoPrefix
    <1>2. CASE NoPrefix(e) /\ e.op = \hEB
      <2>1. decodeControlTransfer(e) = Relative8(e)
        BY <1>2 DEF decodeControlTransfer, NoPrefix
      <2> QED
        BY <1>2, <2>1, Relative8JmpRight DEF NoPrefix
    <1>3. CASE e.pre \subseteq {"2E"} /\ ~e.hasRex /\ e.op \in \h70 .. \h7F
      <2>1. decodeControlTransfer(e) = Relative8(e)
        BY <1>3 DEF decodeControlTransfer, NoPrefix
      <2> QED
        BY <1>3, <2>1, Relative8JccRight DEF NoPrefix
    <1>4. CASE /\ ~(NoPrefix(e) /\ e.op \in {\hE8, \hE9})
                /\ ~(NoPrefix(e) /\ e.op = \hEB)
                /\ ~(e.pre \subseteq {"2E"} /\ ~e.hasRex /\ e.op \in \h70 .. \h7F)
      BY <1>4, ErrorSame DEF decodeControlTransfer
    <1> QED
      BY <1>1, <1>2, <1>3, <1>4

\* decodeAtomic makes what the architecture defines, or nothing.
LEMMA AtomicRight ==
    ASSUME NEW e \in Encodings, ~KnownMisdecode(e)
    PROVE  Same(e, decodeAtomic(e))
    <1>1. CASE e.pre = {"66", "F0"} /\ e.op \in {\h81, \h83}
      <2>1. decodeAtomic(e) = LockWordImm(e)
        BY <1>1 DEF decodeAtomic, NoPrefix
      <2>2. CASE e.op = \h81 /\ e.reg = 1 /\ ~W(e)
        BY <1>1, <2>1, <2>2, LockWordImmOrWordRight DEF NoPrefix
      <2>3. CASE e.op = \h81 /\ e.reg = 4 /\ ~W(e)
        BY <1>1, <2>1, <2>3, LockWordImmAndWordRight DEF NoPrefix
      <2>4. CASE e.op = \h83 /\ e.reg = 1 /\ ~W(e)
        BY <1>1, <2>1, <2>4, LockWordImmOrShortRight DEF NoPrefix
      <2>5. CASE e.op = \h83 /\ e.reg = 4 /\ ~W(e)
        BY <1>1, <2>1, <2>5, LockWordImmAndShortRight DEF NoPrefix
      <2>6. CASE e.reg \notin {1, 4} \/ W(e)
        BY <1>1, <2>1, <2>6, ErrorSame DEF LockWordImm, Only
      <2> QED
        BY <1>1, <2>2, <2>3, <2>4, <2>5, <2>6
    <1>2. CASE e.pre \in {{"F0"}, {"66", "F0"}} /\ e.op = \h0F /\ e.op2 = \hC1
      <2>1. decodeAtomic(e) = LockXadd(e)
        BY <1>2 DEF decodeAtomic, NoPrefix
      <2> QED
        BY <1>2, <2>1, LockXaddRight DEF NoPrefix
    <1>3. CASE e.pre = {"F0"} /\ W(e) /\ e.op = \h01
      <2>1. decodeAtomic(e) = LockAddQword(e)
        BY <1>3 DEF decodeAtomic, NoPrefix
      <2> QED
        BY <1>3, <2>1, LockAddQwordRight DEF NoPrefix
    <1>4. CASE e.pre = {"F0"} /\ e.op \in {\h80, \h81, \h83}
      <2>1. decodeAtomic(e) = LockImm(e)
        BY <1>4 DEF decodeAtomic, NoPrefix
      <2>2. CASE e.op = \h80 /\ e.reg = 1
        BY <1>4, <2>1, <2>2, LockImmOrByteRight DEF NoPrefix
      <2>3. CASE e.op = \h80 /\ e.reg = 4
        BY <1>4, <2>1, <2>3, LockImmAndByteRight DEF NoPrefix
      <2>4. CASE e.op = \h81 /\ e.reg = 1
        BY <1>4, <2>1, <2>4, LockImmOrLongRight DEF NoPrefix
      <2>5. CASE e.op = \h81 /\ e.reg = 4
        BY <1>4, <2>1, <2>5, LockImmAndLongRight DEF NoPrefix
      <2>6. CASE e.op = \h83 /\ e.reg = 1
        BY <1>4, <2>1, <2>6, LockImmOrShortRight DEF NoPrefix
      <2>7. CASE e.op = \h83 /\ e.reg = 4
        BY <1>4, <2>1, <2>7, LockImmAndShortRight DEF NoPrefix
      <2>8. CASE e.reg \notin {1, 4}
        BY <1>4, <2>1, <2>8, ErrorSame DEF LockImm, Only
      <2> QED
        BY <1>4, <2>2, <2>3, <2>4, <2>5, <2>6, <2>7, <2>8
    <1>5. CASE e.pre = {"F0"} /\ ~e.hasRex /\ e.op = \hFF
      <2>1. decodeAtomic(e) = LockIncDecShort(e)
        BY <1>5 DEF decodeAtomic, NoPrefix
      <2>2. CASE e.reg = 0
        BY <1>5, <2>1, <2>2, LockIncDecShortIncRight DEF NoPrefix
      <2>3. CASE e.reg = 1
        BY <1>5, <2>1, <2>3, LockIncDecShortDecRight DEF NoPrefix
      <2>4. CASE e.reg \notin {0, 1}
        BY <1>5, <2>1, <2>4, ErrorSame DEF LockIncDecShort, Only
      <2> QED
        BY <1>5, <2>2, <2>3, <2>4
    <1>6. CASE e.pre = {"F0"} /\ W(e) /\ e.op = \h0F /\ e.op2 = \hC7
      <2>1. decodeAtomic(e) = LockCmpxchg16b(e)
        BY <1>6 DEF decodeAtomic, NoPrefix
      <2>2. CASE e.reg = 1
        BY <1>6, <2>1, <2>2, LockCmpxchg16bRight DEF NoPrefix
      <2>3. CASE e.reg # 1
        BY <1>6, <2>1, <2>3, ErrorSame DEF LockCmpxchg16b, Only
      <2> QED
        BY <1>6, <2>2, <2>3
    <1>7. CASE e.pre = {"F0"} /\ e.hasRex /\ e.op = \hFF
      <2>1. decodeAtomic(e) = LockIncDec(e)
        BY <1>7 DEF decodeAtomic, NoPrefix
      <2>2. CASE e.reg = 0
        BY <1>7, <2>1, <2>2, LockIncDecIncRight DEF NoPrefix
      <2>3. CASE e.reg = 1
        BY <1>7, <2>1, <2>3, LockIncDecDecRight DEF NoPrefix
      <2>4. CASE e.reg \notin {0, 1}
        BY <1>7, <2>1, <2>4, ErrorSame DEF LockIncDec, Only
      <2> QED
        BY <1>7, <2>2, <2>3, <2>4
    <1>8. CASE e.pre = {"F0"} /\ (e.op = \h09 \/ (e.op = \h01 /\ ~W(e)))
      <2>1. decodeAtomic(e) = LockAddOr(e)
        BY <1>8 DEF decodeAtomic, NoPrefix
      <2>2. CASE e.op = \h01
        BY <1>8, <2>1, <2>2, LockAddOrAddRight DEF NoPrefix
      <2>3. CASE e.op = \h09
        BY <1>8, <2>1, <2>3, LockAddOrOrRight DEF NoPrefix
      <2> QED
        BY <1>8, <2>2, <2>3
    <1>9. CASE e.pre = {"F0"} /\ e.op = \h0F /\ e.op2 = \hBA
      <2>1. decodeAtomic(e) = LockBts(e)
        BY <1>9 DEF decodeAtomic, NoPrefix
      <2>2. CASE e.reg = 5
        BY <1>9, <2>1, <2>2, LockBtsRight DEF NoPrefix
      <2>3. CASE e.reg # 5
        BY <1>9, <2>1, <2>3, ErrorSame DEF LockBts, Only
      <2> QED
        BY <1>9, <2>2, <2>3
    <1>10. CASE e.pre = {"F0"} /\ e.op = \h0F /\ e.op2 \in {\hB0, \hB1}
      <2>1. decodeAtomic(e) = Cmpxchg(e)
        BY <1>10 DEF decodeAtomic, NoPrefix
      <2>2. CASE e.op2 = \hB0
        BY <1>10, <2>1, <2>2, CmpxchgByteRight DEF NoPrefix
      <2>3. CASE e.op2 = \hB1
        BY <1>10, <2>1, <2>3, CmpxchgLongRight DEF NoPrefix
      <2> QED
        BY <1>10, <2>2, <2>3
    <1>11. CASE /\ ~(e.pre = {"66", "F0"} /\ e.op \in {\h81, \h83})
                /\ ~(e.pre \in {{"F0"}, {"66", "F0"}} /\ e.op = \h0F /\ e.op2 = \hC1)
                /\ ~(e.pre = {"F0"} /\ W(e) /\ e.op = \h01)
                /\ ~(e.pre = {"F0"} /\ e.op \in {\h80, \h81, \h83})
                /\ ~(e.pre = {"F0"} /\ ~e.hasRex /\ e.op = \hFF)
                /\ ~(e.pre = {"F0"} /\ W(e) /\ e.op = \h0F /\ e.op2 = \hC7)
                /\ ~(e.pre = {"F0"} /\ e.hasRex /\ e.op = \hFF)
                /\ ~(e.pre = {"F0"} /\ (e.op = \h09 \/ (e.op = \h01 /\ ~W(e))))
                /\ ~(e.pre = {"F0"} /\ e.op = \h0F /\ e.op2 = \hBA)
                /\ ~(e.pre = {"F0"} /\ e.op = \h0F /\ e.op2 \in {\hB0, \hB1})
      BY <1>11, ErrorSame DEF decodeAtomic
    <1> QED
      BY <1>1, <1>2, <1>3, <1>4, <1>5, <1>6, <1>7, <1>8, <1>9, <1>10, <1>11

\* decodeExtended makes what the architecture defines, or nothing.
LEMMA ExtendedRight ==
    ASSUME NEW e \in Encodings, ~KnownMisdecode(e)
    PROVE  Same(e, decodeExtended(e))
    <1>1. CASE NoPrefix(e) /\ e.op = \h0F /\ e.op2 = \h01
      <2>1. decodeExtended(e) = Sidt(e)
        BY <1>1 DEF decodeExtended, NoPrefix, CmovOps, ByteConditions
      <2>2. CASE e.reg = 1
        BY <1>1, <2>1, <2>2, SidtRight DEF NoPrefix, CmovOps, ByteConditions
      <2>3. CASE e.reg # 1
        BY <1>1, <2>1, <2>3, ErrorSame DEF Sidt, Only
      <2> QED
        BY <1>1, <2>2, <2>3
    <1>2. CASE NoPrefix(e) /\ e.op = \h0F /\ e.op2 = \hA3
      <2>1. decodeExtended(e) = BitTestShort(e)
        BY <1>2 DEF decodeExtended, NoPrefix, CmovOps, ByteConditions
      <2> QED
        BY <1>2, <2>1, BitTestShortRight DEF NoPrefix, CmovOps, ByteConditions
    <1>3. CASE NoPrefix(e) /\ e.op = \h0F /\ e.op2 = \hBA
      <2>1. decodeExtended(e) = BitTestImmShort(e)
        BY <1>3 DEF decodeExtended, NoPrefix, CmovOps, ByteConditions
      <2>2. CASE e.reg = 4
        BY <1>3, <2>1, <2>2, BitTestImmShortRight DEF NoPrefix, CmovOps, ByteConditions
      <2>3. CASE e.reg # 4
        BY <1>3, <2>1, <2>3, ErrorSame DEF BitTestImmShort, Only
      <2> QED
        BY <1>3, <2>2, <2>3
    <1>4. CASE NoPrefix(e) /\ e.op = \h0F /\ e.op2 \in CmovOps
      <2>1. decodeExtended(e) = CmovShort(e)
        BY <1>4 DEF decodeExtended, NoPrefix, CmovOps, ByteConditions
      <2> QED
        BY <1>4, <2>1, CmovShortRight DEF NoPrefix, CmovOps, ByteConditions
    <1>5. CASE NoPrefix(e) /\ e.op = \h0F /\ e.op2 = \hAF
      <2>1. decodeExtended(e) = ImulShort(e)
        BY <1>5 DEF decodeExtended, NoPrefix, CmovOps, ByteConditions
      <2> QED
        BY <1>5, <2>1, ImulShortRight DEF NoPrefix, CmovOps, ByteConditions
    <1>6. CASE NoPrefix(e) /\ e.op = \h0F /\ e.op2 \in \h80 .. \h8F
      <2>1. decodeExtended(e) = JccRelative32(e)
        BY <1>6 DEF decodeExtended, NoPrefix, CmovOps, ByteConditions
      <2> QED
        BY <1>6, <2>1, JccRelative32Right DEF NoPrefix, CmovOps, ByteConditions
    <1>7. CASE NoPrefix(e) /\ e.op = \h0F /\ e.op2 \notin {\h01, \hA3, \hBA, \hAF} \union CmovOps \union (\h80 .. \h8F)
      <2>1. decodeExtended(e) = Error
        BY <1>7 DEF decodeExtended, NoPrefix, CmovOps, ByteConditions
      <2> QED
        BY <1>7, <2>1, ErrorSame DEF NoPrefix, CmovOps, ByteConditions
    <1>8. CASE e.pre = {"66"} /\ ~W(e) /\ e.op \in \hB8 .. \hBF
      <2>1. decodeExtended(e) = MovWordImm(e)
        BY <1>8 DEF decodeExtended, NoPrefix, CmovOps, ByteConditions
      <2> QED
        BY <1>8, <2>1, MovWordImmRight DEF NoPrefix, CmovOps, ByteConditions
    <1>9. CASE /\ ~(NoPrefix(e) /\ e.op = \h0F /\ e.op2 = \h01)
                /\ ~(NoPrefix(e) /\ e.op = \h0F /\ e.op2 = \hA3)
                /\ ~(NoPrefix(e) /\ e.op = \h0F /\ e.op2 = \hBA)
                /\ ~(NoPrefix(e) /\ e.op = \h0F /\ e.op2 \in CmovOps)
                /\ ~(NoPrefix(e) /\ e.op = \h0F /\ e.op2 = \hAF)
                /\ ~(NoPrefix(e) /\ e.op = \h0F /\ e.op2 \in \h80 .. \h8F)
                /\ ~(NoPrefix(e) /\ e.op = \h0F /\ e.op2 \notin {\h01, \hA3, \hBA, \hAF} \union CmovOps \union (\h80 .. \h8F))
                /\ ~(e.pre = {"66"} /\ ~W(e) /\ e.op \in \hB8 .. \hBF)
      BY <1>9, ErrorSame DEF decodeExtended
    <1> QED
      BY <1>1, <1>2, <1>3, <1>4, <1>5, <1>6, <1>7, <1>8, <1>9

\* 0D: Op0D makes what the architecture defines, or nothing.
LEMMA Op0DRight ==
    ASSUME NEW e, General(e), e.op = \h0D
    PROVE  Same(e, Op0D(e))
    <1>1. e \in Encodings /\ Scalar(e) /\ "65" \notin e.pre /\ Width(e) = W3264(e) /\ Width(e) # 8
      BY GeneralFacts, Widths, Fields DEF WithOperandSize, WithGs
    <1>2. OneByte(e) = Bare("Or", <<Acc(W3264(e)), ImmZ(W3264(e))>>)
      BY <1>1, Rows DEF OneByte, Arithmetic
    <1>3. Meaning(e) = Bare("Or", <<Acc(W3264(e)), ImmZ(W3264(e))>>)
      BY <1>1, <1>2, OneByteMeaning
    <1> QED
      BY <1>1, <1>3, SameBare2, RegFits, Imm32Follows DEF Op0D, AccImm32, Acc

\* 25: Op25 makes what the architecture defines, or nothing.
LEMMA Op25Right ==
    ASSUME NEW e, General(e), e.op = \h25
    PROVE  Same(e, Op25(e))
    <1>1. e \in Encodings /\ Scalar(e) /\ "65" \notin e.pre /\ Width(e) = W3264(e) /\ Width(e) # 8
      BY GeneralFacts, Widths, Fields DEF WithOperandSize, WithGs
    <1>2. OneByte(e) = Bare("And", <<Acc(W3264(e)), ImmZ(W3264(e))>>)
      BY <1>1, Rows DEF OneByte, Arithmetic
    <1>3. Meaning(e) = Bare("And", <<Acc(W3264(e)), ImmZ(W3264(e))>>)
      BY <1>1, <1>2, OneByteMeaning
    <1> QED
      BY <1>1, <1>3, SameBare2, RegFits, Imm32Follows DEF Op25, AccImm32, Acc

\* 05: Op05And2D makes what the architecture defines, or nothing.
LEMMA Op05And2DAddRight ==
    ASSUME NEW e, General(e), e.op = \h05
    PROVE  Same(e, Op05And2D(e))
    <1>1. e \in Encodings /\ Scalar(e) /\ "65" \notin e.pre /\ Width(e) = W3264(e) /\ Width(e) # 8
      BY GeneralFacts, Widths, Fields DEF WithOperandSize, WithGs
    <1>2. OneByte(e) = Bare("Add", <<Acc(W3264(e)), ImmZ(W3264(e))>>)
      BY <1>1, Rows DEF OneByte, Arithmetic
    <1>3. Meaning(e) = Bare("Add", <<Acc(W3264(e)), ImmZ(W3264(e))>>)
      BY <1>1, <1>2, OneByteMeaning
    <1> QED
      BY <1>1, <1>3, SameBare2, RegFits, Imm32Follows DEF Op05And2D, AccImm32, Acc

\* 2D: Op05And2D makes what the architecture defines, or nothing.
LEMMA Op05And2DSubRight ==
    ASSUME NEW e, General(e), e.op = \h2D
    PROVE  Same(e, Op05And2D(e))
    <1>1. e \in Encodings /\ Scalar(e) /\ "65" \notin e.pre /\ Width(e) = W3264(e) /\ Width(e) # 8
      BY GeneralFacts, Widths, Fields DEF WithOperandSize, WithGs
    <1>2. OneByte(e) = Bare("Sub", <<Acc(W3264(e)), ImmZ(W3264(e))>>)
      BY <1>1, Rows DEF OneByte, Arithmetic
    <1>3. Meaning(e) = Bare("Sub", <<Acc(W3264(e)), ImmZ(W3264(e))>>)
      BY <1>1, <1>2, OneByteMeaning
    <1> QED
      BY <1>1, <1>3, SameBare2, RegFits, Imm32Follows DEF Op05And2D, AccImm32, Acc

\* 24: Op24 makes what the architecture defines, or nothing.
LEMMA Op24Right ==
    ASSUME NEW e, General(e), e.op = \h24
    PROVE  Same(e, Op24(e))
    <1>1. e \in Encodings /\ Scalar(e) /\ "65" \notin e.pre /\ Width(e) = 8
      BY GeneralFacts, Widths, Fields DEF WithOperandSize, WithGs
    <1>2. OneByte(e) = Bare("And", <<Acc(8), ImmZ(8)>>)
      BY <1>1, Rows DEF OneByte, Arithmetic
    <1>3. Meaning(e) = Bare("And", <<Acc(8), ImmZ(8)>>)
      BY <1>1, <1>2, OneByteMeaning
    <1> QED
      BY <1>1, <1>3, SameBare2, RegFits, ByteImm DEF Op24, AccImm8, Acc

\* 34: Op34To1C makes what the architecture defines, or nothing.
LEMMA Op34To1CXorRight ==
    ASSUME NEW e, General(e), e.op = \h34
    PROVE  Same(e, Op34To1C(e))
    <1>1. e \in Encodings /\ Scalar(e) /\ "65" \notin e.pre /\ Width(e) = 8
      BY GeneralFacts, Widths, Fields DEF WithOperandSize, WithGs
    <1>2. OneByte(e) = Bare("Xor", <<Acc(8), ImmZ(8)>>)
      BY <1>1, Rows DEF OneByte, Arithmetic
    <1>3. Meaning(e) = Bare("Xor", <<Acc(8), ImmZ(8)>>)
      BY <1>1, <1>2, OneByteMeaning
    <1> QED
      BY <1>1, <1>3, SameBare2, RegFits, ByteImm DEF Op34To1C, AccImm8, Acc

\* 0C: Op34To1C makes what the architecture defines, or nothing.
LEMMA Op34To1COrRight ==
    ASSUME NEW e, General(e), e.op = \h0C
    PROVE  Same(e, Op34To1C(e))
    <1>1. e \in Encodings /\ Scalar(e) /\ "65" \notin e.pre /\ Width(e) = 8
      BY GeneralFacts, Widths, Fields DEF WithOperandSize, WithGs
    <1>2. OneByte(e) = Bare("Or", <<Acc(8), ImmZ(8)>>)
      BY <1>1, Rows DEF OneByte, Arithmetic
    <1>3. Meaning(e) = Bare("Or", <<Acc(8), ImmZ(8)>>)
      BY <1>1, <1>2, OneByteMeaning
    <1> QED
      BY <1>1, <1>3, SameBare2, RegFits, ByteImm DEF Op34To1C, AccImm8, Acc

\* 1C: Op34To1C makes what the architecture defines, or nothing.
LEMMA Op34To1CSbbRight ==
    ASSUME NEW e, General(e), e.op = \h1C
    PROVE  Same(e, Op34To1C(e))
    <1>1. e \in Encodings /\ Scalar(e) /\ "65" \notin e.pre /\ Width(e) = 8
      BY GeneralFacts, Widths, Fields DEF WithOperandSize, WithGs
    <1>2. OneByte(e) = Bare("Sbb", <<Acc(8), ImmZ(8)>>)
      BY <1>1, Rows DEF OneByte, Arithmetic
    <1>3. Meaning(e) = Bare("Sbb", <<Acc(8), ImmZ(8)>>)
      BY <1>1, <1>2, OneByteMeaning
    <1> QED
      BY <1>1, <1>3, SameBare2, RegFits, ByteImm DEF Op34To1C, AccImm8, Acc

\* 35: RaxImm32 makes what the architecture defines, or nothing.
LEMMA RaxImm32XorRight ==
    ASSUME NEW e, General(e), e.op = \h35, W(e)
    PROVE  Same(e, RaxImm32(e))
    <1>1. e \in Encodings /\ Scalar(e) /\ "65" \notin e.pre /\ Width(e) = W3264(e) /\ Width(e) # 8 /\ Width(e) = 64
      BY GeneralFacts, Widths, Fields DEF WithOperandSize, WithGs
    <1>2. OneByte(e) = Bare("Xor", <<Acc(64), ImmZ(64)>>)
      BY <1>1, Rows DEF OneByte, Arithmetic
    <1>3. Meaning(e) = Bare("Xor", <<Acc(64), ImmZ(64)>>)
      BY <1>1, <1>2, OneByteMeaning
    <1> QED
      BY <1>1, <1>3, SameBare2, RegFits, SameImm, Immediates, ErrorSame DEF RaxImm32, Acc, Only

\* 3D: RaxImm32 makes what the architecture defines, or nothing.
LEMMA RaxImm32CmpRight ==
    ASSUME NEW e, General(e), e.op = \h3D, W(e)
    PROVE  Same(e, RaxImm32(e))
    <1>1. e \in Encodings /\ Scalar(e) /\ "65" \notin e.pre /\ Width(e) = W3264(e) /\ Width(e) # 8 /\ Width(e) = 64
      BY GeneralFacts, Widths, Fields DEF WithOperandSize, WithGs
    <1>2. OneByte(e) = Bare("Cmp", <<Acc(64), ImmZ(64)>>)
      BY <1>1, Rows DEF OneByte, Arithmetic
    <1>3. Meaning(e) = Bare("Cmp", <<Acc(64), ImmZ(64)>>)
      BY <1>1, <1>2, OneByteMeaning
    <1> QED
      BY <1>1, <1>3, SameBare2, RegFits, SameImm, Immediates, ErrorSame DEF RaxImm32, Acc, Only

\* 98: ConvertAcc makes what the architecture defines, or nothing.
LEMMA ConvertAccRight ==
    ASSUME NEW e, General(e), e.op = \h98
    PROVE  Same(e, ConvertAcc(e))
    <1>1. e \in Encodings /\ Scalar(e)
      BY GeneralFacts, Widths, Fields DEF WithOperandSize, WithGs
    <1>2. OneByte(e) = Bare(IF W(e) THEN "Cdqe" ELSE "Cwde", NoOperands)
      BY <1>1 DEF OneByte
    <1>3. Meaning(e) = Bare(IF W(e) THEN "Cdqe" ELSE "Cwde", NoOperands)
      BY <1>1, <1>2, OneByteMeaning
    <1> QED
      BY <1>1, <1>3, SameBare0, ErrorSame DEF ConvertAcc, Only

\* MovByteImm makes what the architecture defines, or nothing.
LEMMA MovByteImmRight ==
    ASSUME NEW e, General(e), e.op \in \hB0 .. \hB7
    PROVE  Same(e, MovByteImm(e))
    <1>1. e \in Encodings /\ Scalar(e)
      BY GeneralFacts, Widths, Fields DEF WithOperandSize, WithGs
    <1>2. OneByte(e) = Bare("Mov", <<OpReg(e, e.op - \hB0, 8), SImm(1)>>)
      BY <1>1 DEF OneByte
    <1>3. Meaning(e) = Bare("Mov", <<OpReg(e, e.op - \hB0, 8), SImm(1)>>)
      BY <1>1, <1>2, OneByteMeaning
    <1> QED
      BY <1>1, <1>3, SameBare2, OpRegs, ByteImm, ErrorSame DEF MovByteImm, Only

\* MovImm makes what the architecture defines, or nothing.
LEMMA MovImmRight ==
    ASSUME NEW e, General(e), e.op \in \hB8 .. \hBF
    PROVE  Same(e, MovImm(e))
    <1>1. e \in Encodings /\ Scalar(e) /\ W163264(e) = W3264(e) /\ W3264(e) \div 8 = (IF W(e) THEN 8 ELSE 4) /\ W3264(e) \in {32, 64} /\ (W3264(e) = 64 <=> W(e))
      BY GeneralFacts, Widths, Fields DEF WithOperandSize, WithGs, W3264
    <1>2. OneByte(e) = Bare("Mov", <<OpReg(e, e.op - \hB8, W3264(e)), SImm(IF W(e) THEN 8 ELSE 4)>>)
      BY <1>1 DEF OneByte
    <1>3. Meaning(e) = Bare("Mov", <<OpReg(e, e.op - \hB8, W3264(e)), SImm(IF W(e) THEN 8 ELSE 4)>>)
      BY <1>1, <1>2, OneByteMeaning
    <1>4. Follows(e, OpReg(e, e.op - \hB8, W3264(e)), ZImm(IF W(e) THEN 8 ELSE 4), SImm(IF W(e) THEN 8 ELSE 4))
      BY LongImm DEF W3264
    <1> QED
      BY <1>1, <1>3, SameBare2, OpRegs, <1>4 DEF MovImm

\* 69: ImulImm32 makes what the architecture defines, or nothing.
LEMMA ImulImm32Right ==
    ASSUME NEW e, General(e), e.op = \h69
    PROVE  Same(e, ImulImm32(e))
    <1>1. e \in Encodings /\ Scalar(e) /\ "65" \notin e.pre /\ Width(e) = W3264(e) /\ Width(e) # 8
      BY GeneralFacts, Widths, Fields DEF WithOperandSize, WithGs
    <1>2. OneByte(e) = Inst("Imul", <<G(e, W3264(e)), E(e, W3264(e)), ImmZ(W3264(e))>>)
      BY <1>1 DEF OneByte
    <1>3. Meaning(e) = Inst("Imul", <<G(e, W3264(e)), E(e, W3264(e)), ImmZ(W3264(e))>>)
      BY <1>1, <1>2, OneByteMeaning
    <1>4. \A w : Fits(e, Mem(w, {"rip", "ripB"}), E(e, w))
      BY <1>1, SafeMem
    <1> DEFINE rm == IF Direct(e) THEN RmField(e, W3264(e))
                         ELSE IF X(e) THEN Error ELSE Mem(W3264(e), {"rip", "ripB"})
    <1>5. Fits(e, rm, E(e, W3264(e))) /\ Fits(e, RegField(e, W3264(e)), G(e, W3264(e)))
      BY <1>1, <1>4, FieldsFit, ErrorFits
    <1>6. ImulImm32(e) = Inst("Imul", <<RegField(e, W3264(e)), rm, Imm32(e)>>)
      BY DEF ImulImm32
    <1> HIDE DEF rm
    <1> QED
      BY <1>3, <1>5, <1>6, SameImm3, Imm32Follows

\* 6B: ImulImm8 makes what the architecture defines, or nothing.
LEMMA ImulImm8Right ==
    ASSUME NEW e, General(e), e.op = \h6B
    PROVE  Same(e, ImulImm8(e))
    <1>1. e \in Encodings /\ Scalar(e) /\ "65" \notin e.pre /\ Width(e) = W3264(e) /\ Width(e) # 8 /\ W163264(e) = W3264(e)
      BY GeneralFacts, Widths, Fields DEF WithOperandSize, WithGs
    <1>2. OneByte(e) = Inst("Imul", <<G(e, W3264(e)), E(e, W3264(e)), SImm(1)>>)
      BY <1>1 DEF OneByte
    <1>3. Meaning(e) = Inst("Imul", <<G(e, W3264(e)), E(e, W3264(e)), SImm(1)>>)
      BY <1>1, <1>2, OneByteMeaning
    <1> QED
      BY <1>1, <1>3, SameImm3, SameImm, FieldsFit, ErrorFits, ErrorSame DEF ImulImm8, Only

\* 0F A3: BitTestReg makes what the architecture defines, or nothing.
LEMMA BitTestRegBitTestRight ==
    ASSUME NEW e, General(e), e.op = \h0F, e.op2 = \hA3, Direct(e)
    PROVE  Same(e, BitTestReg(e))
    <1>1. e \in Encodings /\ e.pre = {} /\ W163264(e) = W3264(e) /\ W3264(e) # 8
      BY GeneralFacts, Widths, Fields DEF WithOperandSize, WithGs, General, Admitted
    <1>2. TwoByte(e) = Inst("BitTest", <<E(e, W3264(e)), G(e, W3264(e))>>)
      BY <1>1 DEF TwoByte
    <1>3. Meaning(e) = Inst("BitTest", <<E(e, W3264(e)), G(e, W3264(e))>>)
      BY <1>1, <1>2, TwoByteMeaning, PlainTable
    <1> QED
      BY <1>1, <1>3, SameInst2, FieldsFit, ErrorFits, ErrorSame DEF BitTestReg

\* 0F AB: BitTestReg makes what the architecture defines, or nothing.
LEMMA BitTestRegBitSetRight ==
    ASSUME NEW e, General(e), e.op = \h0F, e.op2 = \hAB, Direct(e)
    PROVE  Same(e, BitTestReg(e))
    <1>1. e \in Encodings /\ e.pre = {} /\ W163264(e) = W3264(e) /\ W3264(e) # 8
      BY GeneralFacts, Widths, Fields DEF WithOperandSize, WithGs, General, Admitted
    <1>2. TwoByte(e) = Inst("BitSet", <<E(e, W3264(e)), G(e, W3264(e))>>)
      BY <1>1 DEF TwoByte
    <1>3. Meaning(e) = Inst("BitSet", <<E(e, W3264(e)), G(e, W3264(e))>>)
      BY <1>1, <1>2, TwoByteMeaning, PlainTable
    <1> QED
      BY <1>1, <1>3, SameInst2, FieldsFit, ErrorFits, ErrorSame DEF BitTestReg

\* 0F BA /4: BitTestImm makes what the architecture defines, or nothing.
LEMMA BitTestImmBitTestRight ==
    ASSUME NEW e, General(e), e.op = \h0F, e.op2 = \hBA, e.reg = 4
    PROVE  Same(e, BitTestImm(e))
    <1>1. e \in Encodings /\ e.pre = {} /\ W163264(e) = W3264(e) /\ W3264(e) # 8
      BY GeneralFacts, Widths, Fields DEF WithOperandSize, WithGs, General, Admitted
    <1>2. TwoByte(e) = Inst("BitTest", <<E(e, W3264(e)), Count>>)
      BY <1>1 DEF TwoByte, BitGroup
    <1>3. Meaning(e) = Inst("BitTest", <<E(e, W3264(e)), Count>>)
      BY <1>1, <1>2, TwoByteMeaning, PlainTable
    <1>4. \A w : Fits(e, Mem(w, {"sib"}), E(e, w))
      BY <1>1, SafeMem
    <1> QED
      BY <1>1, <1>3, <1>4, SameImm2, SameImm, FieldsFit, ErrorFits, ErrorSame DEF BitTestImm, Only, Count

\* 0F BA /5: BitTestImm makes what the architecture defines, or nothing.
LEMMA BitTestImmBitSetRight ==
    ASSUME NEW e, General(e), e.op = \h0F, e.op2 = \hBA, e.reg = 5, Direct(e)
    PROVE  Same(e, BitTestImm(e))
    <1>1. e \in Encodings /\ e.pre = {} /\ W163264(e) = W3264(e) /\ W3264(e) # 8
      BY GeneralFacts, Widths, Fields DEF WithOperandSize, WithGs, General, Admitted
    <1>2. TwoByte(e) = Inst("BitSet", <<E(e, W3264(e)), Count>>)
      BY <1>1 DEF TwoByte, BitGroup
    <1>3. Meaning(e) = Inst("BitSet", <<E(e, W3264(e)), Count>>)
      BY <1>1, <1>2, TwoByteMeaning, PlainTable
    <1> QED
      BY <1>1, <1>3, SameImm2, SameImm, FieldsFit, ErrorFits, ErrorSame DEF BitTestImm, Only, Count

\* 0F BA /6: BitTestImm makes what the architecture defines, or nothing.
LEMMA BitTestImmBitResetRight ==
    ASSUME NEW e, General(e), e.op = \h0F, e.op2 = \hBA, e.reg = 6, Direct(e)
    PROVE  Same(e, BitTestImm(e))
    <1>1. e \in Encodings /\ e.pre = {} /\ W163264(e) = W3264(e) /\ W3264(e) # 8
      BY GeneralFacts, Widths, Fields DEF WithOperandSize, WithGs, General, Admitted
    <1>2. TwoByte(e) = Inst("BitReset", <<E(e, W3264(e)), Count>>)
      BY <1>1 DEF TwoByte, BitGroup
    <1>3. Meaning(e) = Inst("BitReset", <<E(e, W3264(e)), Count>>)
      BY <1>1, <1>2, TwoByteMeaning, PlainTable
    <1> QED
      BY <1>1, <1>3, SameImm2, SameImm, FieldsFit, ErrorFits, ErrorSame DEF BitTestImm, Only, Count

\* 0F BE: MovsxByte makes what the architecture defines, or nothing.
LEMMA MovsxByteRight ==
    ASSUME NEW e, General(e), e.op = \h0F, e.op2 = \hBE, ~KnownMisdecode(e)
    PROVE  Same(e, MovsxByte(e))
    <1>1. e \in Encodings /\ e.pre = {} /\ W163264(e) = W3264(e) /\ W3264(e) # 8 /\ e.hasRex
      BY GeneralFacts, Widths, Fields DEF WithOperandSize, WithGs, General, Admitted, WithoutRex, Plain
    <1>2. TwoByte(e) = Inst("Movsx", <<G(e, W3264(e)), E(e, 8)>>)
      BY <1>1 DEF TwoByte
    <1>3. Meaning(e) = Inst("Movsx", <<G(e, W3264(e)), E(e, 8)>>)
      BY <1>1, <1>2, TwoByteMeaning, PlainTable
    <1>4. Trusted(e, {"sib", "r13Sib", "looseX"})
      BY <1>1 DEF Trusted, KnownMisdecode, TakenForR13, TwoByteForm
    <1>5. \A w : Fits(e, Mem(w, {"sib", "r13Sib", "looseX"}), E(e, w))
      BY <1>1, <1>4, MemFits
    <1> QED
      BY <1>1, <1>3, <1>5, SameInst2, FieldsFit, ErrorFits, ErrorSame DEF MovsxByte, LegacyHigh

\* 0F: Cmov makes what the architecture defines, or nothing.
LEMMA CmovRight ==
    ASSUME NEW e, General(e), e.op = \h0F, e.op2 \in CmovOps
    PROVE  Same(e, Cmov(e))
    <1>1. e \in Encodings /\ e.pre = {} /\ W163264(e) = W3264(e) /\ W3264(e) # 8
          /\ e.op2 \in \h40 .. \h4F /\ e.op2 % 16 = e.op2 - \h40
      BY GeneralFacts, Widths, Fields DEF WithOperandSize, WithGs, General, Admitted, CmovOps, ByteConditions
    <1>2. TwoByte(e) = Cond(Inst("Cmov", <<G(e, W3264(e)), E(e, W3264(e))>>), Condition(e.op2 - \h40))
      BY <1>1 DEF TwoByte
    <1>3. Meaning(e) = Cond(Inst("Cmov", <<G(e, W3264(e)), E(e, W3264(e))>>), Condition(e.op2 - \h40))
      BY <1>1, <1>2, TwoByteMeaning, PlainTable
    <1>4. \A w : Fits(e, Mem(w, {}), E(e, w))
      BY <1>1, SafeMem
    <1> QED
      BY <1>1, <1>3, <1>4, SameCond2, FieldsFit, ErrorFits, ErrorSame DEF Cmov

\* 0F BC: ScanAndMultiply makes what the architecture defines, or nothing.
LEMMA ScanAndMultiplyBitScanForwardRight ==
    ASSUME NEW e, General(e), e.op = \h0F, e.op2 = \hBC, Direct(e)
    PROVE  Same(e, ScanAndMultiply(e))
    <1>1. e \in Encodings /\ e.pre = {} /\ W163264(e) = W3264(e) /\ W3264(e) # 8
      BY GeneralFacts, Widths, Fields DEF WithOperandSize, WithGs, General, Admitted
    <1>2. TwoByte(e) = Inst("BitScanForward", <<G(e, W3264(e)), E(e, W3264(e))>>)
      BY <1>1 DEF TwoByte
    <1>3. Meaning(e) = Inst("BitScanForward", <<G(e, W3264(e)), E(e, W3264(e))>>)
      BY <1>1, <1>2, TwoByteMeaning, PlainTable
    <1> QED
      BY <1>1, <1>3, SameInst2, Widths, FieldsFit, ErrorFits, ErrorSame DEF ScanAndMultiply

\* 0F BD: ScanAndMultiply makes what the architecture defines, or nothing.
LEMMA ScanAndMultiplyBitScanReverseRight ==
    ASSUME NEW e, General(e), e.op = \h0F, e.op2 = \hBD, Direct(e)
    PROVE  Same(e, ScanAndMultiply(e))
    <1>1. e \in Encodings /\ e.pre = {} /\ W163264(e) = W3264(e) /\ W3264(e) # 8
      BY GeneralFacts, Widths, Fields DEF WithOperandSize, WithGs, General, Admitted
    <1>2. TwoByte(e) = Inst("BitScanReverse", <<G(e, W3264(e)), E(e, W3264(e))>>)
      BY <1>1 DEF TwoByte
    <1>3. Meaning(e) = Inst("BitScanReverse", <<G(e, W3264(e)), E(e, W3264(e))>>)
      BY <1>1, <1>2, TwoByteMeaning, PlainTable
    <1> QED
      BY <1>1, <1>3, SameInst2, Widths, FieldsFit, ErrorFits, ErrorSame DEF ScanAndMultiply

\* 0F AF: ScanAndMultiply makes what the architecture defines, or nothing.
LEMMA ScanAndMultiplyImulRight ==
    ASSUME NEW e, General(e), e.op = \h0F, e.op2 = \hAF, (Direct(e) \/ W(e))
    PROVE  Same(e, ScanAndMultiply(e))
    <1>1. e \in Encodings /\ e.pre = {} /\ W163264(e) = W3264(e) /\ W3264(e) # 8
      BY GeneralFacts, Widths, Fields DEF WithOperandSize, WithGs, General, Admitted
    <1>2. TwoByte(e) = Inst("Imul", <<G(e, W3264(e)), E(e, W3264(e))>>)
      BY <1>1 DEF TwoByte
    <1>3. Meaning(e) = Inst("Imul", <<G(e, W3264(e)), E(e, W3264(e))>>)
      BY <1>1, <1>2, TwoByteMeaning, PlainTable
    <1>4. \A w : Fits(e, Mem(w, {"rip"}), E(e, w))
      BY <1>1, SafeMem
    <1> QED
      BY <1>1, <1>3, <1>4, SameInst2, Widths, FieldsFit, ErrorFits, ErrorSame DEF ScanAndMultiply

\* 0F A4: DoubleShift makes what the architecture defines, or nothing.
LEMMA DoubleShiftShldRight ==
    ASSUME NEW e, General(e), e.op = \h0F, e.op2 = \hA4, Direct(e), W(e)
    PROVE  Same(e, DoubleShift(e))
    <1>1. e \in Encodings /\ e.pre = {} /\ W163264(e) = W3264(e) /\ W3264(e) # 8 /\ W163264(e) = 64
      BY GeneralFacts, Widths, Fields DEF WithOperandSize, WithGs, General, Admitted
    <1>2. TwoByte(e) = Inst("Shld", <<E(e, 64), G(e, 64), Count>>)
      BY <1>1 DEF TwoByte
    <1>3. Meaning(e) = Inst("Shld", <<E(e, 64), G(e, 64), Count>>)
      BY <1>1, <1>2, TwoByteMeaning, PlainTable
    <1> QED
      BY <1>1, <1>3, SameImm3, SameImm, FieldsFit, ErrorFits, ErrorSame DEF DoubleShift, Count

\* 0F AC: DoubleShift makes what the architecture defines, or nothing.
LEMMA DoubleShiftShrdRight ==
    ASSUME NEW e, General(e), e.op = \h0F, e.op2 = \hAC, Direct(e), W(e)
    PROVE  Same(e, DoubleShift(e))
    <1>1. e \in Encodings /\ e.pre = {} /\ W163264(e) = W3264(e) /\ W3264(e) # 8 /\ W163264(e) = 64
      BY GeneralFacts, Widths, Fields DEF WithOperandSize, WithGs, General, Admitted
    <1>2. TwoByte(e) = Inst("Shrd", <<E(e, 64), G(e, 64), Count>>)
      BY <1>1 DEF TwoByte
    <1>3. Meaning(e) = Inst("Shrd", <<E(e, 64), G(e, 64), Count>>)
      BY <1>1, <1>2, TwoByteMeaning, PlainTable
    <1> QED
      BY <1>1, <1>3, SameImm3, SameImm, FieldsFit, ErrorFits, ErrorSame DEF DoubleShift, Count

\* 63: Op63 makes what the architecture defines, or nothing.
LEMMA Op63Right ==
    ASSUME NEW e, General(e), e.op = \h63, W(e), ~KnownMisdecode(e)
    PROVE  Same(e, Op63(e))
    <1>1. e \in Encodings /\ Scalar(e) /\ "65" \notin e.pre /\ Width(e) = 64
      BY GeneralFacts, Widths, Fields DEF WithOperandSize, WithGs
    <1>2. OneByte(e) = Inst("Movsxd", <<G(e, 64), E(e, 32)>>)
      BY <1>1 DEF OneByte
    <1>3. Meaning(e) = Inst("Movsxd", <<G(e, 64), E(e, 32)>>)
      BY <1>1, <1>2, OneByteMeaning
    <1>4. Trusted(e, {"rip", "sib", "r13Sib"})
      BY <1>1 DEF Trusted, KnownMisdecode, TakenForR13, TwoByteForm
    <1>5. \A w : Fits(e, Mem(w, {"rip", "sib", "r13Sib"}), E(e, w))
      BY <1>1, <1>4, MemFits
    <1> QED
      BY <1>1, <1>3, <1>5, SameInst2, FieldsFit, ErrorFits, ErrorSame DEF Op63, Only

\* 80: Group80AddOrReg makes what the architecture defines, or nothing.
LEMMA Group80AddOrRegRight ==
    ASSUME NEW e, General(e), e.op = \h80, Direct(e)
    PROVE  Same(e, Group80AddOrReg(e))
    <1>1. e \in Encodings /\ Scalar(e) /\ "65" \notin e.pre /\ Width(e) = 8 /\ e.reg \in 0 .. 7
      BY GeneralFacts, Widths, Fields DEF WithOperandSize, WithGs
    <1>2. OneByte(e) = Inst(Row(e.reg), <<E(e, 8), SImm(1)>>)
      BY <1>1, Rows, AluNames DEF OneByte, ImmediateGroup
    <1>3. Meaning(e) = Inst(Row(e.reg), <<E(e, 8), SImm(1)>>)
      BY <1>1, <1>2, OneByteMeaning
    <1> QED
      BY <1>1, <1>3, SameImm2, ByteImm, AluNames, FieldsFit, ErrorFits, ErrorSame DEF Group80AddOrReg, Only, Byte

\* 80: Group80XorAdcReg makes what the architecture defines, or nothing.
LEMMA Group80XorAdcRegRight ==
    ASSUME NEW e, General(e), e.op = \h80, Direct(e)
    PROVE  Same(e, Group80XorAdcReg(e))
    <1>1. e \in Encodings /\ Scalar(e) /\ "65" \notin e.pre /\ Width(e) = 8 /\ e.reg \in 0 .. 7
      BY GeneralFacts, Widths, Fields DEF WithOperandSize, WithGs
    <1>2. OneByte(e) = Inst(Row(e.reg), <<E(e, 8), SImm(1)>>)
      BY <1>1, Rows, AluNames DEF OneByte, ImmediateGroup
    <1>3. Meaning(e) = Inst(Row(e.reg), <<E(e, 8), SImm(1)>>)
      BY <1>1, <1>2, OneByteMeaning
    <1> QED
      BY <1>1, <1>3, SameImm2, ByteImm, AluNames, FieldsFit, ErrorFits, ErrorSame DEF Group80XorAdcReg, Only, Byte

\* 80 /4: Group80AndReg makes what the architecture defines, or nothing.
LEMMA Group80AndRegRight ==
    ASSUME NEW e, General(e), e.op = \h80, Direct(e), e.reg = 4
    PROVE  Same(e, Group80AndReg(e))
    <1>1. e \in Encodings /\ Scalar(e) /\ "65" \notin e.pre /\ Width(e) = 8
      BY GeneralFacts, Widths, Fields DEF WithOperandSize, WithGs
    <1>2. OneByte(e) = Inst("And", <<E(e, 8), SImm(1)>>)
      BY <1>1, Rows, AluNames DEF OneByte, ImmediateGroup
    <1>3. Meaning(e) = Inst("And", <<E(e, 8), SImm(1)>>)
      BY <1>1, <1>2, OneByteMeaning
    <1> QED
      BY <1>1, <1>3, SameImm2, ByteImm, FieldsFit, ErrorFits, ErrorSame DEF Group80AndReg, Only, HighOrLow

\* 80 /1: Group80Or makes what the architecture defines, or nothing.
LEMMA Group80OrRight ==
    ASSUME NEW e, General(e), e.op = \h80, e.reg = 1
    PROVE  Same(e, Group80Or(e))
    <1>1. e \in Encodings /\ Scalar(e) /\ "65" \notin e.pre /\ Width(e) = 8
      BY GeneralFacts, Widths, Fields DEF WithOperandSize, WithGs
    <1>2. OneByte(e) = Inst("Or", <<E(e, 8), SImm(1)>>)
      BY <1>1, Rows, AluNames DEF OneByte, ImmediateGroup
    <1>3. Meaning(e) = Inst("Or", <<E(e, 8), SImm(1)>>)
      BY <1>1, <1>2, OneByteMeaning
    <1>4. \A w : Fits(e, Mem(w, {"rip", "ripB", "plainSib", "scale1"}), E(e, w))
      BY <1>1, SafeMem
    <1> QED
      BY <1>1, <1>3, <1>4, SameImm2, ByteImm, FieldsFit, ErrorFits, ErrorSame DEF Group80Or

\* 80 /4: Group80And makes what the architecture defines, or nothing.
LEMMA Group80AndRight ==
    ASSUME NEW e, General(e), e.op = \h80, e.reg = 4
    PROVE  Same(e, Group80And(e))
    <1>1. e \in Encodings /\ Scalar(e) /\ "65" \notin e.pre /\ Width(e) = 8
      BY GeneralFacts, Widths, Fields DEF WithOperandSize, WithGs
    <1>2. OneByte(e) = Inst("And", <<E(e, 8), SImm(1)>>)
      BY <1>1, Rows, AluNames DEF OneByte, ImmediateGroup
    <1>3. Meaning(e) = Inst("And", <<E(e, 8), SImm(1)>>)
      BY <1>1, <1>2, OneByteMeaning
    <1>4. \A w : Fits(e, Mem(w, {"rip", "ripB", "sib", "noBase"}), E(e, w))
      BY <1>1, SafeMem
    <1> QED
      BY <1>1, <1>3, <1>4, SameImm2, ByteImm, FieldsFit, ErrorFits, ErrorSame DEF Group80And, Only

\* 80 /7: Group80Cmp makes what the architecture defines, or nothing.
LEMMA Group80CmpRight ==
    ASSUME NEW e, General(e), e.op = \h80, e.reg = 7
    PROVE  Same(e, Group80Cmp(e))
    <1>1. e \in Encodings /\ Scalar(e) /\ "65" \notin e.pre /\ Width(e) = 8
      BY GeneralFacts, Widths, Fields DEF WithOperandSize, WithGs
    <1>2. OneByte(e) = Inst("Cmp", <<E(e, 8), SImm(1)>>)
      BY <1>1, Rows, AluNames DEF OneByte, ImmediateGroup
    <1>3. Meaning(e) = Inst("Cmp", <<E(e, 8), SImm(1)>>)
      BY <1>1, <1>2, OneByteMeaning
    <1>4. \A w : Fits(e, Mem(w, {"rip", "ripB", "sib"}), E(e, w))
      BY <1>1, SafeMem
    <1> QED
      BY <1>1, <1>3, <1>4, SameImm2, ByteImm, FieldsFit, ErrorFits, ErrorSame DEF Group80Cmp, Only, HighOrLow

\* 81: Group81Reg makes what the architecture defines, or nothing.
LEMMA Group81RegRight ==
    ASSUME NEW e, General(e), e.op = \h81, Direct(e)
    PROVE  Same(e, Group81Reg(e))
    <1>1. e \in Encodings /\ Scalar(e) /\ "65" \notin e.pre /\ Width(e) = W3264(e) /\ Width(e) # 8 /\ e.reg \in 0 .. 7
      BY GeneralFacts, Widths, Fields DEF WithOperandSize, WithGs
    <1>2. OneByte(e) = Inst(Row(e.reg), <<E(e, W3264(e)), ImmZ(W3264(e))>>)
      BY <1>1, Rows, AluNames DEF OneByte, ImmediateGroup
    <1>3. Meaning(e) = Inst(Row(e.reg), <<E(e, W3264(e)), ImmZ(W3264(e))>>)
      BY <1>1, <1>2, OneByteMeaning
    <1> QED
      BY <1>1, <1>3, SameImm2, Imm32Follows, AluNames, FieldsFit, ErrorFits, ErrorSame DEF Group81Reg, Only

\* 81 /7: Group81Cmp makes what the architecture defines, or nothing.
LEMMA Group81CmpRight ==
    ASSUME NEW e, General(e), e.op = \h81, e.reg = 7
    PROVE  Same(e, Group81Cmp(e))
    <1>1. e \in Encodings /\ Scalar(e) /\ "65" \notin e.pre /\ Width(e) = W3264(e) /\ Width(e) # 8 /\ e.reg \in 0 .. 7 /\ Row(7) = "Cmp"
      BY GeneralFacts, Widths, Fields DEF WithOperandSize, WithGs, Row
    <1>2. OneByte(e) = Inst(Row(e.reg), <<E(e, W3264(e)), ImmZ(W3264(e))>>)
      BY <1>1, Rows, AluNames DEF OneByte, ImmediateGroup
    <1>3. Meaning(e) = Inst(Row(e.reg), <<E(e, W3264(e)), ImmZ(W3264(e))>>)
      BY <1>1, <1>2, OneByteMeaning
    <1>4. \A w : Fits(e, Mem(w, {"rip", "sib", "looseX"}), E(e, w))
      BY <1>1, SafeMem
    <1> QED
      BY <1>1, <1>3, <1>4, SameImm2, Imm32Follows, AluNames, FieldsFit, ErrorFits, ErrorSame DEF Group81Cmp, Only

\* 81: Group81Logic makes what the architecture defines, or nothing.
LEMMA Group81LogicRight ==
    ASSUME NEW e, General(e), e.op = \h81
    PROVE  Same(e, Group81Logic(e))
    <1>1. e \in Encodings /\ Scalar(e) /\ "65" \notin e.pre /\ Width(e) = W3264(e) /\ Width(e) # 8 /\ e.reg \in 0 .. 7
      BY GeneralFacts, Widths, Fields DEF WithOperandSize, WithGs
    <1>2. OneByte(e) = Inst(Row(e.reg), <<E(e, W3264(e)), ImmZ(W3264(e))>>)
      BY <1>1, Rows, AluNames DEF OneByte, ImmediateGroup
    <1>3. Meaning(e) = Inst(Row(e.reg), <<E(e, W3264(e)), ImmZ(W3264(e))>>)
      BY <1>1, <1>2, OneByteMeaning
    <1>4. \A w : Fits(e, Mem(w, {"sib", "looseX"}), E(e, w))
      BY <1>1, SafeMem
    <1> QED
      BY <1>1, <1>3, <1>4, SameImm2, Imm32Follows, AluNames, FieldsFit, ErrorFits, ErrorSame DEF Group81Logic, Only

\* 83: Group83Reg makes what the architecture defines, or nothing.
LEMMA Group83RegRight ==
    ASSUME NEW e, General(e), e.op = \h83, Direct(e)
    PROVE  Same(e, Group83Reg(e))
    <1>1. e \in Encodings /\ Scalar(e) /\ "65" \notin e.pre /\ Width(e) = W3264(e) /\ Width(e) # 8 /\ e.reg \in 0 .. 7
      BY GeneralFacts, Widths, Fields DEF WithOperandSize, WithGs
    <1>2. OneByte(e) = Inst(Row(e.reg), <<E(e, W3264(e)), SImm(1)>>)
      BY <1>1, Rows, AluNames DEF OneByte, ImmediateGroup
    <1>3. Meaning(e) = Inst(Row(e.reg), <<E(e, W3264(e)), SImm(1)>>)
      BY <1>1, <1>2, OneByteMeaning
    <1> QED
      BY <1>1, <1>3, SameImm2, SameImm, AluNames, Rows, FieldsFit, ErrorFits, ErrorSame DEF Group83Reg, Only

\* 83 /4: Group83And makes what the architecture defines, or nothing.
LEMMA Group83AndRight ==
    ASSUME NEW e, General(e), e.op = \h83, e.reg = 4, ~KnownMisdecode(e)
    PROVE  Same(e, Group83And(e))
    <1>1. e \in Encodings /\ Scalar(e) /\ "65" \notin e.pre /\ Width(e) = W3264(e) /\ Width(e) # 8 /\ e.reg \in 0 .. 7
      BY GeneralFacts, Widths, Fields DEF WithOperandSize, WithGs
    <1>2. OneByte(e) = Inst(Row(e.reg), <<E(e, W3264(e)), SImm(1)>>)
      BY <1>1, Rows, AluNames DEF OneByte, ImmediateGroup
    <1>3. Meaning(e) = Inst(Row(e.reg), <<E(e, W3264(e)), SImm(1)>>)
      BY <1>1, <1>2, OneByteMeaning
    <1>4. Trusted(e, (IF W(e) THEN {"r13", "plainSib", "looseX"}
                                              ELSE {"rip", "r13", "plainSib", "looseX"}))
      BY <1>1 DEF Trusted, KnownMisdecode, TakenForR13, TwoByteForm
    <1>5. \A w : Fits(e, Mem(w, (IF W(e) THEN {"r13", "plainSib", "looseX"}
                                              ELSE {"rip", "r13", "plainSib", "looseX"})), E(e, w))
      BY <1>1, <1>4, MemFits
    <1> QED
      BY <1>1, <1>3, <1>5, SameImm2, SameImm, AluNames, Rows, FieldsFit, ErrorFits, ErrorSame DEF Group83And, Only

\* 83: Group83AddOr makes what the architecture defines, or nothing.
LEMMA Group83AddOrRight ==
    ASSUME NEW e, General(e), e.op = \h83, e.reg \in {0, 1}, ~KnownMisdecode(e)
    PROVE  Same(e, Group83AddOr(e))
    <1>1. e \in Encodings /\ Scalar(e) /\ "65" \notin e.pre /\ Width(e) = W3264(e) /\ Width(e) # 8 /\ e.reg \in 0 .. 7
      BY GeneralFacts, Widths, Fields DEF WithOperandSize, WithGs
    <1>2. OneByte(e) = Inst(Row(e.reg), <<E(e, W3264(e)), SImm(1)>>)
      BY <1>1, Rows, AluNames DEF OneByte, ImmediateGroup
    <1>3. Meaning(e) = Inst(Row(e.reg), <<E(e, W3264(e)), SImm(1)>>)
      BY <1>1, <1>2, OneByteMeaning
    <1>4. Trusted(e, {"rip", "r13", "plainSib", "looseX"})
      BY <1>1 DEF Trusted, KnownMisdecode, TakenForR13, TwoByteForm
    <1>5. \A w : Fits(e, Mem(w, {"rip", "r13", "plainSib", "looseX"}), E(e, w))
      BY <1>1, <1>4, MemFits
    <1> QED
      BY <1>1, <1>3, <1>5, SameImm2, SameImm, AluNames, Rows, FieldsFit, ErrorFits, ErrorSame DEF Group83AddOr, Only

\* 83 /5: Group83Sub makes what the architecture defines, or nothing.
LEMMA Group83SubRight ==
    ASSUME NEW e, General(e), e.op = \h83, e.reg = 5
    PROVE  Same(e, Group83Sub(e))
    <1>1. e \in Encodings /\ Scalar(e) /\ "65" \notin e.pre /\ Width(e) = W3264(e) /\ Width(e) # 8 /\ e.reg \in 0 .. 7
      BY GeneralFacts, Widths, Fields DEF WithOperandSize, WithGs
    <1>2. OneByte(e) = Inst(Row(e.reg), <<E(e, W3264(e)), SImm(1)>>)
      BY <1>1, Rows, AluNames DEF OneByte, ImmediateGroup
    <1>3. Meaning(e) = Inst(Row(e.reg), <<E(e, W3264(e)), SImm(1)>>)
      BY <1>1, <1>2, OneByteMeaning
    <1>4. \A w : Fits(e, Mem(w, {"rip", "ripB", "sib", "noBase", "looseX"}), E(e, w))
      BY <1>1, SafeMem
    <1> QED
      BY <1>1, <1>3, <1>4, SameImm2, SameImm, AluNames, Rows, FieldsFit, ErrorFits, ErrorSame DEF Group83Sub, Only, decodeModrmMemory

\* 83 /7: Group83Cmp makes what the architecture defines, or nothing.
LEMMA Group83CmpRight ==
    ASSUME NEW e, General(e), e.op = \h83, e.reg = 7, ~KnownMisdecode(e)
    PROVE  Same(e, Group83Cmp(e))
    <1>1. e \in Encodings /\ Scalar(e) /\ "65" \notin e.pre /\ Width(e) = W3264(e) /\ Width(e) # 8 /\ e.reg \in 0 .. 7
      BY GeneralFacts, Widths, Fields DEF WithOperandSize, WithGs
    <1>2. OneByte(e) = Inst(Row(e.reg), <<E(e, W3264(e)), SImm(1)>>)
      BY <1>1, Rows, AluNames DEF OneByte, ImmediateGroup
    <1>3. Meaning(e) = Inst(Row(e.reg), <<E(e, W3264(e)), SImm(1)>>)
      BY <1>1, <1>2, OneByteMeaning
    <1>4. Trusted(e, {"rip", "r13", "sib", "looseX"})
      BY <1>1 DEF Trusted, KnownMisdecode, TakenForR13, TwoByteForm
    <1>5. \A w : Fits(e, Mem(w, {"rip", "r13", "sib", "looseX"}), E(e, w))
      BY <1>1, <1>4, MemFits
    <1> QED
      BY <1>1, <1>3, <1>5, SameImm2, SameImm, AluNames, Rows, FieldsFit, ErrorFits, ErrorSame DEF Group83Cmp, Only

\* 84: Op84 makes what the architecture defines, or nothing.
LEMMA Op84Right ==
    ASSUME NEW e, General(e), e.op = \h84, ~KnownMisdecode(e)
    PROVE  Same(e, Op84(e))
    <1>1. e \in Encodings /\ Scalar(e) /\ "65" \notin e.pre /\ Width(e) = 8
      BY GeneralFacts, Widths, Fields DEF WithOperandSize, WithGs
    <1>2. OneByte(e) = Inst("Test", <<E(e, 8), G(e, 8)>>)
      BY <1>1 DEF OneByte
    <1>3. Meaning(e) = Inst("Test", <<E(e, 8), G(e, 8)>>)
      BY <1>1, <1>2, OneByteMeaning
    <1>4. Trusted(e, {"rip", "r13", "sib", "noBase", "r13Sib"})
      BY <1>1 DEF Trusted, KnownMisdecode, TakenForR13, TwoByteForm
    <1>5. \A w : Fits(e, Mem(w, {"rip", "r13", "sib", "noBase", "r13Sib"}), E(e, w))
      BY <1>1, <1>4, MemFits
    <1> QED
      BY <1>1, <1>3, <1>5, SameInst2, FieldsFit, ErrorFits, ErrorSame DEF Op84, Byte, Only

\* 85: Op85 makes what the architecture defines, or nothing.
LEMMA Op85Right ==
    ASSUME NEW e, General(e), e.op = \h85, ~KnownMisdecode(e)
    PROVE  Same(e, Op85(e))
    <1>1. e \in Encodings /\ Scalar(e) /\ "65" \notin e.pre /\ Width(e) = W3264(e) /\ Width(e) # 8
      BY GeneralFacts, Widths, Fields DEF WithOperandSize, WithGs
    <1>2. OneByte(e) = Inst("Test", <<E(e, W3264(e)), G(e, W3264(e))>>)
      BY <1>1 DEF OneByte
    <1>3. Meaning(e) = Inst("Test", <<E(e, W3264(e)), G(e, W3264(e))>>)
      BY <1>1, <1>2, OneByteMeaning
    <1>4. Trusted(e, {"rip", "r13", "sib", "noBase", "r13Sib"})
      BY <1>1 DEF Trusted, KnownMisdecode, TakenForR13, TwoByteForm
    <1>5. \A w : Fits(e, Mem(w, {"rip", "r13", "sib", "noBase", "r13Sib"}), E(e, w))
      BY <1>1, <1>4, MemFits
    <1>6. CASE Direct(e)
      <2> DEFINE rm == IF X(e) THEN Error ELSE RmField(e, W3264(e))
      <2>1. Fits(e, rm, E(e, W3264(e)))
        BY <1>1, <1>6, FieldsFit, ErrorFits
      <2>2. Fits(e, RegField(e, W3264(e)), G(e, W3264(e)))
        BY <1>1, FieldsFit
      <2>3. Op85(e) = Inst("Test", <<rm, RegField(e, W3264(e))>>)
        BY <1>6, Zenon DEF Op85
      <2> HIDE DEF rm
      <2> QED
        BY <1>1, <1>3, <2>1, <2>2, <2>3, SameInst2
    <1>7. CASE ~Direct(e)
      BY <1>1, <1>3, <1>5, <1>7, SameInst2, FieldsFit DEF Op85
    <1> QED
      BY <1>6, <1>7

\* 86: Op86 makes what the architecture defines, or nothing.
LEMMA Op86Right ==
    ASSUME NEW e, General(e), e.op = \h86
    PROVE  Same(e, Op86(e))
    <1>1. e \in Encodings /\ Scalar(e) /\ "65" \notin e.pre /\ Width(e) = 8
      BY GeneralFacts, Widths, Fields DEF WithOperandSize, WithGs
    <1>2. OneByte(e) = Inst("Xchg", <<E(e, 8), G(e, 8)>>)
      BY <1>1 DEF OneByte
    <1>3. Meaning(e) = Inst("Xchg", <<E(e, 8), G(e, 8)>>)
      BY <1>1, <1>2, OneByteMeaning
    <1>4. \A w : Fits(e, Mem(w, {"rip", "sib", "ripX"}), E(e, w))
      BY <1>1, SafeMem
    <1> QED
      BY <1>1, <1>3, <1>4, SameInst2, FieldsFit, ErrorFits, ErrorSame DEF Op86, Byte, Only

\* 87: Op87 makes what the architecture defines, or nothing.
LEMMA Op87Right ==
    ASSUME NEW e, General(e), e.op = \h87
    PROVE  Same(e, Op87(e))
    <1>1. e \in Encodings /\ Scalar(e) /\ "65" \notin e.pre /\ Width(e) = W3264(e) /\ Width(e) # 8
      BY GeneralFacts, Widths, Fields DEF WithOperandSize, WithGs
    <1>2. OneByte(e) = Inst("Xchg", <<E(e, W3264(e)), G(e, W3264(e))>>)
      BY <1>1 DEF OneByte
    <1>3. Meaning(e) = Inst("Xchg", <<E(e, W3264(e)), G(e, W3264(e))>>)
      BY <1>1, <1>2, OneByteMeaning
    <1>4. \A w : Fits(e, Mem(w, {"rip", "sib", "ripX"}), E(e, w))
      BY <1>1, SafeMem
    <1> QED
      BY <1>1, <1>3, <1>4, SameInst2, FieldsFit, ErrorFits, ErrorSame DEF Op87

\* 88: Op88 makes what the architecture defines, or nothing.
LEMMA Op88Right ==
    ASSUME NEW e, General(e), e.op = \h88
    PROVE  Same(e, Op88(e))
    <1>1. e \in Encodings /\ Scalar(e) /\ "65" \notin e.pre /\ Width(e) = 8
      BY GeneralFacts, Widths, Fields DEF WithOperandSize, WithGs
    <1>2. OneByte(e) = Inst("Mov", <<E(e, 8), G(e, 8)>>)
      BY <1>1 DEF OneByte
    <1>3. Meaning(e) = Inst("Mov", <<E(e, 8), G(e, 8)>>)
      BY <1>1, <1>2, OneByteMeaning
    <1>4. \A w : Fits(e, Mem(w, {"rip", "ripB", "sib", "looseX"}), E(e, w))
      BY <1>1, SafeMem
    <1> QED
      BY <1>1, <1>3, <1>4, SameInst2, FieldsFit, ErrorFits, ErrorSame DEF Op88, Byte2, Only

\* 8A: Op8A makes what the architecture defines, or nothing.
LEMMA Op8ARight ==
    ASSUME NEW e, General(e), e.op = \h8A
    PROVE  Same(e, Op8A(e))
    <1>1. e \in Encodings /\ Scalar(e) /\ "65" \notin e.pre /\ Width(e) = 8
      BY GeneralFacts, Widths, Fields DEF WithOperandSize, WithGs
    <1>2. OneByte(e) = Inst("Mov", <<G(e, 8), E(e, 8)>>)
      BY <1>1 DEF OneByte
    <1>3. Meaning(e) = Inst("Mov", <<G(e, 8), E(e, 8)>>)
      BY <1>1, <1>2, OneByteMeaning
    <1>4. \A w : Fits(e, Mem(w, {"rip", "ripB", "sib", "looseX"}), E(e, w))
      BY <1>1, SafeMem
    <1> QED
      BY <1>1, <1>3, <1>4, SameInst2, FieldsFit, ErrorFits, ErrorSame DEF Op8A, Byte, Only

\* 89: Op89And8B makes what the architecture defines, or nothing.
LEMMA Op89And8BStoreRight ==
    ASSUME NEW e, General(e), e.op = \h89
    PROVE  Same(e, Op89And8B(e))
    <1>1. e \in Encodings /\ Scalar(e) /\ Width(e) = W163264(e) /\ Width(e) # 8
      BY GeneralFacts, Widths, Fields DEF WithOperandSize, WithGs
    <1>2. OneByte(e) = Inst("Mov", <<E(e, W163264(e)), G(e, W163264(e))>>)
      BY <1>1 DEF OneByte
    <1>3. Meaning(e) = Inst("Mov", <<E(e, W163264(e)), G(e, W163264(e))>>)
      BY <1>1, <1>2, OneByteMeaning
    <1>4. \A w : Fits(e, Mem(w, {"rip", "ripB", "sib", "noBase", "looseX", "gs"}), E(e, w))
      BY <1>1, SafeMem
    <1> QED
      BY <1>1, <1>3, <1>4, SameInst2, FieldsFit, ErrorFits, ErrorSame DEF Op89And8B

\* 8B: Op89And8B makes what the architecture defines, or nothing.
LEMMA Op89And8BLoadRight ==
    ASSUME NEW e, General(e), e.op = \h8B
    PROVE  Same(e, Op89And8B(e))
    <1>1. e \in Encodings /\ Scalar(e) /\ Width(e) = W163264(e) /\ Width(e) # 8
      BY GeneralFacts, Widths, Fields DEF WithOperandSize, WithGs
    <1>2. OneByte(e) = Inst("Mov", <<G(e, W163264(e)), E(e, W163264(e))>>)
      BY <1>1 DEF OneByte
    <1>3. Meaning(e) = Inst("Mov", <<G(e, W163264(e)), E(e, W163264(e))>>)
      BY <1>1, <1>2, OneByteMeaning
    <1>4. \A w : Fits(e, Mem(w, {"rip", "ripB", "sib", "noBase", "looseX", "gs"}), E(e, w))
      BY <1>1, SafeMem
    <1> QED
      BY <1>1, <1>3, <1>4, SameInst2, FieldsFit, ErrorFits, ErrorSame DEF Op89And8B

\* 8D: Op8D makes what the architecture defines, or nothing.
LEMMA Op8DRight ==
    ASSUME NEW e, General(e), e.op = \h8D
    PROVE  Same(e, Op8D(e))
    <1>1. e \in Encodings /\ Scalar(e) /\ "65" \notin e.pre /\ Width(e) = W3264(e) /\ Width(e) # 8
      BY GeneralFacts, Widths, Fields DEF WithOperandSize, WithGs
    <1>2. OneByte(e) = Inst("Lea", <<G(e, W3264(e)), M(e, 64)>>)
      BY <1>1 DEF OneByte
    <1>3. Meaning(e) = Inst("Lea", <<G(e, W3264(e)), M(e, 64)>>)
      BY <1>1, <1>2, OneByteMeaning
    <1>4. \A w : Fits(e, Mem(w, {"rip", "sib", "noBase"}), M(e, w))
      BY <1>1, SafeMem
    <1> QED
      BY <1>1, <1>3, <1>4, SameInst2, FieldsFit, ErrorFits, ErrorSame DEF Op8D

\* C0 /4: OpC0 makes what the architecture defines, or nothing.
LEMMA OpC0ShlRight ==
    ASSUME NEW e, General(e), e.op = \hC0, e.reg = 4
    PROVE  Same(e, OpC0(e))
    <1>1. e \in Encodings /\ Scalar(e) /\ "65" \notin e.pre /\ Width(e) = 8
      BY GeneralFacts, Widths, Fields DEF WithOperandSize, WithGs
    <1>2. OneByte(e) = Inst("Shl", <<E(e, 8), Count>>)
      BY <1>1 DEF OneByte, Shift, ShiftGroup
    <1>3. Meaning(e) = Inst("Shl", <<E(e, 8), Count>>)
      BY <1>1, <1>2, OneByteMeaning
    <1> QED
      BY <1>1, <1>3, SameImm2, SameImm, FieldsFit, ErrorFits, ErrorSame DEF OpC0, Only, Byte, Count

\* C0 /5: OpC0 makes what the architecture defines, or nothing.
LEMMA OpC0ShrRight ==
    ASSUME NEW e, General(e), e.op = \hC0, e.reg = 5
    PROVE  Same(e, OpC0(e))
    <1>1. e \in Encodings /\ Scalar(e) /\ "65" \notin e.pre /\ Width(e) = 8
      BY GeneralFacts, Widths, Fields DEF WithOperandSize, WithGs
    <1>2. OneByte(e) = Inst("Shr", <<E(e, 8), Count>>)
      BY <1>1 DEF OneByte, Shift, ShiftGroup
    <1>3. Meaning(e) = Inst("Shr", <<E(e, 8), Count>>)
      BY <1>1, <1>2, OneByteMeaning
    <1> QED
      BY <1>1, <1>3, SameImm2, SameImm, FieldsFit, ErrorFits, ErrorSame DEF OpC0, Only, Byte, Count

\* C1 /0: OpC1 makes what the architecture defines, or nothing.
LEMMA OpC1RolRight ==
    ASSUME NEW e, General(e), e.op = \hC1, e.reg = 0
    PROVE  Same(e, OpC1(e))
    <1>1. e \in Encodings /\ Scalar(e) /\ "65" \notin e.pre /\ Width(e) = W3264(e) /\ Width(e) # 8
      BY GeneralFacts, Widths, Fields DEF WithOperandSize, WithGs
    <1>2. OneByte(e) = Inst("Rol", <<E(e, W3264(e)), Count>>)
      BY <1>1 DEF OneByte, Shift, ShiftGroup
    <1>3. Meaning(e) = Inst("Rol", <<E(e, W3264(e)), Count>>)
      BY <1>1, <1>2, OneByteMeaning
    <1> QED
      BY <1>1, <1>3, SameImm2, SameImm, Widths, FieldsFit, ErrorFits, ErrorSame DEF OpC1, Count, ShiftName

\* C1 /1: OpC1 makes what the architecture defines, or nothing.
LEMMA OpC1RorRight ==
    ASSUME NEW e, General(e), e.op = \hC1, e.reg = 1
    PROVE  Same(e, OpC1(e))
    <1>1. e \in Encodings /\ Scalar(e) /\ "65" \notin e.pre /\ Width(e) = W3264(e) /\ Width(e) # 8
      BY GeneralFacts, Widths, Fields DEF WithOperandSize, WithGs
    <1>2. OneByte(e) = Inst("Ror", <<E(e, W3264(e)), Count>>)
      BY <1>1 DEF OneByte, Shift, ShiftGroup
    <1>3. Meaning(e) = Inst("Ror", <<E(e, W3264(e)), Count>>)
      BY <1>1, <1>2, OneByteMeaning
    <1> QED
      BY <1>1, <1>3, SameImm2, SameImm, Widths, FieldsFit, ErrorFits, ErrorSame DEF OpC1, Count, ShiftName

\* C1 /4: OpC1 makes what the architecture defines, or nothing.
LEMMA OpC1ShlRight ==
    ASSUME NEW e, General(e), e.op = \hC1, e.reg = 4
    PROVE  Same(e, OpC1(e))
    <1>1. e \in Encodings /\ Scalar(e) /\ "65" \notin e.pre /\ Width(e) = W3264(e) /\ Width(e) # 8
      BY GeneralFacts, Widths, Fields DEF WithOperandSize, WithGs
    <1>2. OneByte(e) = Inst("Shl", <<E(e, W3264(e)), Count>>)
      BY <1>1 DEF OneByte, Shift, ShiftGroup
    <1>3. Meaning(e) = Inst("Shl", <<E(e, W3264(e)), Count>>)
      BY <1>1, <1>2, OneByteMeaning
    <1>4. \A w : Fits(e, Mem(w, {}), E(e, w))
      BY <1>1, SafeMem
    <1> QED
      BY <1>1, <1>3, <1>4, SameImm2, SameImm, Widths, FieldsFit, ErrorFits, ErrorSame DEF OpC1, Count, ShiftName

\* C1 /5: OpC1 makes what the architecture defines, or nothing.
LEMMA OpC1ShrRight ==
    ASSUME NEW e, General(e), e.op = \hC1, e.reg = 5
    PROVE  Same(e, OpC1(e))
    <1>1. e \in Encodings /\ Scalar(e) /\ "65" \notin e.pre /\ Width(e) = W3264(e) /\ Width(e) # 8
      BY GeneralFacts, Widths, Fields DEF WithOperandSize, WithGs
    <1>2. OneByte(e) = Inst("Shr", <<E(e, W3264(e)), Count>>)
      BY <1>1 DEF OneByte, Shift, ShiftGroup
    <1>3. Meaning(e) = Inst("Shr", <<E(e, W3264(e)), Count>>)
      BY <1>1, <1>2, OneByteMeaning
    <1>4. \A w : Fits(e, Mem(w, {}), E(e, w))
      BY <1>1, SafeMem
    <1> QED
      BY <1>1, <1>3, <1>4, SameImm2, SameImm, Widths, FieldsFit, ErrorFits, ErrorSame DEF OpC1, Count, ShiftName

\* C1 /7: OpC1 makes what the architecture defines, or nothing.
LEMMA OpC1SarRight ==
    ASSUME NEW e, General(e), e.op = \hC1, e.reg = 7
    PROVE  Same(e, OpC1(e))
    <1>1. e \in Encodings /\ Scalar(e) /\ "65" \notin e.pre /\ Width(e) = W3264(e) /\ Width(e) # 8
      BY GeneralFacts, Widths, Fields DEF WithOperandSize, WithGs
    <1>2. OneByte(e) = Inst("Sar", <<E(e, W3264(e)), Count>>)
      BY <1>1 DEF OneByte, Shift, ShiftGroup
    <1>3. Meaning(e) = Inst("Sar", <<E(e, W3264(e)), Count>>)
      BY <1>1, <1>2, OneByteMeaning
    <1> QED
      BY <1>1, <1>3, SameImm2, SameImm, Widths, FieldsFit, ErrorFits, ErrorSame DEF OpC1, Count, ShiftName

\* D0 /5: OpD0 makes what the architecture defines, or nothing.
LEMMA OpD0Right ==
    ASSUME NEW e, General(e), e.op = \hD0, e.reg = 5
    PROVE  Same(e, OpD0(e))
    <1>1. e \in Encodings /\ Scalar(e) /\ "65" \notin e.pre /\ Width(e) = 8
      BY GeneralFacts, Widths, Fields DEF WithOperandSize, WithGs
    <1>2. OneByte(e) = Inst("Shr", <<E(e, 8), One>>)
      BY <1>1 DEF OneByte, Shift, ShiftGroup
    <1>3. Meaning(e) = Inst("Shr", <<E(e, 8), One>>)
      BY <1>1, <1>2, OneByteMeaning
    <1> QED
      BY <1>1, <1>3, SameImm2, SameImm, FieldsFit, ErrorFits, ErrorSame DEF OpD0, Only, Byte

\* D1 /0: OpD1 makes what the architecture defines, or nothing.
LEMMA OpD1RolRight ==
    ASSUME NEW e, General(e), e.op = \hD1, e.reg = 0
    PROVE  Same(e, OpD1(e))
    <1>1. e \in Encodings /\ Scalar(e) /\ "65" \notin e.pre /\ Width(e) = W3264(e) /\ Width(e) # 8
      BY GeneralFacts, Widths, Fields DEF WithOperandSize, WithGs
    <1>2. OneByte(e) = Inst("Rol", <<E(e, W3264(e)), One>>)
      BY <1>1 DEF OneByte, Shift, ShiftGroup
    <1>3. Meaning(e) = Inst("Rol", <<E(e, W3264(e)), One>>)
      BY <1>1, <1>2, OneByteMeaning
    <1> QED
      BY <1>1, <1>3, SameImm2, SameImm, FieldsFit, ErrorFits, ErrorSame DEF OpD1, Only, ShiftName

\* D1 /5: OpD1 makes what the architecture defines, or nothing.
LEMMA OpD1ShrRight ==
    ASSUME NEW e, General(e), e.op = \hD1, e.reg = 5
    PROVE  Same(e, OpD1(e))
    <1>1. e \in Encodings /\ Scalar(e) /\ "65" \notin e.pre /\ Width(e) = W3264(e) /\ Width(e) # 8
      BY GeneralFacts, Widths, Fields DEF WithOperandSize, WithGs
    <1>2. OneByte(e) = Inst("Shr", <<E(e, W3264(e)), One>>)
      BY <1>1 DEF OneByte, Shift, ShiftGroup
    <1>3. Meaning(e) = Inst("Shr", <<E(e, W3264(e)), One>>)
      BY <1>1, <1>2, OneByteMeaning
    <1> QED
      BY <1>1, <1>3, SameImm2, SameImm, FieldsFit, ErrorFits, ErrorSame DEF OpD1, Only, ShiftName

\* D1 /7: OpD1 makes what the architecture defines, or nothing.
LEMMA OpD1SarRight ==
    ASSUME NEW e, General(e), e.op = \hD1, e.reg = 7
    PROVE  Same(e, OpD1(e))
    <1>1. e \in Encodings /\ Scalar(e) /\ "65" \notin e.pre /\ Width(e) = W3264(e) /\ Width(e) # 8
      BY GeneralFacts, Widths, Fields DEF WithOperandSize, WithGs
    <1>2. OneByte(e) = Inst("Sar", <<E(e, W3264(e)), One>>)
      BY <1>1 DEF OneByte, Shift, ShiftGroup
    <1>3. Meaning(e) = Inst("Sar", <<E(e, W3264(e)), One>>)
      BY <1>1, <1>2, OneByteMeaning
    <1> QED
      BY <1>1, <1>3, SameImm2, SameImm, FieldsFit, ErrorFits, ErrorSame DEF OpD1, Only, ShiftName

\* D2 /4: OpD2 makes what the architecture defines, or nothing.
LEMMA OpD2Right ==
    ASSUME NEW e, General(e), e.op = \hD2, e.reg = 4
    PROVE  Same(e, OpD2(e))
    <1>1. e \in Encodings /\ Scalar(e) /\ "65" \notin e.pre /\ Width(e) = 8
      BY GeneralFacts, Widths, Fields DEF WithOperandSize, WithGs
    <1>2. OneByte(e) = Inst("ShlCl", <<E(e, 8)>>)
      BY <1>1 DEF OneByte, Shift, ShiftClGroup
    <1>3. Meaning(e) = Inst("ShlCl", <<E(e, 8)>>)
      BY <1>1, <1>2, OneByteMeaning
    <1> QED
      BY <1>1, <1>3, SameInst1, FieldsFit, ErrorFits, ErrorSame DEF OpD2, Only, Byte

\* D3 /0: OpD3 makes what the architecture defines, or nothing.
LEMMA OpD3RolRight ==
    ASSUME NEW e, General(e), e.op = \hD3, e.reg = 0
    PROVE  Same(e, OpD3(e))
    <1>1. e \in Encodings /\ Scalar(e) /\ "65" \notin e.pre /\ Width(e) = W3264(e) /\ Width(e) # 8
      BY GeneralFacts, Widths, Fields DEF WithOperandSize, WithGs
    <1>2. OneByte(e) = Inst("RolCl", <<E(e, W3264(e))>>)
      BY <1>1 DEF OneByte, Shift, ShiftClGroup
    <1>3. Meaning(e) = Inst("RolCl", <<E(e, W3264(e))>>)
      BY <1>1, <1>2, OneByteMeaning
    <1> QED
      BY <1>1, <1>3, SameInst1, FieldsFit, ErrorFits, ErrorSame DEF OpD3, Only

\* D3 /1: OpD3 makes what the architecture defines, or nothing.
LEMMA OpD3RorRight ==
    ASSUME NEW e, General(e), e.op = \hD3, e.reg = 1
    PROVE  Same(e, OpD3(e))
    <1>1. e \in Encodings /\ Scalar(e) /\ "65" \notin e.pre /\ Width(e) = W3264(e) /\ Width(e) # 8
      BY GeneralFacts, Widths, Fields DEF WithOperandSize, WithGs
    <1>2. OneByte(e) = Inst("RorCl", <<E(e, W3264(e))>>)
      BY <1>1 DEF OneByte, Shift, ShiftClGroup
    <1>3. Meaning(e) = Inst("RorCl", <<E(e, W3264(e))>>)
      BY <1>1, <1>2, OneByteMeaning
    <1> QED
      BY <1>1, <1>3, SameInst1, FieldsFit, ErrorFits, ErrorSame DEF OpD3, Only

\* D3 /4: OpD3 makes what the architecture defines, or nothing.
LEMMA OpD3ShlRight ==
    ASSUME NEW e, General(e), e.op = \hD3, e.reg = 4
    PROVE  Same(e, OpD3(e))
    <1>1. e \in Encodings /\ Scalar(e) /\ "65" \notin e.pre /\ Width(e) = W3264(e) /\ Width(e) # 8
      BY GeneralFacts, Widths, Fields DEF WithOperandSize, WithGs
    <1>2. OneByte(e) = Inst("ShlCl", <<E(e, W3264(e))>>)
      BY <1>1 DEF OneByte, Shift, ShiftClGroup
    <1>3. Meaning(e) = Inst("ShlCl", <<E(e, W3264(e))>>)
      BY <1>1, <1>2, OneByteMeaning
    <1> QED
      BY <1>1, <1>3, SameInst1, FieldsFit, ErrorFits, ErrorSame DEF OpD3, Only

\* D3 /5: OpD3 makes what the architecture defines, or nothing.
LEMMA OpD3ShrRight ==
    ASSUME NEW e, General(e), e.op = \hD3, e.reg = 5
    PROVE  Same(e, OpD3(e))
    <1>1. e \in Encodings /\ Scalar(e) /\ "65" \notin e.pre /\ Width(e) = W3264(e) /\ Width(e) # 8
      BY GeneralFacts, Widths, Fields DEF WithOperandSize, WithGs
    <1>2. OneByte(e) = Inst("ShrCl", <<E(e, W3264(e))>>)
      BY <1>1 DEF OneByte, Shift, ShiftClGroup
    <1>3. Meaning(e) = Inst("ShrCl", <<E(e, W3264(e))>>)
      BY <1>1, <1>2, OneByteMeaning
    <1> QED
      BY <1>1, <1>3, SameInst1, FieldsFit, ErrorFits, ErrorSame DEF OpD3, Only

\* D3 /7: OpD3 makes what the architecture defines, or nothing.
LEMMA OpD3SarRight ==
    ASSUME NEW e, General(e), e.op = \hD3, e.reg = 7
    PROVE  Same(e, OpD3(e))
    <1>1. e \in Encodings /\ Scalar(e) /\ "65" \notin e.pre /\ Width(e) = W3264(e) /\ Width(e) # 8
      BY GeneralFacts, Widths, Fields DEF WithOperandSize, WithGs
    <1>2. OneByte(e) = Inst("SarCl", <<E(e, W3264(e))>>)
      BY <1>1 DEF OneByte, Shift, ShiftClGroup
    <1>3. Meaning(e) = Inst("SarCl", <<E(e, W3264(e))>>)
      BY <1>1, <1>2, OneByteMeaning
    <1> QED
      BY <1>1, <1>3, SameInst1, FieldsFit, ErrorFits, ErrorSame DEF OpD3, Only

\* F7 /6: GroupF7Mem makes what the architecture defines, or nothing.
LEMMA GroupF7MemDivRight ==
    ASSUME NEW e, General(e), e.op = \hF7, e.reg = 6, ("66" \in e.pre => W(e))
    PROVE  Same(e, GroupF7Mem(e))
    <1>1. e \in Encodings /\ Scalar(e) /\ "65" \notin e.pre /\ Width(e) = W163264(e) /\ Width(e) = W3264(e) /\ Width(e) # 8
      BY GeneralFacts, Widths, Fields DEF WithOperandSize, WithGs
    <1>2. OneByte(e) = Inst("Div", <<E(e, W3264(e))>>)
      BY <1>1 DEF OneByte, Unary
    <1>3. Meaning(e) = Inst("Div", <<E(e, W3264(e))>>)
      BY <1>1, <1>2, OneByteMeaning
    <1>4. \A w : Fits(e, Mem(w, {}), E(e, w))
      BY <1>1, SafeMem
    <1> QED
      BY <1>1, <1>3, <1>4, SameInst1, FieldsFit, ErrorFits, ErrorSame DEF GroupF7Mem

\* F7 /4: GroupF7Mem makes what the architecture defines, or nothing.
LEMMA GroupF7MemMulRight ==
    ASSUME NEW e, General(e), e.op = \hF7, e.reg = 4, ("66" \in e.pre => W(e))
    PROVE  Same(e, GroupF7Mem(e))
    <1>1. e \in Encodings /\ Scalar(e) /\ "65" \notin e.pre /\ Width(e) = W163264(e) /\ Width(e) = W3264(e) /\ Width(e) # 8
      BY GeneralFacts, Widths, Fields DEF WithOperandSize, WithGs
    <1>2. OneByte(e) = Inst("Mul", <<E(e, W3264(e))>>)
      BY <1>1 DEF OneByte, Unary
    <1>3. Meaning(e) = Inst("Mul", <<E(e, W3264(e))>>)
      BY <1>1, <1>2, OneByteMeaning
    <1>4. \A w : Fits(e, Mem(w, {}), E(e, w))
      BY <1>1, SafeMem
    <1> QED
      BY <1>1, <1>3, <1>4, SameInst1, FieldsFit, ErrorFits, ErrorSame DEF GroupF7Mem

\* F7 /5: GroupF7Mem makes what the architecture defines, or nothing.
LEMMA GroupF7MemImulRight ==
    ASSUME NEW e, General(e), e.op = \hF7, e.reg = 5, ("66" \in e.pre => W(e))
    PROVE  Same(e, GroupF7Mem(e))
    <1>1. e \in Encodings /\ Scalar(e) /\ "65" \notin e.pre /\ Width(e) = W163264(e) /\ Width(e) = W3264(e) /\ Width(e) # 8
      BY GeneralFacts, Widths, Fields DEF WithOperandSize, WithGs
    <1>2. OneByte(e) = Inst("Imul", <<E(e, W3264(e))>>)
      BY <1>1 DEF OneByte, Unary
    <1>3. Meaning(e) = Inst("Imul", <<E(e, W3264(e))>>)
      BY <1>1, <1>2, OneByteMeaning
    <1>4. \A w : Fits(e, Mem(w, {}), E(e, w))
      BY <1>1, SafeMem
    <1> QED
      BY <1>1, <1>3, <1>4, SameInst1, FieldsFit, ErrorFits, ErrorSame DEF GroupF7Mem

\* F7 /0: GroupF7Mem makes what the architecture defines, or nothing.
LEMMA GroupF7MemTestRight ==
    ASSUME NEW e, General(e), e.op = \hF7, e.reg = 0, ("66" \in e.pre => W(e))
    PROVE  Same(e, GroupF7Mem(e))
    <1>1. e \in Encodings /\ Scalar(e) /\ "65" \notin e.pre /\ Width(e) = W163264(e) /\ Width(e) = W3264(e) /\ Width(e) # 8
      BY GeneralFacts, Widths, Fields DEF WithOperandSize, WithGs
    <1>2. OneByte(e) = Inst("Test", <<E(e, W3264(e)), ImmZ(W3264(e))>>)
      BY <1>1 DEF OneByte, Unary
    <1>3. Meaning(e) = Inst("Test", <<E(e, W3264(e)), ImmZ(W3264(e))>>)
      BY <1>1, <1>2, OneByteMeaning
    <1>4. \A w : Fits(e, Mem(w, {}), E(e, w))
      BY <1>1, SafeMem
    <1> QED
      BY <1>1, <1>3, <1>4, SameImm2, Imm32Follows, FieldsFit, ErrorFits, ErrorSame DEF GroupF7Mem

\* F7 /7: GroupF7Reg makes what the architecture defines, or nothing.
LEMMA GroupF7RegIdivRight ==
    ASSUME NEW e, General(e), e.op = \hF7, Direct(e), e.reg = 7, ~W(e), ("66" \in e.pre => W(e))
    PROVE  Same(e, GroupF7Reg(e))
    <1>1. e \in Encodings /\ Scalar(e) /\ "65" \notin e.pre /\ Width(e) = W163264(e) /\ Width(e) = W3264(e) /\ Width(e) # 8 /\ W3264(e) = 32
      BY GeneralFacts, Widths, Fields DEF WithOperandSize, WithGs
    <1>2. OneByte(e) = Inst("Idiv", <<E(e, 32)>>)
      BY <1>1 DEF OneByte, Unary
    <1>3. Meaning(e) = Inst("Idiv", <<E(e, 32)>>)
      BY <1>1, <1>2, OneByteMeaning
    <1> QED
      BY <1>1, <1>3, SameInst1, FieldsFit, ErrorFits, ErrorSame DEF GroupF7Reg, Only

\* F7 /6: GroupF7Reg makes what the architecture defines, or nothing.
LEMMA GroupF7RegDivRight ==
    ASSUME NEW e, General(e), e.op = \hF7, Direct(e), e.reg = 6, ("66" \in e.pre => W(e))
    PROVE  Same(e, GroupF7Reg(e))
    <1>1. e \in Encodings /\ Scalar(e) /\ "65" \notin e.pre /\ Width(e) = W163264(e) /\ Width(e) = W3264(e) /\ Width(e) # 8
      BY GeneralFacts, Widths, Fields DEF WithOperandSize, WithGs
    <1>2. OneByte(e) = Inst("Div", <<E(e, W3264(e))>>)
      BY <1>1 DEF OneByte, Unary
    <1>3. Meaning(e) = Inst("Div", <<E(e, W3264(e))>>)
      BY <1>1, <1>2, OneByteMeaning
    <1> QED
      BY <1>1, <1>3, SameInst1, FieldsFit, ErrorFits, ErrorSame DEF GroupF7Reg, Only

\* F7 /2: GroupF7Reg makes what the architecture defines, or nothing.
LEMMA GroupF7RegNotRight ==
    ASSUME NEW e, General(e), e.op = \hF7, Direct(e), e.reg = 2
    PROVE  Same(e, GroupF7Reg(e))
    <1>1. e \in Encodings /\ Scalar(e) /\ "65" \notin e.pre /\ Width(e) = W163264(e) /\ Width(e) # 8
      BY GeneralFacts, Widths, Fields DEF WithOperandSize, WithGs
    <1>2. OneByte(e) = Inst("Not", <<E(e, W163264(e))>>)
      BY <1>1 DEF OneByte, Unary
    <1>3. Meaning(e) = Inst("Not", <<E(e, W163264(e))>>)
      BY <1>1, <1>2, OneByteMeaning
    <1> QED
      BY <1>1, <1>3, SameInst1, FieldsFit, ErrorFits, ErrorSame DEF GroupF7Reg, Only

\* F7 /3: GroupF7Reg makes what the architecture defines, or nothing.
LEMMA GroupF7RegNegRight ==
    ASSUME NEW e, General(e), e.op = \hF7, Direct(e), e.reg = 3
    PROVE  Same(e, GroupF7Reg(e))
    <1>1. e \in Encodings /\ Scalar(e) /\ "65" \notin e.pre /\ Width(e) = W163264(e) /\ Width(e) # 8
      BY GeneralFacts, Widths, Fields DEF WithOperandSize, WithGs
    <1>2. OneByte(e) = Inst("Neg", <<E(e, W163264(e))>>)
      BY <1>1 DEF OneByte, Unary
    <1>3. Meaning(e) = Inst("Neg", <<E(e, W163264(e))>>)
      BY <1>1, <1>2, OneByteMeaning
    <1> QED
      BY <1>1, <1>3, SameInst1, FieldsFit, ErrorFits, ErrorSame DEF GroupF7Reg, Only

\* F7 /4: GroupF7Reg makes what the architecture defines, or nothing.
LEMMA GroupF7RegMulRight ==
    ASSUME NEW e, General(e), e.op = \hF7, Direct(e), e.reg = 4
    PROVE  Same(e, GroupF7Reg(e))
    <1>1. e \in Encodings /\ Scalar(e) /\ "65" \notin e.pre /\ Width(e) = W163264(e) /\ Width(e) # 8
      BY GeneralFacts, Widths, Fields DEF WithOperandSize, WithGs
    <1>2. OneByte(e) = Inst("Mul", <<E(e, W163264(e))>>)
      BY <1>1 DEF OneByte, Unary
    <1>3. Meaning(e) = Inst("Mul", <<E(e, W163264(e))>>)
      BY <1>1, <1>2, OneByteMeaning
    <1> QED
      BY <1>1, <1>3, SameInst1, FieldsFit, ErrorFits, ErrorSame DEF GroupF7Reg, Only

\* F7 /5: GroupF7Reg makes what the architecture defines, or nothing.
LEMMA GroupF7RegImulRight ==
    ASSUME NEW e, General(e), e.op = \hF7, Direct(e), e.reg = 5
    PROVE  Same(e, GroupF7Reg(e))
    <1>1. e \in Encodings /\ Scalar(e) /\ "65" \notin e.pre /\ Width(e) = W163264(e) /\ Width(e) # 8
      BY GeneralFacts, Widths, Fields DEF WithOperandSize, WithGs
    <1>2. OneByte(e) = Inst("Imul", <<E(e, W163264(e))>>)
      BY <1>1 DEF OneByte, Unary
    <1>3. Meaning(e) = Inst("Imul", <<E(e, W163264(e))>>)
      BY <1>1, <1>2, OneByteMeaning
    <1> QED
      BY <1>1, <1>3, SameInst1, FieldsFit, ErrorFits, ErrorSame DEF GroupF7Reg, Only

\* F7 /0: GroupF7Reg makes what the architecture defines, or nothing.
LEMMA GroupF7RegTestRight ==
    ASSUME NEW e, General(e), e.op = \hF7, Direct(e), e.reg = 0
    PROVE  Same(e, GroupF7Reg(e))
    <1>1. e \in Encodings /\ Scalar(e) /\ "65" \notin e.pre /\ Width(e) = W163264(e) /\ Width(e) # 8
      BY GeneralFacts, Widths, Fields DEF WithOperandSize, WithGs
    <1>2. OneByte(e) = Inst("Test", <<E(e, W163264(e)), ImmZ(W163264(e))>>)
      BY <1>1 DEF OneByte, Unary
    <1>3. Meaning(e) = Inst("Test", <<E(e, W163264(e)), ImmZ(W163264(e))>>)
      BY <1>1, <1>2, OneByteMeaning
    <1>4. Follows(e, E(e, W163264(e)), IF W163264(e) = 16 THEN ZImm(2) ELSE Imm32(e), ImmZ(W163264(e)))
      BY WordImm, Imm32Follows DEF W163264, W3264
    <1> QED
      BY <1>1, <1>3, SameImm2, <1>4, FieldsFit, ErrorFits, ErrorSame DEF GroupF7Reg

\* C6 /0: OpC6 makes what the architecture defines, or nothing.
LEMMA OpC6Right ==
    ASSUME NEW e, General(e), e.op = \hC6, e.reg = 0
    PROVE  Same(e, OpC6(e))
    <1>1. e \in Encodings /\ Scalar(e) /\ "65" \notin e.pre /\ Width(e) = 8
      BY GeneralFacts, Widths, Fields DEF WithOperandSize, WithGs
    <1>2. OneByte(e) = Inst("Mov", <<E(e, 8), ImmZ(8)>>)
      BY <1>1 DEF OneByte
    <1>3. Meaning(e) = Inst("Mov", <<E(e, 8), ImmZ(8)>>)
      BY <1>1, <1>2, OneByteMeaning
    <1>4. \A w : Fits(e, Mem(w, {"rip", "ripB", "sib"}), E(e, w))
      BY <1>1, SafeMem
    <1> QED
      BY <1>1, <1>3, <1>4, SameImm2, ByteImm, FieldsFit, ErrorFits, ErrorSame DEF OpC6, Only

\* C7 /0: OpC7 makes what the architecture defines, or nothing.
LEMMA OpC7Right ==
    ASSUME NEW e, General(e), e.op = \hC7, e.reg = 0
    PROVE  Same(e, OpC7(e))
    <1>1. e \in Encodings /\ Scalar(e) /\ Width(e) = W3264(e) /\ Width(e) # 8
      BY GeneralFacts, Widths, Fields DEF WithOperandSize, WithGs
    <1>2. OneByte(e) = Inst("Mov", <<E(e, W3264(e)), ImmZ(W3264(e))>>)
      BY <1>1 DEF OneByte
    <1>3. Meaning(e) = Inst("Mov", <<E(e, W3264(e)), ImmZ(W3264(e))>>)
      BY <1>1, <1>2, OneByteMeaning
    <1>4. \A w : Fits(e, Mem(w, {"rip", "ripB", "sib", "noBase", "gs"}), E(e, w))
      BY <1>1, SafeMem
    <1> QED
      BY <1>1, <1>3, <1>4, SameImm2, Imm32Follows, FieldsFit, ErrorFits, ErrorSame DEF OpC7, Only

\* FE /0: OpFE makes what the architecture defines, or nothing.
LEMMA OpFEIncRight ==
    ASSUME NEW e, General(e), e.op = \hFE, e.reg = 0
    PROVE  Same(e, OpFE(e))
    <1>1. e \in Encodings /\ Scalar(e) /\ "65" \notin e.pre /\ Width(e) = 8
      BY GeneralFacts, Widths, Fields DEF WithOperandSize, WithGs
    <1>2. OneByte(e) = Inst("Inc", <<E(e, 8)>>)
      BY <1>1 DEF OneByte, IncDecGroup
    <1>3. Meaning(e) = Inst("Inc", <<E(e, 8)>>)
      BY <1>1, <1>2, OneByteMeaning
    <1>4. \A w : Fits(e, Mem(w, {"sib"}), E(e, w))
      BY <1>1, SafeMem
    <1> QED
      BY <1>1, <1>3, <1>4, SameInst1, FieldsFit, ErrorFits, ErrorSame DEF OpFE, Only, Byte

\* FE /1: OpFE makes what the architecture defines, or nothing.
LEMMA OpFEDecRight ==
    ASSUME NEW e, General(e), e.op = \hFE, e.reg = 1
    PROVE  Same(e, OpFE(e))
    <1>1. e \in Encodings /\ Scalar(e) /\ "65" \notin e.pre /\ Width(e) = 8
      BY GeneralFacts, Widths, Fields DEF WithOperandSize, WithGs
    <1>2. OneByte(e) = Inst("Dec", <<E(e, 8)>>)
      BY <1>1 DEF OneByte, IncDecGroup
    <1>3. Meaning(e) = Inst("Dec", <<E(e, 8)>>)
      BY <1>1, <1>2, OneByteMeaning
    <1>4. \A w : Fits(e, Mem(w, {"sib"}), E(e, w))
      BY <1>1, SafeMem
    <1> QED
      BY <1>1, <1>3, <1>4, SameInst1, FieldsFit, ErrorFits, ErrorSame DEF OpFE, Only, Byte

\* FF /0: GroupFFInc makes what the architecture defines, or nothing.
LEMMA GroupFFIncRight ==
    ASSUME NEW e, General(e), e.op = \hFF, e.reg = 0
    PROVE  Same(e, GroupFFInc(e))
    <1>1. e \in Encodings /\ Scalar(e) /\ "65" \notin e.pre /\ Width(e) = W163264(e) /\ Width(e) # 8
      BY GeneralFacts, Widths, Fields DEF WithOperandSize, WithGs
    <1>2. OneByte(e) = Inst("Inc", <<E(e, W163264(e))>>)
      BY <1>1 DEF OneByte, IncDecGroup
    <1>3. Meaning(e) = Inst("Inc", <<E(e, W163264(e))>>)
      BY <1>1, <1>2, OneByteMeaning
    <1>4. \A w : Fits(e, Mem(w, {"rip", "ripB", "sib", "noBase"}), E(e, w))
      BY <1>1, SafeMem
    <1> QED
      BY <1>1, <1>3, <1>4, SameInst1, FieldsFit, ErrorFits, ErrorSame DEF GroupFFInc, Only

\* FF /1: GroupFFDec makes what the architecture defines, or nothing.
LEMMA GroupFFDecRight ==
    ASSUME NEW e, General(e), e.op = \hFF, e.reg = 1, "66" \notin e.pre, ~KnownMisdecode(e)
    PROVE  Same(e, GroupFFDec(e))
    <1>1. e \in Encodings /\ Scalar(e) /\ "65" \notin e.pre /\ Width(e) = W3264(e) /\ Width(e) # 8
      BY GeneralFacts, Widths, Fields DEF WithOperandSize, WithGs
    <1>2. OneByte(e) = Inst("Dec", <<E(e, W3264(e))>>)
      BY <1>1 DEF OneByte, IncDecGroup
    <1>3. Meaning(e) = Inst("Dec", <<E(e, W3264(e))>>)
      BY <1>1, <1>2, OneByteMeaning
    <1>4. Trusted(e, {"rip", "r13Disp", "sib", "r13Sib"})
      BY <1>1 DEF Trusted, KnownMisdecode, TakenForR13, TwoByteForm
    <1>5. \A w : Fits(e, Mem(w, {"rip", "r13Disp", "sib", "r13Sib"}), E(e, w))
      BY <1>1, <1>4, MemFits
    <1> QED
      BY <1>1, <1>3, <1>5, SameInst1, FieldsFit, ErrorFits, ErrorSame DEF GroupFFDec, Only

\* FF /4: GroupFFJmp makes what the architecture defines, or nothing.
LEMMA GroupFFJmpRight ==
    ASSUME NEW e, General(e), e.op = \hFF, e.reg = 4, "66" \notin e.pre, ~KnownMisdecode(e)
    PROVE  Same(e, GroupFFJmp(e))
    <1>1. e \in Encodings /\ Scalar(e) /\ "65" \notin e.pre /\ Width(e) = W3264(e) /\ Width(e) # 8
      BY GeneralFacts, Widths, Fields DEF WithOperandSize, WithGs
    <1>2. OneByte(e) = Inst("Jmp", <<E(e, 64)>>)
      BY <1>1 DEF OneByte, IncDecGroup
    <1>3. Meaning(e) = Inst("Jmp", <<E(e, 64)>>)
      BY <1>1, <1>2, OneByteMeaning
    <1>4. Trusted(e, {"rip", "plainSib", "scale1", "r13Sib"})
      BY <1>1 DEF Trusted, KnownMisdecode, TakenForR13, TwoByteForm
    <1>5. \A w : Fits(e, Mem(w, {"rip", "plainSib", "scale1", "r13Sib"}), E(e, w))
      BY <1>1, <1>4, MemFits
    <1> QED
      BY <1>1, <1>3, <1>5, SameInst1, FieldsFit, ErrorFits, ErrorSame DEF GroupFFJmp, Only

\* FF /6: GroupFFPush makes what the architecture defines, or nothing.
LEMMA GroupFFPushRight ==
    ASSUME NEW e, General(e), e.op = \hFF, e.reg = 6, "66" \notin e.pre, ~KnownMisdecode(e)
    PROVE  Same(e, GroupFFPush(e))
    <1>1. e \in Encodings /\ Scalar(e) /\ "65" \notin e.pre /\ Width(e) = W3264(e) /\ Width(e) # 8
      BY GeneralFacts, Widths, Fields DEF WithOperandSize, WithGs
    <1>2. OneByte(e) = Inst("Push", <<E(e, 64)>>)
      BY <1>1 DEF OneByte, IncDecGroup
    <1>3. Meaning(e) = Inst("Push", <<E(e, 64)>>)
      BY <1>1, <1>2, OneByteMeaning
    <1>4. Trusted(e, {"plainSib", "scale1", "r13Sib"})
      BY <1>1 DEF Trusted, KnownMisdecode, TakenForR13, TwoByteForm
    <1>5. \A w : Fits(e, Mem(w, {"plainSib", "scale1", "r13Sib"}), E(e, w))
      BY <1>1, <1>4, MemFits
    <1> QED
      BY <1>1, <1>3, <1>5, SameInst1, FieldsFit, ErrorFits, ErrorSame DEF GroupFFPush, Only

\* FF /2: GroupFFCall makes what the architecture defines, or nothing.
LEMMA GroupFFCallRight ==
    ASSUME NEW e, General(e), e.op = \hFF, e.reg = 2, "66" \notin e.pre, ~KnownMisdecode(e)
    PROVE  Same(e, GroupFFCall(e))
    <1>1. e \in Encodings /\ Scalar(e) /\ "65" \notin e.pre /\ Width(e) = W3264(e) /\ Width(e) # 8
      BY GeneralFacts, Widths, Fields DEF WithOperandSize, WithGs
    <1>2. OneByte(e) = Inst("Call", <<E(e, 64)>>)
      BY <1>1 DEF OneByte, IncDecGroup
    <1>3. Meaning(e) = Inst("Call", <<E(e, 64)>>)
      BY <1>1, <1>2, OneByteMeaning
    <1>4. Trusted(e, {"rip", "sib", "r13Sib"})
      BY <1>1 DEF Trusted, KnownMisdecode, TakenForR13, TwoByteForm
    <1>5. \A w : Fits(e, Mem(w, {"rip", "sib", "r13Sib"}), E(e, w))
      BY <1>1, <1>4, MemFits
    <1> QED
      BY <1>1, <1>3, <1>5, SameInst1, FieldsFit, ErrorFits, ErrorSame DEF GroupFFCall, Only

\* FF /0: GroupFFReg makes what the architecture defines, or nothing.
LEMMA GroupFFRegIncRight ==
    ASSUME NEW e, General(e), e.op = \hFF, Direct(e), e.reg = 0, "66" \notin e.pre
    PROVE  Same(e, GroupFFReg(e))
    <1>1. e \in Encodings /\ Scalar(e) /\ "65" \notin e.pre /\ Width(e) = W3264(e) /\ Width(e) # 8
      BY GeneralFacts, Widths, Fields DEF WithOperandSize, WithGs
    <1>2. OneByte(e) = Inst("Inc", <<E(e, W3264(e))>>)
      BY <1>1 DEF OneByte, IncDecGroup
    <1>3. Meaning(e) = Inst("Inc", <<E(e, W3264(e))>>)
      BY <1>1, <1>2, OneByteMeaning
    <1> QED
      BY <1>1, <1>3, SameInst1, FieldsFit, ErrorFits, ErrorSame DEF GroupFFReg, Only

\* FF /1: GroupFFReg makes what the architecture defines, or nothing.
LEMMA GroupFFRegDecRight ==
    ASSUME NEW e, General(e), e.op = \hFF, Direct(e), e.reg = 1, "66" \notin e.pre
    PROVE  Same(e, GroupFFReg(e))
    <1>1. e \in Encodings /\ Scalar(e) /\ "65" \notin e.pre /\ Width(e) = W3264(e) /\ Width(e) # 8
      BY GeneralFacts, Widths, Fields DEF WithOperandSize, WithGs
    <1>2. OneByte(e) = Inst("Dec", <<E(e, W3264(e))>>)
      BY <1>1 DEF OneByte, IncDecGroup
    <1>3. Meaning(e) = Inst("Dec", <<E(e, W3264(e))>>)
      BY <1>1, <1>2, OneByteMeaning
    <1> QED
      BY <1>1, <1>3, SameInst1, FieldsFit, ErrorFits, ErrorSame DEF GroupFFReg, Only

\* FF /2: GroupFFReg makes what the architecture defines, or nothing.
LEMMA GroupFFRegCallRight ==
    ASSUME NEW e, General(e), e.op = \hFF, Direct(e), e.reg = 2, "66" \notin e.pre
    PROVE  Same(e, GroupFFReg(e))
    <1>1. e \in Encodings /\ Scalar(e) /\ "65" \notin e.pre /\ Width(e) = W3264(e) /\ Width(e) # 8
      BY GeneralFacts, Widths, Fields DEF WithOperandSize, WithGs
    <1>2. OneByte(e) = Inst("Call", <<E(e, 64)>>)
      BY <1>1 DEF OneByte, IncDecGroup
    <1>3. Meaning(e) = Inst("Call", <<E(e, 64)>>)
      BY <1>1, <1>2, OneByteMeaning
    <1> QED
      BY <1>1, <1>3, SameInst1, FieldsFit, ErrorFits, ErrorSame DEF GroupFFReg, Only

\* FF /4: GroupFFReg makes what the architecture defines, or nothing.
LEMMA GroupFFRegJmpRight ==
    ASSUME NEW e, General(e), e.op = \hFF, Direct(e), e.reg = 4, "66" \notin e.pre
    PROVE  Same(e, GroupFFReg(e))
    <1>1. e \in Encodings /\ Scalar(e) /\ "65" \notin e.pre /\ Width(e) = W3264(e) /\ Width(e) # 8
      BY GeneralFacts, Widths, Fields DEF WithOperandSize, WithGs
    <1>2. OneByte(e) = Inst("Jmp", <<E(e, 64)>>)
      BY <1>1 DEF OneByte, IncDecGroup
    <1>3. Meaning(e) = Inst("Jmp", <<E(e, 64)>>)
      BY <1>1, <1>2, OneByteMeaning
    <1> QED
      BY <1>1, <1>3, SameInst1, FieldsFit, ErrorFits, ErrorSame DEF GroupFFReg, Only

\* 80: Op80 makes what the architecture defines, or nothing.
LEMMA Op80Right ==
    ASSUME NEW e, General(e), e.op = \h80
    PROVE  Same(e, Op80(e))
    <1>1. CASE Direct(e) /\ e.reg \in {0, 1}
      <2>1. Op80(e) = Group80AddOrReg(e) \/ Op80(e) = Error
        BY <1>1 DEF Op80, Only
      <2> QED
        BY <1>1, <2>1, Group80AddOrRegRight, ErrorSame
    <1>2. CASE Direct(e) /\ e.reg = 4
      <2>1. Op80(e) = Group80AndReg(e) \/ Op80(e) = Error
        BY <1>2 DEF Op80, Only
      <2> QED
        BY <1>2, <2>1, Group80AndRegRight, ErrorSame
    <1>3. CASE Direct(e) /\ e.reg \in {2, 6}
      <2>1. Op80(e) = Group80XorAdcReg(e) \/ Op80(e) = Error
        BY <1>3 DEF Op80, Only
      <2> QED
        BY <1>3, <2>1, Group80XorAdcRegRight, ErrorSame
    <1>4. CASE ~Direct(e) /\ e.reg = 1
      <2>1. Op80(e) = Group80Or(e) \/ Op80(e) = Error
        BY <1>4 DEF Op80, Only
      <2> QED
        BY <1>4, <2>1, Group80OrRight, ErrorSame
    <1>5. CASE ~Direct(e) /\ e.reg = 4
      <2>1. Op80(e) = Group80And(e) \/ Op80(e) = Error
        BY <1>5 DEF Op80, Only
      <2> QED
        BY <1>5, <2>1, Group80AndRight, ErrorSame
    <1>6. CASE e.reg = 7
      <2>1. Op80(e) = Group80Cmp(e) \/ Op80(e) = Error
        BY <1>6 DEF Op80, Only
      <2> QED
        BY <1>6, <2>1, Group80CmpRight, ErrorSame
    <1>7. CASE (Direct(e) /\ e.reg \in {3, 5}) \/ (~Direct(e) /\ e.reg \in {0, 2, 3, 5, 6})
      BY <1>7, ErrorSame DEF Op80
    <1> QED
      BY <1>1, <1>2, <1>3, <1>4, <1>5, <1>6, <1>7, GeneralFacts DEF Encodings

\* 81: Op81 makes what the architecture defines, or nothing.
LEMMA Op81Right ==
    ASSUME NEW e, General(e), e.op = \h81
    PROVE  Same(e, Op81(e))
    <1>1. CASE Direct(e)
      <2>1. Op81(e) = Group81Reg(e) \/ Op81(e) = Error
        BY <1>1 DEF Op81, Only
      <2> QED
        BY <1>1, <2>1, Group81RegRight, ErrorSame
    <1>2. CASE ~Direct(e) /\ e.reg = 7
      <2>1. Op81(e) = Group81Cmp(e) \/ Op81(e) = Error
        BY <1>2 DEF Op81, Only
      <2> QED
        BY <1>2, <2>1, Group81CmpRight, ErrorSame
    <1>3. CASE ~Direct(e) /\ e.reg \in {1, 4}
      <2>1. Op81(e) = Group81Logic(e) \/ Op81(e) = Error
        BY <1>3 DEF Op81, Only
      <2> QED
        BY <1>3, <2>1, Group81LogicRight, ErrorSame
    <1>4. CASE ~Direct(e) /\ e.reg \in {0, 2, 3, 5, 6}
      BY <1>4, ErrorSame DEF Op81
    <1> QED
      BY <1>1, <1>2, <1>3, <1>4, GeneralFacts DEF Encodings

\* 83: Op83 makes what the architecture defines, or nothing.
LEMMA Op83Right ==
    ASSUME NEW e, General(e), e.op = \h83, ~KnownMisdecode(e)
    PROVE  Same(e, Op83(e))
    <1>1. CASE Direct(e)
      <2>1. Op83(e) = Group83Reg(e) \/ Op83(e) = Error
        BY <1>1 DEF Op83, Only
      <2> QED
        BY <1>1, <2>1, Group83RegRight, ErrorSame
    <1>2. CASE ~Direct(e) /\ e.reg = 4
      <2>1. Op83(e) = Group83And(e) \/ Op83(e) = Error
        BY <1>2 DEF Op83, Only
      <2> QED
        BY <1>2, <2>1, Group83AndRight, ErrorSame
    <1>3. CASE ~Direct(e) /\ e.reg \in {0, 1}
      <2>1. Op83(e) = Group83AddOr(e) \/ Op83(e) = Error
        BY <1>3 DEF Op83, Only
      <2> QED
        BY <1>3, <2>1, Group83AddOrRight, ErrorSame
    <1>4. CASE ~Direct(e) /\ e.reg = 5
      <2>1. Op83(e) = Group83Sub(e) \/ Op83(e) = Error
        BY <1>4 DEF Op83, Only
      <2> QED
        BY <1>4, <2>1, Group83SubRight, ErrorSame
    <1>5. CASE ~Direct(e) /\ e.reg = 7
      <2>1. Op83(e) = Group83Cmp(e) \/ Op83(e) = Error
        BY <1>5 DEF Op83, Only
      <2> QED
        BY <1>5, <2>1, Group83CmpRight, ErrorSame
    <1>6. CASE ~Direct(e) /\ e.reg \in {2, 3, 6}
      BY <1>6, ErrorSame DEF Op83
    <1> QED
      BY <1>1, <1>2, <1>3, <1>4, <1>5, <1>6, GeneralFacts DEF Encodings

\* C0: OpC0 makes what the architecture defines, or nothing.
LEMMA OpC0Right ==
    ASSUME NEW e, General(e), e.op = \hC0
    PROVE  Same(e, OpC0(e))
    <1>1. CASE e.reg = 4
      BY <1>1, OpC0ShlRight DEF Only
    <1>2. CASE e.reg = 5
      BY <1>2, OpC0ShrRight DEF Only
    <1>3. CASE e.reg \in {0, 1, 2, 3, 6, 7}
      BY <1>3, ErrorSame DEF OpC0, Only
    <1> QED
      BY <1>1, <1>2, <1>3, GeneralFacts DEF Encodings

\* C1: OpC1 makes what the architecture defines, or nothing.
LEMMA OpC1Right ==
    ASSUME NEW e, General(e), e.op = \hC1
    PROVE  Same(e, OpC1(e))
    <1>1. CASE e.reg = 0
      BY <1>1, OpC1RolRight DEF Only
    <1>2. CASE e.reg = 1
      BY <1>2, OpC1RorRight DEF Only
    <1>3. CASE e.reg = 4
      BY <1>3, OpC1ShlRight DEF Only
    <1>4. CASE e.reg = 5
      BY <1>4, OpC1ShrRight DEF Only
    <1>5. CASE e.reg = 7
      BY <1>5, OpC1SarRight DEF Only
    <1>6. CASE e.reg \in {2, 3, 6}
      BY <1>6, ErrorSame DEF OpC1, Only
    <1> QED
      BY <1>1, <1>2, <1>3, <1>4, <1>5, <1>6, GeneralFacts DEF Encodings

\* D1: OpD1 makes what the architecture defines, or nothing.
LEMMA OpD1Right ==
    ASSUME NEW e, General(e), e.op = \hD1
    PROVE  Same(e, OpD1(e))
    <1>1. CASE e.reg = 0
      BY <1>1, OpD1RolRight DEF Only
    <1>2. CASE e.reg = 5
      BY <1>2, OpD1ShrRight DEF Only
    <1>3. CASE e.reg = 7
      BY <1>3, OpD1SarRight DEF Only
    <1>4. CASE e.reg \in {1, 2, 3, 4, 6}
      BY <1>4, ErrorSame DEF OpD1, Only
    <1> QED
      BY <1>1, <1>2, <1>3, <1>4, GeneralFacts DEF Encodings

\* D3: OpD3 makes what the architecture defines, or nothing.
LEMMA OpD3Right ==
    ASSUME NEW e, General(e), e.op = \hD3
    PROVE  Same(e, OpD3(e))
    <1>1. CASE e.reg = 0
      BY <1>1, OpD3RolRight DEF Only
    <1>2. CASE e.reg = 1
      BY <1>2, OpD3RorRight DEF Only
    <1>3. CASE e.reg = 4
      BY <1>3, OpD3ShlRight DEF Only
    <1>4. CASE e.reg = 5
      BY <1>4, OpD3ShrRight DEF Only
    <1>5. CASE e.reg = 7
      BY <1>5, OpD3SarRight DEF Only
    <1>6. CASE e.reg \in {2, 3, 6}
      BY <1>6, ErrorSame DEF OpD3, Only
    <1> QED
      BY <1>1, <1>2, <1>3, <1>4, <1>5, <1>6, GeneralFacts DEF Encodings

\* FE: OpFE makes what the architecture defines, or nothing.
LEMMA OpFERight ==
    ASSUME NEW e, General(e), e.op = \hFE
    PROVE  Same(e, OpFE(e))
    <1>1. CASE e.reg = 0
      BY <1>1, OpFEIncRight DEF Only
    <1>2. CASE e.reg = 1
      BY <1>2, OpFEDecRight DEF Only
    <1>3. CASE e.reg \in {2, 3, 4, 5, 6, 7}
      BY <1>3, ErrorSame DEF OpFE, Only
    <1> QED
      BY <1>1, <1>2, <1>3, GeneralFacts DEF Encodings

\* F7: GroupF7Mem makes what the architecture defines, or nothing.
LEMMA GroupF7MemRight ==
    ASSUME NEW e, General(e), e.op = \hF7, ("66" \in e.pre => W(e))
    PROVE  Same(e, GroupF7Mem(e))
    <1>1. CASE e.reg = 6
      BY <1>1, GroupF7MemDivRight DEF Only
    <1>2. CASE e.reg = 4
      BY <1>2, GroupF7MemMulRight DEF Only
    <1>3. CASE e.reg = 5
      BY <1>3, GroupF7MemImulRight DEF Only
    <1>4. CASE e.reg = 0
      BY <1>4, GroupF7MemTestRight DEF Only
    <1>5. CASE e.reg \in {1, 2, 3, 7}
      BY <1>5, ErrorSame DEF GroupF7Mem
    <1> QED
      BY <1>1, <1>2, <1>3, <1>4, <1>5, GeneralFacts DEF Encodings

\* F7: GroupF7Reg makes what the architecture defines, or nothing.
LEMMA GroupF7RegRight ==
    ASSUME NEW e, General(e), e.op = \hF7, Direct(e), ("66" \in e.pre /\ ~W(e) => e.reg \in {0, 3})
    PROVE  Same(e, GroupF7Reg(e))
    <1>1. CASE e.reg = 7 /\ ~W(e)
      BY <1>1, GroupF7RegIdivRight DEF Only
    <1>2. CASE e.reg = 7 /\ W(e)
      BY <1>2, ErrorSame DEF GroupF7Reg, Only
    <1>3. CASE e.reg = 6
      BY <1>3, GroupF7RegDivRight DEF Only
    <1>4. CASE e.reg = 2
      BY <1>4, GroupF7RegNotRight DEF Only
    <1>5. CASE e.reg = 3
      BY <1>5, GroupF7RegNegRight DEF Only
    <1>6. CASE e.reg = 4
      BY <1>6, GroupF7RegMulRight DEF Only
    <1>7. CASE e.reg = 5
      BY <1>7, GroupF7RegImulRight DEF Only
    <1>8. CASE e.reg = 0
      BY <1>8, GroupF7RegTestRight DEF Only
    <1>9. CASE e.reg = 1
      BY <1>9, ErrorSame DEF GroupF7Reg
    <1> QED
      BY <1>1, <1>2, <1>3, <1>4, <1>5, <1>6, <1>7, <1>8, <1>9, GeneralFacts DEF Encodings

\* F7: OpF7 makes what the architecture defines, or nothing.
LEMMA OpF7Right ==
    ASSUME NEW e, General(e), e.op = \hF7, ~KnownMisdecode(e)
    PROVE  Same(e, OpF7(e))
    <1>1. CASE ~("66" \in e.pre /\ ~W(e) => e.reg \in {0, 3})
      BY <1>1, ErrorSame DEF OpF7, Only
    <1>2. CASE Direct(e) /\ ("66" \in e.pre /\ ~W(e) => e.reg \in {0, 3})
      <2>1. OpF7(e) = GroupF7Reg(e) \/ OpF7(e) = Error
        BY <1>2 DEF OpF7, Only
      <2> QED
        BY <1>2, <2>1, GroupF7RegRight, ErrorSame
    <1>3. CASE ~Direct(e) /\ ("66" \in e.pre => W(e))
      <2>1. OpF7(e) = GroupF7Mem(e) \/ OpF7(e) = Error
        BY <1>3 DEF OpF7, Only
      <2> QED
        BY <1>3, <2>1, GroupF7MemRight, ErrorSame
    <1>4. CASE ~Direct(e) /\ "66" \in e.pre /\ ~W(e) /\ e.reg = 0
      BY <1>4, ErrorSame DEF KnownMisdecode, WordTest
    <1>5. CASE ~Direct(e) /\ "66" \in e.pre /\ ~W(e) /\ e.reg = 3
      BY <1>5, ErrorSame DEF OpF7, GroupF7Mem, Only
    <1> QED
      BY <1>1, <1>2, <1>3, <1>4, <1>5, GeneralFacts DEF Encodings

\* FF: GroupFFReg makes what the architecture defines, or nothing.
LEMMA GroupFFRegRight ==
    ASSUME NEW e, General(e), e.op = \hFF, Direct(e), "66" \notin e.pre
    PROVE  Same(e, GroupFFReg(e))
    <1>1. CASE e.reg = 0
      BY <1>1, GroupFFRegIncRight DEF Only
    <1>2. CASE e.reg = 1
      BY <1>2, GroupFFRegDecRight DEF Only
    <1>3. CASE e.reg = 2
      BY <1>3, GroupFFRegCallRight DEF Only
    <1>4. CASE e.reg = 4
      BY <1>4, GroupFFRegJmpRight DEF Only
    <1>5. CASE e.reg \in {3, 5, 6, 7}
      BY <1>5, ErrorSame DEF GroupFFReg, Only
    <1> QED
      BY <1>1, <1>2, <1>3, <1>4, <1>5, GeneralFacts DEF Encodings

\* FF: OpFF makes what the architecture defines, or nothing.
LEMMA OpFFRight ==
    ASSUME NEW e, General(e), e.op = \hFF, ~KnownMisdecode(e)
    PROVE  Same(e, OpFF(e))
    <1>1. CASE "66" \in e.pre /\ ~(e.reg = 0 /\ ~Direct(e))
      BY <1>1, ErrorSame DEF OpFF, Only
    <1>2. CASE Direct(e) /\ "66" \notin e.pre
      <2>1. OpFF(e) = GroupFFReg(e) \/ OpFF(e) = Error
        BY <1>2 DEF OpFF, Only
      <2> QED
        BY <1>2, <2>1, GroupFFRegRight, ErrorSame
    <1>3. CASE ~Direct(e) /\ e.reg = 0
      <2>1. OpFF(e) = GroupFFInc(e) \/ OpFF(e) = Error
        BY <1>3 DEF OpFF, Only
      <2> QED
        BY <1>3, <2>1, GroupFFIncRight, ErrorSame
    <1>4. CASE ~Direct(e) /\ e.reg = 1 /\ "66" \notin e.pre
      <2>1. OpFF(e) = GroupFFDec(e) \/ OpFF(e) = Error
        BY <1>4 DEF OpFF, Only
      <2> QED
        BY <1>4, <2>1, GroupFFDecRight, ErrorSame
    <1>5. CASE ~Direct(e) /\ e.reg = 2 /\ "66" \notin e.pre
      <2>1. OpFF(e) = GroupFFCall(e) \/ OpFF(e) = Error
        BY <1>5 DEF OpFF, Only
      <2> QED
        BY <1>5, <2>1, GroupFFCallRight, ErrorSame
    <1>6. CASE ~Direct(e) /\ e.reg = 4 /\ "66" \notin e.pre
      <2>1. OpFF(e) = GroupFFJmp(e) \/ OpFF(e) = Error
        BY <1>6 DEF OpFF, Only
      <2> QED
        BY <1>6, <2>1, GroupFFJmpRight, ErrorSame
    <1>7. CASE ~Direct(e) /\ e.reg = 6 /\ "66" \notin e.pre
      <2>1. OpFF(e) = GroupFFPush(e) \/ OpFF(e) = Error
        BY <1>7 DEF OpFF, Only
      <2> QED
        BY <1>7, <2>1, GroupFFPushRight, ErrorSame
    <1>8. CASE ~Direct(e) /\ e.reg \in {3, 5, 7}
      BY <1>8, ErrorSame DEF OpFF, Only
    <1> QED
      BY <1>1, <1>2, <1>3, <1>4, <1>5, <1>6, <1>7, <1>8, GeneralFacts DEF Encodings

\* 0F: RexEscape makes what the architecture defines, or nothing.
LEMMA RexEscapeRight ==
    ASSUME NEW e, General(e), e.op = \h0F, ~KnownMisdecode(e)
    PROVE  Same(e, RexEscape(e))
    <1>1. CASE ~EscapeAdmitted(e)
      BY <1>1, ErrorSame DEF RexEscape, Only
    <1>2. CASE EscapeAdmitted(e)
      <2>0. /\ e.op2 \in CmovOps \union {\hA3, \hAB, \hA4, \hBA, \hBE, \hAC, \hAF, \hBC, \hBD}
            /\ e.op2 \in {\hA4, \hAC} => W(e)
            /\ e.op2 \in {\hA3, \hAB, \hA4, \hAC, \hBC, \hBD} => Direct(e)
            /\ e.op2 = \hBA => Direct(e) \/ e.reg = 4
            /\ e.op2 = \hAF => Direct(e) \/ W(e)
        BY <1>2 DEF EscapeAdmitted, CmovOps, ByteConditions
      <2>1. CASE e.op2 \in {\hA3, \hAB}
        <3>1. RexEscape(e) = BitTestReg(e)
          BY <1>2, <2>1 DEF RexEscape, Only, CmovOps, ByteConditions
        <3> QED
          BY <2>0, <2>1, <3>1, BitTestRegBitTestRight, BitTestRegBitSetRight
      <2>2. CASE e.op2 = \hBE
        <3>1. RexEscape(e) = MovsxByte(e)
          BY <1>2, <2>2 DEF RexEscape, Only, CmovOps, ByteConditions
        <3> QED
          BY <2>0, <2>2, <3>1, MovsxByteRight
      <2>3. CASE e.op2 \in CmovOps
        <3>1. RexEscape(e) = Cmov(e)
          BY <1>2, <2>3 DEF RexEscape, Only, CmovOps, ByteConditions
        <3> QED
          BY <2>0, <2>3, <3>1, CmovRight
      <2>4. CASE e.op2 \in {\hBC, \hBD, \hAF}
        <3>1. RexEscape(e) = ScanAndMultiply(e)
          BY <1>2, <2>4 DEF RexEscape, Only, CmovOps, ByteConditions
        <3> QED
          BY <2>0, <2>4, <3>1, ScanAndMultiplyBitScanForwardRight, ScanAndMultiplyBitScanReverseRight, ScanAndMultiplyImulRight
      <2>5. CASE e.op2 \in {\hA4, \hAC}
        <3>1. RexEscape(e) = DoubleShift(e)
          BY <1>2, <2>5 DEF RexEscape, Only, CmovOps, ByteConditions
        <3> QED
          BY <2>0, <2>5, <3>1, DoubleShiftShldRight, DoubleShiftShrdRight
      <2>6. CASE e.op2 = \hBA
        <3>1. RexEscape(e) = BitTestImm(e)
          BY <1>2, <2>6 DEF RexEscape, Only, CmovOps, ByteConditions
        <3>2. CASE e.reg \notin {4, 5, 6}
          BY <3>1, <3>2, ErrorSame DEF BitTestImm, Only
        <3>3. CASE e.reg \in {4, 5, 6}
          BY <2>0, <2>6, <3>1, <3>3, BitTestImmBitTestRight, BitTestImmBitSetRight, BitTestImmBitResetRight
        <3> QED
          BY <3>2, <3>3
      <2> QED
        BY <2>0, <2>1, <2>2, <2>3, <2>4, <2>5, <2>6
    <1> QED
      BY <1>1, <1>2

\* The two ranges of MOV with an immediate.
LEMMA MovBranches ==
    ASSUME NEW e
    PROVE  /\ e.op \in \hB0 .. \hB7 => Branch(e) = MovByteImm(e)
           /\ e.op \in \hB8 .. \hBF => Branch(e) = MovImm(e)
    <1>1. ASSUME NEW o \in Int, e.op = o, o >= \hB0, o <= \hB7 PROVE Branch(e) = MovByteImm(e)
      BY <1>1 DEF Branch
    <1>2. ASSUME NEW o \in Int, e.op = o, o >= \hB8, o <= \hBF PROVE Branch(e) = MovImm(e)
      BY <1>2 DEF Branch
    <1> QED
      BY <1>1, <1>2

\* The branches of decodeGeneral that several opcodes share.
LEMMA SharedBranches ==
    ASSUME NEW e
    PROVE  /\ e.op \in {\h34, \h0C, \h1C} => Branch(e) = Op34To1C(e)
           /\ e.op \in {\h05, \h2D} => Branch(e) = Op05And2D(e)
           /\ e.op \in {\h35, \h3D} => Branch(e) = RaxImm32(e)
           /\ e.op \in {\h89, \h8B} => Branch(e) = Op89And8B(e)
  <1>1. e.op = \h34 => Branch(e) = Op34To1C(e)
    BY DEF Branch
  <1>2. e.op = \h0C => Branch(e) = Op34To1C(e)
    BY DEF Branch
  <1>3. e.op = \h1C => Branch(e) = Op34To1C(e)
    BY DEF Branch
  <1>4. e.op = \h05 => Branch(e) = Op05And2D(e)
    BY DEF Branch
  <1>5. e.op = \h2D => Branch(e) = Op05And2D(e)
    BY DEF Branch
  <1>6. e.op = \h35 => Branch(e) = RaxImm32(e)
    BY DEF Branch
  <1>7. e.op = \h3D => Branch(e) = RaxImm32(e)
    BY DEF Branch
  <1>8. e.op = \h89 => Branch(e) = Op89And8B(e)
    BY DEF Branch
  <1>9. e.op = \h8B => Branch(e) = Op89And8B(e)
    BY DEF Branch
  <1> QED
    BY <1>1, <1>2, <1>3, <1>4, <1>5, <1>6, <1>7, <1>8, <1>9

\* Every branch of decodeGeneral, on what decodeOperandOverride leaves to it.
LEMMA BranchRight ==
    ASSUME NEW e, General(e), ~KnownMisdecode(e), decodeOperandOverride(e) = Pass
    PROVE  Same(e, Branch(e))
    <1>1. CASE e.op = \h0D
      <2>1. Branch(e) = Op0D(e)
        BY <1>1 DEF Branch
      <2> QED
        BY <1>1, <2>1, Op0DRight
    <1>2. CASE e.op = \h24
      <2>1. Branch(e) = Op24(e)
        BY <1>2 DEF Branch
      <2> QED
        BY <1>2, <2>1, Op24Right
    <1>3. CASE e.op = \h25
      <2>1. Branch(e) = Op25(e)
        BY <1>3 DEF Branch
      <2> QED
        BY <1>3, <2>1, Op25Right
    <1>4. CASE e.op \in {\h34, \h0C, \h1C}
      <2>1. Branch(e) = Op34To1C(e)
        BY <1>4, SharedBranches
      <2> QED
        BY <1>4, <2>1, Op34To1CXorRight, Op34To1COrRight, Op34To1CSbbRight
    <1>5. CASE e.op \in {\h05, \h2D}
      <2>1. Branch(e) = Op05And2D(e)
        BY <1>5, SharedBranches
      <2> QED
        BY <1>5, <2>1, Op05And2DAddRight, Op05And2DSubRight
    <1>6. CASE e.op \in {\h35, \h3D}
      <2>1. Branch(e) = RaxImm32(e)
        BY <1>6, SharedBranches
      <2>2. CASE W(e)
        BY <1>6, <2>1, <2>2, RaxImm32XorRight, RaxImm32CmpRight
      <2>3. CASE ~W(e)
        BY <2>1, <2>3, ErrorSame DEF RaxImm32, Only
      <2> QED
        BY <2>2, <2>3
    <1>7. CASE e.op = \h98
      <2>1. Branch(e) = ConvertAcc(e)
        BY <1>7 DEF Branch
      <2> QED
        BY <1>7, <2>1, ConvertAccRight
    <1>8. CASE e.op \in \hB0 .. \hB7
      <2>1. Branch(e) = MovByteImm(e)
        BY <1>8, MovBranches
      <2> QED
        BY <1>8, <2>1, MovByteImmRight
    <1>9. CASE e.op \in \hB8 .. \hBF
      <2>1. Branch(e) = MovImm(e)
        BY <1>9, MovBranches
      <2> QED
        BY <1>9, <2>1, MovImmRight
    <1>10. CASE e.op = \h69
      <2>1. Branch(e) = ImulImm32(e)
        BY <1>10 DEF Branch
      <2> QED
        BY <1>10, <2>1, ImulImm32Right
    <1>11. CASE e.op = \h6B
      <2>1. Branch(e) = ImulImm8(e)
        BY <1>11 DEF Branch
      <2> QED
        BY <1>11, <2>1, ImulImm8Right
    <1>12. CASE e.op = \h0F
      <2>1. Branch(e) = RexEscape(e)
        BY <1>12 DEF Branch
      <2> QED
        BY <1>12, <2>1, RexEscapeRight
    <1>13. CASE e.op \in {\h89, \h8B}
      <2>1. Branch(e) = Op89And8B(e)
        BY <1>13, SharedBranches
      <2> QED
        BY <1>13, <2>1, Op89And8BStoreRight, Op89And8BLoadRight
    <1>14. CASE e.op = \h00
      <2>1. Branch(e) = Op00(e)
        BY <1>14 DEF Branch
      <2> QED
        BY <1>14, <2>1, Op00Right
    <1>15. CASE e.op = \h02
      <2>1. Branch(e) = Op02(e)
        BY <1>15 DEF Branch
      <2> QED
        BY <1>15, <2>1, Op02Right
    <1>16. CASE e.op = \h03
      <2>1. Branch(e) = Op03(e)
        BY <1>16 DEF Branch
      <2> QED
        BY <1>16, <2>1, Op03Right
    <1>17. CASE e.op = \h08
      <2>1. Branch(e) = Op08(e)
        BY <1>17 DEF Branch
      <2> QED
        BY <1>17, <2>1, Op08Right
    <1>18. CASE e.op = \h09
      <2>1. Branch(e) = Op09(e)
        BY <1>18 DEF Branch
      <2> QED
        BY <1>18, <2>1, Op09Right
    <1>19. CASE e.op = \h0A
      <2>1. Branch(e) = Op0A(e)
        BY <1>19 DEF Branch
      <2> QED
        BY <1>19, <2>1, Op0ARight
    <1>20. CASE e.op = \h11
      <2>1. Branch(e) = Op11(e)
        BY <1>20 DEF Branch
      <2> QED
        BY <1>20, <2>1, Op11Right
    <1>21. CASE e.op = \h13
      <2>1. Branch(e) = Op13(e)
        BY <1>21 DEF Branch
      <2> QED
        BY <1>21, <2>1, Op13Right
    <1>22. CASE e.op = \h19
      <2>1. Branch(e) = Op19(e)
        BY <1>22 DEF Branch
      <2> QED
        BY <1>22, <2>1, Op19Right
    <1>23. CASE e.op = \h20
      <2>1. Branch(e) = Op20(e)
        BY <1>23 DEF Branch
      <2> QED
        BY <1>23, <2>1, Op20Right
    <1>24. CASE e.op = \h21
      <2>1. Branch(e) = Op21(e)
        BY <1>24 DEF Branch
      <2> QED
        BY <1>24, <2>1, Op21Right
    <1>25. CASE e.op = \h22
      <2>1. Branch(e) = Op22(e)
        BY <1>25 DEF Branch
      <2> QED
        BY <1>25, <2>1, Op22Right
    <1>26. CASE e.op = \h23
      <2>1. Branch(e) = Op23(e)
        BY <1>26 DEF Branch
      <2> QED
        BY <1>26, <2>1, Op23Right
    <1>27. CASE e.op = \h28
      <2>1. Branch(e) = Op28(e)
        BY <1>27 DEF Branch
      <2> QED
        BY <1>27, <2>1, Op28Right
    <1>28. CASE e.op = \h29
      <2>1. Branch(e) = Op29(e)
        BY <1>28 DEF Branch
      <2> QED
        BY <1>28, <2>1, Op29Right
    <1>29. CASE e.op = \h2B
      <2>1. Branch(e) = Op2B(e)
        BY <1>29 DEF Branch
      <2> QED
        BY <1>29, <2>1, Op2BRight
    <1>30. CASE e.op = \h30
      <2>1. Branch(e) = Op30(e)
        BY <1>30 DEF Branch
      <2> QED
        BY <1>30, <2>1, Op30Right
    <1>31. CASE e.op = \h31
      <2>1. Branch(e) = Op31(e)
        BY <1>31 DEF Branch
      <2> QED
        BY <1>31, <2>1, Op31Right
    <1>32. CASE e.op = \h32
      <2>1. Branch(e) = Op32(e)
        BY <1>32 DEF Branch
      <2> QED
        BY <1>32, <2>1, Op32Right
    <1>33. CASE e.op = \h33
      <2>1. Branch(e) = Op33(e)
        BY <1>33 DEF Branch
      <2> QED
        BY <1>33, <2>1, Op33Right
    <1>34. CASE e.op = \h38
      <2>1. Branch(e) = Op38(e)
        BY <1>34 DEF Branch
      <2> QED
        BY <1>34, <2>1, Op38Right
    <1>35. CASE e.op = \h39
      <2>1. Branch(e) = Op39(e)
        BY <1>35 DEF Branch
      <2> QED
        BY <1>35, <2>1, Op39Right
    <1>36. CASE e.op = \h3A
      <2>1. Branch(e) = Op3A(e)
        BY <1>36 DEF Branch
      <2> QED
        BY <1>36, <2>1, Op3ARight
    <1>37. CASE e.op = \h3B
      <2>1. Branch(e) = Op3B(e)
        BY <1>37 DEF Branch
      <2> QED
        BY <1>37, <2>1, Op3BRight
    <1>38. CASE e.op = \h80
      <2>1. Branch(e) = Op80(e)
        BY <1>38 DEF Branch
      <2> QED
        BY <1>38, <2>1, Op80Right
    <1>39. CASE e.op = \h81
      <2>1. Branch(e) = Op81(e)
        BY <1>39 DEF Branch
      <2> QED
        BY <1>39, <2>1, Op81Right
    <1>40. CASE e.op = \h83
      <2>1. Branch(e) = Op83(e)
        BY <1>40 DEF Branch
      <2> QED
        BY <1>40, <2>1, Op83Right
    <1>41. CASE e.op = \h84
      <2>1. Branch(e) = Op84(e)
        BY <1>41 DEF Branch
      <2> QED
        BY <1>41, <2>1, Op84Right
    <1>42. CASE e.op = \h85
      <2>1. Branch(e) = Op85(e)
        BY <1>42 DEF Branch
      <2> QED
        BY <1>42, <2>1, Op85Right
    <1>43. CASE e.op = \h86
      <2>1. Branch(e) = Op86(e)
        BY <1>43 DEF Branch
      <2> QED
        BY <1>43, <2>1, Op86Right
    <1>44. CASE e.op = \h87
      <2>1. Branch(e) = Op87(e)
        BY <1>44 DEF Branch
      <2> QED
        BY <1>44, <2>1, Op87Right
    <1>45. CASE e.op = \h88
      <2>1. Branch(e) = Op88(e)
        BY <1>45 DEF Branch
      <2> QED
        BY <1>45, <2>1, Op88Right
    <1>46. CASE e.op = \h8A
      <2>1. Branch(e) = Op8A(e)
        BY <1>46 DEF Branch
      <2> QED
        BY <1>46, <2>1, Op8ARight
    <1>47. CASE e.op = \h8D
      <2>1. Branch(e) = Op8D(e)
        BY <1>47 DEF Branch
      <2> QED
        BY <1>47, <2>1, Op8DRight
    <1>48. CASE e.op = \hC0
      <2>1. Branch(e) = OpC0(e)
        BY <1>48 DEF Branch
      <2> QED
        BY <1>48, <2>1, OpC0Right
    <1>49. CASE e.op = \hC1
      <2>1. Branch(e) = OpC1(e)
        BY <1>49 DEF Branch
      <2> QED
        BY <1>49, <2>1, OpC1Right
    <1>50. CASE e.op = \hD1
      <2>1. Branch(e) = OpD1(e)
        BY <1>50 DEF Branch
      <2> QED
        BY <1>50, <2>1, OpD1Right
    <1>51. CASE e.op = \hD3
      <2>1. Branch(e) = OpD3(e)
        BY <1>51 DEF Branch
      <2> QED
        BY <1>51, <2>1, OpD3Right
    <1>52. CASE e.op = \hF7
      <2>1. Branch(e) = OpF7(e)
        BY <1>52 DEF Branch
      <2> QED
        BY <1>52, <2>1, OpF7Right
    <1>53. CASE e.op = \hFE
      <2>1. Branch(e) = OpFE(e)
        BY <1>53 DEF Branch
      <2> QED
        BY <1>53, <2>1, OpFERight
    <1>54. CASE e.op = \hFF
      <2>1. Branch(e) = OpFF(e)
        BY <1>54 DEF Branch
      <2> QED
        BY <1>54, <2>1, OpFFRight
    <1>55. CASE e.op = \h0B /\ ~Direct(e)
      <2>1. Branch(e) = Op0B(e)
        BY <1>55 DEF Branch
      <2> QED
        BY <1>55, <2>1, Op0BRight
    <1>56. CASE e.op = \hC6
      <2>1. Branch(e) = OpC6(e)
        BY <1>56 DEF Branch
      <2>2. CASE e.reg = 0
        BY <1>56, <2>1, <2>2, OpC6Right
      <2>3. CASE e.reg # 0
        BY <2>1, <2>3, ErrorSame DEF OpC6, Only
      <2> QED
        BY <2>2, <2>3
    <1>57. CASE e.op = \hC7
      <2>1. Branch(e) = OpC7(e)
        BY <1>57 DEF Branch
      <2>2. CASE e.reg = 0
        BY <1>57, <2>1, <2>2, OpC7Right
      <2>3. CASE e.reg # 0
        BY <2>1, <2>3, ErrorSame DEF OpC7, Only
      <2> QED
        BY <2>2, <2>3
    <1>58. CASE e.op = \hD0
      <2>1. Branch(e) = OpD0(e)
        BY <1>58 DEF Branch
      <2>2. CASE e.reg = 5
        BY <1>58, <2>1, <2>2, OpD0Right
      <2>3. CASE e.reg # 5
        BY <2>1, <2>3, ErrorSame DEF OpD0, Only
      <2> QED
        BY <2>2, <2>3
    <1>59. CASE e.op = \hD2
      <2>1. Branch(e) = OpD2(e)
        BY <1>59 DEF Branch
      <2>2. CASE e.reg = 4
        BY <1>59, <2>1, <2>2, OpD2Right
      <2>3. CASE e.reg # 4
        BY <2>1, <2>3, ErrorSame DEF OpD2, Only
      <2> QED
        BY <2>2, <2>3
    <1>60. CASE e.op = \h63
      <2>1. Branch(e) = Op63(e)
        BY <1>60 DEF Branch
      <2>2. CASE W(e)
        BY <1>60, <2>1, <2>2, Op63Right
      <2>3. CASE ~W(e)
        BY <2>1, <2>3, ErrorSame DEF Op63, Only
      <2> QED
        BY <2>2, <2>3
    <1>61. CASE e.op = \h01
      <2>1. Branch(e) = Op01(e)
        BY <1>61 DEF Branch
      <2>2. Direct(e) /\ ~W(e) => "66" \notin e.pre
        <3> SUFFICES ASSUME Direct(e), ~W(e), "66" \in e.pre PROVE FALSE
          OBVIOUS
        <3>1. e.pre = {"66"}
          BY <1>61, GeneralFacts DEF General, WithGs
        <3>2. decodeOperandOverride(e) = WordRegReg(e)
          BY <1>61, <3>1 DEF decodeOperandOverride
        <3> QED
          BY <3>2, MadeIsInstruction DEF WordRegReg, Only, Inst, Error, Pass, Made
      <2> QED
        BY <1>61, <2>1, <2>2, Op01Right
    <1>62. CASE e.op = \h0B /\ Direct(e)
      BY <1>62 DEF KnownMisdecode
    <1>63. CASE /\ e.op # \h01 /\ e.op # \h0B
                /\ ~(e.op = \h0D)
                /\ ~(e.op = \h24)
                /\ ~(e.op = \h25)
                /\ ~(e.op \in {\h34, \h0C, \h1C})
                /\ ~(e.op \in {\h05, \h2D})
                /\ ~(e.op \in {\h35, \h3D})
                /\ ~(e.op = \h98)
                /\ ~(e.op \in \hB0 .. \hB7)
                /\ ~(e.op \in \hB8 .. \hBF)
                /\ ~(e.op = \h69)
                /\ ~(e.op = \h6B)
                /\ ~(e.op = \h0F)
                /\ ~(e.op \in {\h89, \h8B})
                /\ ~(e.op = \h00)
                /\ ~(e.op = \h02)
                /\ ~(e.op = \h03)
                /\ ~(e.op = \h08)
                /\ ~(e.op = \h09)
                /\ ~(e.op = \h0A)
                /\ ~(e.op = \h11)
                /\ ~(e.op = \h13)
                /\ ~(e.op = \h19)
                /\ ~(e.op = \h20)
                /\ ~(e.op = \h21)
                /\ ~(e.op = \h22)
                /\ ~(e.op = \h23)
                /\ ~(e.op = \h28)
                /\ ~(e.op = \h29)
                /\ ~(e.op = \h2B)
                /\ ~(e.op = \h30)
                /\ ~(e.op = \h31)
                /\ ~(e.op = \h32)
                /\ ~(e.op = \h33)
                /\ ~(e.op = \h38)
                /\ ~(e.op = \h39)
                /\ ~(e.op = \h3A)
                /\ ~(e.op = \h3B)
                /\ ~(e.op = \h80)
                /\ ~(e.op = \h81)
                /\ ~(e.op = \h83)
                /\ ~(e.op = \h84)
                /\ ~(e.op = \h85)
                /\ ~(e.op = \h86)
                /\ ~(e.op = \h87)
                /\ ~(e.op = \h88)
                /\ ~(e.op = \h8A)
                /\ ~(e.op = \h8D)
                /\ ~(e.op = \hC0)
                /\ ~(e.op = \hC1)
                /\ ~(e.op = \hD1)
                /\ ~(e.op = \hD3)
                /\ ~(e.op = \hF7)
                /\ ~(e.op = \hFE)
                /\ ~(e.op = \hFF)
                /\ ~(e.op = \hC6)
                /\ ~(e.op = \hC7)
                /\ ~(e.op = \hD0)
                /\ ~(e.op = \hD2)
                /\ ~(e.op = \h63)
      BY <1>63, ErrorSame DEF Branch
    <1> QED
      BY <1>1, <1>2, <1>3, <1>4, <1>5, <1>6, <1>7, <1>8, <1>9, <1>10, <1>11, <1>12, <1>13, <1>14, <1>15, <1>16, <1>17, <1>18, <1>19, <1>20, <1>21, <1>22, <1>23, <1>24, <1>25, <1>26, <1>27, <1>28, <1>29, <1>30, <1>31, <1>32, <1>33, <1>34, <1>35, <1>36, <1>37, <1>38, <1>39, <1>40, <1>41, <1>42, <1>43, <1>44, <1>45, <1>46, <1>47, <1>48, <1>49, <1>50, <1>51, <1>52, <1>53, <1>54, <1>55, <1>56, <1>57, <1>58, <1>59, <1>60, <1>61, <1>62, <1>63

\* decodeGeneral.
LEMMA GeneralRight ==
    ASSUME NEW e \in Encodings, ~KnownMisdecode(e), decodeOperandOverride(e) = Pass
    PROVE  Same(e, decodeGeneral(e))
    BY BranchRight, ErrorSame DEF decodeGeneral, General, Only

-----------------------------------------------------------------------------
(* One instruction *)

\* The near return is tried before anything else.
LEMMA RetRight ==
    ASSUME NEW e \in Encodings, e.pre = {}, ~e.hasRex, e.op = \hC3
    PROVE  Same(e, Ret)
    <1>1. Scalar(e) /\ OneByte(e) = Bare("Ret", NoOperands)
      BY DEF Scalar, OneByte
    <1>2. Meaning(e) = Bare("Ret", NoOperands)
      BY <1>1, OneByteMeaning
    <1> QED
      BY <1>2, SameBare0 DEF Ret

\* Trying one family after another.
LEMMA ElseSame ==
    ASSUME NEW e, NEW a, NEW b, Same(e, a), a = Pass => Same(e, b)
    PROVE  Same(e, Else(a, b))
    BY DEF Else

\* All families in the order decodeInstruction tries them.
LEMMA RecognizedRight ==
    ASSUME NEW e \in Encodings, ~KnownMisdecode(e)
    PROVE  Same(e, Recognized(e))
    <1>1. CASE e.pre = {} /\ ~e.hasRex /\ e.op = \hC3
      BY <1>1, RetRight DEF Recognized
    <1>2. CASE ~(e.pre = {} /\ ~e.hasRex /\ e.op = \hC3) /\ e.pad > 0 /\ ~(e.op = \h0F /\ e.op2 = \h1F)
      BY <1>2, ErrorSame DEF Recognized
    <1>3. CASE ~(e.pre = {} /\ ~e.hasRex /\ e.op = \hC3) /\ ~(e.pad > 0 /\ ~(e.op = \h0F /\ e.op2 = \h1F))
      <2> DEFINE extended == Else(decodeExtended(e), decodeGeneral(e))
                 atomic == Else(decodeAtomic(e), extended)
                 control == Else(decodeControlTransfer(e), atomic)
                 repeat == Else(decodeRepeat(e), control)
                 memory == Else(decodeSimdMemory(e), repeat)
                 lanes == Else(decodeSimdLanes(e), memory)
                 override == Else(decodeOperandOverride(e), lanes)
                 short == Else(decodeSimdShort(e), override)
                 special == Else(decodeScalarSpecial(e), short)
      <2>1. Recognized(e) = Else(decodeVex(e), special)
        BY <1>3, Zenon DEF Recognized
      <2>2. decodeOperandOverride(e) = Pass => Same(e, extended)
        BY ExtendedRight, GeneralRight, ElseSame
      <2> HIDE DEF extended
      <2>3. decodeOperandOverride(e) = Pass => Same(e, atomic)
        BY <2>2, AtomicRight, ElseSame
      <2> HIDE DEF atomic
      <2>4. decodeOperandOverride(e) = Pass => Same(e, control)
        BY <2>3, ControlTransferRight, ElseSame
      <2> HIDE DEF control
      <2>5. decodeOperandOverride(e) = Pass => Same(e, repeat)
        BY <2>4, RepeatRight, ElseSame
      <2> HIDE DEF repeat
      <2>6. decodeOperandOverride(e) = Pass => Same(e, memory)
        BY <2>5, SimdMemoryRight, ElseSame
      <2> HIDE DEF memory
      <2>7. decodeOperandOverride(e) = Pass => Same(e, lanes)
        BY <2>6, SimdLanesRight, ElseSame
      <2> HIDE DEF lanes
      <2>8. Same(e, override)
        BY <2>7, OperandOverrideRight, ElseSame
      <2> HIDE DEF override
      <2>9. Same(e, short)
        BY <2>8, SimdShortRight, ElseSame
      <2> HIDE DEF short
      <2>10. Same(e, special)
        BY <2>9, ScalarSpecialRight, ElseSame
      <2> HIDE DEF special
      <2> QED
        BY <2>1, <2>10, VexRight, ElseSame
    <1> QED
      BY <1>1, <1>2, <1>3

(***************************************************************************)
(* Whatever decodeInstruction accepts has the mnemonic, operands,          *)
(* immediate extension and length the architecture gives the encoding,     *)
(* unless it is one of the misdecodings known by name; this holds of every *)
(* encoding, not only of the ones a run enumerates.                        *)
(***************************************************************************)
THEOREM InstructionsAreArchitectural ==
    \A e \in Encodings :
        KnownMisdecode(e) \/ decodeInstruction(e) = Error
            \/ Normal(decodeInstruction(e)) = Architecture(e)
    BY RecognizedRight DEF Same, decodeInstruction
=============================================================================
