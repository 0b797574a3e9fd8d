------------------------ MODULE DecoderLengthProofs -------------------------
(***************************************************************************)
(* How many bytes decodeInstruction takes, for every encoding: between one *)
(* and fifteen, and as many as the architecture gives the instruction,     *)
(* even where the decoder takes it for another one; only the encodings of  *)
(* Derails take it off the program. An accepted instruction ends a block   *)
(* exactly when its encoding is a control transfer.                        *)
(***************************************************************************)
EXTENDS DecoderInstructionProofs

-----------------------------------------------------------------------------
(* Length and control transfer of whatever the decoder accepts *)

\* Operand a is rejected or takes at most n bytes.
Takes(e, a, n) == Placed(e, a) = Error \/ Taken(Placed(e, a)) \in 0 .. n

\* The mnemonic ends a block exactly when the encoding is a control transfer.
Names(e, op) == op \in {"Jmp", "Jcc", "Call", "Syscall", "Ret"} <=> Transfers(e)

\* d adds at most ten bytes to prefixes and opcode.
Bounded(e, d) ==
    \/ Decoded(e, d) = Error
    \/ /\ \E t \in 0 .. 10 : Decoded(e, d).len = HeaderLength(e) + t
       /\ Names(e, Decoded(e, d).op)

\* What is rejected has no length.
LEMMA ErrorBounded ==
    ASSUME NEW e
    PROVE  Bounded(e, Error) /\ Bounded(e, Pass)
    BY DEF Bounded, Decoded

\* An encoding has finitely many prefixes.
LEMMA PrefixesAreFinite ==
    ASSUME NEW e \in Encodings
    PROVE  IsFiniteSet(e.pre) /\ Cardinality(e.pre) \in Nat
    <1>1. IsFiniteSet({}) /\ IsFiniteSet({"66"})
      BY FS_EmptySet, FS_Singleton
    <1>2. IsFiniteSet({"66", "65"})
      <2>1. {"66"} \union {"65"} = {"66", "65"}
        OBVIOUS
      <2> QED
        BY <1>1, <2>1, FS_AddElement, FS_Singleton, FS_Union
    <1> DEFINE all == {"66", "65", "F3", "F2", "F0", "2E"}
               a3 == {"66", "65"} \union {"F3"}
               a4 == a3 \union {"F2"}
               a5 == a4 \union {"F0"}
               a6 == a5 \union {"2E"}
    <1>3. IsFiniteSet(a3)
      BY <1>2, FS_AddElement
    <1> HIDE DEF a3
    <1>4. IsFiniteSet(a4)
      BY <1>3, FS_AddElement
    <1> HIDE DEF a4
    <1>5. IsFiniteSet(a5)
      BY <1>4, FS_AddElement
    <1> HIDE DEF a5
    <1>6. IsFiniteSet(a6)
      BY <1>5, FS_AddElement
    <1> HIDE DEF a6
    <1>7. e.pre \subseteq a6
      BY DEF a6, a5, a4, a3, Encodings
    <1>8. IsFiniteSet(e.pre)
      BY <1>6, <1>7, FS_Subset
    <1> QED
      BY <1>8, FS_CardinalityType

\* There is an opcode at least.
LEMMA HeaderIsPositive ==
    ASSUME NEW e \in Encodings
    PROVE  HeaderLength(e) \in Nat \ {0}
    <1>1. Escape(e) \in 1 .. 4
      BY DEF Escape
    <1>2. e.pad \in Nat
      BY DEF Encodings
    <1> QED
      BY <1>1, <1>2, PrefixesAreFinite DEF HeaderLength

\* Operand by operand: ModRM byte, address and immediate stay within ten bytes.
LEMMA BoundedMade ==
    ASSUME NEW e \in Encodings, NEW op, NEW args, NEW cc, NEW modrm \in {0, 1}, Names(e, op),
           NEW k \in 0 .. 3, DOMAIN args = 1 .. k,
           NEW n1 \in Nat, NEW n2 \in Nat, NEW n3 \in Nat, modrm + n1 + n2 + n3 <= 10,
           k >= 1 => Takes(e, args[1], n1),
           k >= 2 => Takes(e, args[2], n2),
           k >= 3 => Takes(e, args[3], n3)
    PROVE  Bounded(e, Made(op, args, cc, modrm, TRUE))
    <1> DEFINE p == PlacedAll(e, args)
               d == Made(op, args, cc, modrm, TRUE)
               r == [op |-> op, args |-> p, cc |-> cc, len |-> HeaderLength(e) + modrm + TakenBy(p)]
    <1>0. DOMAIN p = 1 .. k /\ \A i \in 1 .. k : p[i] = Placed(e, args[i])
      BY DEF PlacedAll
    <1>1. CASE \E i \in 1 .. k : p[i] = Error
      <2>1. Decoded(e, d) = Error
        BY <1>1, DecodedMade
      <2> QED
        BY <2>1 DEF Bounded
    <1>2. CASE \A i \in 1 .. k : p[i] # Error
      <2>1. Decoded(e, d) = r
        BY <1>2, DecodedMade
      <2>2. TakenAt(p, 1) \in 0 .. n1
        BY <1>0, <1>2 DEF TakenAt, Takes
      <2>3. TakenAt(p, 2) \in 0 .. n2
        BY <1>0, <1>2 DEF TakenAt, Takes
      <2>4. TakenAt(p, 3) \in 0 .. n3
        BY <1>0, <1>2 DEF TakenAt, Takes
      <2>6. r.len = HeaderLength(e) + modrm + TakenBy(p) /\ r.op = op
        OBVIOUS
      <2> DEFINE h == HeaderLength(e)
      <2>7. h \in Nat
        BY HeaderIsPositive
      <2> HIDE DEF p, r, d, h
      <2> DEFINE t == modrm + TakenBy(p)
      <2>8. TakenBy(p) = TakenAt(p, 1) + TakenAt(p, 2) + TakenAt(p, 3)
        BY DEF TakenBy
      <2>9. TakenBy(p) \in Nat /\ modrm + TakenBy(p) <= 10
        BY <2>2, <2>3, <2>4, <2>8
      <2>10. t \in 0 .. 10 /\ h + modrm + TakenBy(p) = h + t
        <3> DEFINE n == TakenBy(p)
        <3> HIDE DEF n
        <3>1. n \in Nat /\ modrm \in Nat /\ modrm + n <= 10
          BY <2>9 DEF n
        <3>2. h + modrm + n = h + (modrm + n) /\ modrm + n \in 0 .. 10
          BY <2>7, <3>1
        <3> QED
          BY <3>2 DEF n
      <2> HIDE DEF t
      <2>11. r.len = h + t
        BY <2>6, <2>10 DEF h
      <2> QED
        BY <2>1, <2>6, <2>10, <2>11 DEF Bounded, h, d
    <1> QED
      BY <1>1, <1>2

\* BoundedMade without operands.
LEMMA Bound0 ==
    ASSUME NEW e \in Encodings, NEW op, Names(e, op), NEW cc, NEW modrm \in {0, 1}
    PROVE  Bounded(e, Made(op, NoOperands, cc, modrm, TRUE))
    <1> DEFINE s == NoOperands  k == 0  z1 == 0  z2 == 0  z3 == 0
    <1>1. k \in 0 .. 3 /\ DOMAIN s = 1 .. k /\ z1 \in Nat /\ z2 \in Nat /\ z3 \in Nat /\ modrm + z1 + z2 + z3 <= 10
      BY DEF NoOperands
    <1>2. (k >= 1 => Takes(e, s[1], z1)) /\ (k >= 2 => Takes(e, s[2], z2)) /\ (k >= 3 => Takes(e, s[3], z3))
      OBVIOUS
    <1> HIDE DEF s, k, z1, z2, z3
    <1>3. Bounded(e, Made(op, s, cc, modrm, TRUE))
      BY ONLY <1>1, <1>2, BoundedMade, e \in Encodings, Names(e, op), modrm \in {0, 1}
    <1> QED
      BY <1>3 DEF s

\* BoundedMade for one operand.
LEMMA Bound1 ==
    ASSUME NEW e \in Encodings, NEW op, Names(e, op), NEW cc, NEW modrm \in {0, 1},
           NEW a, NEW n1 \in Nat, Takes(e, a, n1), modrm + n1 <= 10
    PROVE  Bounded(e, Made(op, <<a>>, cc, modrm, TRUE))
    <1> DEFINE s == <<a>>  k == 1  z2 == 0  z3 == 0
    <1>1. k \in 0 .. 3 /\ DOMAIN s = 1 .. k /\ z2 \in Nat /\ z3 \in Nat /\ modrm + n1 + z2 + z3 <= 10
      BY DEF NoOperands
    <1>2. (k >= 1 => Takes(e, s[1], n1)) /\ (k >= 2 => Takes(e, s[2], z2)) /\ (k >= 3 => Takes(e, s[3], z3))
      OBVIOUS
    <1> HIDE DEF s, k, z2, z3
    <1>3. Bounded(e, Made(op, s, cc, modrm, TRUE))
      BY ONLY <1>1, <1>2, BoundedMade, e \in Encodings, Names(e, op), modrm \in {0, 1}, n1 \in Nat
    <1> QED
      BY <1>3 DEF s

\* BoundedMade for two operands.
LEMMA Bound2 ==
    ASSUME NEW e \in Encodings, NEW op, Names(e, op), NEW cc, NEW modrm \in {0, 1},
           NEW a, NEW n1 \in Nat, Takes(e, a, n1),
           NEW b, NEW n2 \in Nat, Takes(e, b, n2), modrm + n1 + n2 <= 10
    PROVE  Bounded(e, Made(op, <<a, b>>, cc, modrm, TRUE))
    <1> DEFINE s == <<a, b>>  k == 2  z3 == 0
    <1>1. k \in 0 .. 3 /\ DOMAIN s = 1 .. k /\ z3 \in Nat /\ modrm + n1 + n2 + z3 <= 10
      BY DEF NoOperands
    <1>2. (k >= 1 => Takes(e, s[1], n1)) /\ (k >= 2 => Takes(e, s[2], n2)) /\ (k >= 3 => Takes(e, s[3], z3))
      OBVIOUS
    <1> HIDE DEF s, k, z3
    <1>3. Bounded(e, Made(op, s, cc, modrm, TRUE))
      BY ONLY <1>1, <1>2, BoundedMade, e \in Encodings, Names(e, op), modrm \in {0, 1}, n1 \in Nat, n2 \in Nat
    <1> QED
      BY <1>3 DEF s

\* BoundedMade for three operands.
LEMMA Bound3 ==
    ASSUME NEW e \in Encodings, NEW op, Names(e, op), NEW cc, NEW modrm \in {0, 1},
           NEW a, NEW n1 \in Nat, Takes(e, a, n1),
           NEW b, NEW n2 \in Nat, Takes(e, b, n2),
           NEW c, NEW n3 \in Nat, Takes(e, c, n3), modrm + n1 + n2 + n3 <= 10
    PROVE  Bounded(e, Made(op, <<a, b, c>>, cc, modrm, TRUE))
    <1> DEFINE s == <<a, b, c>>  k == 3
    <1>1. k \in 0 .. 3 /\ DOMAIN s = 1 .. k /\ modrm + n1 + n2 + n3 <= 10
      BY DEF NoOperands
    <1>2. (k >= 1 => Takes(e, s[1], n1)) /\ (k >= 2 => Takes(e, s[2], n2)) /\ (k >= 3 => Takes(e, s[3], n3))
      OBVIOUS
    <1> HIDE DEF s, k
    <1>3. Bounded(e, Made(op, s, cc, modrm, TRUE))
      BY ONLY <1>1, <1>2, BoundedMade, e \in Encodings, Names(e, op), modrm \in {0, 1}, n1 \in Nat, n2 \in Nat, n3 \in Nat
    <1> QED
      BY <1>3 DEF s

\* A ModRM byte and no operand.
LEMMA BoundedInst0 ==
    ASSUME NEW e \in Encodings, NEW op, Names(e, op)
    PROVE  Bounded(e, Inst(op, NoOperands))
    <1>1. Inst(op, NoOperands) = Made(op, NoOperands, "none", 1, TRUE)
      BY CondMade DEF Inst, Bare
    <1> DEFINE m == 1
    <1>2. m \in {0, 1}
      OBVIOUS
    <1>3. Bounded(e, Inst(op, NoOperands))
      BY <1>1, Bound0
    <1> QED
      BY <1>3

\* A ModRM byte and one operand.
LEMMA BoundedInst1 ==
    ASSUME NEW e \in Encodings, NEW op, Names(e, op), NEW a,
           (Takes(e, a, 5))
    PROVE  Bounded(e, Inst(op, <<a>>))
    <1>1. Inst(op, <<a>>) = Made(op, <<a>>, "none", 1, TRUE)
      BY CondMade DEF Inst, Bare
    <1> DEFINE m == 1
    <1>2. m \in {0, 1}
      OBVIOUS
    <1>3. CASE Takes(e, a, 5)
      <2> DEFINE n1 == 5
      <2>1. n1 \in Nat /\ Takes(e, a, n1) /\ m + n1 <= 10
        BY <1>3
      <2> HIDE DEF m, n1
      <2>2. Bounded(e, Made(op, <<a>>, "none", m, TRUE))
        BY <1>2, <2>1, Bound1
      <2> QED
        BY <1>1, <2>2 DEF m
    <1> QED
      BY <1>3

\* An address and an immediate, in either order.
LEMMA BoundedInst2 ==
    ASSUME NEW e \in Encodings, NEW op, Names(e, op), NEW a, NEW b,
           (Takes(e, a, 5) /\ Takes(e, b, 4)) \/ (Takes(e, a, 4) /\ Takes(e, b, 5))
    PROVE  Bounded(e, Inst(op, <<a, b>>))
    <1>1. Inst(op, <<a, b>>) = Made(op, <<a, b>>, "none", 1, TRUE)
      BY CondMade DEF Inst, Bare
    <1> DEFINE m == 1
    <1>2. m \in {0, 1}
      OBVIOUS
    <1>3. CASE Takes(e, a, 5) /\ Takes(e, b, 4)
      <2> DEFINE n1 == 5  n2 == 4
      <2>1. n1 \in Nat /\ Takes(e, a, n1) /\ n2 \in Nat /\ Takes(e, b, n2) /\ m + n1 + n2 <= 10
        BY <1>3
      <2> HIDE DEF m, n1, n2
      <2>2. Bounded(e, Made(op, <<a, b>>, "none", m, TRUE))
        BY <1>2, <2>1, Bound2
      <2> QED
        BY <1>1, <2>2 DEF m
    <1>4. CASE Takes(e, a, 4) /\ Takes(e, b, 5)
      <2> DEFINE n1 == 4  n2 == 5
      <2>1. n1 \in Nat /\ Takes(e, a, n1) /\ n2 \in Nat /\ Takes(e, b, n2) /\ m + n1 + n2 <= 10
        BY <1>4
      <2> HIDE DEF m, n1, n2
      <2>2. Bounded(e, Made(op, <<a, b>>, "none", m, TRUE))
        BY <1>2, <2>1, Bound2
      <2> QED
        BY <1>1, <2>2 DEF m
    <1> QED
      BY <1>3, <1>4

\* An address, a register and an immediate.
LEMMA BoundedInst3 ==
    ASSUME NEW e \in Encodings, NEW op, Names(e, op), NEW a, NEW b, NEW c,
           (Takes(e, a, 0) /\ Takes(e, b, 5) /\ Takes(e, c, 4)) \/ (Takes(e, a, 5) /\ Takes(e, b, 0) /\ Takes(e, c, 4))
    PROVE  Bounded(e, Inst(op, <<a, b, c>>))
    <1>1. Inst(op, <<a, b, c>>) = Made(op, <<a, b, c>>, "none", 1, TRUE)
      BY CondMade DEF Inst, Bare
    <1> DEFINE m == 1
    <1>2. m \in {0, 1}
      OBVIOUS
    <1>3. CASE Takes(e, a, 0) /\ Takes(e, b, 5) /\ Takes(e, c, 4)
      <2> DEFINE n1 == 0  n2 == 5  n3 == 4
      <2>1. n1 \in Nat /\ Takes(e, a, n1) /\ n2 \in Nat /\ Takes(e, b, n2) /\ n3 \in Nat /\ Takes(e, c, n3) /\ m + n1 + n2 + n3 <= 10
        BY <1>3
      <2> HIDE DEF m, n1, n2, n3
      <2>2. Bounded(e, Made(op, <<a, b, c>>, "none", m, TRUE))
        BY <1>2, <2>1, Bound3
      <2> QED
        BY <1>1, <2>2 DEF m
    <1>4. CASE Takes(e, a, 5) /\ Takes(e, b, 0) /\ Takes(e, c, 4)
      <2> DEFINE n1 == 5  n2 == 0  n3 == 4
      <2>1. n1 \in Nat /\ Takes(e, a, n1) /\ n2 \in Nat /\ Takes(e, b, n2) /\ n3 \in Nat /\ Takes(e, c, n3) /\ m + n1 + n2 + n3 <= 10
        BY <1>4
      <2> HIDE DEF m, n1, n2, n3
      <2>2. Bounded(e, Made(op, <<a, b, c>>, "none", m, TRUE))
        BY <1>2, <2>1, Bound3
      <2> QED
        BY <1>1, <2>2 DEF m
    <1> QED
      BY <1>3, <1>4

\* An opcode alone.
LEMMA BoundedBare0 ==
    ASSUME NEW e \in Encodings, NEW op, Names(e, op)
    PROVE  Bounded(e, Bare(op, NoOperands))
    <1>1. Bare(op, NoOperands) = Made(op, NoOperands, "none", 0, TRUE)
      BY CondMade DEF Inst, Bare
    <1> DEFINE m == 0
    <1>2. m \in {0, 1}
      OBVIOUS
    <1>3. Bounded(e, Bare(op, NoOperands))
      BY <1>1, Bound0
    <1> QED
      BY <1>3

\* An opcode and an immediate of four bytes.
LEMMA BoundedBare1 ==
    ASSUME NEW e \in Encodings, NEW op, Names(e, op), NEW a,
           (Takes(e, a, 4))
    PROVE  Bounded(e, Bare(op, <<a>>))
    <1>1. Bare(op, <<a>>) = Made(op, <<a>>, "none", 0, TRUE)
      BY CondMade DEF Inst, Bare
    <1> DEFINE m == 0
    <1>2. m \in {0, 1}
      OBVIOUS
    <1>3. CASE Takes(e, a, 4)
      <2> DEFINE n1 == 4
      <2>1. n1 \in Nat /\ Takes(e, a, n1) /\ m + n1 <= 10
        BY <1>3
      <2> HIDE DEF m, n1
      <2>2. Bounded(e, Made(op, <<a>>, "none", m, TRUE))
        BY <1>2, <2>1, Bound1
      <2> QED
        BY <1>1, <2>2 DEF m
    <1> QED
      BY <1>3

\* A register and an immediate of eight bytes.
LEMMA BoundedBare2 ==
    ASSUME NEW e \in Encodings, NEW op, Names(e, op), NEW a, NEW b,
           (Takes(e, a, 0) /\ Takes(e, b, 8))
    PROVE  Bounded(e, Bare(op, <<a, b>>))
    <1>1. Bare(op, <<a, b>>) = Made(op, <<a, b>>, "none", 0, TRUE)
      BY CondMade DEF Inst, Bare
    <1> DEFINE m == 0
    <1>2. m \in {0, 1}
      OBVIOUS
    <1>3. CASE Takes(e, a, 0) /\ Takes(e, b, 8)
      <2> DEFINE n1 == 0  n2 == 8
      <2>1. n1 \in Nat /\ Takes(e, a, n1) /\ n2 \in Nat /\ Takes(e, b, n2) /\ m + n1 + n2 <= 10
        BY <1>3
      <2> HIDE DEF m, n1, n2
      <2>2. Bounded(e, Made(op, <<a, b>>, "none", m, TRUE))
        BY <1>2, <2>1, Bound2
      <2> QED
        BY <1>1, <2>2 DEF m
    <1> QED
      BY <1>3

\* A condition and one operand.
LEMMA BoundedCond1 ==
    ASSUME NEW e \in Encodings, NEW op, Names(e, op), NEW cc, NEW a,
           (Takes(e, a, 5))
    PROVE  Bounded(e, Cond(Inst(op, <<a>>), cc))
    <1>1. Cond(Inst(op, <<a>>), cc) = Made(op, <<a>>, cc, 1, TRUE)
      BY CondMade DEF Inst, Bare
    <1> DEFINE m == 1
    <1>2. m \in {0, 1}
      OBVIOUS
    <1>3. CASE Takes(e, a, 5)
      <2> DEFINE n1 == 5
      <2>1. n1 \in Nat /\ Takes(e, a, n1) /\ m + n1 <= 10
        BY <1>3
      <2> HIDE DEF m, n1
      <2>2. Bounded(e, Made(op, <<a>>, cc, m, TRUE))
        BY <1>2, <2>1, Bound1
      <2> QED
        BY <1>1, <2>2 DEF m
    <1> QED
      BY <1>3

\* A condition and two operands.
LEMMA BoundedCond2 ==
    ASSUME NEW e \in Encodings, NEW op, Names(e, op), NEW cc, NEW a, NEW b,
           (Takes(e, a, 4) /\ Takes(e, b, 5))
    PROVE  Bounded(e, Cond(Inst(op, <<a, b>>), cc))
    <1>1. Cond(Inst(op, <<a, b>>), cc) = Made(op, <<a, b>>, cc, 1, TRUE)
      BY CondMade DEF Inst, Bare
    <1> DEFINE m == 1
    <1>2. m \in {0, 1}
      OBVIOUS
    <1>3. CASE Takes(e, a, 4) /\ Takes(e, b, 5)
      <2> DEFINE n1 == 4  n2 == 5
      <2>1. n1 \in Nat /\ Takes(e, a, n1) /\ n2 \in Nat /\ Takes(e, b, n2) /\ m + n1 + n2 <= 10
        BY <1>3
      <2> HIDE DEF m, n1, n2
      <2>2. Bounded(e, Made(op, <<a, b>>, cc, m, TRUE))
        BY <1>2, <2>1, Bound2
      <2> QED
        BY <1>1, <2>2 DEF m
    <1> QED
      BY <1>3

\* A condition and a displacement.
LEMMA BoundedJcc ==
    ASSUME NEW e \in Encodings, NEW op, Names(e, op), NEW cc, NEW a,
           (Takes(e, a, 4))
    PROVE  Bounded(e, Cond(Bare(op, <<a>>), cc))
    <1>1. Cond(Bare(op, <<a>>), cc) = Made(op, <<a>>, cc, 0, TRUE)
      BY CondMade DEF Inst, Bare
    <1> DEFINE m == 0
    <1>2. m \in {0, 1}
      OBVIOUS
    <1>3. CASE Takes(e, a, 4)
      <2> DEFINE n1 == 4
      <2>1. n1 \in Nat /\ Takes(e, a, n1) /\ m + n1 <= 10
        BY <1>3
      <2> HIDE DEF m, n1
      <2>2. Bounded(e, Made(op, <<a>>, cc, m, TRUE))
        BY <1>2, <2>1, Bound1
      <2> QED
        BY <1>1, <2>2 DEF m
    <1> QED
      BY <1>3

\* An addressing form takes at most a SIB byte and four bytes of displacement.
LEMMA MemoryFormShort ==
    ASSUME NEW e \in Encodings, NEW w, NEW p
    PROVE  MemoryForm(e, w, p) = Error \/ MemoryForm(e, w, p).n \in 0 .. 5
  <1>1. DispOf(e) \in {0, 1, 4}
    BY DEF DispOf
  <1>2. CASE Direct(e)
    BY <1>2, DirectRefusesMemory
  <1>3. CASE ~Direct(e) /\ RipForm(e)
    BY <1>3 DEF MemoryForm, Address, SibForm, RipForm
  <1>4. CASE NoBaseForm(e)
    BY <1>4 DEF MemoryForm, Address, SibForm, RipForm, NoBaseForm
  <1>5. CASE ~Direct(e) /\ ~RipForm(e) /\ ~NoBaseForm(e)
    BY <1>1, <1>5 DEF MemoryForm, Address
  <1> QED
    BY <1>2, <1>3, <1>4, <1>5

\* An address takes a SIB byte and a displacement of four bytes at most.
LEMMA AddressTakes ==
    ASSUME NEW e \in Encodings, NEW w, NEW p
    PROVE  Takes(e, Mem(w, p), 5)
    <1>1. MemoryForm(e, w, p) = Error \/ MemoryForm(e, w, p).n \in 0 .. 5
      BY MemoryFormShort
    <1>2. MemoryForm(e, w, p) = Error \/ MemoryForm(e, w, p).k = "mem"
      BY DEF MemoryForm, Address
    <1>3. Placed(e, Mem(w, p)) = MemoryForm(e, w, p)
      BY DEF Placed, Mem, Error
    <1> QED
      BY <1>1, <1>2, <1>3 DEF Takes, Taken

\* A register takes no byte of its own.
LEMMA RegisterTakes ==
    ASSUME NEW e, NEW n \in Nat
    PROVE  /\ \A r, w : Takes(e, Reg(r, w), n)
           /\ \A r : Takes(e, HighByte(r), n) /\ Takes(e, Xmm(r), n)
           /\ \A w : Takes(e, RegField(e, w), n) /\ Takes(e, RmField(e, w), n) /\ Takes(e, Acc(w), n)
           /\ Takes(e, XmmField(e), n) /\ Takes(e, XmmRm(e), n) /\ Takes(e, Error, n)
    BY DEF Takes, Taken, Placed, Reg, HighByte, Xmm, RegField, RmField, Acc, XmmField, XmmRm, Error

\* An immediate takes its own bytes.
LEMMA ImmTakes ==
    ASSUME NEW e, NEW n \in Nat
    PROVE  Takes(e, SImm(n), n) /\ Takes(e, ZImm(n), n)
    BY DEF Takes, Taken, Placed, SImm, ZImm, Error

\* A weaker bound.
LEMMA TakesMore ==
    ASSUME NEW e, NEW a, NEW n \in Nat, NEW m \in Nat, n <= m, Takes(e, a, n)
    PROVE  Takes(e, a, m)
    BY DEF Takes

\* The bounds the families use.
LEMMA Sizes ==
    ASSUME NEW e \in Encodings
    PROVE  /\ \A w, p : Takes(e, Mem(w, p), 5)
           /\ \A r, w : Takes(e, Reg(r, w), 0) /\ Takes(e, Reg(r, w), 4) /\ Takes(e, Reg(r, w), 5)
           /\ \A r : Takes(e, HighByte(r), 4) /\ Takes(e, HighByte(r), 5)
           /\ \A r : Takes(e, Xmm(r), 0) /\ Takes(e, Xmm(r), 4) /\ Takes(e, Xmm(r), 5)
           /\ \A w : Takes(e, RegField(e, w), 0) /\ Takes(e, RegField(e, w), 4) /\ Takes(e, RegField(e, w), 5)
           /\ \A w : Takes(e, RmField(e, w), 0) /\ Takes(e, RmField(e, w), 4) /\ Takes(e, RmField(e, w), 5)
           /\ Takes(e, XmmField(e), 0) /\ Takes(e, XmmField(e), 4) /\ Takes(e, XmmField(e), 5)
           /\ Takes(e, XmmRm(e), 0) /\ Takes(e, XmmRm(e), 4) /\ Takes(e, XmmRm(e), 5)
           /\ Takes(e, Error, 0) /\ Takes(e, Error, 4) /\ Takes(e, Error, 5)
           /\ \A w : Takes(e, Acc(w), 0)
    BY AddressTakes, RegisterTakes

\* The bounds of the immediates.
LEMMA ImmSizes ==
    ASSUME NEW e
    PROVE  /\ \A n \in {1, 2, 4} : Takes(e, SImm(n), 4) /\ Takes(e, ZImm(n), 4)
           /\ \A n \in {1, 2, 4, 8} : Takes(e, SImm(n), 8) /\ Takes(e, ZImm(n), 8)
           /\ Takes(e, One, 4)
           /\ Takes(e, Imm32(e), 4) /\ Takes(e, Imm32(e), 8)
    BY DEF Takes, Taken, Placed, SImm, ZImm, Error, One, Imm32

\* decodeSimdLanes keeps within ten bytes behind the opcode.
LEMMA SimdLanesBounded ==
    ASSUME NEW e \in Encodings
    PROVE  Bounded(e, decodeSimdLanes(e))
    <1>1. CASE Coded38(e, \h00)
      <2>1. decodeSimdLanes(e) = Pshufb(e)
        BY <1>1 DEF decodeSimdLanes, Coded, Coded38, Coded3A
      <2>2. Names(e, "Pshufb")
        BY <1>1 DEF Names, Transfers, Coded, Coded38, Coded3A
      <2> QED
        BY <2>1, <2>2, BoundedInst2, Sizes, ErrorBounded DEF Pshufb, Only, decodeModrmMemory
    <1>2. CASE Coded38(e, \h02)
      <2>1. decodeSimdLanes(e) = Phaddd(e)
        BY <1>2 DEF decodeSimdLanes, Coded, Coded38, Coded3A
      <2>2. Names(e, "Phaddd")
        BY <1>2 DEF Names, Transfers, Coded, Coded38, Coded3A
      <2> QED
        BY <2>1, <2>2, BoundedInst2, Sizes, ErrorBounded DEF Phaddd, RegisterOnly, Only
    <1>3. CASE Coded38(e, \h31)
      <2>1. decodeSimdLanes(e) = Pmovzxbd(e)
        BY <1>3 DEF decodeSimdLanes, Coded, Coded38, Coded3A
      <2>2. Names(e, "Pmovzxbd")
        BY <1>3 DEF Names, Transfers, Coded, Coded38, Coded3A
      <2> QED
        BY <2>1, <2>2, BoundedInst2, Sizes, ErrorBounded DEF Pmovzxbd, RegisterOnly, Only
    <1>4. CASE Coded38(e, \h22) \/ Coded38(e, \h21)
      <2>1. CASE Coded38(e, \h22)
        <3>1. decodeSimdLanes(e) = PmovsxRip(e)
          BY <2>1 DEF decodeSimdLanes, Coded, Coded38, Coded3A
        <3>2. Names(e, "Pmovsxbq") /\ Names(e, "Pmovsxbd")
          BY <2>1 DEF Names, Transfers, Coded38
        <3> QED
          BY <3>1, <3>2, BoundedInst2, Sizes, ErrorBounded DEF PmovsxRip, Only
      <2>2. CASE Coded38(e, \h21)
        <3>1. decodeSimdLanes(e) = PmovsxRip(e)
          BY <2>2 DEF decodeSimdLanes, Coded, Coded38, Coded3A
        <3>2. Names(e, "Pmovsxbq") /\ Names(e, "Pmovsxbd")
          BY <2>2 DEF Names, Transfers, Coded38
        <3> QED
          BY <3>1, <3>2, BoundedInst2, Sizes, ErrorBounded DEF PmovsxRip, Only
      <2> QED
        BY <1>4, <2>1, <2>2
    <1>5. CASE Coded38(e, \h25)
      <2>1. decodeSimdLanes(e) = Pmovsxdq(e)
        BY <1>5 DEF decodeSimdLanes, Coded, Coded38, Coded3A
      <2>2. Names(e, "Pmovsxdq")
        BY <1>5 DEF Names, Transfers, Coded, Coded38, Coded3A
      <2> QED
        BY <2>1, <2>2, BoundedInst2, Sizes, ErrorBounded DEF Pmovsxdq, Only, XmmOrMem
    <1>6. CASE Coded38(e, \h29)
      <2>1. decodeSimdLanes(e) = Pcmpeqq(e)
        BY <1>6 DEF decodeSimdLanes, Coded, Coded38, Coded3A
      <2>2. Names(e, "Pcmpeqq")
        BY <1>6 DEF Names, Transfers, Coded, Coded38, Coded3A
      <2> QED
        BY <2>1, <2>2, BoundedInst2, Sizes, ErrorBounded DEF Pcmpeqq, Only, XmmOrMem
    <1>7. CASE Coded38(e, \h15)
      <2>1. decodeSimdLanes(e) = Blendvpd(e)
        BY <1>7 DEF decodeSimdLanes, Coded, Coded38, Coded3A
      <2>2. Names(e, "Blendvpd")
        BY <1>7 DEF Names, Transfers, Coded, Coded38, Coded3A
      <2> QED
        BY <2>1, <2>2, BoundedInst2, Sizes, ErrorBounded DEF Blendvpd, RegisterOnly, Only
    <1>8. CASE Coded(e, {"66"}, {\hC4})
      <2>1. decodeSimdLanes(e) = Pinsrw(e)
        BY <1>8 DEF decodeSimdLanes, Coded, Coded38, Coded3A
      <2>2. Names(e, "Pinsrw")
        BY <1>8 DEF Names, Transfers, Coded, Coded38, Coded3A
      <2> QED
        BY <2>1, <2>2, BoundedInst3, Sizes, ImmSizes, ErrorBounded DEF Pinsrw, Only
    <1>9. CASE Coded(e, {"66"}, {\hC5})
      <2>1. decodeSimdLanes(e) = Pextrw(e)
        BY <1>9 DEF decodeSimdLanes, Coded, Coded38, Coded3A
      <2>2. Names(e, "Pextrw")
        BY <1>9 DEF Names, Transfers, Coded, Coded38, Coded3A
      <2> QED
        BY <2>1, <2>2, BoundedInst3, Sizes, ImmSizes, ErrorBounded DEF Pextrw, Only
    <1>10. CASE Coded3A(e, \h17) /\ ~e.hasRex
      <2>1. decodeSimdLanes(e) = Extractps(e)
        BY <1>10 DEF decodeSimdLanes, Coded, Coded38, Coded3A
      <2>2. Names(e, "Extractps")
        BY <1>10 DEF Names, Transfers, Coded, Coded38, Coded3A
      <2> QED
        BY <2>1, <2>2, BoundedInst3, Sizes, ImmSizes DEF Extractps
    <1>11. CASE Coded38(e, \h17) /\ ~e.hasRex
      <2>1. decodeSimdLanes(e) = Ptest(e)
        BY <1>11 DEF decodeSimdLanes, Coded, Coded38, Coded3A
      <2>2. Names(e, "Ptest")
        BY <1>11 DEF Names, Transfers, Coded, Coded38, Coded3A
      <2> QED
        BY <2>1, <2>2, BoundedInst2, Sizes, ErrorBounded DEF Ptest, Only
    <1>12. CASE Coded(e, {"66"}, {\hC2})
      <2>1. decodeSimdLanes(e) = Cmppd(e)
        BY <1>12 DEF decodeSimdLanes, Coded, Coded38, Coded3A
      <2>2. Names(e, "Cmppd")
        BY <1>12 DEF Names, Transfers, Coded, Coded38, Coded3A
      <2> QED
        BY <2>1, <2>2, BoundedInst3, Sizes, ImmSizes, ErrorBounded DEF Cmppd, Only
    <1>13. CASE Coded(e, {"66"}, {\hFD})
      <2>1. decodeSimdLanes(e) = Paddw(e)
        BY <1>13 DEF decodeSimdLanes, Coded, Coded38, Coded3A
      <2>2. Names(e, "Paddw")
        BY <1>13 DEF Names, Transfers, Coded, Coded38, Coded3A
      <2> QED
        BY <2>1, <2>2, BoundedInst2, Sizes, ErrorBounded DEF Paddw, RegisterOnly, Only
    <1>14. CASE Coded(e, {"66"}, {\h72, \h73})
      <2>1. decodeSimdLanes(e) = PackedShift(e)
        BY <1>14 DEF decodeSimdLanes, Coded, Coded38, Coded3A
      <2>2. Names(e, "Psrld") /\ Names(e, "Pslld") /\ Names(e, "Psrlq") /\ Names(e, "Psrldq") /\ Names(e, "Pslldq")
        BY <1>14 DEF Names, Transfers, Coded, Coded38, Coded3A
      <2> QED
        BY <1>14, <2>1, <2>2, BoundedInst2, Sizes, ImmSizes, ErrorBounded DEF PackedShift, Only
    <1>15. CASE Coded(e, {"66"}, {\hFE, \hD4})
      <2>1. decodeSimdLanes(e) = PackedAdd(e)
        BY <1>15 DEF decodeSimdLanes, Coded, Coded38, Coded3A
      <2>2. Names(e, "Paddq") /\ Names(e, "Paddd")
        BY <1>15 DEF Names, Transfers, Coded, Coded38, Coded3A
      <2> QED
        BY <1>15, <2>1, <2>2, BoundedInst2, Sizes, ErrorBounded DEF PackedAdd, RegisterOnly, Only, XmmOrMem
    <1>16. CASE Coded(e, {"66"}, {\h61, \h6C})
      <2>1. decodeSimdLanes(e) = Punpckl(e)
        BY <1>16 DEF decodeSimdLanes, Coded, Coded38, Coded3A
      <2>2. Names(e, "Punpcklwd") /\ Names(e, "Punpcklqdq")
        BY <1>16 DEF Names, Transfers, Coded, Coded38, Coded3A
      <2> QED
        BY <1>16, <2>1, <2>2, BoundedInst2, Sizes, ErrorBounded DEF Punpckl, RegisterOnly, Only
    <1>17. CASE Coded(e, {"66"}, {\hEB})
      <2>1. decodeSimdLanes(e) = Por(e)
        BY <1>17 DEF decodeSimdLanes, Coded, Coded38, Coded3A
      <2>2. Names(e, "Por")
        BY <1>17 DEF Names, Transfers, Coded, Coded38, Coded3A
      <2> QED
        BY <2>1, <2>2, BoundedInst2, Sizes, ErrorBounded DEF Por, Only
    <1>18. CASE Coded(e, {"66"}, {\hEF})
      <2>1. decodeSimdLanes(e) = Pxor(e)
        BY <1>18 DEF decodeSimdLanes, Coded, Coded38, Coded3A
      <2>2. Names(e, "Pxor")
        BY <1>18 DEF Names, Transfers, Coded, Coded38, Coded3A
      <2> QED
        BY <2>1, <2>2, BoundedInst2, Sizes DEF Pxor, XmmOrMem
    <1>19. CASE Coded(e, {"66"}, {\hDF}) /\ ~e.hasRex
      <2>1. decodeSimdLanes(e) = Pandn(e)
        BY <1>19 DEF decodeSimdLanes, Coded, Coded38, Coded3A
      <2>2. Names(e, "Pandn")
        BY <1>19 DEF Names, Transfers, Coded, Coded38, Coded3A
      <2> QED
        BY <2>1, <2>2, BoundedInst2, Sizes, ErrorBounded DEF Pandn, Only
    <1>20. CASE Coded(e, {"66"}, {\hDB}) /\ ~e.hasRex
      <2>1. decodeSimdLanes(e) = Pand(e)
        BY <1>20 DEF decodeSimdLanes, Coded, Coded38, Coded3A
      <2>2. Names(e, "Pand")
        BY <1>20 DEF Names, Transfers, Coded, Coded38, Coded3A
      <2> QED
        BY <2>1, <2>2, BoundedInst2, Sizes DEF Pand, XmmOrMem
    <1>21. CASE Coded(e, {"66"}, {\h74}) /\ ~e.hasRex
      <2>1. decodeSimdLanes(e) = Pcmpeqb(e)
        BY <1>21 DEF decodeSimdLanes, Coded, Coded38, Coded3A
      <2>2. Names(e, "Pcmpeqb")
        BY <1>21 DEF Names, Transfers, Coded, Coded38, Coded3A
      <2> QED
        BY <2>1, <2>2, BoundedInst2, Sizes DEF Pcmpeqb, XmmOrMem
    <1>22. CASE Coded(e, {"66"}, {\h76})
      <2>1. decodeSimdLanes(e) = Pcmpeqd(e)
        BY <1>22 DEF decodeSimdLanes, Coded, Coded38, Coded3A
      <2>2. Names(e, "Pcmpeqd")
        BY <1>22 DEF Names, Transfers, Coded, Coded38, Coded3A
      <2> QED
        BY <2>1, <2>2, BoundedInst2, Sizes, ErrorBounded DEF Pcmpeqd, RegisterOnly, Only
    <1>23. CASE Coded(e, {"66"}, {\h70}) /\ ~e.hasRex
      <2>1. decodeSimdLanes(e) = Pshufd(e)
        BY <1>23 DEF decodeSimdLanes, Coded, Coded38, Coded3A
      <2>2. Names(e, "Pshufd")
        BY <1>23 DEF Names, Transfers, Coded, Coded38, Coded3A
      <2> QED
        BY <2>1, <2>2, BoundedInst3, Sizes, ImmSizes, ErrorBounded DEF Pshufd, Only
    <1>24. CASE Coded(e, {}, {\h2E})
      <2>1. decodeSimdLanes(e) = Ucomisd(e)
        BY <1>24 DEF decodeSimdLanes, Coded, Coded38, Coded3A
      <2>2. Names(e, "Ucomisd")
        BY <1>24 DEF Names, Transfers, Coded, Coded38, Coded3A
      <2> QED
        BY <2>1, <2>2, BoundedInst2, Sizes, ErrorBounded DEF Ucomisd, RegisterOnly, Only
    <1>25. CASE Coded(e, {"66"}, {\h2E})
      <2>1. decodeSimdLanes(e) = Ucomiss(e)
        BY <1>25 DEF decodeSimdLanes, Coded, Coded38, Coded3A
      <2>2. Names(e, "Ucomiss")
        BY <1>25 DEF Names, Transfers, Coded, Coded38, Coded3A
      <2> QED
        BY <2>1, <2>2, BoundedInst2, Sizes, ErrorBounded DEF Ucomiss, Only, XmmOrMem
    <1>26. CASE Coded(e, {}, {\hC6})
      <2>1. decodeSimdLanes(e) = Shufps(e)
        BY <1>26 DEF decodeSimdLanes, Coded, Coded38, Coded3A
      <2>2. Names(e, "Shufps")
        BY <1>26 DEF Names, Transfers, Coded, Coded38, Coded3A
      <2> QED
        BY <2>1, <2>2, BoundedInst3, Sizes, ImmSizes, ErrorBounded DEF Shufps, Only
    <1>27. CASE Coded(e, {}, {\h50}) \/ Coded(e, {"66"}, {\h50})
      <2>1. decodeSimdLanes(e) = Movmsk(e)
        BY <1>27 DEF decodeSimdLanes, Coded, Coded38, Coded3A
      <2>2. Names(e, "Movmskps") /\ Names(e, "Movmskpd")
        BY <1>27 DEF Names, Transfers, Coded, Coded38, Coded3A
      <2> QED
        BY <2>1, <2>2, BoundedInst2, Sizes, ErrorBounded DEF Movmsk, Only
    <1>28. CASE Coded(e, {"66"}, {\hC6})
      <2>1. decodeSimdLanes(e) = Shufpd(e)
        BY <1>28 DEF decodeSimdLanes, Coded, Coded38, Coded3A
      <2>2. Names(e, "Shufpd")
        BY <1>28 DEF Names, Transfers, Coded, Coded38, Coded3A
      <2> QED
        BY <2>1, <2>2, BoundedInst3, Sizes, ImmSizes, ErrorBounded DEF Shufpd, Only
    <1>29. CASE Coded(e, {"66"}, {\hD6})
      <2>1. decodeSimdLanes(e) = MovqStore(e)
        BY <1>29 DEF decodeSimdLanes, Coded, Coded38, Coded3A
      <2>2. Names(e, "Movq")
        BY <1>29 DEF Names, Transfers, Coded, Coded38, Coded3A
      <2> QED
        BY <2>1, <2>2, BoundedInst2, Sizes DEF MovqStore
    <1>30. CASE /\ ~(Coded38(e, \h00))
                /\ ~(Coded38(e, \h02))
                /\ ~(Coded38(e, \h31))
                /\ ~(Coded38(e, \h22) \/ Coded38(e, \h21))
                /\ ~(Coded38(e, \h25))
                /\ ~(Coded38(e, \h29))
                /\ ~(Coded38(e, \h15))
                /\ ~(Coded(e, {"66"}, {\hC4}))
                /\ ~(Coded(e, {"66"}, {\hC5}))
                /\ ~(Coded3A(e, \h17) /\ ~e.hasRex)
                /\ ~(Coded38(e, \h17) /\ ~e.hasRex)
                /\ ~(Coded(e, {"66"}, {\hC2}))
                /\ ~(Coded(e, {"66"}, {\hFD}))
                /\ ~(Coded(e, {"66"}, {\h72, \h73}))
                /\ ~(Coded(e, {"66"}, {\hFE, \hD4}))
                /\ ~(Coded(e, {"66"}, {\h61, \h6C}))
                /\ ~(Coded(e, {"66"}, {\hEB}))
                /\ ~(Coded(e, {"66"}, {\hEF}))
                /\ ~(Coded(e, {"66"}, {\hDF}) /\ ~e.hasRex)
                /\ ~(Coded(e, {"66"}, {\hDB}) /\ ~e.hasRex)
                /\ ~(Coded(e, {"66"}, {\h74}) /\ ~e.hasRex)
                /\ ~(Coded(e, {"66"}, {\h76}))
                /\ ~(Coded(e, {"66"}, {\h70}) /\ ~e.hasRex)
                /\ ~(Coded(e, {}, {\h2E}))
                /\ ~(Coded(e, {"66"}, {\h2E}))
                /\ ~(Coded(e, {}, {\hC6}))
                /\ ~(Coded(e, {}, {\h50}) \/ Coded(e, {"66"}, {\h50}))
                /\ ~(Coded(e, {"66"}, {\hC6}))
                /\ ~(Coded(e, {"66"}, {\hD6}))
      BY <1>30, ErrorBounded DEF decodeSimdLanes
    <1> QED
      BY <1>1, <1>2, <1>3, <1>4, <1>5, <1>6, <1>7, <1>8, <1>9, <1>10, <1>11, <1>12, <1>13, <1>14, <1>15, <1>16, <1>17, <1>18, <1>19, <1>20, <1>21, <1>22, <1>23, <1>24, <1>25, <1>26, <1>27, <1>28, <1>29, <1>30

\* decodeSimdMemory keeps within ten bytes behind the opcode.
LEMMA SimdMemoryBounded ==
    ASSUME NEW e \in Encodings
    PROVE  Bounded(e, decodeSimdMemory(e))
    <1>1. CASE Coded(e, {"F2"}, {\h10, \h11})
      <2>1. decodeSimdMemory(e) = Movsd(e)
        BY <1>1 DEF decodeSimdMemory, Coded, Coded38, Coded3A, ScalarArithmetic
      <2>2. Names(e, "Movsd")
        BY <1>1 DEF Names, Transfers, Coded, Coded38, Coded3A, ScalarArithmetic
      <2> QED
        BY <1>1, <2>1, <2>2, BoundedInst2, Sizes DEF Movsd, LoadStore
    <1>2. CASE Coded(e, {}, {\h12, \h13})
      <2>1. decodeSimdMemory(e) = Movlps(e)
        BY <1>2 DEF decodeSimdMemory, Coded, Coded38, Coded3A, ScalarArithmetic
      <2>2. Names(e, "Movlps")
        BY <1>2 DEF Names, Transfers, Coded, Coded38, Coded3A, ScalarArithmetic
      <2> QED
        BY <1>2, <2>1, <2>2, BoundedInst2, Sizes DEF Movlps, LoadStore
    <1>3. CASE Coded(e, {"F2"}, {\h2C})
      <2>1. decodeSimdMemory(e) = Cvttsd2si(e)
        BY <1>3 DEF decodeSimdMemory, Coded, Coded38, Coded3A, ScalarArithmetic
      <2>2. Names(e, "Cvttsd2si")
        BY <1>3 DEF Names, Transfers, Coded, Coded38, Coded3A, ScalarArithmetic
      <2> QED
        BY <2>1, <2>2, BoundedInst2, Sizes DEF Cvttsd2si, XmmOrMem
    <1>4. CASE Coded(e, {"F2"}, {\h2A})
      <2>1. decodeSimdMemory(e) = Cvtsi2sd(e)
        BY <1>4 DEF decodeSimdMemory, Coded, Coded38, Coded3A, ScalarArithmetic
      <2>2. Names(e, "Cvtsi2sd")
        BY <1>4 DEF Names, Transfers, Coded, Coded38, Coded3A, ScalarArithmetic
      <2> QED
        BY <2>1, <2>2, BoundedInst2, Sizes DEF Cvtsi2sd
    <1>5. CASE Coded(e, {"F2"}, {\h5A})
      <2>1. decodeSimdMemory(e) = Cvtss2sd(e)
        BY <1>5 DEF decodeSimdMemory, Coded, Coded38, Coded3A, ScalarArithmetic
      <2>2. Names(e, "Cvtss2sd")
        BY <1>5 DEF Names, Transfers, Coded, Coded38, Coded3A, ScalarArithmetic
      <2> QED
        BY <2>1, <2>2, BoundedInst2, Sizes DEF Cvtss2sd, XmmOrMem
    <1>6. CASE Coded(e, {"F2"}, ScalarArithmetic)
      <2>1. decodeSimdMemory(e) = ScalarDouble(e)
        BY <1>6 DEF decodeSimdMemory, Coded, Coded38, Coded3A, ScalarArithmetic
      <2>2. Names(e, "Sqrtsd") /\ Names(e, "Addsd") /\ Names(e, "Mulsd") /\ Names(e, "Subsd") /\ Names(e, "Minsd") /\ Names(e, "Maxsd") /\ Names(e, "Divsd")
        BY <1>6 DEF Names, Transfers, Coded, Coded38, Coded3A, ScalarArithmetic
      <2>3. CASE e.op2 = \h51
        BY <1>6, <2>1, <2>2, <2>3, BoundedInst2, Sizes DEF ScalarDouble, XmmOrMem
      <2>4. CASE e.op2 = \h58
        BY <1>6, <2>1, <2>2, <2>4, BoundedInst2, Sizes DEF ScalarDouble, XmmOrMem
      <2>5. CASE e.op2 = \h59
        BY <1>6, <2>1, <2>2, <2>5, BoundedInst2, Sizes DEF ScalarDouble, XmmOrMem
      <2>6. CASE e.op2 = \h5C
        BY <1>6, <2>1, <2>2, <2>6, BoundedInst2, Sizes DEF ScalarDouble, XmmOrMem
      <2>7. CASE e.op2 = \h5D
        BY <1>6, <2>1, <2>2, <2>7, BoundedInst2, Sizes DEF ScalarDouble, XmmOrMem
      <2>8. CASE e.op2 = \h5E
        BY <1>6, <2>1, <2>2, <2>8, BoundedInst2, Sizes DEF ScalarDouble, XmmOrMem
      <2>9. CASE e.op2 = \h5F
        BY <1>6, <2>1, <2>2, <2>9, BoundedInst2, Sizes DEF ScalarDouble, XmmOrMem
      <2> QED
        BY <1>6, <2>3, <2>4, <2>5, <2>6, <2>7, <2>8, <2>9 DEF Coded, Coded38, Coded3A, ScalarArithmetic
    <1>7. CASE Coded(e, {"F2"}, {\h12})
      <2>1. decodeSimdMemory(e) = Movddup(e)
        BY <1>7 DEF decodeSimdMemory, Coded, Coded38, Coded3A, ScalarArithmetic
      <2>2. Names(e, "Movddup")
        BY <1>7 DEF Names, Transfers, Coded, Coded38, Coded3A, ScalarArithmetic
      <2> QED
        BY <2>1, <2>2, BoundedInst2, Sizes, ErrorBounded DEF Movddup, Only, XmmOrMem
    <1>8. CASE Coded(e, {"F3"}, {\hE6})
      <2>1. decodeSimdMemory(e) = Cvtdq2pd(e)
        BY <1>8 DEF decodeSimdMemory, Coded, Coded38, Coded3A, ScalarArithmetic
      <2>2. Names(e, "Cvtdq2pd")
        BY <1>8 DEF Names, Transfers, Coded, Coded38, Coded3A, ScalarArithmetic
      <2> QED
        BY <2>1, <2>2, BoundedInst2, Sizes DEF Cvtdq2pd, XmmOrMem
    <1>9. CASE Coded(e, {"F3"}, {\h10, \h11})
      <2>1. decodeSimdMemory(e) = Movss(e)
        BY <1>9 DEF decodeSimdMemory, Coded, Coded38, Coded3A, ScalarArithmetic
      <2>2. Names(e, "Movss")
        BY <1>9 DEF Names, Transfers, Coded, Coded38, Coded3A, ScalarArithmetic
      <2> QED
        BY <1>9, <2>1, <2>2, BoundedInst2, Sizes, ErrorBounded DEF Movss, Only, LoadStore
    <1>10. CASE Coded(e, {"F3"}, {\h7E})
      <2>1. decodeSimdMemory(e) = IF Direct(e) THEN Error ELSE MovqLoad(e)
        BY <1>10 DEF decodeSimdMemory, Coded, Coded38, Coded3A, ScalarArithmetic
      <2>2. Names(e, "Movq")
        BY <1>10 DEF Names, Transfers, Coded, Coded38, Coded3A, ScalarArithmetic
      <2> QED
        BY <2>1, <2>2, BoundedInst2, Sizes, ErrorBounded DEF MovqLoad
    <1>11. CASE Coded(e, {"66"}, {\hD7}) /\ ~e.hasRex
      <2>1. decodeSimdMemory(e) = Pmovmskb(e)
        BY <1>11 DEF decodeSimdMemory, Coded, Coded38, Coded3A, ScalarArithmetic
      <2>2. Names(e, "Pmovmskb")
        BY <1>11 DEF Names, Transfers, Coded, Coded38, Coded3A, ScalarArithmetic
      <2> QED
        BY <2>1, <2>2, BoundedInst2, Sizes, ErrorBounded DEF Pmovmskb, Only
    <1>12. CASE Coded(e, {}, {\h29}) \/ Coded(e, {"66"}, {\h29})
      <2>1. decodeSimdMemory(e) = AlignedStore(e)
        BY <1>12 DEF decodeSimdMemory, Coded, Coded38, Coded3A, ScalarArithmetic
      <2>2. Names(e, "Movaps") /\ Names(e, "Movapd")
        BY <1>12 DEF Names, Transfers, Coded, Coded38, Coded3A, ScalarArithmetic
      <2> QED
        BY <2>1, <2>2, BoundedInst2, Sizes DEF AlignedStore
    <1>13. CASE Coded(e, {}, {\h11}) \/ Coded(e, {"66"}, {\h11})
      <2>1. decodeSimdMemory(e) = UnalignedStore(e)
        BY <1>13 DEF decodeSimdMemory, Coded, Coded38, Coded3A, ScalarArithmetic
      <2>2. Names(e, "Movups")
        BY <1>13 DEF Names, Transfers, Coded, Coded38, Coded3A, ScalarArithmetic
      <2> QED
        BY <2>1, <2>2, BoundedInst2, Sizes DEF UnalignedStore
    <1>14. CASE Coded(e, {}, {\h10, \h28}) \/ Coded(e, {"66"}, {\h10, \h28})
      <2>1. decodeSimdMemory(e) = VectorLoad(e)
        BY <1>14 DEF decodeSimdMemory, Coded, Coded38, Coded3A, ScalarArithmetic
      <2>2. Names(e, "Movaps") /\ Names(e, "Movapd") /\ Names(e, "Movups")
        BY <1>14 DEF Names, Transfers, Coded, Coded38, Coded3A, ScalarArithmetic
      <2> QED
        BY <1>14, <2>1, <2>2, BoundedInst2, Sizes DEF VectorLoad, XmmOrMem
    <1>15. CASE Coded3A(e, \h16) /\ ~e.hasRex
      <2>1. decodeSimdMemory(e) = Pextrd(e)
        BY <1>15 DEF decodeSimdMemory, Coded, Coded38, Coded3A, ScalarArithmetic
      <2>2. Names(e, "Pextrd")
        BY <1>15 DEF Names, Transfers, Coded, Coded38, Coded3A, ScalarArithmetic
      <2> QED
        BY <2>1, <2>2, BoundedInst3, Sizes, ImmSizes, ErrorBounded DEF Pextrd, Only
    <1>16. CASE Coded3A(e, \h0E) /\ ~e.hasRex
      <2>1. decodeSimdMemory(e) = Pblendw(e)
        BY <1>16 DEF decodeSimdMemory, Coded, Coded38, Coded3A, ScalarArithmetic
      <2>2. Names(e, "Pblendw")
        BY <1>16 DEF Names, Transfers, Coded, Coded38, Coded3A, ScalarArithmetic
      <2> QED
        BY <2>1, <2>2, BoundedInst3, Sizes, ImmSizes, ErrorBounded DEF Pblendw, Only
    <1>17. CASE Coded3A(e, \h22)
      <2>1. decodeSimdMemory(e) = Pinsrd(e)
        BY <1>17 DEF decodeSimdMemory, Coded, Coded38, Coded3A, ScalarArithmetic
      <2>2. Names(e, "Pinsrd")
        BY <1>17 DEF Names, Transfers, Coded, Coded38, Coded3A, ScalarArithmetic
      <2> QED
        BY <2>1, <2>2, BoundedInst3, Sizes, ImmSizes, ErrorBounded DEF Pinsrd, Only
    <1>18. CASE Coded3A(e, \h20)
      <2>1. decodeSimdMemory(e) = Pinsrb(e)
        BY <1>18 DEF decodeSimdMemory, Coded, Coded38, Coded3A, ScalarArithmetic
      <2>2. Names(e, "Pinsrb")
        BY <1>18 DEF Names, Transfers, Coded, Coded38, Coded3A, ScalarArithmetic
      <2> QED
        BY <2>1, <2>2, BoundedInst3, Sizes, ImmSizes, ErrorBounded DEF Pinsrb, Only
    <1>19. CASE Coded3A(e, \h0F) /\ ~e.hasRex
      <2>1. decodeSimdMemory(e) = Palignr(e)
        BY <1>19 DEF decodeSimdMemory, Coded, Coded38, Coded3A, ScalarArithmetic
      <2>2. Names(e, "Palignr")
        BY <1>19 DEF Names, Transfers, Coded, Coded38, Coded3A, ScalarArithmetic
      <2> QED
        BY <2>1, <2>2, BoundedInst3, Sizes, ImmSizes, ErrorBounded DEF Palignr, Only
    <1>20. CASE Coded(e, {"66"}, {\h7F}) /\ ~e.hasRex
      <2>1. decodeSimdMemory(e) = MovdqaStore(e)
        BY <1>20 DEF decodeSimdMemory, Coded, Coded38, Coded3A, ScalarArithmetic
      <2>2. Names(e, "Movdqa")
        BY <1>20 DEF Names, Transfers, Coded, Coded38, Coded3A, ScalarArithmetic
      <2> QED
        BY <2>1, <2>2, BoundedInst2, Sizes DEF MovdqaStore
    <1>21. CASE Coded(e, {"66"}, {\h6F})
      <2>1. decodeSimdMemory(e) = IF e.hasRex THEN MovdqaLoadRex(e) ELSE MovdqaLoad(e)
        BY <1>21 DEF decodeSimdMemory, Coded, Coded38, Coded3A, ScalarArithmetic
      <2>2. Names(e, "Movdqa")
        BY <1>21 DEF Names, Transfers, Coded, Coded38, Coded3A, ScalarArithmetic
      <2> QED
        BY <2>1, <2>2, BoundedInst2, Sizes, ErrorBounded DEF MovdqaLoadRex, Only, MovdqaLoad, XmmOrMem
    <1>22. CASE /\ ~(Coded(e, {"F2"}, {\h10, \h11}))
                /\ ~(Coded(e, {}, {\h12, \h13}))
                /\ ~(Coded(e, {"F2"}, {\h2C}))
                /\ ~(Coded(e, {"F2"}, {\h2A}))
                /\ ~(Coded(e, {"F2"}, {\h5A}))
                /\ ~(Coded(e, {"F2"}, ScalarArithmetic))
                /\ ~(Coded(e, {"F2"}, {\h12}))
                /\ ~(Coded(e, {"F3"}, {\hE6}))
                /\ ~(Coded(e, {"F3"}, {\h10, \h11}))
                /\ ~(Coded(e, {"F3"}, {\h7E}))
                /\ ~(Coded(e, {"66"}, {\hD7}) /\ ~e.hasRex)
                /\ ~(Coded(e, {}, {\h29}) \/ Coded(e, {"66"}, {\h29}))
                /\ ~(Coded(e, {}, {\h11}) \/ Coded(e, {"66"}, {\h11}))
                /\ ~(Coded(e, {}, {\h10, \h28}) \/ Coded(e, {"66"}, {\h10, \h28}))
                /\ ~(Coded3A(e, \h16) /\ ~e.hasRex)
                /\ ~(Coded3A(e, \h0E) /\ ~e.hasRex)
                /\ ~(Coded3A(e, \h22))
                /\ ~(Coded3A(e, \h20))
                /\ ~(Coded3A(e, \h0F) /\ ~e.hasRex)
                /\ ~(Coded(e, {"66"}, {\h7F}) /\ ~e.hasRex)
                /\ ~(Coded(e, {"66"}, {\h6F}))
      BY <1>22, ErrorBounded DEF decodeSimdMemory
    <1> QED
      BY <1>1, <1>2, <1>3, <1>4, <1>5, <1>6, <1>7, <1>8, <1>9, <1>10, <1>11, <1>12, <1>13, <1>14, <1>15, <1>16, <1>17, <1>18, <1>19, <1>20, <1>21, <1>22

\* decodeSimdShort keeps within ten bytes behind the opcode.
LEMMA SimdShortBounded ==
    ASSUME NEW e \in Encodings
    PROVE  Bounded(e, decodeSimdShort(e))
    <1>1. CASE Coded(e, {}, {\h16})
      <2>1. decodeSimdShort(e) = Movlhps(e)
        BY <1>1 DEF decodeSimdShort, Coded, PackedArithmetic
      <2>2. Names(e, "Movlhps")
        BY <1>1 DEF Names, Transfers, Coded, PackedArithmetic
      <2> QED
        BY <2>1, <2>2, BoundedInst2, Sizes DEF Movlhps, XmmOrMem
    <1>2. CASE Coded(e, {}, {\h57}) /\ ~e.hasRex
      <2>1. decodeSimdShort(e) = Xorps(e)
        BY <1>2 DEF decodeSimdShort, Coded, PackedArithmetic
      <2>2. Names(e, "Xorps")
        BY <1>2 DEF Names, Transfers, Coded, PackedArithmetic
      <2> QED
        BY <2>1, <2>2, BoundedInst2, Sizes DEF Xorps, XmmOrMem
    <1>3. CASE Coded(e, {"66"}, {\h14})
      <2>1. decodeSimdShort(e) = Unpcklps(e)
        BY <1>3 DEF decodeSimdShort, Coded, PackedArithmetic
      <2>2. Names(e, "Unpcklps")
        BY <1>3 DEF Names, Transfers, Coded, PackedArithmetic
      <2> QED
        BY <2>1, <2>2, BoundedInst2, Sizes, ErrorBounded DEF Unpcklps, Only, XmmOrMem
    <1>4. CASE Coded(e, {"66"}, {\h7C})
      <2>1. decodeSimdShort(e) = Haddpd(e)
        BY <1>4 DEF decodeSimdShort, Coded, PackedArithmetic
      <2>2. Names(e, "Haddpd")
        BY <1>4 DEF Names, Transfers, Coded, PackedArithmetic
      <2> QED
        BY <2>1, <2>2, BoundedInst2, Sizes, ErrorBounded DEF Haddpd, Only, XmmOrMem
    <1>5. CASE Coded(e, {"66"}, {\h15})
      <2>1. decodeSimdShort(e) = Unpckhps(e)
        BY <1>5 DEF decodeSimdShort, Coded, PackedArithmetic
      <2>2. Names(e, "Unpckhps")
        BY <1>5 DEF Names, Transfers, Coded, PackedArithmetic
      <2> QED
        BY <2>1, <2>2, BoundedInst2, Sizes, ErrorBounded DEF Unpckhps, Only, XmmOrMem
    <1>6. CASE Coded(e, {"66"}, PackedArithmetic)
      <2>1. decodeSimdShort(e) = PackedDouble(e)
        BY <1>6 DEF decodeSimdShort, Coded, PackedArithmetic
      <2>2. Names(e, "Sqrtpd") /\ Names(e, "Addpd") /\ Names(e, "Mulpd") /\ Names(e, "Subpd") /\ Names(e, "Divpd")
        BY <1>6 DEF Names, Transfers, Coded, PackedArithmetic
      <2>3. CASE e.op2 = \h51
        BY <1>6, <2>1, <2>2, <2>3, BoundedInst2, Sizes, ErrorBounded DEF PackedDouble, Only, XmmOrMem
      <2>4. CASE e.op2 = \h58
        BY <1>6, <2>1, <2>2, <2>4, BoundedInst2, Sizes, ErrorBounded DEF PackedDouble, Only, XmmOrMem
      <2>5. CASE e.op2 = \h59
        BY <1>6, <2>1, <2>2, <2>5, BoundedInst2, Sizes, ErrorBounded DEF PackedDouble, Only, XmmOrMem
      <2>6. CASE e.op2 = \h5C
        BY <1>6, <2>1, <2>2, <2>6, BoundedInst2, Sizes, ErrorBounded DEF PackedDouble, Only, XmmOrMem
      <2>7. CASE e.op2 = \h5E
        BY <1>6, <2>1, <2>2, <2>7, BoundedInst2, Sizes, ErrorBounded DEF PackedDouble, Only, XmmOrMem
      <2> QED
        BY <1>6, <2>3, <2>4, <2>5, <2>6, <2>7 DEF Coded, PackedArithmetic
    <1>7. CASE Coded(e, {"66"}, {\h57})
      <2>1. decodeSimdShort(e) = Xorpd(e)
        BY <1>7 DEF decodeSimdShort, Coded, PackedArithmetic
      <2>2. Names(e, "Xorpd")
        BY <1>7 DEF Names, Transfers, Coded, PackedArithmetic
      <2> QED
        BY <2>1, <2>2, BoundedInst2, Sizes, ErrorBounded DEF Xorpd, RegisterOnly, Only
    <1>8. CASE Coded(e, {"66"}, {\h6E})
      <2>1. decodeSimdShort(e) = MovdLoad(e)
        BY <1>8 DEF decodeSimdShort, Coded, PackedArithmetic
      <2>2. Names(e, "Movq") /\ Names(e, "Movd")
        BY <1>8 DEF Names, Transfers, Coded, PackedArithmetic
      <2> QED
        BY <2>1, <2>2, BoundedInst2, Sizes, ErrorBounded DEF MovdLoad, Only
    <1>9. CASE Coded(e, {"66"}, {\h7E})
      <2>1. decodeSimdShort(e) = MovdStore(e)
        BY <1>9 DEF decodeSimdShort, Coded, PackedArithmetic
      <2>2. Names(e, "Movq") /\ Names(e, "Movd")
        BY <1>9 DEF Names, Transfers, Coded, PackedArithmetic
      <2> QED
        BY <2>1, <2>2, BoundedInst2, Sizes, ErrorBounded DEF MovdStore, Only
    <1>10. CASE Coded(e, {"F3"}, {\h7F})
      <2>1. decodeSimdShort(e) = MovdquStore(e)
        BY <1>10 DEF decodeSimdShort, Coded, PackedArithmetic
      <2>2. Names(e, "Movdqu")
        BY <1>10 DEF Names, Transfers, Coded, PackedArithmetic
      <2> QED
        BY <2>1, <2>2, BoundedInst2, Sizes, ErrorBounded DEF MovdquStore, Only
    <1>11. CASE Coded(e, {"F3"}, {\h6F})
      <2>1. decodeSimdShort(e) = MovdquLoad(e)
        BY <1>11 DEF decodeSimdShort, Coded, PackedArithmetic
      <2>2. Names(e, "Movdqu")
        BY <1>11 DEF Names, Transfers, Coded, PackedArithmetic
      <2> QED
        BY <2>1, <2>2, BoundedInst2, Sizes DEF MovdquLoad
    <1>12. CASE /\ ~(Coded(e, {}, {\h16}))
                /\ ~(Coded(e, {}, {\h57}) /\ ~e.hasRex)
                /\ ~(Coded(e, {"66"}, {\h14}))
                /\ ~(Coded(e, {"66"}, {\h7C}))
                /\ ~(Coded(e, {"66"}, {\h15}))
                /\ ~(Coded(e, {"66"}, PackedArithmetic))
                /\ ~(Coded(e, {"66"}, {\h57}))
                /\ ~(Coded(e, {"66"}, {\h6E}))
                /\ ~(Coded(e, {"66"}, {\h7E}))
                /\ ~(Coded(e, {"F3"}, {\h7F}))
                /\ ~(Coded(e, {"F3"}, {\h6F}))
      BY <1>12, ErrorBounded DEF decodeSimdShort
    <1> QED
      BY <1>1, <1>2, <1>3, <1>4, <1>5, <1>6, <1>7, <1>8, <1>9, <1>10, <1>11, <1>12

\* decodeScalarSpecial keeps within ten bytes behind the opcode.
LEMMA ScalarSpecialBounded ==
    ASSUME NEW e \in Encodings, ~(e.op = \h0F /\ e.op2 = \h1F)
    PROVE  Bounded(e, decodeScalarSpecial(e))
    <1>1. CASE NoPrefix(e) /\ e.op \in {\h6A, \h68}
      <2>1. decodeScalarSpecial(e) = PushImm(e)
        BY <1>1 DEF decodeScalarSpecial, NoPrefix, Escaped, ByteConditions
      <2>2. Names(e, "Push")
        BY <1>1 DEF Names, Transfers, NoPrefix, Escaped, ByteConditions
      <2> QED
        BY <1>1, <2>1, <2>2, BoundedBare1, Sizes, ImmSizes DEF PushImm
    <1>2. CASE NoPrefix(e) /\ e.op \in {\hA8, \hA9}
      <2>1. decodeScalarSpecial(e) = TestAcc(e)
        BY <1>2 DEF decodeScalarSpecial, NoPrefix, Escaped, ByteConditions
      <2>2. Names(e, "Test")
        BY <1>2 DEF Names, Transfers, NoPrefix, Escaped, ByteConditions
      <2> QED
        BY <1>2, <2>1, <2>2, BoundedBare2, Sizes, ImmSizes DEF TestAcc
    <1>3. CASE e.pre = {"66"} /\ ~e.hasRex /\ e.op = \hC1
      <2>1. decodeScalarSpecial(e) = RolWord(e)
        BY <1>3 DEF decodeScalarSpecial, NoPrefix, Escaped, ByteConditions
      <2>2. Names(e, "Rol")
        BY <1>3 DEF Names, Transfers, NoPrefix, Escaped, ByteConditions
      <2> QED
        BY <1>3, <2>1, <2>2, BoundedInst2, Sizes, ImmSizes, ErrorBounded DEF RolWord, Only
    <1>4. CASE e.pre \subseteq {"65"} /\ e.op = \hF6
      <2>1. decodeScalarSpecial(e) = GroupF6(e)
        BY <1>4 DEF decodeScalarSpecial, NoPrefix, Escaped, ByteConditions
      <2>2. Names(e, "Not") /\ Names(e, "Neg") /\ Names(e, "Div") /\ Names(e, "Test")
        BY <1>4 DEF Names, Transfers, NoPrefix, Escaped, ByteConditions
      <2> QED
        BY <1>4, <2>1, <2>2, BoundedInst1, BoundedInst2, Sizes, ImmSizes, ErrorBounded DEF GroupF6
    <1>5. CASE NoPrefix(e) /\ e.op \in {\h04, \h3C, \h3D}
      <2>1. decodeScalarSpecial(e) = AccShort(e)
        BY <1>5 DEF decodeScalarSpecial, NoPrefix, Escaped, ByteConditions
      <2>2. Names(e, "Add") /\ Names(e, "Cmp")
        BY <1>5 DEF Names, Transfers, NoPrefix, Escaped, ByteConditions
      <2> QED
        BY <1>5, <2>1, <2>2, BoundedBare2, Sizes, ImmSizes DEF AccShort
    <1>6. CASE NoPrefix(e) /\ e.op \in {\h35, \h0D}
      <2>1. decodeScalarSpecial(e) = AccShortLogic(e)
        BY <1>6 DEF decodeScalarSpecial, NoPrefix, Escaped, ByteConditions
      <2>2. Names(e, "Xor") /\ Names(e, "Or")
        BY <1>6 DEF Names, Transfers, NoPrefix, Escaped, ByteConditions
      <2> QED
        BY <1>6, <2>1, <2>2, BoundedBare2, Sizes, ImmSizes DEF AccShortLogic
    <1>7. CASE NoPrefix(e) /\ e.op \in (\hB0 .. \hB3) \union (\hB8 .. \hBF)
      <2>1. decodeScalarSpecial(e) = MovShort(e)
        BY <1>7 DEF decodeScalarSpecial, NoPrefix, Escaped, ByteConditions
      <2>2. Names(e, "Mov")
        BY <1>7 DEF Names, Transfers, NoPrefix, Escaped, ByteConditions
      <2> QED
        BY <1>7, <2>1, <2>2, BoundedBare2, Sizes, ImmSizes DEF MovShort
    <1>8. CASE e.pre = {} /\ e.op \in \h50 .. \h5F
      <2>1. decodeScalarSpecial(e) = PushPopReg(e)
        BY <1>8 DEF decodeScalarSpecial, NoPrefix, Escaped, ByteConditions
      <2>2. Names(e, "Push") /\ Names(e, "Pop")
        BY <1>8 DEF Names, Transfers, NoPrefix, Escaped, ByteConditions
      <2> QED
        BY <1>8, <2>1, <2>2, BoundedBare1, Sizes DEF PushPopReg
    <1>9. CASE NoPrefix(e) /\ e.op = \hC9
      <2>1. decodeScalarSpecial(e) = Leave
        BY <1>9 DEF decodeScalarSpecial, NoPrefix, Escaped, ByteConditions
      <2>2. Names(e, "Leave")
        BY <1>9 DEF Names, Transfers, NoPrefix, Escaped, ByteConditions
      <2> QED
        BY <2>1, <2>2, BoundedBare0 DEF Leave
    <1>10. CASE e.pre \subseteq {"66"} /\ ~e.hasRex /\ e.op = \h90
      <2>1. decodeScalarSpecial(e) = Nop
        BY <1>10 DEF decodeScalarSpecial, NoPrefix, Escaped, ByteConditions
      <2>2. Names(e, "Nop")
        BY <1>10 DEF Names, Transfers, NoPrefix, Escaped, ByteConditions
      <2> QED
        BY <2>1, <2>2, BoundedBare0 DEF Nop
    <1>11. CASE NoPrefix(e) /\ e.op \in {\hFC, \hFD}
      <2>1. decodeScalarSpecial(e) = SetDirection(e)
        BY <1>11 DEF decodeScalarSpecial, NoPrefix, Escaped, ByteConditions
      <2>2. Names(e, "Cld") /\ Names(e, "Std")
        BY <1>11 DEF Names, Transfers, NoPrefix, Escaped, ByteConditions
      <2> QED
        BY <1>11, <2>1, <2>2, BoundedBare0 DEF SetDirection
    <1>12. CASE e.pre \subseteq {"66", "2E"} /\ e.op = \h0F /\ e.op2 = \h1F
      BY <1>12 DEF NoPrefix
    <1>13. CASE NoPrefix(e) /\ e.op = \h0F /\ e.op2 = \h05
      <2>1. decodeScalarSpecial(e) = Syscall
        BY <1>13 DEF decodeScalarSpecial, NoPrefix, Escaped, ByteConditions
      <2>2. Names(e, "Syscall")
        BY <1>13 DEF Names, Transfers, NoPrefix, Escaped, ByteConditions
      <2> QED
        BY <2>1, <2>2, BoundedBare0 DEF Syscall
    <1>14. CASE NoPrefix(e) /\ e.op = \h0F /\ e.op2 \in {\h31, \hA2}
      <2>1. decodeScalarSpecial(e) = Counter(e)
        BY <1>14 DEF decodeScalarSpecial, NoPrefix, Escaped, ByteConditions
      <2>2. Names(e, "Rdtsc") /\ Names(e, "Cpuid")
        BY <1>14 DEF Names, Transfers, NoPrefix, Escaped, ByteConditions
      <2> QED
        BY <1>14, <2>1, <2>2, BoundedBare0 DEF Counter
    <1>15. CASE NoPrefix(e) /\ e.op = \h0F /\ e.op2 = \hAE /\ Direct(e) /\ <<e.reg, e.rm>> \in {<<5, 0>>, <<6, 0>>}
      <2>1. decodeScalarSpecial(e) = Fence(e)
        BY <1>15 DEF decodeScalarSpecial, NoPrefix, Escaped, ByteConditions
      <2>2. Names(e, "Lfence") /\ Names(e, "Mfence")
        BY <1>15 DEF Names, Transfers
      <2>3. Decoded(e, Fence(e)) = Decoded(e, Inst(IF e.reg = 5 THEN "Lfence" ELSE "Mfence", NoOperands))
        BY DiscardNone DEF Fence
      <2>4. Bounded(e, Inst("Lfence", NoOperands)) /\ Bounded(e, Inst("Mfence", NoOperands))
        BY <2>2, BoundedInst0
      <2> QED
        BY <2>1, <2>3, <2>4 DEF Bounded
    <1>16. CASE Escaped(e, {\h90 + c : c \in ByteConditions})
      <2>1. decodeScalarSpecial(e) = Setcc(e)
        BY <1>16 DEF decodeScalarSpecial, NoPrefix, Escaped, ByteConditions
      <2>2. Names(e, "Set")
        BY <1>16 DEF Names, Transfers, NoPrefix, Escaped, ByteConditions
      <2> QED
        BY <1>16, <2>1, <2>2, BoundedCond1, Sizes, ErrorBounded DEF Setcc, Only
    <1>17. CASE Escaped(e, {\hBF})
      <2>1. decodeScalarSpecial(e) = MovsxWord(e)
        BY <1>17 DEF decodeScalarSpecial, NoPrefix, Escaped, ByteConditions
      <2>2. Names(e, "Movsx")
        BY <1>17 DEF Names, Transfers, NoPrefix, Escaped, ByteConditions
      <2> QED
        BY <2>1, <2>2, BoundedInst2, Sizes DEF MovsxWord
    <1>18. CASE Escaped(e, {\hBE}) /\ ~e.hasRex
      <2>1. decodeScalarSpecial(e) = MovsxByteShort(e)
        BY <1>18 DEF decodeScalarSpecial, NoPrefix, Escaped, ByteConditions
      <2>2. Names(e, "Movsx")
        BY <1>18 DEF Names, Transfers, NoPrefix, Escaped, ByteConditions
      <2> QED
        BY <2>1, <2>2, BoundedInst2, Sizes, ErrorBounded DEF MovsxByteShort, Only
    <1>19. CASE Escaped(e, {\hB6})
      <2>1. decodeScalarSpecial(e) = MovzxByte(e)
        BY <1>19 DEF decodeScalarSpecial, NoPrefix, Escaped, ByteConditions
      <2>2. Names(e, "Movzx")
        BY <1>19 DEF Names, Transfers, NoPrefix, Escaped, ByteConditions
      <2> QED
        BY <2>1, <2>2, BoundedInst2, Sizes, ErrorBounded DEF MovzxByte
    <1>20. CASE Escaped(e, {\hB7})
      <2>1. decodeScalarSpecial(e) = MovzxWord(e)
        BY <1>20 DEF decodeScalarSpecial, NoPrefix, Escaped, ByteConditions
      <2>2. Names(e, "Movzx")
        BY <1>20 DEF Names, Transfers, NoPrefix, Escaped, ByteConditions
      <2> QED
        BY <2>1, <2>2, BoundedInst2, Sizes, ErrorBounded DEF MovzxWord, Only
    <1>21. CASE Escaped(e, {\hBC, \hBD}) /\ ~e.hasRex
      <2>1. decodeScalarSpecial(e) = BitScanShort(e)
        BY <1>21 DEF decodeScalarSpecial, NoPrefix, Escaped, ByteConditions
      <2>2. Names(e, "BitScanForward") /\ Names(e, "BitScanReverse")
        BY <1>21 DEF Names, Transfers, NoPrefix, Escaped, ByteConditions
      <2> QED
        BY <1>21, <2>1, <2>2, BoundedInst2, Sizes, ErrorBounded DEF BitScanShort, Only
    <1>22. CASE Escaped(e, \hC8 .. \hCF)
      <2>1. decodeScalarSpecial(e) = Bswap(e)
        BY <1>22 DEF decodeScalarSpecial, NoPrefix, Escaped, ByteConditions
      <2>2. Names(e, "Bswap")
        BY <1>22 DEF Names, Transfers, NoPrefix, Escaped, ByteConditions
      <2> QED
        BY <1>22, <2>1, <2>2, BoundedBare1, Sizes DEF Bswap
    <1>23. CASE /\ ~(NoPrefix(e) /\ e.op \in {\h6A, \h68})
                /\ ~(NoPrefix(e) /\ e.op \in {\hA8, \hA9})
                /\ ~(e.pre = {"66"} /\ ~e.hasRex /\ e.op = \hC1)
                /\ ~(e.pre \subseteq {"65"} /\ e.op = \hF6)
                /\ ~(NoPrefix(e) /\ e.op \in {\h04, \h3C, \h3D})
                /\ ~(NoPrefix(e) /\ e.op \in {\h35, \h0D})
                /\ ~(NoPrefix(e) /\ e.op \in (\hB0 .. \hB3) \union (\hB8 .. \hBF))
                /\ ~(e.pre = {} /\ e.op \in \h50 .. \h5F)
                /\ ~(NoPrefix(e) /\ e.op = \hC9)
                /\ ~(e.pre \subseteq {"66"} /\ ~e.hasRex /\ e.op = \h90)
                /\ ~(NoPrefix(e) /\ e.op \in {\hFC, \hFD})
                /\ ~(e.pre \subseteq {"66", "2E"} /\ e.op = \h0F /\ e.op2 = \h1F)
                /\ ~(NoPrefix(e) /\ e.op = \h0F /\ e.op2 = \h05)
                /\ ~(NoPrefix(e) /\ e.op = \h0F /\ e.op2 \in {\h31, \hA2})
                /\ ~(NoPrefix(e) /\ e.op = \h0F /\ e.op2 = \hAE /\ Direct(e) /\ <<e.reg, e.rm>> \in {<<5, 0>>, <<6, 0>>})
                /\ ~(Escaped(e, {\h90 + c : c \in ByteConditions}))
                /\ ~(Escaped(e, {\hBF}))
                /\ ~(Escaped(e, {\hBE}) /\ ~e.hasRex)
                /\ ~(Escaped(e, {\hB6}))
                /\ ~(Escaped(e, {\hB7}))
                /\ ~(Escaped(e, {\hBC, \hBD}) /\ ~e.hasRex)
                /\ ~(Escaped(e, \hC8 .. \hCF))
      BY <1>23, ErrorBounded DEF decodeScalarSpecial
    <1> QED
      BY <1>1, <1>2, <1>3, <1>4, <1>5, <1>6, <1>7, <1>8, <1>9, <1>10, <1>11, <1>12, <1>13, <1>14, <1>15, <1>16, <1>17, <1>18, <1>19, <1>20, <1>21, <1>22, <1>23

\* decodeOperandOverride keeps within ten bytes behind the opcode.
LEMMA OperandOverrideBounded ==
    ASSUME NEW e \in Encodings
    PROVE  Bounded(e, decodeOperandOverride(e))
    <1>1. CASE e.pre = {"66"} /\ e.op \in {\h01, \h85}
      <2>1. decodeOperandOverride(e) = WordRegReg(e)
        BY <1>1 DEF decodeOperandOverride, NoPrefix
      <2>2. Names(e, "Add") /\ Names(e, "Test")
        BY <1>1 DEF Names, Transfers, NoPrefix
      <2> QED
        BY <1>1, <2>1, <2>2, BoundedInst2, Sizes, ErrorBounded DEF WordRegReg
    <1>2. CASE e.pre = {"66"} /\ e.op = \h81
      <2>1. decodeOperandOverride(e) = WordLogicImm(e)
        BY <1>2 DEF decodeOperandOverride, NoPrefix
      <2>2. Names(e, "Or") /\ Names(e, "And") /\ Names(e, "Cmp")
        BY <1>2 DEF Names, Transfers, NoPrefix
      <2> QED
        BY <1>2, <2>1, <2>2, BoundedInst2, Sizes, ImmSizes, ErrorBounded DEF WordLogicImm, Only
    <1>3. CASE e.pre = {"66"} /\ e.op = \h83
      <2>1. decodeOperandOverride(e) = WordShortImm(e)
        BY <1>3 DEF decodeOperandOverride, NoPrefix
      <2>2. Names(e, "Or") /\ Names(e, "Sbb") /\ Names(e, "And") /\ Names(e, "Cmp")
        BY <1>3 DEF Names, Transfers, NoPrefix
      <2> QED
        BY <1>3, <2>1, <2>2, BoundedInst2, Sizes, ImmSizes, ErrorBounded DEF WordShortImm, Only
    <1>4. CASE e.pre = {"66"} /\ e.op = \hFF /\ ~e.hasRex
      <2>1. decodeOperandOverride(e) = WordIncDec(e)
        BY <1>4 DEF decodeOperandOverride, NoPrefix
      <2>2. e.reg \in {0, 1} => Names(e, "Inc") /\ Names(e, "Dec")
        BY <1>4 DEF Names, Transfers, NoPrefix
      <2> QED
        BY <1>4, <2>1, <2>2, BoundedInst1, Sizes, ErrorBounded DEF WordIncDec, Only
    <1>5. CASE e.pre = {"66"} /\ e.op = \h89
      <2>1. decodeOperandOverride(e) = WordStore(e)
        BY <1>5 DEF decodeOperandOverride, NoPrefix
      <2>2. Names(e, "Mov")
        BY <1>5 DEF Names, Transfers, NoPrefix
      <2> QED
        BY <2>1, <2>2, BoundedInst2, Sizes, ErrorBounded DEF WordStore, Only
    <1>6. CASE e.pre = {"66"} /\ e.op = \hC7
      <2>1. decodeOperandOverride(e) = WordStoreImm(e)
        BY <1>6 DEF decodeOperandOverride, NoPrefix
      <2>2. Names(e, "Mov")
        BY <1>6 DEF Names, Transfers, NoPrefix
      <2> QED
        BY <1>6, <2>1, <2>2, BoundedInst2, Sizes, ImmSizes, ErrorBounded DEF WordStoreImm, Only
    <1>7. CASE /\ ~(e.pre = {"66"} /\ e.op \in {\h01, \h85})
                /\ ~(e.pre = {"66"} /\ e.op = \h81)
                /\ ~(e.pre = {"66"} /\ e.op = \h83)
                /\ ~(e.pre = {"66"} /\ e.op = \hFF /\ ~e.hasRex)
                /\ ~(e.pre = {"66"} /\ e.op = \h89)
                /\ ~(e.pre = {"66"} /\ e.op = \hC7)
      BY <1>7, ErrorBounded DEF decodeOperandOverride
    <1> QED
      BY <1>1, <1>2, <1>3, <1>4, <1>5, <1>6, <1>7

\* decodeRepeat keeps within ten bytes behind the opcode.
LEMMA RepeatBounded ==
    ASSUME NEW e \in Encodings
    PROVE  Bounded(e, decodeRepeat(e))
    <1>1. CASE e.pre = {"F3"} /\ e.op = \hA4 /\ ~e.hasRex
      <2>1. decodeRepeat(e) = RepMovsb(e)
        BY <1>1 DEF decodeRepeat, NoPrefix
      <2>2. Names(e, "RepMovsb")
        BY <1>1 DEF Names, Transfers, NoPrefix
      <2> QED
        BY <2>1, <2>2, BoundedBare0 DEF RepMovsb
    <1>2. CASE e.pre = {"F3"} /\ e.op \in {\hAA, \hAB}
      <2>1. decodeRepeat(e) = RepStos(e)
        BY <1>2 DEF decodeRepeat, NoPrefix
      <2>2. Names(e, "RepStosb") /\ Names(e, "RepStosq") /\ Names(e, "RepStosd")
        BY <1>2 DEF Names, Transfers, NoPrefix
      <2> QED
        BY <1>2, <2>1, <2>2, BoundedBare0, ErrorBounded DEF RepStos, Only
    <1>3. CASE /\ ~(e.pre = {"F3"} /\ e.op = \hA4 /\ ~e.hasRex)
                /\ ~(e.pre = {"F3"} /\ e.op \in {\hAA, \hAB})
      BY <1>3, ErrorBounded DEF decodeRepeat
    <1> QED
      BY <1>1, <1>2, <1>3

\* decodeControlTransfer keeps within ten bytes behind the opcode.
LEMMA ControlTransferBounded ==
    ASSUME NEW e \in Encodings
    PROVE  Bounded(e, decodeControlTransfer(e))
    <1>1. CASE NoPrefix(e) /\ e.op \in {\hE8, \hE9}
      <2>1. decodeControlTransfer(e) = Relative32(e)
        BY <1>1 DEF decodeControlTransfer, NoPrefix
      <2>2. Names(e, "Call") /\ Names(e, "Jmp")
        BY <1>1 DEF Names, Transfers, NoPrefix
      <2> QED
        BY <1>1, <2>1, <2>2, BoundedBare1, Sizes, ImmSizes DEF Relative32
    <1>2. CASE NoPrefix(e) /\ e.op = \hEB
      <2>1. decodeControlTransfer(e) = Relative8(e)
        BY <1>2 DEF decodeControlTransfer, NoPrefix
      <2>2. Names(e, "Jmp") /\ Names(e, "Jcc")
        BY <1>2 DEF Names, Transfers, NoPrefix
      <2> QED
        BY <1>2, <2>1, <2>2, BoundedJcc, BoundedBare1, Sizes, ImmSizes DEF Relative8
    <1>3. CASE e.pre \subseteq {"2E"} /\ ~e.hasRex /\ e.op \in \h70 .. \h7F
      <2>1. decodeControlTransfer(e) = Relative8(e)
        BY <1>3 DEF decodeControlTransfer, NoPrefix
      <2>2. Names(e, "Jmp") /\ Names(e, "Jcc")
        BY <1>3 DEF Names, Transfers, NoPrefix
      <2> QED
        BY <1>3, <2>1, <2>2, BoundedJcc, BoundedBare1, Sizes, ImmSizes DEF Relative8
    <1>4. CASE /\ ~(NoPrefix(e) /\ e.op \in {\hE8, \hE9})
                /\ ~(NoPrefix(e) /\ e.op = \hEB)
                /\ ~(e.pre \subseteq {"2E"} /\ ~e.hasRex /\ e.op \in \h70 .. \h7F)
      BY <1>4, ErrorBounded DEF decodeControlTransfer
    <1> QED
      BY <1>1, <1>2, <1>3, <1>4

\* decodeAtomic keeps within ten bytes behind the opcode.
LEMMA AtomicBounded ==
    ASSUME NEW e \in Encodings
    PROVE  Bounded(e, decodeAtomic(e))
    <1>1. CASE e.pre = {"66", "F0"} /\ e.op \in {\h81, \h83}
      <2>1. decodeAtomic(e) = LockWordImm(e)
        BY <1>1 DEF decodeAtomic, NoPrefix
      <2>2. Names(e, "LockOr") /\ Names(e, "LockAnd")
        BY <1>1 DEF Names, Transfers, NoPrefix
      <2> QED
        BY <1>1, <2>1, <2>2, BoundedInst2, Sizes, ImmSizes, ErrorBounded DEF LockWordImm, Only, LockName
    <1>2. CASE e.pre \in {{"F0"}, {"66", "F0"}} /\ e.op = \h0F /\ e.op2 = \hC1
      <2>1. decodeAtomic(e) = LockXadd(e)
        BY <1>2 DEF decodeAtomic, NoPrefix
      <2>2. Names(e, "LockXadd")
        BY <1>2 DEF Names, Transfers, NoPrefix
      <2> QED
        BY <2>1, <2>2, BoundedInst2, Sizes DEF LockXadd
    <1>3. CASE e.pre = {"F0"} /\ W(e) /\ e.op = \h01
      <2>1. decodeAtomic(e) = LockAddQword(e)
        BY <1>3 DEF decodeAtomic, NoPrefix
      <2>2. Names(e, "LockAdd")
        BY <1>3 DEF Names, Transfers, NoPrefix
      <2> QED
        BY <2>1, <2>2, BoundedInst2, Sizes DEF LockAddQword
    <1>4. CASE e.pre = {"F0"} /\ e.op \in {\h80, \h81, \h83}
      <2>1. decodeAtomic(e) = LockImm(e)
        BY <1>4 DEF decodeAtomic, NoPrefix
      <2>2. Names(e, "LockOr") /\ Names(e, "LockAnd")
        BY <1>4 DEF Names, Transfers, NoPrefix
      <2> QED
        BY <1>4, <2>1, <2>2, BoundedInst2, Sizes, ImmSizes, ErrorBounded DEF LockImm, Only, LockName
    <1>5. CASE e.pre = {"F0"} /\ ~e.hasRex /\ e.op = \hFF
      <2>1. decodeAtomic(e) = LockIncDecShort(e)
        BY <1>5 DEF decodeAtomic, NoPrefix
      <2>2. e.reg \in {0, 1} => Names(e, "LockInc") /\ Names(e, "LockDec")
        BY <1>5 DEF Names, Transfers, NoPrefix
      <2> QED
        BY <1>5, <2>1, <2>2, BoundedInst1, Sizes, ErrorBounded DEF LockIncDecShort, Only
    <1>6. CASE e.pre = {"F0"} /\ W(e) /\ e.op = \h0F /\ e.op2 = \hC7
      <2>1. decodeAtomic(e) = LockCmpxchg16b(e)
        BY <1>6 DEF decodeAtomic, NoPrefix
      <2>2. Names(e, "Cmpxchg16b")
        BY <1>6 DEF Names, Transfers, NoPrefix
      <2> QED
        BY <1>6, <2>1, <2>2, BoundedInst1, Sizes, ErrorBounded DEF LockCmpxchg16b, Only
    <1>7. CASE e.pre = {"F0"} /\ e.hasRex /\ e.op = \hFF
      <2>1. decodeAtomic(e) = LockIncDec(e)
        BY <1>7 DEF decodeAtomic, NoPrefix
      <2>2. e.reg \in {0, 1} => Names(e, "LockInc") /\ Names(e, "LockDec")
        BY <1>7 DEF Names, Transfers, NoPrefix
      <2> QED
        BY <1>7, <2>1, <2>2, BoundedInst1, Sizes, ErrorBounded DEF LockIncDec, Only
    <1>8. CASE e.pre = {"F0"} /\ (e.op = \h09 \/ (e.op = \h01 /\ ~W(e)))
      <2>1. decodeAtomic(e) = LockAddOr(e)
        BY <1>8 DEF decodeAtomic, NoPrefix
      <2>2. Names(e, "LockAdd") /\ Names(e, "LockOr")
        BY <1>8 DEF Names, Transfers, NoPrefix
      <2> QED
        BY <1>8, <2>1, <2>2, BoundedInst2, Sizes, ErrorBounded DEF LockAddOr, Only
    <1>9. CASE e.pre = {"F0"} /\ e.op = \h0F /\ e.op2 = \hBA
      <2>1. decodeAtomic(e) = LockBts(e)
        BY <1>9 DEF decodeAtomic, NoPrefix
      <2>2. Names(e, "LockBts")
        BY <1>9 DEF Names, Transfers, NoPrefix
      <2> QED
        BY <1>9, <2>1, <2>2, BoundedInst2, Sizes, ImmSizes, ErrorBounded DEF LockBts, Only
    <1>10. CASE e.pre = {"F0"} /\ e.op = \h0F /\ e.op2 \in {\hB0, \hB1}
      <2>1. decodeAtomic(e) = Cmpxchg(e)
        BY <1>10 DEF decodeAtomic, NoPrefix
      <2>2. Names(e, "Cmpxchg")
        BY <1>10 DEF Names, Transfers, NoPrefix
      <2> QED
        BY <1>10, <2>1, <2>2, BoundedInst2, Sizes, ErrorBounded DEF Cmpxchg, Only
    <1>11. CASE "F0" \notin e.pre
      BY <1>11, ErrorBounded DEF decodeAtomic, NoPrefix
    <1>12. CASE /\ ~(e.pre = {"66", "F0"} /\ e.op \in {\h81, \h83})
                /\ ~(e.pre \in {{"F0"}, {"66", "F0"}} /\ e.op = \h0F /\ e.op2 = \hC1)
                /\ ~(e.pre = {"F0"} /\ W(e) /\ e.op = \h01)
                /\ ~(e.pre = {"F0"} /\ e.op \in {\h80, \h81, \h83})
                /\ ~(e.pre = {"F0"} /\ ~e.hasRex /\ e.op = \hFF)
                /\ ~(e.pre = {"F0"} /\ W(e) /\ e.op = \h0F /\ e.op2 = \hC7)
                /\ ~(e.pre = {"F0"} /\ e.hasRex /\ e.op = \hFF)
                /\ ~(e.pre = {"F0"} /\ (e.op = \h09 \/ (e.op = \h01 /\ ~W(e))))
                /\ ~(e.pre = {"F0"} /\ e.op = \h0F /\ e.op2 = \hBA)
                /\ ~(e.pre = {"F0"} /\ e.op = \h0F /\ e.op2 \in {\hB0, \hB1})
                /\ ~("F0" \notin e.pre)
      BY <1>12, ErrorBounded DEF decodeAtomic
    <1> QED
      BY <1>1, <1>2, <1>3, <1>4, <1>5, <1>6, <1>7, <1>8, <1>9, <1>10, <1>11, <1>12

\* decodeExtended keeps within ten bytes behind the opcode.
LEMMA ExtendedBounded ==
    ASSUME NEW e \in Encodings
    PROVE  Bounded(e, decodeExtended(e))
    <1>1. CASE NoPrefix(e) /\ e.op = \h0F /\ e.op2 = \h01
      <2>1. decodeExtended(e) = Sidt(e)
        BY <1>1 DEF decodeExtended, NoPrefix, CmovOps, ByteConditions
      <2>2. Names(e, "Sidt")
        BY <1>1 DEF Names, Transfers, NoPrefix, CmovOps, ByteConditions
      <2> QED
        BY <1>1, <2>1, <2>2, BoundedInst1, Sizes, ErrorBounded DEF Sidt, Only
    <1>2. CASE NoPrefix(e) /\ e.op = \h0F /\ e.op2 = \hA3
      <2>1. decodeExtended(e) = BitTestShort(e)
        BY <1>2 DEF decodeExtended, NoPrefix, CmovOps, ByteConditions
      <2>2. Names(e, "BitTest")
        BY <1>2 DEF Names, Transfers, NoPrefix, CmovOps, ByteConditions
      <2> QED
        BY <2>1, <2>2, BoundedInst2, Sizes, ErrorBounded DEF BitTestShort, Only
    <1>3. CASE NoPrefix(e) /\ e.op = \h0F /\ e.op2 = \hBA
      <2>1. decodeExtended(e) = BitTestImmShort(e)
        BY <1>3 DEF decodeExtended, NoPrefix, CmovOps, ByteConditions
      <2>2. Names(e, "BitTest")
        BY <1>3 DEF Names, Transfers, NoPrefix, CmovOps, ByteConditions
      <2> QED
        BY <1>3, <2>1, <2>2, BoundedInst2, Sizes, ImmSizes, ErrorBounded DEF BitTestImmShort, Only
    <1>4. CASE NoPrefix(e) /\ e.op = \h0F /\ e.op2 \in CmovOps
      <2>1. decodeExtended(e) = CmovShort(e)
        BY <1>4 DEF decodeExtended, NoPrefix, CmovOps, ByteConditions
      <2>2. Names(e, "Cmov")
        BY <1>4 DEF Names, Transfers, NoPrefix, CmovOps, ByteConditions
      <2> QED
        BY <1>4, <2>1, <2>2, BoundedCond2, Sizes DEF CmovShort, Cmov
    <1>5. CASE NoPrefix(e) /\ e.op = \h0F /\ e.op2 = \hAF
      <2>1. decodeExtended(e) = ImulShort(e)
        BY <1>5 DEF decodeExtended, NoPrefix, CmovOps, ByteConditions
      <2>2. Names(e, "Imul")
        BY <1>5 DEF Names, Transfers, NoPrefix, CmovOps, ByteConditions
      <2> QED
        BY <2>1, <2>2, BoundedInst2, Sizes DEF ImulShort
    <1>6. CASE NoPrefix(e) /\ e.op = \h0F /\ e.op2 \in \h80 .. \h8F
      <2>1. decodeExtended(e) = JccRelative32(e)
        BY <1>6 DEF decodeExtended, NoPrefix, CmovOps, ByteConditions
      <2>2. Names(e, "Jcc")
        BY <1>6 DEF Names, Transfers, NoPrefix, CmovOps, ByteConditions
      <2> QED
        BY <1>6, <2>1, <2>2, BoundedJcc, Sizes, ImmSizes DEF JccRelative32
    <1>7. CASE NoPrefix(e) /\ e.op = \h0F /\ e.op2 \notin {\h01, \hA3, \hBA, \hAF} \union CmovOps \union (\h80 .. \h8F)
      BY <1>7, ErrorBounded DEF decodeExtended, NoPrefix, CmovOps, ByteConditions
    <1>8. CASE e.pre = {"66"} /\ ~W(e) /\ e.op \in \hB8 .. \hBF
      <2>1. decodeExtended(e) = MovWordImm(e)
        BY <1>8 DEF decodeExtended, NoPrefix, CmovOps, ByteConditions
      <2>2. Names(e, "Mov")
        BY <1>8 DEF Names, Transfers, NoPrefix, CmovOps, ByteConditions
      <2> QED
        BY <1>8, <2>1, <2>2, BoundedBare2, Sizes, ImmSizes DEF MovWordImm
    <1>9. CASE /\ ~(NoPrefix(e) /\ e.op = \h0F /\ e.op2 = \h01)
                /\ ~(NoPrefix(e) /\ e.op = \h0F /\ e.op2 = \hA3)
                /\ ~(NoPrefix(e) /\ e.op = \h0F /\ e.op2 = \hBA)
                /\ ~(NoPrefix(e) /\ e.op = \h0F /\ e.op2 \in CmovOps)
                /\ ~(NoPrefix(e) /\ e.op = \h0F /\ e.op2 = \hAF)
                /\ ~(NoPrefix(e) /\ e.op = \h0F /\ e.op2 \in \h80 .. \h8F)
                /\ ~(NoPrefix(e) /\ e.op = \h0F /\ e.op2 \notin {\h01, \hA3, \hBA, \hAF} \union CmovOps \union (\h80 .. \h8F))
                /\ ~(e.pre = {"66"} /\ ~W(e) /\ e.op \in \hB8 .. \hBF)
      BY <1>9, ErrorBounded DEF decodeExtended
    <1> QED
      BY <1>1, <1>2, <1>3, <1>4, <1>5, <1>6, <1>7, <1>8, <1>9

\* No arithmetic instruction is a control transfer.
LEMMA AluTransfers ==
    ASSUME NEW e \in Encodings
    PROVE  AluName(e.reg) \notin {"Jmp", "Jcc", "Call", "Syscall", "Ret"}
    <1>1. e.reg \in {0, 1, 2, 3, 4, 5, 6, 7}
      BY DEF Encodings
    <1> QED
      BY <1>1 DEF AluName

\* 80: Op80 keeps within ten bytes behind the opcode.
LEMMA Op80Bounded ==
    ASSUME NEW e \in Encodings, e.op = \h80
    PROVE  Bounded(e, Op80(e))
    <1>1. CASE Direct(e) /\ e.reg \in {0, 1}
      <2>1. Op80(e) = Group80AddOrReg(e)
        BY <1>1 DEF Op80
      <2>2. Names(e, AluName(e.reg))
        BY <1>1, AluTransfers DEF Names, Transfers
      <2> QED
        BY <1>1, <2>1, <2>2, BoundedInst2, Sizes, ImmSizes, ErrorBounded DEF Group80AddOrReg, Only, Byte
    <1>2. CASE Direct(e) /\ e.reg = 4
      <2>1. Op80(e) = Group80AndReg(e)
        BY <1>2 DEF Op80
      <2>2. Names(e, "And")
        BY <1>2 DEF Names, Transfers
      <2> QED
        BY <2>1, <2>2, BoundedInst2, Sizes, ImmSizes, ErrorBounded DEF Group80AndReg, Only, HighOrLow
    <1>3. CASE Direct(e) /\ e.reg \in {2, 6}
      <2>1. Op80(e) = Group80XorAdcReg(e)
        BY <1>3 DEF Op80
      <2>2. Names(e, AluName(e.reg))
        BY <1>3, AluTransfers DEF Names, Transfers
      <2> QED
        BY <1>3, <2>1, <2>2, BoundedInst2, Sizes, ImmSizes, ErrorBounded DEF Group80XorAdcReg, Only, Byte
    <1>4. CASE ~Direct(e) /\ e.reg = 1
      <2>1. Op80(e) = Group80Or(e)
        BY <1>4 DEF Op80
      <2>2. Names(e, "Or")
        BY <1>4 DEF Names, Transfers
      <2> QED
        BY <2>1, <2>2, BoundedInst2, Sizes, ImmSizes DEF Group80Or
    <1>5. CASE ~Direct(e) /\ e.reg = 4
      <2>1. Op80(e) = Group80And(e)
        BY <1>5 DEF Op80
      <2>2. Names(e, "And")
        BY <1>5 DEF Names, Transfers
      <2> QED
        BY <2>1, <2>2, BoundedInst2, Sizes, ImmSizes, ErrorBounded DEF Group80And, Only
    <1>6. CASE e.reg = 7
      <2>1. Op80(e) = Group80Cmp(e)
        BY <1>6 DEF Op80
      <2>2. Names(e, "Cmp")
        BY <1>6 DEF Names, Transfers
      <2> QED
        BY <2>1, <2>2, BoundedInst2, Sizes, ImmSizes, ErrorBounded DEF Group80Cmp, Only, HighOrLow
    <1>7. CASE /\ ~(Direct(e) /\ e.reg \in {0, 1})
                /\ ~(Direct(e) /\ e.reg = 4)
                /\ ~(Direct(e) /\ e.reg \in {2, 6})
                /\ ~(~Direct(e) /\ e.reg = 1)
                /\ ~(~Direct(e) /\ e.reg = 4)
                /\ ~(e.reg = 7)
      BY <1>7, ErrorBounded DEF Op80
    <1> QED
      BY <1>1, <1>2, <1>3, <1>4, <1>5, <1>6, <1>7

\* 81: Op81 keeps within ten bytes behind the opcode.
LEMMA Op81Bounded ==
    ASSUME NEW e \in Encodings, e.op = \h81
    PROVE  Bounded(e, Op81(e))
    <1>1. CASE Direct(e)
      <2>1. Op81(e) = Group81Reg(e)
        BY <1>1 DEF Op81
      <2>2. Names(e, AluName(e.reg))
        BY <1>1, AluTransfers DEF Names, Transfers
      <2> QED
        BY <1>1, <2>1, <2>2, BoundedInst2, Sizes, ImmSizes, ErrorBounded DEF Group81Reg, Only
    <1>2. CASE ~Direct(e) /\ e.reg = 7
      <2>1. Op81(e) = Group81Cmp(e)
        BY <1>2 DEF Op81
      <2>2. Names(e, "Cmp")
        BY <1>2 DEF Names, Transfers
      <2> QED
        BY <2>1, <2>2, BoundedInst2, Sizes, ImmSizes, ErrorBounded DEF Group81Cmp, Only
    <1>3. CASE ~Direct(e) /\ e.reg \in {1, 4}
      <2>1. Op81(e) = Group81Logic(e)
        BY <1>3 DEF Op81
      <2>2. Names(e, AluName(e.reg))
        BY <1>3, AluTransfers DEF Names, Transfers
      <2> QED
        BY <1>3, <2>1, <2>2, BoundedInst2, Sizes, ImmSizes, ErrorBounded DEF Group81Logic, Only
    <1>4. CASE /\ ~(Direct(e))
                /\ ~(~Direct(e) /\ e.reg = 7)
                /\ ~(~Direct(e) /\ e.reg \in {1, 4})
      BY <1>4, ErrorBounded DEF Op81
    <1> QED
      BY <1>1, <1>2, <1>3, <1>4

\* 83: Op83 keeps within ten bytes behind the opcode.
LEMMA Op83Bounded ==
    ASSUME NEW e \in Encodings, e.op = \h83
    PROVE  Bounded(e, Op83(e))
    <1>1. CASE Direct(e)
      <2>1. Op83(e) = Group83Reg(e)
        BY <1>1 DEF Op83
      <2>2. Names(e, AluName(e.reg))
        BY <1>1, AluTransfers DEF Names, Transfers
      <2> QED
        BY <1>1, <2>1, <2>2, BoundedInst2, Sizes, ImmSizes, ErrorBounded DEF Group83Reg, Only
    <1>2. CASE ~Direct(e) /\ e.reg = 4
      <2>1. Op83(e) = Group83And(e)
        BY <1>2 DEF Op83
      <2>2. Names(e, "And")
        BY <1>2 DEF Names, Transfers
      <2> QED
        BY <2>1, <2>2, BoundedInst2, Sizes, ImmSizes, ErrorBounded DEF Group83And, Only
    <1>3. CASE ~Direct(e) /\ e.reg \in {0, 1}
      <2>1. Op83(e) = Group83AddOr(e)
        BY <1>3 DEF Op83
      <2>2. Names(e, AluName(e.reg))
        BY <1>3, AluTransfers DEF Names, Transfers
      <2> QED
        BY <1>3, <2>1, <2>2, BoundedInst2, Sizes, ImmSizes, ErrorBounded DEF Group83AddOr, Only
    <1>4. CASE ~Direct(e) /\ e.reg = 5
      <2>1. Op83(e) = Group83Sub(e)
        BY <1>4 DEF Op83
      <2>2. Names(e, "Sub")
        BY <1>4 DEF Names, Transfers
      <2> QED
        BY <2>1, <2>2, BoundedInst2, Sizes, ImmSizes, ErrorBounded DEF Group83Sub, Only, decodeModrmMemory
    <1>5. CASE ~Direct(e) /\ e.reg = 7
      <2>1. Op83(e) = Group83Cmp(e)
        BY <1>5 DEF Op83
      <2>2. Names(e, "Cmp")
        BY <1>5 DEF Names, Transfers
      <2> QED
        BY <2>1, <2>2, BoundedInst2, Sizes, ImmSizes, ErrorBounded DEF Group83Cmp, Only
    <1>6. CASE /\ ~(Direct(e))
                /\ ~(~Direct(e) /\ e.reg = 4)
                /\ ~(~Direct(e) /\ e.reg \in {0, 1})
                /\ ~(~Direct(e) /\ e.reg = 5)
                /\ ~(~Direct(e) /\ e.reg = 7)
      BY <1>6, ErrorBounded DEF Op83
    <1> QED
      BY <1>1, <1>2, <1>3, <1>4, <1>5, <1>6

\* decodeVex keeps within ten bytes behind the opcode.
LEMMA VexBounded ==
    ASSUME NEW e \in Encodings
    PROVE  Bounded(e, decodeVex(e))
    <1>1. CASE e.op \in {\hC4, \hC5}
      <2>1. \A op : op \notin {"Jmp", "Jcc", "Call", "Syscall", "Ret"} => Names(e, op)
        BY <1>1 DEF Names, Transfers
      <2>2. Bounded(e, Vbroadcastss(e))
        BY <2>1, BoundedInst2, Sizes, ErrorBounded DEF Vbroadcastss, Only
      <2>3. Bounded(e, Vzeroupper(e))
        BY <2>1, BoundedBare0, ErrorBounded DEF Vzeroupper, Only
      <2>4. Bounded(e, Vxorps(e))
        <3>1. Names(e, "Vxorps") /\ Names(e, "VxorpsYmm")
          BY <2>1
        <3>2. Takes(e, XmmField(e), 0) /\ Takes(e, Xmm(e.v), 5) /\ Takes(e, XmmRm(e), 4)
          BY Sizes
        <3> QED
          BY <3>1, <3>2, BoundedInst3, ErrorBounded DEF Vxorps, Only
      <2>5. Bounded(e, Vmov(e))
        <3> DEFINE name == CASE e.op2 \in {\h28, \h29} -> "VmovapsYmm"
                             [] OTHER -> IF e.vl = 1 THEN "VmovupsYmm" ELSE "Vmovups"
                   m == Mem(IF e.vl = 1 THEN 256 ELSE 128, {"rip", "sib"})
        <3>1. Names(e, name)
          BY <2>1
        <3>2. Vmov(e) \in {Error, Inst(name, <<XmmField(e), m>>), Inst(name, <<m, XmmField(e)>>)}
          BY DEF Vmov, Only
        <3>3. Takes(e, m, 5)
          BY Sizes
        <3> HIDE DEF name, m
        <3> QED
          BY <3>1, <3>2, <3>3, Sizes, BoundedInst2, ErrorBounded
      <2> QED
        BY <2>2, <2>3, <2>4, <2>5, ErrorBounded DEF decodeVex
    <1>2. CASE e.op \notin {\hC4, \hC5}
      BY <1>2, ErrorBounded DEF decodeVex
    <1> QED
      BY <1>1, <1>2

\* C1: OpC1 keeps within ten bytes behind the opcode.
LEMMA OpC1Bounded ==
    ASSUME NEW e \in Encodings, e.op = \hC1
    PROVE  Bounded(e, OpC1(e))
    <1>1. Names(e, "Shr") /\ Names(e, "Shl") /\ Names(e, "Rol") /\ Names(e, "Ror") /\ Names(e, "Sar")
      BY DEF Names, Transfers
    <1>2. CASE ~Direct(e)
      BY <1>1, <1>2, BoundedInst2, Sizes, ImmSizes, ErrorBounded DEF OpC1, ShiftName
    <1>3. CASE Direct(e) /\ e.reg = 0
      BY <1>1, <1>3, BoundedInst2, Sizes, ImmSizes, ErrorBounded DEF OpC1, ShiftName
    <1>4. CASE Direct(e) /\ e.reg = 1
      BY <1>1, <1>4, BoundedInst2, Sizes, ImmSizes, ErrorBounded DEF OpC1, ShiftName
    <1>5. CASE Direct(e) /\ e.reg = 2
      BY <1>1, <1>5, BoundedInst2, Sizes, ImmSizes, ErrorBounded DEF OpC1, ShiftName
    <1>6. CASE Direct(e) /\ e.reg = 3
      BY <1>1, <1>6, BoundedInst2, Sizes, ImmSizes, ErrorBounded DEF OpC1, ShiftName
    <1>7. CASE Direct(e) /\ e.reg = 4
      BY <1>1, <1>7, BoundedInst2, Sizes, ImmSizes, ErrorBounded DEF OpC1, ShiftName
    <1>8. CASE Direct(e) /\ e.reg = 5
      BY <1>1, <1>8, BoundedInst2, Sizes, ImmSizes, ErrorBounded DEF OpC1, ShiftName
    <1>9. CASE Direct(e) /\ e.reg = 6
      BY <1>1, <1>9, BoundedInst2, Sizes, ImmSizes, ErrorBounded DEF OpC1, ShiftName
    <1>10. CASE Direct(e) /\ e.reg = 7
      BY <1>1, <1>10, BoundedInst2, Sizes, ImmSizes, ErrorBounded DEF OpC1, ShiftName
    <1> QED
      BY <1>2, <1>3, <1>4, <1>5, <1>6, <1>7, <1>8, <1>9, <1>10 DEF Encodings

\* D1: OpD1 keeps within ten bytes behind the opcode.
LEMMA OpD1Bounded ==
    ASSUME NEW e \in Encodings, e.op = \hD1
    PROVE  Bounded(e, OpD1(e))
    <1>1. Names(e, "Rol") /\ Names(e, "Ror") /\ Names(e, "Shl") /\ Names(e, "Shr") /\ Names(e, "Sar")
      BY DEF Names, Transfers
    <1>2. CASE e.reg = 0
      BY <1>1, <1>2, BoundedInst2, Sizes, ImmSizes, ErrorBounded DEF OpD1, Only, ShiftName
    <1>3. CASE e.reg = 1
      BY <1>1, <1>3, BoundedInst2, Sizes, ImmSizes, ErrorBounded DEF OpD1, Only, ShiftName
    <1>4. CASE e.reg = 2
      BY <1>1, <1>4, BoundedInst2, Sizes, ImmSizes, ErrorBounded DEF OpD1, Only, ShiftName
    <1>5. CASE e.reg = 3
      BY <1>1, <1>5, BoundedInst2, Sizes, ImmSizes, ErrorBounded DEF OpD1, Only, ShiftName
    <1>6. CASE e.reg = 4
      BY <1>1, <1>6, BoundedInst2, Sizes, ImmSizes, ErrorBounded DEF OpD1, Only, ShiftName
    <1>7. CASE e.reg = 5
      BY <1>1, <1>7, BoundedInst2, Sizes, ImmSizes, ErrorBounded DEF OpD1, Only, ShiftName
    <1>8. CASE e.reg = 6
      BY <1>1, <1>8, BoundedInst2, Sizes, ImmSizes, ErrorBounded DEF OpD1, Only, ShiftName
    <1>9. CASE e.reg = 7
      BY <1>1, <1>9, BoundedInst2, Sizes, ImmSizes, ErrorBounded DEF OpD1, Only, ShiftName
    <1> QED
      BY <1>2, <1>3, <1>4, <1>5, <1>6, <1>7, <1>8, <1>9 DEF Encodings

\* D3: OpD3 keeps within ten bytes behind the opcode.
LEMMA OpD3Bounded ==
    ASSUME NEW e \in Encodings, e.op = \hD3
    PROVE  Bounded(e, OpD3(e))
    <1>1. Names(e, "RolCl") /\ Names(e, "RorCl") /\ Names(e, "ShlCl") /\ Names(e, "ShrCl") /\ Names(e, "SarCl")
      BY DEF Names, Transfers
    <1>2. CASE e.reg = 0
      BY <1>1, <1>2, BoundedInst1, Sizes, ErrorBounded DEF OpD3, Only
    <1>3. CASE e.reg = 1
      BY <1>1, <1>3, BoundedInst1, Sizes, ErrorBounded DEF OpD3, Only
    <1>4. CASE e.reg = 2
      BY <1>1, <1>4, BoundedInst1, Sizes, ErrorBounded DEF OpD3, Only
    <1>5. CASE e.reg = 3
      BY <1>1, <1>5, BoundedInst1, Sizes, ErrorBounded DEF OpD3, Only
    <1>6. CASE e.reg = 4
      BY <1>1, <1>6, BoundedInst1, Sizes, ErrorBounded DEF OpD3, Only
    <1>7. CASE e.reg = 5
      BY <1>1, <1>7, BoundedInst1, Sizes, ErrorBounded DEF OpD3, Only
    <1>8. CASE e.reg = 6
      BY <1>1, <1>8, BoundedInst1, Sizes, ErrorBounded DEF OpD3, Only
    <1>9. CASE e.reg = 7
      BY <1>1, <1>9, BoundedInst1, Sizes, ErrorBounded DEF OpD3, Only
    <1> QED
      BY <1>2, <1>3, <1>4, <1>5, <1>6, <1>7, <1>8, <1>9 DEF Encodings

\* F7: GroupF7Mem keeps within ten bytes behind the opcode.
LEMMA GroupF7MemBounded ==
    ASSUME NEW e \in Encodings, e.op = \hF7
    PROVE  Bounded(e, GroupF7Mem(e))
    <1>1. Names(e, "Div") /\ Names(e, "Mul") /\ Names(e, "Imul") /\ Names(e, "Test")
      BY DEF Names, Transfers
    <1>2. CASE e.reg = 0
      BY <1>1, <1>2, BoundedInst1, BoundedInst2, Sizes, ImmSizes, ErrorBounded DEF GroupF7Mem
    <1>3. CASE e.reg = 1
      BY <1>1, <1>3, BoundedInst1, BoundedInst2, Sizes, ImmSizes, ErrorBounded DEF GroupF7Mem
    <1>4. CASE e.reg = 2
      BY <1>1, <1>4, BoundedInst1, BoundedInst2, Sizes, ImmSizes, ErrorBounded DEF GroupF7Mem
    <1>5. CASE e.reg = 3
      BY <1>1, <1>5, BoundedInst1, BoundedInst2, Sizes, ImmSizes, ErrorBounded DEF GroupF7Mem
    <1>6. CASE e.reg = 4
      BY <1>1, <1>6, BoundedInst1, BoundedInst2, Sizes, ImmSizes, ErrorBounded DEF GroupF7Mem
    <1>7. CASE e.reg = 5
      BY <1>1, <1>7, BoundedInst1, BoundedInst2, Sizes, ImmSizes, ErrorBounded DEF GroupF7Mem
    <1>8. CASE e.reg = 6
      BY <1>1, <1>8, BoundedInst1, BoundedInst2, Sizes, ImmSizes, ErrorBounded DEF GroupF7Mem
    <1>9. CASE e.reg = 7
      BY <1>1, <1>9, BoundedInst1, BoundedInst2, Sizes, ImmSizes, ErrorBounded DEF GroupF7Mem
    <1> QED
      BY <1>2, <1>3, <1>4, <1>5, <1>6, <1>7, <1>8, <1>9 DEF Encodings

\* F7: GroupF7Reg keeps within ten bytes behind the opcode.
LEMMA GroupF7RegBounded ==
    ASSUME NEW e \in Encodings, e.op = \hF7
    PROVE  Bounded(e, GroupF7Reg(e))
    <1>1. Names(e, "Idiv") /\ Names(e, "Div") /\ Names(e, "Test") /\ Names(e, "Not") /\ Names(e, "Neg") /\ Names(e, "Mul") /\ Names(e, "Imul")
      BY DEF Names, Transfers
    <1>2. CASE e.reg = 0
      BY <1>1, <1>2, BoundedInst1, BoundedInst2, Sizes, ImmSizes, ErrorBounded DEF GroupF7Reg, Only
    <1>3. CASE e.reg = 1
      BY <1>1, <1>3, BoundedInst1, BoundedInst2, Sizes, ImmSizes, ErrorBounded DEF GroupF7Reg, Only
    <1>4. CASE e.reg = 2
      BY <1>1, <1>4, BoundedInst1, BoundedInst2, Sizes, ImmSizes, ErrorBounded DEF GroupF7Reg, Only
    <1>5. CASE e.reg = 3
      BY <1>1, <1>5, BoundedInst1, BoundedInst2, Sizes, ImmSizes, ErrorBounded DEF GroupF7Reg, Only
    <1>6. CASE e.reg = 4
      BY <1>1, <1>6, BoundedInst1, BoundedInst2, Sizes, ImmSizes, ErrorBounded DEF GroupF7Reg, Only
    <1>7. CASE e.reg = 5
      BY <1>1, <1>7, BoundedInst1, BoundedInst2, Sizes, ImmSizes, ErrorBounded DEF GroupF7Reg, Only
    <1>8. CASE e.reg = 6
      BY <1>1, <1>8, BoundedInst1, BoundedInst2, Sizes, ImmSizes, ErrorBounded DEF GroupF7Reg, Only
    <1>9. CASE e.reg = 7
      BY <1>1, <1>9, BoundedInst1, BoundedInst2, Sizes, ImmSizes, ErrorBounded DEF GroupF7Reg, Only
    <1> QED
      BY <1>2, <1>3, <1>4, <1>5, <1>6, <1>7, <1>8, <1>9 DEF Encodings

\* F7: OpFF keeps within ten bytes behind the opcode.
LEMMA OpF7Bounded ==
    ASSUME NEW e \in Encodings, e.op = \hF7
    PROVE  Bounded(e, OpF7(e))
    BY GroupF7MemBounded, GroupF7RegBounded, ErrorBounded DEF OpF7, Only

\* FF: OpFF keeps within ten bytes behind the opcode.
LEMMA OpFFBounded ==
    ASSUME NEW e \in Encodings, e.op = \hFF
    PROVE  Bounded(e, OpFF(e))
    <1>1. CASE e.reg = 0
      <2>1. Names(e, "Inc")
        BY <1>1 DEF Names, Transfers
      <2>2. Bounded(e, GroupFFInc(e))
        BY <2>1, BoundedInst1, Sizes, ErrorBounded DEF GroupFFInc, Only
      <2>3. Bounded(e, GroupFFReg(e))
        BY <1>1, <2>1, BoundedInst1, Sizes, ErrorBounded DEF GroupFFReg, Only
      <2>4. OpFF(e) \in {Error, GroupFFInc(e), GroupFFReg(e)}
        BY <1>1 DEF OpFF, Only
      <2> QED
        BY <2>2, <2>3, <2>4, ErrorBounded
    <1>2. CASE e.reg = 1
      <2>1. Names(e, "Dec")
        BY <1>2 DEF Names, Transfers
      <2>2. Bounded(e, GroupFFDec(e))
        BY <2>1, BoundedInst1, Sizes, ErrorBounded DEF GroupFFDec, Only
      <2>3. Bounded(e, GroupFFReg(e))
        BY <1>2, <2>1, BoundedInst1, Sizes, ErrorBounded DEF GroupFFReg, Only
      <2>4. OpFF(e) \in {Error, GroupFFDec(e), GroupFFReg(e)}
        BY <1>2 DEF OpFF, Only
      <2> QED
        BY <2>2, <2>3, <2>4, ErrorBounded
    <1>3. CASE e.reg = 2
      <2>1. Names(e, "Call")
        BY <1>3 DEF Names, Transfers
      <2>2. Bounded(e, GroupFFCall(e))
        BY <2>1, BoundedInst1, Sizes, ErrorBounded DEF GroupFFCall, Only
      <2>3. Bounded(e, GroupFFReg(e))
        BY <1>3, <2>1, BoundedInst1, Sizes, ErrorBounded DEF GroupFFReg, Only
      <2>4. OpFF(e) \in {Error, GroupFFCall(e), GroupFFReg(e)}
        BY <1>3 DEF OpFF, Only
      <2> QED
        BY <2>2, <2>3, <2>4, ErrorBounded
    <1>4. CASE e.reg = 4
      <2>1. Names(e, "Jmp")
        BY <1>4 DEF Names, Transfers
      <2>2. Bounded(e, GroupFFJmp(e))
        BY <2>1, BoundedInst1, Sizes, ErrorBounded DEF GroupFFJmp, Only
      <2>3. Bounded(e, GroupFFReg(e))
        BY <1>4, <2>1, BoundedInst1, Sizes, ErrorBounded DEF GroupFFReg, Only
      <2>4. OpFF(e) \in {Error, GroupFFJmp(e), GroupFFReg(e)}
        BY <1>4 DEF OpFF, Only
      <2> QED
        BY <2>2, <2>3, <2>4, ErrorBounded
    <1>5. CASE e.reg = 6
      <2>1. Names(e, "Push")
        BY <1>5 DEF Names, Transfers
      <2>2. Bounded(e, GroupFFPush(e))
        BY <2>1, BoundedInst1, Sizes, ErrorBounded DEF GroupFFPush, Only
      <2>3. Bounded(e, GroupFFReg(e))
        BY <1>5, <2>1, BoundedInst1, Sizes, ErrorBounded DEF GroupFFReg, Only
      <2>4. OpFF(e) \in {Error, GroupFFPush(e), GroupFFReg(e)}
        BY <1>5 DEF OpFF, Only
      <2> QED
        BY <2>2, <2>3, <2>4, ErrorBounded
    <1>6. CASE e.reg \in {3, 5, 7}
      BY <1>6, ErrorBounded DEF OpFF, GroupFFReg, Only
    <1> QED
      BY <1>1, <1>2, <1>3, <1>4, <1>5, <1>6 DEF Encodings

\* The two-byte opcodes decodeGeneral admits.
LEMMA AdmittedBounded ==
    ASSUME NEW e \in Encodings, e.op = \h0F, EscapeAdmitted(e)
    PROVE  Bounded(e, RexEscape(e))
    <1>1. CASE e.op2 \in {\hA3, \hAB}
      <2>1. RexEscape(e) = BitTestReg(e)
        BY <1>1 DEF RexEscape, CmovOps, ByteConditions, Only
      <2>2. Names(e, "BitTest") /\ Names(e, "BitSet")
        BY <1>1 DEF Names, Transfers, CmovOps, ByteConditions, Only
      <2> QED
        BY <1>1, <2>1, <2>2, BoundedInst2, Sizes DEF BitTestReg
    <1>2. CASE e.op2 = \hBA
      <2>1. RexEscape(e) = BitTestImm(e)
        BY <1>2 DEF RexEscape, CmovOps, ByteConditions, Only
      <2>2. Names(e, "BitTest") /\ Names(e, "BitSet") /\ Names(e, "BitReset")
        BY <1>2 DEF Names, Transfers, CmovOps, ByteConditions, Only
      <2> QED
        BY <1>2, <2>1, <2>2, BoundedInst2, Sizes, ImmSizes, ErrorBounded DEF BitTestImm, Only
    <1>3. CASE e.op2 = \hBE
      <2>1. RexEscape(e) = MovsxByte(e)
        BY <1>3 DEF RexEscape, CmovOps, ByteConditions, Only
      <2>2. Names(e, "Movsx")
        BY <1>3 DEF Names, Transfers, CmovOps, ByteConditions, Only
      <2> QED
        BY <2>1, <2>2, BoundedInst2, Sizes, ErrorBounded DEF MovsxByte
    <1>4. CASE e.op2 \in CmovOps
      <2>1. RexEscape(e) = Cmov(e)
        BY <1>4 DEF RexEscape, CmovOps, ByteConditions, Only
      <2>2. Names(e, "Cmov")
        BY <1>4 DEF Names, Transfers, CmovOps, ByteConditions, Only
      <2> QED
        BY <1>4, <2>1, <2>2, BoundedCond2, Sizes DEF Cmov
    <1>5. CASE e.op2 \in {\hBC, \hBD, \hAF}
      <2>1. RexEscape(e) = ScanAndMultiply(e)
        BY <1>5 DEF RexEscape, CmovOps, ByteConditions, Only
      <2>2. Names(e, "BitScanForward") /\ Names(e, "BitScanReverse") /\ Names(e, "Imul")
        BY <1>5 DEF Names, Transfers, CmovOps, ByteConditions, Only
      <2> QED
        BY <1>5, <2>1, <2>2, BoundedInst2, Sizes DEF ScanAndMultiply
    <1>6. CASE e.op2 \in {\hA4, \hAC}
      <2>1. RexEscape(e) = DoubleShift(e)
        BY <1>6 DEF RexEscape, CmovOps, ByteConditions, Only
      <2>2. Names(e, "Shld") /\ Names(e, "Shrd")
        BY <1>6 DEF Names, Transfers, CmovOps, ByteConditions, Only
      <2> QED
        BY <1>6, <2>1, <2>2, BoundedInst3, Sizes, ImmSizes DEF DoubleShift
    <1>7. CASE /\ ~(e.op2 \in {\hA3, \hAB})
                /\ ~(e.op2 = \hBA)
                /\ ~(e.op2 = \hBE)
                /\ ~(e.op2 \in CmovOps)
                /\ ~(e.op2 \in {\hBC, \hBD, \hAF})
                /\ ~(e.op2 \in {\hA4, \hAC})
      BY <1>7 DEF EscapeAdmitted, CmovOps, ByteConditions
    <1> QED
      BY <1>1, <1>2, <1>3, <1>4, <1>5, <1>6, <1>7

\* The opcode switch of decodeGeneral keeps within ten bytes behind the opcode.
LEMMA BranchBounded ==
    ASSUME NEW e \in Encodings
    PROVE  Bounded(e, Branch(e))
    <1>1. CASE e.op = \h0D
      <2>1. Branch(e) = Op0D(e)
        BY <1>1 DEF Branch
      <2>2. Names(e, "Or")
        BY <1>1 DEF Names, Transfers
      <2> QED
        BY <2>1, <2>2, BoundedBare2, Sizes, ImmSizes DEF Op0D, AccImm32
    <1>2. CASE e.op = \h24
      <2>1. Branch(e) = Op24(e)
        BY <1>2 DEF Branch
      <2>2. Names(e, "And")
        BY <1>2 DEF Names, Transfers
      <2> QED
        BY <2>1, <2>2, BoundedBare2, Sizes, ImmSizes DEF Op24, AccImm8
    <1>3. CASE e.op = \h25
      <2>1. Branch(e) = Op25(e)
        BY <1>3 DEF Branch
      <2>2. Names(e, "And")
        BY <1>3 DEF Names, Transfers
      <2> QED
        BY <2>1, <2>2, BoundedBare2, Sizes, ImmSizes DEF Op25, AccImm32
    <1>4. CASE e.op \in {\h34, \h0C, \h1C}
      <2>1. Branch(e) = Op34To1C(e)
        BY <1>4, SharedBranches
      <2>2. Names(e, "Xor") /\ Names(e, "Or") /\ Names(e, "Sbb")
        BY <1>4 DEF Names, Transfers
      <2> QED
        BY <1>4, <2>1, <2>2, BoundedBare2, Sizes, ImmSizes DEF Op34To1C, AccImm8
    <1>5. CASE e.op \in {\h05, \h2D}
      <2>1. Branch(e) = Op05And2D(e)
        BY <1>5, SharedBranches
      <2>2. Names(e, "Add") /\ Names(e, "Sub")
        BY <1>5 DEF Names, Transfers
      <2> QED
        BY <1>5, <2>1, <2>2, BoundedBare2, Sizes, ImmSizes DEF Op05And2D, AccImm32
    <1>6. CASE e.op \in {\h35, \h3D}
      <2>1. Branch(e) = RaxImm32(e)
        BY <1>6, SharedBranches
      <2>2. Names(e, "Xor") /\ Names(e, "Cmp")
        BY <1>6 DEF Names, Transfers
      <2> QED
        BY <1>6, <2>1, <2>2, BoundedBare2, Sizes, ImmSizes, ErrorBounded DEF RaxImm32, Only
    <1>7. CASE e.op = \h98
      <2>1. Branch(e) = ConvertAcc(e)
        BY <1>7 DEF Branch
      <2>2. Names(e, "Cdqe") /\ Names(e, "Cwde")
        BY <1>7 DEF Names, Transfers
      <2> QED
        BY <2>1, <2>2, BoundedBare0, ErrorBounded DEF ConvertAcc, Only
    <1>8. CASE e.op \in \hB0 .. \hB7
      <2>1. Branch(e) = MovByteImm(e)
        BY <1>8, MovBranches
      <2>2. Names(e, "Mov")
        BY <1>8 DEF Names, Transfers
      <2> QED
        BY <1>8, <2>1, <2>2, BoundedBare2, Sizes, ImmSizes, ErrorBounded DEF MovByteImm, Only
    <1>9. CASE e.op \in \hB8 .. \hBF
      <2>1. Branch(e) = MovImm(e)
        BY <1>9, MovBranches
      <2>2. Names(e, "Mov")
        BY <1>9 DEF Names, Transfers
      <2> QED
        BY <1>9, <2>1, <2>2, BoundedBare2, Sizes, ImmSizes DEF MovImm
    <1>10. CASE e.op = \h69
      <2>1. Branch(e) = ImulImm32(e)
        BY <1>10 DEF Branch
      <2>2. Names(e, "Imul")
        BY <1>10 DEF Names, Transfers
      <2> QED
        BY <2>1, <2>2, BoundedInst3, Sizes, ImmSizes, ErrorBounded DEF ImulImm32
    <1>11. CASE e.op = \h6B
      <2>1. Branch(e) = ImulImm8(e)
        BY <1>11 DEF Branch
      <2>2. Names(e, "Imul")
        BY <1>11 DEF Names, Transfers
      <2> QED
        BY <2>1, <2>2, BoundedInst3, Sizes, ImmSizes, ErrorBounded DEF ImulImm8, Only
    <1>12. CASE e.op = \h0F
      <2>1. Branch(e) = RexEscape(e)
        BY <1>12 DEF Branch
      <2>2. EscapeAdmitted(e) \/ RexEscape(e) = Error
        BY DEF RexEscape, Only
      <2> QED
        BY <1>12, <2>1, <2>2, AdmittedBounded, ErrorBounded
    <1>13. CASE e.op = \h00
      <2>1. Branch(e) = Op00(e)
        BY <1>13 DEF Branch
      <2>2. Names(e, "Add")
        BY <1>13 DEF Names, Transfers
      <2> QED
        BY <1>13, <2>1, <2>2, BoundedInst2, Sizes, ErrorBounded DEF Op00, Byte2, Only, Byte
    <1>14. CASE e.op = \h01
      <2>1. Branch(e) = Op01(e)
        BY <1>14 DEF Branch
      <2>2. Names(e, "Add")
        BY <1>14 DEF Names, Transfers
      <2> QED
        BY <2>1, <2>2, BoundedInst2, Sizes DEF Op01
    <1>15. CASE e.op = \h02
      <2>1. Branch(e) = Op02(e)
        BY <1>15 DEF Branch
      <2>2. Names(e, "Add")
        BY <1>15 DEF Names, Transfers
      <2> QED
        BY <1>15, <2>1, <2>2, BoundedInst2, Sizes, ErrorBounded DEF Op02, Byte, Only
    <1>16. CASE e.op = \h03
      <2>1. Branch(e) = Op03(e)
        BY <1>16 DEF Branch
      <2>2. Names(e, "Add")
        BY <1>16 DEF Names, Transfers
      <2> QED
        BY <2>1, <2>2, BoundedInst2, Sizes DEF Op03
    <1>17. CASE e.op = \h08
      <2>1. Branch(e) = Op08(e)
        BY <1>17 DEF Branch
      <2>2. Names(e, "Or")
        BY <1>17 DEF Names, Transfers
      <2> QED
        BY <1>17, <2>1, <2>2, BoundedInst2, Sizes, ErrorBounded DEF Op08, Byte2, Only, Byte
    <1>18. CASE e.op = \h09
      <2>1. Branch(e) = Op09(e)
        BY <1>18 DEF Branch
      <2>2. Names(e, "Or")
        BY <1>18 DEF Names, Transfers
      <2> QED
        BY <2>1, <2>2, BoundedInst2, Sizes DEF Op09
    <1>19. CASE e.op = \h0A
      <2>1. Branch(e) = Op0A(e)
        BY <1>19 DEF Branch
      <2>2. Names(e, "Or")
        BY <1>19 DEF Names, Transfers
      <2> QED
        BY <1>19, <2>1, <2>2, BoundedInst2, Sizes, ErrorBounded DEF Op0A, Byte, Only
    <1>20. CASE e.op = \h0B
      <2>1. Branch(e) = Op0B(e)
        BY <1>20 DEF Branch
      <2>2. Names(e, "Or")
        BY <1>20 DEF Names, Transfers
      <2> QED
        BY <2>1, <2>2, BoundedInst2, Sizes DEF Op0B
    <1>21. CASE e.op = \h11
      <2>1. Branch(e) = Op11(e)
        BY <1>21 DEF Branch
      <2>2. Names(e, "Adc")
        BY <1>21 DEF Names, Transfers
      <2> QED
        BY <2>1, <2>2, BoundedInst2, Sizes, ErrorBounded DEF Op11, Only
    <1>22. CASE e.op = \h13
      <2>1. Branch(e) = Op13(e)
        BY <1>22 DEF Branch
      <2>2. Names(e, "Adc")
        BY <1>22 DEF Names, Transfers
      <2> QED
        BY <2>1, <2>2, BoundedInst2, Sizes DEF Op13
    <1>23. CASE e.op = \h19
      <2>1. Branch(e) = Op19(e)
        BY <1>23 DEF Branch
      <2>2. Names(e, "Sbb")
        BY <1>23 DEF Names, Transfers
      <2> QED
        BY <2>1, <2>2, BoundedInst2, Sizes, ErrorBounded DEF Op19, Only
    <1>24. CASE e.op = \h20
      <2>1. Branch(e) = Op20(e)
        BY <1>24 DEF Branch
      <2>2. Names(e, "And")
        BY <1>24 DEF Names, Transfers
      <2> QED
        BY <1>24, <2>1, <2>2, BoundedInst2, Sizes, ErrorBounded DEF Op20, Only, Byte2
    <1>25. CASE e.op = \h21
      <2>1. Branch(e) = Op21(e)
        BY <1>25 DEF Branch
      <2>2. Names(e, "And")
        BY <1>25 DEF Names, Transfers
      <2> QED
        BY <2>1, <2>2, BoundedInst2, Sizes DEF Op21
    <1>26. CASE e.op = \h22
      <2>1. Branch(e) = Op22(e)
        BY <1>26 DEF Branch
      <2>2. Names(e, "And")
        BY <1>26 DEF Names, Transfers
      <2> QED
        BY <1>26, <2>1, <2>2, BoundedInst2, Sizes, ErrorBounded DEF Op22, Byte, Only
    <1>27. CASE e.op = \h23
      <2>1. Branch(e) = Op23(e)
        BY <1>27 DEF Branch
      <2>2. Names(e, "And")
        BY <1>27 DEF Names, Transfers
      <2> QED
        BY <2>1, <2>2, BoundedInst2, Sizes DEF Op23
    <1>28. CASE e.op = \h28
      <2>1. Branch(e) = Op28(e)
        BY <1>28 DEF Branch
      <2>2. Names(e, "Sub")
        BY <1>28 DEF Names, Transfers
      <2> QED
        BY <1>28, <2>1, <2>2, BoundedInst2, Sizes, ErrorBounded DEF Op28, Byte2, Only, Byte
    <1>29. CASE e.op = \h29
      <2>1. Branch(e) = Op29(e)
        BY <1>29 DEF Branch
      <2>2. Names(e, "Sub")
        BY <1>29 DEF Names, Transfers
      <2> QED
        BY <2>1, <2>2, BoundedInst2, Sizes, ErrorBounded DEF Op29
    <1>30. CASE e.op = \h2B
      <2>1. Branch(e) = Op2B(e)
        BY <1>30 DEF Branch
      <2>2. Names(e, "Sub")
        BY <1>30 DEF Names, Transfers
      <2> QED
        BY <2>1, <2>2, BoundedInst2, Sizes DEF Op2B
    <1>31. CASE e.op = \h30
      <2>1. Branch(e) = Op30(e)
        BY <1>31 DEF Branch
      <2>2. Names(e, "Xor")
        BY <1>31 DEF Names, Transfers
      <2> QED
        BY <1>31, <2>1, <2>2, BoundedInst2, Sizes, ErrorBounded DEF Op30, Only, Byte2
    <1>32. CASE e.op = \h31
      <2>1. Branch(e) = Op31(e)
        BY <1>32 DEF Branch
      <2>2. Names(e, "Xor")
        BY <1>32 DEF Names, Transfers
      <2> QED
        BY <2>1, <2>2, BoundedInst2, Sizes, ErrorBounded DEF Op31, Only
    <1>33. CASE e.op = \h32
      <2>1. Branch(e) = Op32(e)
        BY <1>33 DEF Branch
      <2>2. Names(e, "Xor")
        BY <1>33 DEF Names, Transfers
      <2> QED
        BY <1>33, <2>1, <2>2, BoundedInst2, Sizes, ErrorBounded DEF Op32, Byte, Only
    <1>34. CASE e.op = \h33
      <2>1. Branch(e) = Op33(e)
        BY <1>34 DEF Branch
      <2>2. Names(e, "Xor")
        BY <1>34 DEF Names, Transfers
      <2> QED
        BY <2>1, <2>2, BoundedInst2, Sizes, ErrorBounded DEF Op33
    <1>35. CASE e.op = \h38
      <2>1. Branch(e) = Op38(e)
        BY <1>35 DEF Branch
      <2>2. Names(e, "Cmp")
        BY <1>35 DEF Names, Transfers
      <2> QED
        BY <1>35, <2>1, <2>2, BoundedInst2, Sizes, ErrorBounded DEF Op38, Only, Byte2, Byte
    <1>36. CASE e.op = \h39
      <2>1. Branch(e) = Op39(e)
        BY <1>36 DEF Branch
      <2>2. Names(e, "Cmp")
        BY <1>36 DEF Names, Transfers
      <2> QED
        BY <2>1, <2>2, BoundedInst2, Sizes DEF Op39
    <1>37. CASE e.op = \h3A
      <2>1. Branch(e) = Op3A(e)
        BY <1>37 DEF Branch
      <2>2. Names(e, "Cmp")
        BY <1>37 DEF Names, Transfers
      <2> QED
        BY <1>37, <2>1, <2>2, BoundedInst2, Sizes, ErrorBounded DEF Op3A, Byte, Only
    <1>38. CASE e.op = \h3B
      <2>1. Branch(e) = Op3B(e)
        BY <1>38 DEF Branch
      <2>2. Names(e, "Cmp")
        BY <1>38 DEF Names, Transfers
      <2> QED
        BY <2>1, <2>2, BoundedInst2, Sizes DEF Op3B
    <1>39. CASE e.op = \h63
      <2>1. Branch(e) = Op63(e)
        BY <1>39 DEF Branch
      <2>2. Names(e, "Movsxd")
        BY <1>39 DEF Names, Transfers
      <2> QED
        BY <2>1, <2>2, BoundedInst2, Sizes, ErrorBounded DEF Op63, Only
    <1>40. CASE e.op = \h80
      BY <1>40, Op80Bounded DEF Branch
    <1>41. CASE e.op = \h81
      BY <1>41, Op81Bounded DEF Branch
    <1>42. CASE e.op = \h83
      BY <1>42, Op83Bounded DEF Branch
    <1>43. CASE e.op = \h84
      <2>1. Branch(e) = Op84(e)
        BY <1>43 DEF Branch
      <2>2. Names(e, "Test")
        BY <1>43 DEF Names, Transfers
      <2> QED
        BY <1>43, <2>1, <2>2, BoundedInst2, Sizes, ErrorBounded DEF Op84, Byte, Only
    <1>44. CASE e.op = \h85
      <2>1. Branch(e) = Op85(e)
        BY <1>44 DEF Branch
      <2>2. Names(e, "Test")
        BY <1>44 DEF Names, Transfers
      <2> QED
        BY <2>1, <2>2, BoundedInst2, Sizes, ErrorBounded DEF Op85
    <1>45. CASE e.op = \h86
      <2>1. Branch(e) = Op86(e)
        BY <1>45 DEF Branch
      <2>2. Names(e, "Xchg")
        BY <1>45 DEF Names, Transfers
      <2> QED
        BY <1>45, <2>1, <2>2, BoundedInst2, Sizes, ErrorBounded DEF Op86, Byte, Only
    <1>46. CASE e.op = \h87
      <2>1. Branch(e) = Op87(e)
        BY <1>46 DEF Branch
      <2>2. Names(e, "Xchg")
        BY <1>46 DEF Names, Transfers
      <2> QED
        BY <2>1, <2>2, BoundedInst2, Sizes DEF Op87
    <1>47. CASE e.op = \h88
      <2>1. Branch(e) = Op88(e)
        BY <1>47 DEF Branch
      <2>2. Names(e, "Mov")
        BY <1>47 DEF Names, Transfers
      <2> QED
        BY <1>47, <2>1, <2>2, BoundedInst2, Sizes, ErrorBounded DEF Op88, Only, Byte2
    <1>48. CASE e.op = \h8A
      <2>1. Branch(e) = Op8A(e)
        BY <1>48 DEF Branch
      <2>2. Names(e, "Mov")
        BY <1>48 DEF Names, Transfers
      <2> QED
        BY <1>48, <2>1, <2>2, BoundedInst2, Sizes, ErrorBounded DEF Op8A, Only, Byte
    <1>49. CASE e.op \in {\h89, \h8B}
      <2>1. Branch(e) = Op89And8B(e)
        BY <1>49, SharedBranches
      <2>2. Names(e, "Mov")
        BY <1>49 DEF Names, Transfers
      <2> QED
        BY <1>49, <2>1, <2>2, BoundedInst2, Sizes, ErrorBounded DEF Op89And8B
    <1>50. CASE e.op = \h8D
      <2>1. Branch(e) = Op8D(e)
        BY <1>50 DEF Branch
      <2>2. Names(e, "Lea")
        BY <1>50 DEF Names, Transfers
      <2> QED
        BY <2>1, <2>2, BoundedInst2, Sizes DEF Op8D
    <1>51. CASE e.op = \hC0
      <2>1. Branch(e) = OpC0(e)
        BY <1>51 DEF Branch
      <2>2. Names(e, "Shl") /\ Names(e, "Shr")
        BY <1>51 DEF Names, Transfers
      <2> QED
        BY <1>51, <2>1, <2>2, BoundedInst2, Sizes, ImmSizes, ErrorBounded DEF OpC0, Only, Byte
    <1>52. CASE e.op = \hC1
      BY <1>52, OpC1Bounded DEF Branch
    <1>53. CASE e.op = \hC6
      <2>1. Branch(e) = OpC6(e)
        BY <1>53 DEF Branch
      <2>2. Names(e, "Mov")
        BY <1>53 DEF Names, Transfers
      <2> QED
        BY <1>53, <2>1, <2>2, BoundedInst2, Sizes, ImmSizes, ErrorBounded DEF OpC6, Only
    <1>54. CASE e.op = \hC7
      <2>1. Branch(e) = OpC7(e)
        BY <1>54 DEF Branch
      <2>2. Names(e, "Mov")
        BY <1>54 DEF Names, Transfers
      <2> QED
        BY <1>54, <2>1, <2>2, BoundedInst2, Sizes, ImmSizes, ErrorBounded DEF OpC7, Only
    <1>55. CASE e.op = \hD0
      <2>1. Branch(e) = OpD0(e)
        BY <1>55 DEF Branch
      <2>2. Names(e, "Shr")
        BY <1>55 DEF Names, Transfers
      <2> QED
        BY <1>55, <2>1, <2>2, BoundedInst2, Sizes, ImmSizes, ErrorBounded DEF OpD0, Only, Byte
    <1>56. CASE e.op = \hD1
      BY <1>56, OpD1Bounded DEF Branch
    <1>57. CASE e.op = \hD2
      <2>1. Branch(e) = OpD2(e)
        BY <1>57 DEF Branch
      <2>2. Names(e, "ShlCl")
        BY <1>57 DEF Names, Transfers
      <2> QED
        BY <1>57, <2>1, <2>2, BoundedInst1, Sizes, ErrorBounded DEF OpD2, Only, Byte
    <1>58. CASE e.op = \hD3
      BY <1>58, OpD3Bounded DEF Branch
    <1>59. CASE e.op = \hF7
      BY <1>59, OpF7Bounded DEF Branch
    <1>60. CASE e.op = \hFE
      <2>1. Branch(e) = OpFE(e)
        BY <1>60 DEF Branch
      <2>2. Names(e, "Inc") /\ Names(e, "Dec")
        BY <1>60 DEF Names, Transfers
      <2> QED
        BY <1>60, <2>1, <2>2, BoundedInst1, Sizes, ErrorBounded DEF OpFE, Only, Byte
    <1>61. CASE e.op = \hFF
      BY <1>61, OpFFBounded DEF Branch
    <1>62. CASE /\ ~(e.op = \h0D)
                /\ ~(e.op = \h24)
                /\ ~(e.op = \h25)
                /\ ~(e.op \in {\h34, \h0C, \h1C})
                /\ ~(e.op \in {\h05, \h2D})
                /\ ~(e.op \in {\h35, \h3D})
                /\ ~(e.op = \h98)
                /\ ~(e.op \in \hB0 .. \hB7)
                /\ ~(e.op \in \hB8 .. \hBF)
                /\ ~(e.op = \h69)
                /\ ~(e.op = \h6B)
                /\ ~(e.op = \h0F)
                /\ ~(e.op = \h00)
                /\ ~(e.op = \h01)
                /\ ~(e.op = \h02)
                /\ ~(e.op = \h03)
                /\ ~(e.op = \h08)
                /\ ~(e.op = \h09)
                /\ ~(e.op = \h0A)
                /\ ~(e.op = \h0B)
                /\ ~(e.op = \h11)
                /\ ~(e.op = \h13)
                /\ ~(e.op = \h19)
                /\ ~(e.op = \h20)
                /\ ~(e.op = \h21)
                /\ ~(e.op = \h22)
                /\ ~(e.op = \h23)
                /\ ~(e.op = \h28)
                /\ ~(e.op = \h29)
                /\ ~(e.op = \h2B)
                /\ ~(e.op = \h30)
                /\ ~(e.op = \h31)
                /\ ~(e.op = \h32)
                /\ ~(e.op = \h33)
                /\ ~(e.op = \h38)
                /\ ~(e.op = \h39)
                /\ ~(e.op = \h3A)
                /\ ~(e.op = \h3B)
                /\ ~(e.op = \h63)
                /\ ~(e.op = \h80)
                /\ ~(e.op = \h81)
                /\ ~(e.op = \h83)
                /\ ~(e.op = \h84)
                /\ ~(e.op = \h85)
                /\ ~(e.op = \h86)
                /\ ~(e.op = \h87)
                /\ ~(e.op = \h88)
                /\ ~(e.op = \h8A)
                /\ ~(e.op \in {\h89, \h8B})
                /\ ~(e.op = \h8D)
                /\ ~(e.op = \hC0)
                /\ ~(e.op = \hC1)
                /\ ~(e.op = \hC6)
                /\ ~(e.op = \hC7)
                /\ ~(e.op = \hD0)
                /\ ~(e.op = \hD1)
                /\ ~(e.op = \hD2)
                /\ ~(e.op = \hD3)
                /\ ~(e.op = \hF7)
                /\ ~(e.op = \hFE)
                /\ ~(e.op = \hFF)
      BY <1>62, ErrorBounded DEF Branch
    <1> QED
      BY <1>1, <1>2, <1>3, <1>4, <1>5, <1>6, <1>7, <1>8, <1>9, <1>10, <1>11, <1>12, <1>13, <1>14, <1>15, <1>16, <1>17, <1>18, <1>19, <1>20, <1>21, <1>22, <1>23, <1>24, <1>25, <1>26, <1>27, <1>28, <1>29, <1>30, <1>31, <1>32, <1>33, <1>34, <1>35, <1>36, <1>37, <1>38, <1>39, <1>40, <1>41, <1>42, <1>43, <1>44, <1>45, <1>46, <1>47, <1>48, <1>49, <1>50, <1>51, <1>52, <1>53, <1>54, <1>55, <1>56, <1>57, <1>58, <1>59, <1>60, <1>61, <1>62

\* decodeGeneral keeps within ten bytes behind the opcode.
LEMMA GeneralBounded ==
    ASSUME NEW e \in Encodings
    PROVE  Bounded(e, decodeGeneral(e))
    BY BranchBounded, ErrorBounded DEF decodeGeneral, Only

\* The long NOP, the only instruction that may be padded with prefixes.
LongNopCode(e) == e.op = \h0F /\ e.op2 = \h1F

\* As many prefixes as the families accept.
Few(e) ==
    \/ e.pre = {} /\ ~e.hasRex
    \/ /\ e.pre \in {{}, {"66"}, {"65"}, {"F0"}, {"F2"}, {"F3"}, {"2E"}}
       /\ e.op \notin {\hC4, \hC5}
    \/ /\ e.pre \in {{"66", "65"}, {"66", "F0"}}
       /\ e.op \notin {\hC4, \hC5} /\ ~(e.op = \h0F /\ e.op2 \in {\h38, \h3A})

\* Five bytes at most before the ModRM byte.
LEMMA FewIsShort ==
    ASSUME NEW e \in Encodings, e.pad = 0, Few(e)
    PROVE  HeaderLength(e) \in 1 .. 5
    <1>1. Escape(e) \in 1 .. 4
      BY DEF Escape
    <1>2. e.op \notin {\hC4, \hC5} => Escape(e) <= 3
      BY DEF Escape
    <1>3. e.op \notin {\hC4, \hC5} /\ ~(e.op = \h0F /\ e.op2 \in {\h38, \h3A}) => Escape(e) <= 2
      BY DEF Escape
    <1>4. Cardinality({}) = 0 /\ \A x : Cardinality({x}) = 1 /\ IsFiniteSet({x})
      BY FS_EmptySet, FS_Singleton
    <1>5. Cardinality({"66", "65"}) \in 1 .. 2
      <2>1. {"66", "65"} = {"66"} \union {"65"}
        OBVIOUS
      <2>2. IsFiniteSet({"66"}) /\ Cardinality({"66"}) = 1
        BY <1>4, Zenon
      <2>3. Cardinality({"66"} \union {"65"}) = IF "65" \in {"66"} THEN 1 ELSE 1 + 1
        BY <2>2, FS_AddElement, Zenon
      <2> QED
        BY <2>1, <2>3
    <1>6. Cardinality({"66", "F0"}) \in 1 .. 2
      <2>1. {"66", "F0"} = {"66"} \union {"F0"}
        OBVIOUS
      <2>2. IsFiniteSet({"66"}) /\ Cardinality({"66"}) = 1
        BY <1>4, Zenon
      <2>3. Cardinality({"66"} \union {"F0"}) = IF "F0" \in {"66"} THEN 1 ELSE 1 + 1
        BY <2>2, FS_AddElement, Zenon
      <2> QED
        BY <2>1, <2>3
    <1>7. HeaderLength(e) = Cardinality(e.pre) + 0 + (IF e.hasRex THEN 1 ELSE 0) + Escape(e)
      BY DEF HeaderLength
    <1>8. CASE e.pre = {} /\ ~e.hasRex
      BY <1>1, <1>4, <1>7, <1>8
    <1>9. CASE e.pre \in {{}, {"66"}, {"65"}, {"F0"}, {"F2"}, {"F3"}, {"2E"}} /\ e.op \notin {\hC4, \hC5}
      <2>1. Cardinality(e.pre) \in 0 .. 1
        <3>1. /\ Cardinality({"66"}) = 1 /\ Cardinality({"65"}) = 1 /\ Cardinality({"F0"}) = 1
              /\ Cardinality({"F2"}) = 1 /\ Cardinality({"F3"}) = 1 /\ Cardinality({"2E"}) = 1
          BY <1>4, Zenon
        <3>2. CASE e.pre = {}
          BY <1>4, <3>2
        <3>3. CASE e.pre \in {{"66"}, {"65"}, {"F0"}, {"F2"}, {"F3"}, {"2E"}}
          <4>1. Cardinality(e.pre) = 1
            BY <3>1, <3>3, Zenon
          <4> QED
            BY <4>1
        <3> QED
          BY <1>9, <3>2, <3>3
      <2> QED
        BY <2>1, <1>1, <1>2, <1>7, <1>9
    <1>10. CASE /\ e.pre \in {{"66", "65"}, {"66", "F0"}}
                /\ e.op \notin {\hC4, \hC5} /\ ~(e.op = \h0F /\ e.op2 \in {\h38, \h3A})
      <2>1. Cardinality(e.pre) \in 1 .. 2
        BY <1>5, <1>6, <1>10
      <2> QED
        BY <2>1, <1>1, <1>3, <1>7, <1>10
    <1> QED
      BY <1>8, <1>9, <1>10 DEF Few

\* decodeVex accepts few prefixes.
LEMMA VexFew ==
    ASSUME NEW e \in Encodings, decodeVex(e) # Pass
    PROVE  Few(e) /\ ~LongNopCode(e)
    BY DEF decodeVex, Few, LongNopCode

\* decodeScalarSpecial accepts few prefixes.
LEMMA ScalarSpecialFew ==
    ASSUME NEW e \in Encodings, decodeScalarSpecial(e) # Pass, ~LongNopCode(e)
    PROVE  Few(e)
    <1>1. CASE NoPrefix(e) /\ e.op \in {\h6A, \h68}
      BY <1>1 DEF Few, LongNopCode, NoPrefix, Escaped
    <1>2. CASE NoPrefix(e) /\ e.op \in {\hA8, \hA9}
      BY <1>2 DEF Few, LongNopCode, NoPrefix, Escaped
    <1>3. CASE e.pre = {"66"} /\ ~e.hasRex /\ e.op = \hC1
      BY <1>3 DEF Few, LongNopCode, NoPrefix, Escaped
    <1>4. CASE e.pre \subseteq {"65"} /\ e.op = \hF6
      BY <1>4 DEF Few, LongNopCode, NoPrefix, Escaped
    <1>5. CASE NoPrefix(e) /\ e.op \in {\h04, \h3C, \h3D}
      BY <1>5 DEF Few, LongNopCode, NoPrefix, Escaped
    <1>6. CASE NoPrefix(e) /\ e.op \in {\h35, \h0D}
      BY <1>6 DEF Few, LongNopCode, NoPrefix, Escaped
    <1>7. CASE NoPrefix(e) /\ e.op \in (\hB0 .. \hB3) \union (\hB8 .. \hBF)
      BY <1>7 DEF Few, LongNopCode, NoPrefix, Escaped
    <1>8. CASE e.pre = {} /\ e.op \in \h50 .. \h5F
      BY <1>8 DEF Few, LongNopCode, NoPrefix, Escaped
    <1>9. CASE NoPrefix(e) /\ e.op = \hC9
      BY <1>9 DEF Few, LongNopCode, NoPrefix, Escaped
    <1>10. CASE e.pre \subseteq {"66"} /\ ~e.hasRex /\ e.op = \h90
      BY <1>10 DEF Few, LongNopCode, NoPrefix, Escaped
    <1>11. CASE NoPrefix(e) /\ e.op \in {\hFC, \hFD}
      BY <1>11 DEF Few, LongNopCode, NoPrefix, Escaped
    <1>12. CASE e.pre \subseteq {"66", "2E"} /\ e.op = \h0F /\ e.op2 = \h1F
      BY <1>12 DEF Few, LongNopCode, NoPrefix, Escaped
    <1>13. CASE NoPrefix(e) /\ e.op = \h0F /\ e.op2 = \h05
      BY <1>13 DEF Few, LongNopCode, NoPrefix, Escaped
    <1>14. CASE NoPrefix(e) /\ e.op = \h0F /\ e.op2 \in {\h31, \hA2}
      BY <1>14 DEF Few, LongNopCode, NoPrefix, Escaped
    <1>15. CASE NoPrefix(e) /\ e.op = \h0F /\ e.op2 = \hAE /\ Direct(e) /\ <<e.reg, e.rm>> \in {<<5, 0>>, <<6, 0>>}
      BY <1>15 DEF Few, LongNopCode, NoPrefix, Escaped
    <1>16. CASE Escaped(e, {\h90 + c : c \in ByteConditions})
      BY <1>16 DEF Few, LongNopCode, NoPrefix, Escaped
    <1>17. CASE Escaped(e, {\hBF})
      BY <1>17 DEF Few, LongNopCode, NoPrefix, Escaped
    <1>18. CASE Escaped(e, {\hBE}) /\ ~e.hasRex
      BY <1>18 DEF Few, LongNopCode, NoPrefix, Escaped
    <1>19. CASE Escaped(e, {\hB6})
      BY <1>19 DEF Few, LongNopCode, NoPrefix, Escaped
    <1>20. CASE Escaped(e, {\hB7})
      BY <1>20 DEF Few, LongNopCode, NoPrefix, Escaped
    <1>21. CASE Escaped(e, {\hBC, \hBD}) /\ ~e.hasRex
      BY <1>21 DEF Few, LongNopCode, NoPrefix, Escaped
    <1>22. CASE Escaped(e, \hC8 .. \hCF)
      BY <1>22 DEF Few, LongNopCode, NoPrefix, Escaped
    <1>23. CASE /\ ~(NoPrefix(e) /\ e.op \in {\h6A, \h68})
                /\ ~(NoPrefix(e) /\ e.op \in {\hA8, \hA9})
                /\ ~(e.pre = {"66"} /\ ~e.hasRex /\ e.op = \hC1)
                /\ ~(e.pre \subseteq {"65"} /\ e.op = \hF6)
                /\ ~(NoPrefix(e) /\ e.op \in {\h04, \h3C, \h3D})
                /\ ~(NoPrefix(e) /\ e.op \in {\h35, \h0D})
                /\ ~(NoPrefix(e) /\ e.op \in (\hB0 .. \hB3) \union (\hB8 .. \hBF))
                /\ ~(e.pre = {} /\ e.op \in \h50 .. \h5F)
                /\ ~(NoPrefix(e) /\ e.op = \hC9)
                /\ ~(e.pre \subseteq {"66"} /\ ~e.hasRex /\ e.op = \h90)
                /\ ~(NoPrefix(e) /\ e.op \in {\hFC, \hFD})
                /\ ~(e.pre \subseteq {"66", "2E"} /\ e.op = \h0F /\ e.op2 = \h1F)
                /\ ~(NoPrefix(e) /\ e.op = \h0F /\ e.op2 = \h05)
                /\ ~(NoPrefix(e) /\ e.op = \h0F /\ e.op2 \in {\h31, \hA2})
                /\ ~(NoPrefix(e) /\ e.op = \h0F /\ e.op2 = \hAE /\ Direct(e) /\ <<e.reg, e.rm>> \in {<<5, 0>>, <<6, 0>>})
                /\ ~(Escaped(e, {\h90 + c : c \in ByteConditions}))
                /\ ~(Escaped(e, {\hBF}))
                /\ ~(Escaped(e, {\hBE}) /\ ~e.hasRex)
                /\ ~(Escaped(e, {\hB6}))
                /\ ~(Escaped(e, {\hB7}))
                /\ ~(Escaped(e, {\hBC, \hBD}) /\ ~e.hasRex)
                /\ ~(Escaped(e, \hC8 .. \hCF))
      BY <1>23 DEF decodeScalarSpecial
    <1> QED
      BY <1>1, <1>2, <1>3, <1>4, <1>5, <1>6, <1>7, <1>8, <1>9, <1>10, <1>11, <1>12, <1>13, <1>14, <1>15, <1>16, <1>17, <1>18, <1>19, <1>20, <1>21, <1>22, <1>23

\* decodeSimdShort accepts few prefixes.
LEMMA SimdShortFew ==
    ASSUME NEW e \in Encodings, decodeSimdShort(e) # Pass
    PROVE  Few(e) /\ ~LongNopCode(e)
    BY DEF decodeSimdShort, Few, LongNopCode, Coded, PackedArithmetic

\* decodeOperandOverride accepts few prefixes.
LEMMA OperandOverrideFew ==
    ASSUME NEW e \in Encodings, decodeOperandOverride(e) # Pass
    PROVE  Few(e) /\ ~LongNopCode(e)
    BY DEF decodeOperandOverride, Few, LongNopCode

\* decodeSimdLanes accepts few prefixes.
LEMMA SimdLanesFew ==
    ASSUME NEW e \in Encodings, decodeSimdLanes(e) # Pass
    PROVE  Few(e) /\ ~LongNopCode(e)
    <1>1. CASE Coded38(e, \h00)
      BY <1>1 DEF Few, LongNopCode, Coded, Coded38, Coded3A
    <1>2. CASE Coded38(e, \h02)
      BY <1>2 DEF Few, LongNopCode, Coded, Coded38, Coded3A
    <1>3. CASE Coded38(e, \h31)
      BY <1>3 DEF Few, LongNopCode, Coded, Coded38, Coded3A
    <1>4. CASE Coded38(e, \h22) \/ Coded38(e, \h21)
      BY <1>4 DEF Few, LongNopCode, Coded, Coded38, Coded3A
    <1>5. CASE Coded38(e, \h25)
      BY <1>5 DEF Few, LongNopCode, Coded, Coded38, Coded3A
    <1>6. CASE Coded38(e, \h29)
      BY <1>6 DEF Few, LongNopCode, Coded, Coded38, Coded3A
    <1>7. CASE Coded38(e, \h15)
      BY <1>7 DEF Few, LongNopCode, Coded, Coded38, Coded3A
    <1>8. CASE Coded(e, {"66"}, {\hC4})
      BY <1>8 DEF Few, LongNopCode, Coded, Coded38, Coded3A
    <1>9. CASE Coded(e, {"66"}, {\hC5})
      BY <1>9 DEF Few, LongNopCode, Coded, Coded38, Coded3A
    <1>10. CASE Coded3A(e, \h17) /\ ~e.hasRex
      BY <1>10 DEF Few, LongNopCode, Coded, Coded38, Coded3A
    <1>11. CASE Coded38(e, \h17) /\ ~e.hasRex
      BY <1>11 DEF Few, LongNopCode, Coded, Coded38, Coded3A
    <1>12. CASE Coded(e, {"66"}, {\hC2})
      BY <1>12 DEF Few, LongNopCode, Coded, Coded38, Coded3A
    <1>13. CASE Coded(e, {"66"}, {\hFD})
      BY <1>13 DEF Few, LongNopCode, Coded, Coded38, Coded3A
    <1>14. CASE Coded(e, {"66"}, {\h72, \h73})
      BY <1>14 DEF Few, LongNopCode, Coded, Coded38, Coded3A
    <1>15. CASE Coded(e, {"66"}, {\hFE, \hD4})
      BY <1>15 DEF Few, LongNopCode, Coded, Coded38, Coded3A
    <1>16. CASE Coded(e, {"66"}, {\h61, \h6C})
      BY <1>16 DEF Few, LongNopCode, Coded, Coded38, Coded3A
    <1>17. CASE Coded(e, {"66"}, {\hEB})
      BY <1>17 DEF Few, LongNopCode, Coded, Coded38, Coded3A
    <1>18. CASE Coded(e, {"66"}, {\hEF})
      BY <1>18 DEF Few, LongNopCode, Coded, Coded38, Coded3A
    <1>19. CASE Coded(e, {"66"}, {\hDF}) /\ ~e.hasRex
      BY <1>19 DEF Few, LongNopCode, Coded, Coded38, Coded3A
    <1>20. CASE Coded(e, {"66"}, {\hDB}) /\ ~e.hasRex
      BY <1>20 DEF Few, LongNopCode, Coded, Coded38, Coded3A
    <1>21. CASE Coded(e, {"66"}, {\h74}) /\ ~e.hasRex
      BY <1>21 DEF Few, LongNopCode, Coded, Coded38, Coded3A
    <1>22. CASE Coded(e, {"66"}, {\h76})
      BY <1>22 DEF Few, LongNopCode, Coded, Coded38, Coded3A
    <1>23. CASE Coded(e, {"66"}, {\h70}) /\ ~e.hasRex
      BY <1>23 DEF Few, LongNopCode, Coded, Coded38, Coded3A
    <1>24. CASE Coded(e, {}, {\h2E})
      BY <1>24 DEF Few, LongNopCode, Coded, Coded38, Coded3A
    <1>25. CASE Coded(e, {"66"}, {\h2E})
      BY <1>25 DEF Few, LongNopCode, Coded, Coded38, Coded3A
    <1>26. CASE Coded(e, {}, {\hC6})
      BY <1>26 DEF Few, LongNopCode, Coded, Coded38, Coded3A
    <1>27. CASE Coded(e, {}, {\h50}) \/ Coded(e, {"66"}, {\h50})
      BY <1>27 DEF Few, LongNopCode, Coded, Coded38, Coded3A
    <1>28. CASE Coded(e, {"66"}, {\hC6})
      BY <1>28 DEF Few, LongNopCode, Coded, Coded38, Coded3A
    <1>29. CASE Coded(e, {"66"}, {\hD6})
      BY <1>29 DEF Few, LongNopCode, Coded, Coded38, Coded3A
    <1>30. CASE /\ ~(Coded38(e, \h00))
                /\ ~(Coded38(e, \h02))
                /\ ~(Coded38(e, \h31))
                /\ ~(Coded38(e, \h22) \/ Coded38(e, \h21))
                /\ ~(Coded38(e, \h25))
                /\ ~(Coded38(e, \h29))
                /\ ~(Coded38(e, \h15))
                /\ ~(Coded(e, {"66"}, {\hC4}))
                /\ ~(Coded(e, {"66"}, {\hC5}))
                /\ ~(Coded3A(e, \h17) /\ ~e.hasRex)
                /\ ~(Coded38(e, \h17) /\ ~e.hasRex)
                /\ ~(Coded(e, {"66"}, {\hC2}))
                /\ ~(Coded(e, {"66"}, {\hFD}))
                /\ ~(Coded(e, {"66"}, {\h72, \h73}))
                /\ ~(Coded(e, {"66"}, {\hFE, \hD4}))
                /\ ~(Coded(e, {"66"}, {\h61, \h6C}))
                /\ ~(Coded(e, {"66"}, {\hEB}))
                /\ ~(Coded(e, {"66"}, {\hEF}))
                /\ ~(Coded(e, {"66"}, {\hDF}) /\ ~e.hasRex)
                /\ ~(Coded(e, {"66"}, {\hDB}) /\ ~e.hasRex)
                /\ ~(Coded(e, {"66"}, {\h74}) /\ ~e.hasRex)
                /\ ~(Coded(e, {"66"}, {\h76}))
                /\ ~(Coded(e, {"66"}, {\h70}) /\ ~e.hasRex)
                /\ ~(Coded(e, {}, {\h2E}))
                /\ ~(Coded(e, {"66"}, {\h2E}))
                /\ ~(Coded(e, {}, {\hC6}))
                /\ ~(Coded(e, {}, {\h50}) \/ Coded(e, {"66"}, {\h50}))
                /\ ~(Coded(e, {"66"}, {\hC6}))
                /\ ~(Coded(e, {"66"}, {\hD6}))
      BY <1>30 DEF decodeSimdLanes
    <1> QED
      BY <1>1, <1>2, <1>3, <1>4, <1>5, <1>6, <1>7, <1>8, <1>9, <1>10, <1>11, <1>12, <1>13, <1>14, <1>15, <1>16, <1>17, <1>18, <1>19, <1>20, <1>21, <1>22, <1>23, <1>24, <1>25, <1>26, <1>27, <1>28, <1>29, <1>30

\* decodeSimdMemory accepts few prefixes.
LEMMA SimdMemoryFew ==
    ASSUME NEW e \in Encodings, decodeSimdMemory(e) # Pass
    PROVE  Few(e) /\ ~LongNopCode(e)
    <1>1. CASE Coded(e, {"F2"}, {\h10, \h11})
      BY <1>1 DEF Few, LongNopCode, Coded, Coded38, Coded3A, ScalarArithmetic
    <1>2. CASE Coded(e, {}, {\h12, \h13})
      BY <1>2 DEF Few, LongNopCode, Coded, Coded38, Coded3A, ScalarArithmetic
    <1>3. CASE Coded(e, {"F2"}, {\h2C})
      BY <1>3 DEF Few, LongNopCode, Coded, Coded38, Coded3A, ScalarArithmetic
    <1>4. CASE Coded(e, {"F2"}, {\h2A})
      BY <1>4 DEF Few, LongNopCode, Coded, Coded38, Coded3A, ScalarArithmetic
    <1>5. CASE Coded(e, {"F2"}, {\h5A})
      BY <1>5 DEF Few, LongNopCode, Coded, Coded38, Coded3A, ScalarArithmetic
    <1>6. CASE Coded(e, {"F2"}, ScalarArithmetic)
      BY <1>6 DEF Few, LongNopCode, Coded, Coded38, Coded3A, ScalarArithmetic
    <1>7. CASE Coded(e, {"F2"}, {\h12})
      BY <1>7 DEF Few, LongNopCode, Coded, Coded38, Coded3A, ScalarArithmetic
    <1>8. CASE Coded(e, {"F3"}, {\hE6})
      BY <1>8 DEF Few, LongNopCode, Coded, Coded38, Coded3A, ScalarArithmetic
    <1>9. CASE Coded(e, {"F3"}, {\h10, \h11})
      BY <1>9 DEF Few, LongNopCode, Coded, Coded38, Coded3A, ScalarArithmetic
    <1>10. CASE Coded(e, {"F3"}, {\h7E})
      BY <1>10 DEF Few, LongNopCode, Coded, Coded38, Coded3A, ScalarArithmetic
    <1>11. CASE Coded(e, {"66"}, {\hD7}) /\ ~e.hasRex
      BY <1>11 DEF Few, LongNopCode, Coded, Coded38, Coded3A, ScalarArithmetic
    <1>12. CASE Coded(e, {}, {\h29}) \/ Coded(e, {"66"}, {\h29})
      BY <1>12 DEF Few, LongNopCode, Coded, Coded38, Coded3A, ScalarArithmetic
    <1>13. CASE Coded(e, {}, {\h11}) \/ Coded(e, {"66"}, {\h11})
      BY <1>13 DEF Few, LongNopCode, Coded, Coded38, Coded3A, ScalarArithmetic
    <1>14. CASE Coded(e, {}, {\h10, \h28}) \/ Coded(e, {"66"}, {\h10, \h28})
      BY <1>14 DEF Few, LongNopCode, Coded, Coded38, Coded3A, ScalarArithmetic
    <1>15. CASE Coded3A(e, \h16) /\ ~e.hasRex
      BY <1>15 DEF Few, LongNopCode, Coded, Coded38, Coded3A, ScalarArithmetic
    <1>16. CASE Coded3A(e, \h0E) /\ ~e.hasRex
      BY <1>16 DEF Few, LongNopCode, Coded, Coded38, Coded3A, ScalarArithmetic
    <1>17. CASE Coded3A(e, \h22)
      BY <1>17 DEF Few, LongNopCode, Coded, Coded38, Coded3A, ScalarArithmetic
    <1>18. CASE Coded3A(e, \h20)
      BY <1>18 DEF Few, LongNopCode, Coded, Coded38, Coded3A, ScalarArithmetic
    <1>19. CASE Coded3A(e, \h0F) /\ ~e.hasRex
      BY <1>19 DEF Few, LongNopCode, Coded, Coded38, Coded3A, ScalarArithmetic
    <1>20. CASE Coded(e, {"66"}, {\h7F}) /\ ~e.hasRex
      BY <1>20 DEF Few, LongNopCode, Coded, Coded38, Coded3A, ScalarArithmetic
    <1>21. CASE Coded(e, {"66"}, {\h6F})
      BY <1>21 DEF Few, LongNopCode, Coded, Coded38, Coded3A, ScalarArithmetic
    <1>22. CASE /\ ~(Coded(e, {"F2"}, {\h10, \h11}))
                /\ ~(Coded(e, {}, {\h12, \h13}))
                /\ ~(Coded(e, {"F2"}, {\h2C}))
                /\ ~(Coded(e, {"F2"}, {\h2A}))
                /\ ~(Coded(e, {"F2"}, {\h5A}))
                /\ ~(Coded(e, {"F2"}, ScalarArithmetic))
                /\ ~(Coded(e, {"F2"}, {\h12}))
                /\ ~(Coded(e, {"F3"}, {\hE6}))
                /\ ~(Coded(e, {"F3"}, {\h10, \h11}))
                /\ ~(Coded(e, {"F3"}, {\h7E}))
                /\ ~(Coded(e, {"66"}, {\hD7}) /\ ~e.hasRex)
                /\ ~(Coded(e, {}, {\h29}) \/ Coded(e, {"66"}, {\h29}))
                /\ ~(Coded(e, {}, {\h11}) \/ Coded(e, {"66"}, {\h11}))
                /\ ~(Coded(e, {}, {\h10, \h28}) \/ Coded(e, {"66"}, {\h10, \h28}))
                /\ ~(Coded3A(e, \h16) /\ ~e.hasRex)
                /\ ~(Coded3A(e, \h0E) /\ ~e.hasRex)
                /\ ~(Coded3A(e, \h22))
                /\ ~(Coded3A(e, \h20))
                /\ ~(Coded3A(e, \h0F) /\ ~e.hasRex)
                /\ ~(Coded(e, {"66"}, {\h7F}) /\ ~e.hasRex)
                /\ ~(Coded(e, {"66"}, {\h6F}))
      BY <1>22 DEF decodeSimdMemory
    <1> QED
      BY <1>1, <1>2, <1>3, <1>4, <1>5, <1>6, <1>7, <1>8, <1>9, <1>10, <1>11, <1>12, <1>13, <1>14, <1>15, <1>16, <1>17, <1>18, <1>19, <1>20, <1>21, <1>22

\* decodeRepeat accepts few prefixes.
LEMMA RepeatFew ==
    ASSUME NEW e \in Encodings, decodeRepeat(e) # Pass
    PROVE  Few(e) /\ ~LongNopCode(e)
    BY DEF decodeRepeat, Few, LongNopCode

\* decodeControlTransfer accepts few prefixes.
LEMMA ControlTransferFew ==
    ASSUME NEW e \in Encodings, decodeControlTransfer(e) # Pass
    PROVE  Few(e) /\ ~LongNopCode(e)
    BY DEF decodeControlTransfer, Few, LongNopCode, NoPrefix

\* decodeAtomic accepts few prefixes.
LEMMA AtomicFew ==
    ASSUME NEW e \in Encodings, decodeAtomic(e) \notin {Pass, Error}
    PROVE  Few(e) /\ ~LongNopCode(e)
    BY DEF decodeAtomic, Few, LongNopCode

\* decodeExtended accepts few prefixes.
LEMMA ExtendedFew ==
    ASSUME NEW e \in Encodings, decodeExtended(e) \notin {Pass, Error}
    PROVE  Few(e) /\ ~LongNopCode(e)
    BY DEF decodeExtended, Few, LongNopCode, NoPrefix, CmovOps, ByteConditions

\* decodeGeneral accepts few prefixes.
LEMMA GeneralFew ==
    ASSUME NEW e \in Encodings, decodeGeneral(e) # Error
    PROVE  Few(e) /\ ~LongNopCode(e)
    <1>1. e.pre \subseteq {"66", "65"} /\ Admitted(e) /\ Branch(e) # Error
      BY DEF decodeGeneral, Only
    <1>2. e.op \notin {\hC4, \hC5}
      <2>1. e.op = \hC4 => Branch(e) = Error
        BY DEF Branch
      <2>2. e.op = \hC5 => Branch(e) = Error
        BY DEF Branch
      <2> QED
        BY <1>1, <2>1, <2>2
    <1>3. ~LongNopCode(e)
      <2> SUFFICES ASSUME LongNopCode(e) PROVE FALSE
        OBVIOUS
      <2>1. Branch(e) = RexEscape(e)
        BY DEF Branch, LongNopCode
      <2>2. ~EscapeAdmitted(e)
        BY DEF EscapeAdmitted, LongNopCode, CmovOps, ByteConditions
      <2> QED
        BY <1>1, <2>1, <2>2 DEF RexEscape, Only
    <1>4. e.op = \h0F => e.pre = {}
      BY <1>1 DEF Admitted, WithOperandSize, WithGs
    <1> QED
      BY <1>1, <1>2, <1>3, <1>4 DEF Few

\* LongNop stays within fifteen bytes, padding included.
LEMMA LongNopLength ==
    ASSUME NEW e \in Encodings, LongNopCode(e), LongNop(e) # Error
    PROVE  /\ Decoded(e, LongNop(e)) # Error
           /\ Decoded(e, LongNop(e)).len \in 1 .. 15
           /\ Names(e, Decoded(e, LongNop(e)).op)
    <1> DEFINE a == IF Direct(e) THEN RmField(e, 32) ELSE MemoryForm(e, 32, Full)
               t == Taken(a)
    <1>1. /\ LongNop(e) = Discard(Inst("Nop", <<a>>))
          /\ a # Error /\ HeaderLength(e) + 1 + t <= 15
      BY DEF LongNop, Only
    <1>2. a.k \in {"reg", "mem"}
      BY <1>1 DEF RmField, Reg, MemoryForm, Address
    <1>3. Placed(e, a) = a
      BY <1>1, <1>2 DEF Placed
    <1>4. t \in 0 .. 5
      <2>1. CASE Direct(e)
        BY <2>1 DEF Taken, RmField, Reg
      <2>2. CASE ~Direct(e)
        <3>1. MemoryForm(e, 32, Full).n \in 0 .. 5
          BY <1>1, <2>2, MemoryFormShort
        <3> QED
          BY <2>2, <3>1 DEF Taken
      <2> QED
        BY <2>1, <2>2
    <1>5. LongNop(e) = Made("Nop", <<a>>, "none", 1, FALSE)
      BY <1>1 DEF Discard, Inst, Made
    <1> DEFINE r == [op |-> "Nop", args |-> NoOperands, cc |-> "none",
                     len |-> HeaderLength(e) + 1 + TakenBy(<<a>>)]
    <1> HIDE DEF a
    <1>6. Decoded(e, LongNop(e)) = r
      BY <1>1, <1>3, <1>5, Skipped
    <1>7. TakenBy(<<a>>) = t
      BY <1>4 DEF TakenBy, TakenAt
    <1>8. Names(e, "Nop")
      BY DEF Names, Transfers, LongNopCode
    <1>9. r # Error
      BY CompleteIsInstruction
    <1>10. r.len = HeaderLength(e) + 1 + TakenBy(<<a>>) /\ r.op = "Nop"
      OBVIOUS
    <1> HIDE DEF r, t
    <1> QED
      BY <1>1, <1>4, <1>6, <1>7, <1>8, <1>9, <1>10, HeaderIsPositive

(***************************************************************************)
(* What an instruction needs to be one: no more than the fifteen bytes the *)
(* architecture allows, and a mnemonic that ends a block exactly when the  *)
(* encoding is a control transfer.                                         *)
(***************************************************************************)
Short(e, d) ==
    \/ Decoded(e, d) = Error
    \/ Decoded(e, d).len \in 1 .. 15 /\ Names(e, Decoded(e, d).op)

\* What is rejected is short.
LEMMA StopsShort ==
    ASSUME NEW e, NEW d, d \in {Pass, Error}
    PROVE  Short(e, d)
    BY DEF Short, Decoded

\* Trying one family after another.
LEMMA ElseShort ==
    ASSUME NEW e, NEW a, NEW b, Short(e, a), Short(e, b)
    PROVE  Short(e, Else(a, b))
    BY DEF Else

\* A family that is bounded and accepts few prefixes.
LEMMA FamilyShort ==
    ASSUME NEW e \in Encodings, NEW d, Bounded(e, d), e.pad = 0, Few(e)
    PROVE  Short(e, d)
    <1>1. CASE Decoded(e, d) = Error
      BY <1>1 DEF Short
    <1>2. CASE Decoded(e, d) # Error
      <2>1. PICK t \in 0 .. 10 : Decoded(e, d).len = HeaderLength(e) + t
        BY <1>2 DEF Bounded
      <2>2. HeaderLength(e) \in 1 .. 5
        BY FewIsShort
      <2>3. HeaderLength(e) + t \in 1 .. 15
        BY <2>1, <2>2
      <2> QED
        BY <1>2, <2>1, <2>3 DEF Bounded, Short
    <1> QED
      BY <1>1, <1>2

\* decodeScalarSpecial is the family of the long NOP.
LEMMA LongNopIsSpecial ==
    ASSUME NEW e \in Encodings, LongNopCode(e)
    PROVE  decodeScalarSpecial(e) \in {Pass, Error, LongNop(e)}
    BY DEF decodeScalarSpecial, LongNopCode, NoPrefix, Escaped, ByteConditions

\* decodeScalarSpecial.
LEMMA SpecialShort ==
    ASSUME NEW e \in Encodings, LongNopCode(e) \/ e.pad = 0
    PROVE  Short(e, decodeScalarSpecial(e))
    <1>1. CASE decodeScalarSpecial(e) \in {Pass, Error}
      BY <1>1, StopsShort
    <1>2. CASE LongNopCode(e) /\ decodeScalarSpecial(e) = LongNop(e) /\ LongNop(e) # Error
      BY <1>2, LongNopLength DEF Short
    <1>3. CASE ~LongNopCode(e) /\ decodeScalarSpecial(e) \notin {Pass, Error}
      <2>1. Bounded(e, decodeScalarSpecial(e))
        BY <1>3, ScalarSpecialBounded DEF LongNopCode
      <2>2. Few(e)
        BY <1>3, ScalarSpecialFew
      <2> QED
        BY <1>3, <2>1, <2>2, FamilyShort
    <1> QED
      BY <1>1, <1>2, <1>3, LongNopIsSpecial

\* All families in the order decodeInstruction tries them.
LEMMA RecognizedShort ==
    ASSUME NEW e \in Encodings
    PROVE  Short(e, Recognized(e))
    <1>1. CASE e.pre = {} /\ ~e.hasRex /\ e.op = \hC3
      <2>1. Recognized(e) = Ret
        BY <1>1 DEF Recognized
      <2>2. e.pad = 0
        BY <1>1 DEF Encodings
      <2>3. Few(e) /\ Names(e, "Ret")
        BY <1>1 DEF Few, Names, Transfers
      <2>4. Bounded(e, Ret)
        BY <2>3, BoundedBare0 DEF Ret
      <2> QED
        BY <2>1, <2>2, <2>3, <2>4, FamilyShort
    <1>2. CASE ~(e.pre = {} /\ ~e.hasRex /\ e.op = \hC3) /\ e.pad > 0 /\ ~(e.op = \h0F /\ e.op2 = \h1F)
      BY <1>2, StopsShort DEF Recognized
    <1>3. CASE ~(e.pre = {} /\ ~e.hasRex /\ e.op = \hC3) /\ ~(e.pad > 0 /\ ~(e.op = \h0F /\ e.op2 = \h1F))
      <2>0. LongNopCode(e) \/ e.pad = 0
        BY <1>3 DEF LongNopCode, Encodings
      <2>v. Short(e, decodeVex(e))
        BY <2>0, VexFew, VexBounded, StopsShort, FamilyShort
      <2>s. Short(e, decodeScalarSpecial(e))
        BY <2>0, SpecialShort
      <2>h. Short(e, decodeSimdShort(e))
        BY <2>0, SimdShortFew, SimdShortBounded, StopsShort, FamilyShort
      <2>o. Short(e, decodeOperandOverride(e))
        BY <2>0, OperandOverrideFew, OperandOverrideBounded, StopsShort, FamilyShort
      <2>l. Short(e, decodeSimdLanes(e))
        BY <2>0, SimdLanesFew, SimdLanesBounded, StopsShort, FamilyShort
      <2>m. Short(e, decodeSimdMemory(e))
        BY <2>0, SimdMemoryFew, SimdMemoryBounded, StopsShort, FamilyShort
      <2>r. Short(e, decodeRepeat(e))
        BY <2>0, RepeatFew, RepeatBounded, StopsShort, FamilyShort
      <2>c. Short(e, decodeControlTransfer(e))
        BY <2>0, ControlTransferFew, ControlTransferBounded, StopsShort, FamilyShort
      <2>a. Short(e, decodeAtomic(e))
        BY <2>0, AtomicFew, AtomicBounded, StopsShort, FamilyShort
      <2>x. Short(e, decodeExtended(e))
        BY <2>0, ExtendedFew, ExtendedBounded, StopsShort, FamilyShort
      <2>g. Short(e, decodeGeneral(e))
        BY <2>0, GeneralFew, GeneralBounded, StopsShort, FamilyShort
      <2> DEFINE extended == Else(decodeExtended(e), decodeGeneral(e))
                 atomic == Else(decodeAtomic(e), extended)
                 control == Else(decodeControlTransfer(e), atomic)
                 repeat == Else(decodeRepeat(e), control)
                 memory == Else(decodeSimdMemory(e), repeat)
                 lanes == Else(decodeSimdLanes(e), memory)
                 override == Else(decodeOperandOverride(e), lanes)
                 short == Else(decodeSimdShort(e), override)
                 special == Else(decodeScalarSpecial(e), short)
      <2>1. Recognized(e) = Else(decodeVex(e), special)
        BY <1>3, Zenon DEF Recognized
      <2>2. Short(e, extended)
        BY <2>x, <2>g, ElseShort
      <2> HIDE DEF extended
      <2>3. Short(e, atomic)
        BY <2>a, <2>2, ElseShort
      <2> HIDE DEF atomic
      <2>4. Short(e, control)
        BY <2>c, <2>3, ElseShort
      <2> HIDE DEF control
      <2>5. Short(e, repeat)
        BY <2>r, <2>4, ElseShort
      <2> HIDE DEF repeat
      <2>6. Short(e, memory)
        BY <2>m, <2>5, ElseShort
      <2> HIDE DEF memory
      <2>7. Short(e, lanes)
        BY <2>l, <2>6, ElseShort
      <2> HIDE DEF lanes
      <2>8. Short(e, override)
        BY <2>o, <2>7, ElseShort
      <2> HIDE DEF override
      <2>9. Short(e, short)
        BY <2>h, <2>8, ElseShort
      <2> HIDE DEF short
      <2>10. Short(e, special)
        BY <2>s, <2>9, ElseShort
      <2> HIDE DEF special
      <2> QED
        BY <2>1, <2>10, <2>v, ElseShort
    <1> QED
      BY <1>1, <1>2, <1>3

(***************************************************************************)
(* Every instruction decodeInstruction accepts has between one and fifteen *)
(* bytes, and terminatesBlock holds of it exactly when its encoding is a   *)
(* control transfer.                                                       *)
(***************************************************************************)
THEOREM InstructionsAreShort ==
    \A e \in Encodings :
        \/ decodeInstruction(e) = Error
        \/ /\ decodeInstruction(e).len \in 1 .. 15
           /\ terminatesBlock(decodeInstruction(e)) <=> Transfers(e)
    BY RecognizedShort DEF Short, Names, decodeInstruction, terminatesBlock

(***************************************************************************)
(* The architecture's lengths are positive: an operand that is no memory   *)
(* form takes a number of bytes, and so does every memory form.            *)
(***************************************************************************)
Fit(a) == a # Error /\ a.k \in {"imm", "mem"} => a.n \in Nat

\* An instruction of the architecture's tables that has a length.
Proper(d) ==
    \/ d = Error \/ d = Undefined
    \/ d.modrm \in {0, 1} /\ \A i \in DOMAIN d.args : Fit(d.args[i])

\* The operands of the architecture's tables take bytes that can be counted.
LEMMA OperandsFit ==
    ASSUME NEW e \in Encodings
    PROVE  /\ \A w : Fit(G(e, w)) /\ Fit(E(e, w)) /\ Fit(M(e, w)) /\ Fit(U(e, w)) /\ Fit(Acc(w)) /\ Fit(ImmZ(w))
           /\ \A low, w : Fit(OpReg(e, low, w))
           /\ Fit(V(e)) /\ Fit(Count) /\ Fit(One)
           /\ \A n \in Nat : Fit(SImm(n))
           /\ \A r : Fit(Xmm(r))
    <1>1. \A r, w : Fit(Reg(r, w)) /\ Fit(HighByte(r)) /\ Fit(Xmm(r)) /\ Fit(Memory(w))
      BY DEF Fit, Reg, HighByte, Xmm, Memory
    <1>2. \A n \in Nat : Fit(SImm(n)) /\ Fit(ZImm(n))
      BY DEF Fit, SImm, ZImm
    <1>3. Fit(Error)
      BY DEF Fit
    <1>4. \A low, x, w : Fit(GeneralReg(e, low, x, w))
      BY <1>1 DEF GeneralReg
    <1>5. \A w : Fit(G(e, w)) /\ Fit(E(e, w)) /\ Fit(M(e, w)) /\ Fit(U(e, w)) /\ Fit(Acc(w))
      BY <1>1, <1>3, <1>4 DEF G, E, M, U, Acc
    <1>6. \A w : Fit(ImmZ(w))
      BY <1>2 DEF ImmZ
    <1>7. \A low, w : Fit(OpReg(e, low, w))
      BY <1>4 DEF OpReg
    <1>8. Fit(V(e)) /\ Fit(Count)
      BY <1>1, <1>2 DEF V, Count
    <1>9. Fit(One)
      BY DEF Fit, One
    <1> QED
      BY <1>1, <1>2, <1>5, <1>6, <1>7, <1>8, <1>9

\* Instructions with such operands have a length.
LEMMA ProperMade ==
    ASSUME NEW op, NEW args, NEW cc, NEW modrm \in {0, 1}, NEW kept, \A i \in DOMAIN args : Fit(args[i])
    PROVE  Proper(Made(op, args, cc, modrm, kept))
    BY DEF Proper, Made

\* The forms the tables use.
LEMMA ProperForms ==
    /\ \A op : Proper(Inst(op, NoOperands)) /\ Proper(Bare(op, NoOperands))
    /\ \A op, a : Fit(a) => /\ Proper(Inst(op, <<a>>)) /\ Proper(Bare(op, <<a>>))
                            /\ Proper(Discard(Inst(op, <<a>>)))
                            /\ \A cc : Proper(Cond(Inst(op, <<a>>), cc)) /\ Proper(Cond(Bare(op, <<a>>), cc))
    /\ \A op, a, b : Fit(a) /\ Fit(b) => /\ Proper(Inst(op, <<a, b>>)) /\ Proper(Bare(op, <<a, b>>))
                                         /\ \A cc : Proper(Cond(Inst(op, <<a, b>>), cc))
    /\ \A op, a, b, c : Fit(a) /\ Fit(b) /\ Fit(c) => Proper(Inst(op, <<a, b, c>>))
    <1>1. \A op : Proper(Inst(op, NoOperands)) /\ Proper(Bare(op, NoOperands))
      <2>1. DOMAIN NoOperands = {}
        BY DEF NoOperands
      <2> QED
        BY <2>1, ProperMade DEF Inst, Bare
    <1>2. ASSUME NEW op, NEW a, Fit(a), NEW cc
          PROVE  /\ Proper(Inst(op, <<a>>)) /\ Proper(Bare(op, <<a>>))
                 /\ Proper(Discard(Inst(op, <<a>>)))
                 /\ Proper(Cond(Inst(op, <<a>>), cc)) /\ Proper(Cond(Bare(op, <<a>>), cc))
      <2>1. \A i \in DOMAIN <<a>> : Fit(<<a>>[i])
        BY <1>2
      <2>2. /\ Discard(Inst(op, <<a>>)) = Made(op, <<a>>, "none", 1, FALSE)
            /\ Cond(Inst(op, <<a>>), cc) = Made(op, <<a>>, cc, 1, TRUE)
            /\ Cond(Bare(op, <<a>>), cc) = Made(op, <<a>>, cc, 0, TRUE)
        BY DEF Discard, Cond, Inst, Bare, Made
      <2> DEFINE s == <<a>>
      <2> HIDE DEF s
      <2>3. \A x : \A m \in {0, 1}, k \in BOOLEAN : Proper(Made(op, s, x, m, k))
        BY <2>1, ProperMade DEF s
      <2>4. \A x : \A m \in {0, 1}, k \in BOOLEAN : Proper(Made(op, <<a>>, x, m, k))
        BY <2>3 DEF s
      <2> QED
        BY <2>2, <2>4 DEF Inst, Bare
    <1>3. ASSUME NEW op, NEW a, NEW b, Fit(a), Fit(b), NEW cc
          PROVE  /\ Proper(Inst(op, <<a, b>>)) /\ Proper(Bare(op, <<a, b>>))
                 /\ Proper(Cond(Inst(op, <<a, b>>), cc))
      <2>1. \A i \in DOMAIN <<a, b>> : Fit(<<a, b>>[i])
        BY <1>3
      <2>2. Cond(Inst(op, <<a, b>>), cc) = Made(op, <<a, b>>, cc, 1, TRUE)
        BY DEF Cond, Inst, Made
      <2> DEFINE s == <<a, b>>
      <2> HIDE DEF s
      <2>3. \A x : \A m \in {0, 1}, k \in BOOLEAN : Proper(Made(op, s, x, m, k))
        BY <2>1, ProperMade DEF s
      <2>4. \A x : \A m \in {0, 1}, k \in BOOLEAN : Proper(Made(op, <<a, b>>, x, m, k))
        BY <2>3 DEF s
      <2> QED
        BY <2>2, <2>4 DEF Inst, Bare
    <1>4. ASSUME NEW op, NEW a, NEW b, NEW c, Fit(a), Fit(b), Fit(c)
          PROVE  Proper(Inst(op, <<a, b, c>>))
      <2>1. \A i \in DOMAIN <<a, b, c>> : Fit(<<a, b, c>>[i])
        BY <1>4
      <2> QED
        BY <2>1, ProperMade DEF Inst
    <1> QED
      BY <1>1, <1>2, <1>3, <1>4

\* A lock prefix changes the name only.
LEMMA LocksProper ==
    ASSUME NEW d, Proper(d)
    PROVE  Proper(Locked(d))
    <1>1. CASE d = Error \/ d = Undefined
      BY <1>1 DEF Locked, Proper
    <1>2. CASE ~(d = Error \/ d = Undefined)
      <2>1. \A op : Proper(Made(op, d.args, d.cc, d.modrm, d.kept))
        BY <1>2, ProperMade DEF Proper
      <2> QED
        BY <1>2, <2>1 DEF Locked, Proper
    <1> QED
      BY <1>1, <1>2

\* An addressing form takes bytes that can be counted.
LEMMA MemoryOperandFits ==
    ASSUME NEW e \in Encodings, NEW w
    PROVE  /\ MemoryOperand(e, w).k = "mem" /\ MemoryOperand(e, w).n \in Nat /\ MemoryOperand(e, w) # Error
    BY DEF MemoryOperand, Address, Encodings, Error

\* The length is positive.
LEMMA ProperLength ==
    ASSUME NEW e \in Encodings, NEW d, Proper(d)
    PROVE  Extent(Normal(Formed(e, d))) \in Nat \ {0}
    <1>1. CASE d = Error \/ d = Undefined
      <2>1. Formed(e, d) = d
        BY <1>1 DEF Formed
      <2>2. Normal(d) = d
        BY <1>1 DEF Normal
      <2> QED
        BY <1>1, <2>1, <2>2 DEF Extent
    <1>2. CASE ~(d = Error \/ d = Undefined)
      <2> DEFINE args == [i \in DOMAIN d.args |->
                   IF d.args[i] # Error /\ d.args[i].k = "form" THEN MemoryOperand(e, d.args[i].w)
                   ELSE d.args[i]]
                 r == Complete(e, d, args)
      <2>1. Formed(e, d) = r
        BY <1>2 DEF Formed
      <2>2. d.modrm \in {0, 1} /\ \A i \in DOMAIN d.args : Fit(d.args[i])
        BY <1>2 DEF Proper
      <2>3. DOMAIN args = DOMAIN d.args /\ \A i \in DOMAIN d.args : Fit(args[i])
        BY <2>2, MemoryOperandFits DEF Fit
      <2>4. r = Error \/ r.len \in Nat \ {0}
        <3>1. CASE \E i \in DOMAIN args : args[i] = Error
          BY <3>1 DEF Complete
        <3>2. CASE ~\E i \in DOMAIN args : args[i] = Error
          <4> HIDE DEF args
          <4>1. r.len = HeaderLength(e) + d.modrm + TakenBy(args)
            BY <3>2 DEF Complete
          <4>2. \A i : TakenAt(args, i) \in Nat
            BY <2>3, <3>2 DEF TakenAt, Taken, Fit
          <4>3. TakenBy(args) \in Nat
            BY <4>2 DEF TakenBy
          <4> HIDE DEF r
          <4> QED
            BY <4>1, <4>3, <2>2, HeaderIsPositive
        <3> QED
          BY <3>1, <3>2
      <2> HIDE DEF r
      <2>5. CASE r = Error \/ r = Undefined \/ r.args = NoOperands
        <3>1. Normal(r) = r
          BY <2>5 DEF Normal
        <3> QED
          BY <2>1, <2>4, <3>1 DEF Extent
      <2>6. CASE ~(r = Error \/ r = Undefined \/ r.args = NoOperands)
        <3>1. Normal(r).len = r.len
          BY <2>6 DEF Normal
        <3> QED
          BY <2>1, <2>4, <2>6, <3>1 DEF Extent
      <2> QED
        BY <2>5, <2>6
    <1> QED
      BY <1>1, <1>2

\* Every entry of the architecture's tables has a length.
LEMMA ArchitectureProper ==
    ASSUME NEW e \in Encodings
    PROVE  Proper(Meaning(e))
    <1>0. Proper(Undefined) /\ Proper(Error)
      BY DEF Proper
    <1>1. /\ \A name, w : Proper(VU(name, e, w))
          /\ \A name, load, w : Proper(Moves(name, e, load, w))
      <2>1. \A name, w : Proper(VU(name, e, w))
        BY OperandsFit, ProperForms DEF VU
      <2>2. \A name, w : Proper(Inst(name, <<V(e), U(e, w)>>)) /\ Proper(Inst(name, <<U(e, w), V(e)>>))
        BY OperandsFit, ProperForms
      <2>3. \A name, load, w : Moves(name, e, load, w) \in {Inst(name, <<V(e), U(e, w)>>), Inst(name, <<U(e, w), V(e)>>)}
        BY DEF Moves
      <2> QED
        BY <2>1, <2>2, <2>3
    <1>2. Proper(Vector38(e))
      BY <1>0, <1>1 DEF Vector38
    <1>3. Proper(Vector3A(e))
      BY <1>0, OperandsFit, ProperForms DEF Vector3A
    <1>4. Proper(VectorPlain(e))
      BY <1>0, <1>1, OperandsFit, ProperForms DEF VectorPlain
    <1>5. Proper(VectorF2(e))
      BY <1>0, <1>1, OperandsFit, ProperForms DEF VectorF2
    <1>6. Proper(VectorF3(e))
      BY <1>0, <1>1 DEF VectorF3
    <1>7. Proper(Vex(e))
      BY <1>0, <1>1, OperandsFit, ProperForms DEF Vex
    <1>8. Proper(Vector66(e))
      <2>1. \A name : Proper(Inst(name, <<V(e), U(e, 128), Count>>)) /\ Proper(Inst(name, <<U(e, 128), Count>>))
        BY OperandsFit, ProperForms
      <2>2. \A name, w : Proper(Inst(name, <<V(e), E(e, w)>>)) /\ Proper(Inst(name, <<E(e, w), V(e)>>))
        BY OperandsFit, ProperForms
      <2>3. \A name, w : Proper(Inst(name, <<V(e), E(e, w), Count>>))
        BY OperandsFit, ProperForms
      <2>4. \A name : Proper(Inst(name, <<G(e, 32), U(e, 128)>>)) /\ Proper(Inst(name, <<G(e, 32), U(e, 128), Count>>))
        BY OperandsFit, ProperForms
      <2>c1. CASE e.op2 = \h38
        <3>1. Vector66(e) = Vector38(e)
          BY <2>c1 DEF Vector66
        <3> QED
          BY <3>1, <1>0, <1>1, <1>2, <1>3, <2>1, <2>2, <2>3, <2>4
      <2>c2. CASE e.op2 = \h3A
        <3>1. Vector66(e) = Vector3A(e)
          BY <2>c2 DEF Vector66
        <3> QED
          BY <3>1, <1>0, <1>1, <1>2, <1>3, <2>1, <2>2, <2>3, <2>4
      <2>c3. CASE e.op2 \in {\h10, \h28} /\ Direct(e)
        <3>1. Vector66(e) = VU("Movapd", e, 128)
          <4>1. CASE e.op2 = \h10
            BY <2>c3, <4>1 DEF Vector66
          <4>2. CASE e.op2 = \h28
            BY <2>c3, <4>2 DEF Vector66
          <4> QED
            BY <2>c3, <4>1, <4>2
        <3> QED
          BY <3>1, <1>0, <1>1, <1>2, <1>3, <2>1, <2>2, <2>3, <2>4
      <2>c4. CASE e.op2 = \h11 \/ (e.op2 = \h10 /\ ~Direct(e))
        <3>1. Vector66(e) = Moves("Movups", e, e.op2 = \h10, 128)
          <4>1. CASE e.op2 = \h11
            BY <2>c4, <4>1 DEF Vector66
          <4>2. CASE e.op2 = \h10
            BY <2>c4, <4>2 DEF Vector66
          <4> QED
            BY <2>c4, <4>1, <4>2
        <3> QED
          BY <3>1, <1>0, <1>1, <1>2, <1>3, <2>1, <2>2, <2>3, <2>4
      <2>c5. CASE e.op2 = \h29 \/ (e.op2 = \h28 /\ ~Direct(e))
        <3>1. Vector66(e) = Moves("Movapd", e, e.op2 = \h28, 128)
          <4>1. CASE e.op2 = \h29
            BY <2>c5, <4>1 DEF Vector66
          <4>2. CASE e.op2 = \h28
            BY <2>c5, <4>2 DEF Vector66
          <4> QED
            BY <2>c5, <4>1, <4>2
        <3> QED
          BY <3>1, <1>0, <1>1, <1>2, <1>3, <2>1, <2>2, <2>3, <2>4
      <2>c6. CASE e.op2 = \h14
        <3>1. Vector66(e) = VU("Unpcklpd", e, 128)
          BY <2>c6 DEF Vector66
        <3> QED
          BY <3>1, <1>0, <1>1, <1>2, <1>3, <2>1, <2>2, <2>3, <2>4
      <2>c7. CASE e.op2 = \h15
        <3>1. Vector66(e) = VU("Unpckhpd", e, 128)
          BY <2>c7 DEF Vector66
        <3> QED
          BY <3>1, <1>0, <1>1, <1>2, <1>3, <2>1, <2>2, <2>3, <2>4
      <2>c8. CASE e.op2 = \h2E
        <3>1. Vector66(e) = VU("Ucomisd", e, 64)
          BY <2>c8 DEF Vector66
        <3> QED
          BY <3>1, <1>0, <1>1, <1>2, <1>3, <2>1, <2>2, <2>3, <2>4
      <2>c9. CASE e.op2 = \h50
        <3>1. Vector66(e) = Inst("Movmskpd", <<G(e, 32), U(e, 128)>>)
          BY <2>c9 DEF Vector66
        <3> QED
          BY <3>1, <1>0, <1>1, <1>2, <1>3, <2>1, <2>2, <2>3, <2>4
      <2>c10. CASE e.op2 = \h51
        <3>1. Vector66(e) = VU("Sqrtpd", e, 128)
          BY <2>c10 DEF Vector66
        <3> QED
          BY <3>1, <1>0, <1>1, <1>2, <1>3, <2>1, <2>2, <2>3, <2>4
      <2>c11. CASE e.op2 = \h57
        <3>1. Vector66(e) = VU("Xorpd", e, 128)
          BY <2>c11 DEF Vector66
        <3> QED
          BY <3>1, <1>0, <1>1, <1>2, <1>3, <2>1, <2>2, <2>3, <2>4
      <2>c12. CASE e.op2 = \h58
        <3>1. Vector66(e) = VU("Addpd", e, 128)
          BY <2>c12 DEF Vector66
        <3> QED
          BY <3>1, <1>0, <1>1, <1>2, <1>3, <2>1, <2>2, <2>3, <2>4
      <2>c13. CASE e.op2 = \h59
        <3>1. Vector66(e) = VU("Mulpd", e, 128)
          BY <2>c13 DEF Vector66
        <3> QED
          BY <3>1, <1>0, <1>1, <1>2, <1>3, <2>1, <2>2, <2>3, <2>4
      <2>c14. CASE e.op2 = \h5C
        <3>1. Vector66(e) = VU("Subpd", e, 128)
          BY <2>c14 DEF Vector66
        <3> QED
          BY <3>1, <1>0, <1>1, <1>2, <1>3, <2>1, <2>2, <2>3, <2>4
      <2>c15. CASE e.op2 = \h5E
        <3>1. Vector66(e) = VU("Divpd", e, 128)
          BY <2>c15 DEF Vector66
        <3> QED
          BY <3>1, <1>0, <1>1, <1>2, <1>3, <2>1, <2>2, <2>3, <2>4
      <2>c16. CASE e.op2 = \h61
        <3>1. Vector66(e) = VU("Punpcklwd", e, 128)
          BY <2>c16 DEF Vector66
        <3> QED
          BY <3>1, <1>0, <1>1, <1>2, <1>3, <2>1, <2>2, <2>3, <2>4
      <2>c17. CASE e.op2 = \h6C
        <3>1. Vector66(e) = VU("Punpcklqdq", e, 128)
          BY <2>c17 DEF Vector66
        <3> QED
          BY <3>1, <1>0, <1>1, <1>2, <1>3, <2>1, <2>2, <2>3, <2>4
      <2>c18. CASE e.op2 = \h6E
        <3>1. Vector66(e) = Inst(IF W(e) THEN "Movq" ELSE "Movd", <<V(e), E(e, W3264(e))>>)
          BY <2>c18 DEF Vector66
        <3> QED
          BY <3>1, <1>0, <1>1, <1>2, <1>3, <2>1, <2>2, <2>3, <2>4
      <2>c19. CASE e.op2 = \h7E
        <3>1. Vector66(e) = Inst(IF W(e) THEN "Movq" ELSE "Movd", <<E(e, W3264(e)), V(e)>>)
          BY <2>c19 DEF Vector66
        <3> QED
          BY <3>1, <1>0, <1>1, <1>2, <1>3, <2>1, <2>2, <2>3, <2>4
      <2>c20. CASE e.op2 \in {\h6F, \h7F}
        <3>1. Vector66(e) = Moves("Movdqa", e, e.op2 = \h6F, 128)
          <4>1. CASE e.op2 = \h6F
            BY <2>c20, <4>1 DEF Vector66
          <4>2. CASE e.op2 = \h7F
            BY <2>c20, <4>2 DEF Vector66
          <4> QED
            BY <2>c20, <4>1, <4>2
        <3> QED
          BY <3>1, <1>0, <1>1, <1>2, <1>3, <2>1, <2>2, <2>3, <2>4
      <2>c21. CASE e.op2 = \h70
        <3>1. Vector66(e) = Inst("Pshufd", <<V(e), U(e, 128), Count>>)
          BY <2>c21 DEF Vector66
        <3> QED
          BY <3>1, <1>0, <1>1, <1>2, <1>3, <2>1, <2>2, <2>3, <2>4
      <2>c22. CASE e.op2 \in {\h72, \h73}
        <3>1. Vector66(e) = Inst(PackedShiftGroup(e), <<U(e, 128), Count>>)
          <4>1. CASE e.op2 = \h72
            BY <2>c22, <4>1 DEF Vector66
          <4>2. CASE e.op2 = \h73
            BY <2>c22, <4>2 DEF Vector66
          <4> QED
            BY <2>c22, <4>1, <4>2
        <3> QED
          BY <3>1, <1>0, <1>1, <1>2, <1>3, <2>1, <2>2, <2>3, <2>4
      <2>c23. CASE e.op2 = \h74
        <3>1. Vector66(e) = VU("Pcmpeqb", e, 128)
          BY <2>c23 DEF Vector66
        <3> QED
          BY <3>1, <1>0, <1>1, <1>2, <1>3, <2>1, <2>2, <2>3, <2>4
      <2>c24. CASE e.op2 = \h76
        <3>1. Vector66(e) = VU("Pcmpeqd", e, 128)
          BY <2>c24 DEF Vector66
        <3> QED
          BY <3>1, <1>0, <1>1, <1>2, <1>3, <2>1, <2>2, <2>3, <2>4
      <2>c25. CASE e.op2 = \h7C
        <3>1. Vector66(e) = VU("Haddpd", e, 128)
          BY <2>c25 DEF Vector66
        <3> QED
          BY <3>1, <1>0, <1>1, <1>2, <1>3, <2>1, <2>2, <2>3, <2>4
      <2>c26. CASE e.op2 = \hC2
        <3>1. Vector66(e) = Inst("Cmppd", <<V(e), U(e, 128), Count>>)
          BY <2>c26 DEF Vector66
        <3> QED
          BY <3>1, <1>0, <1>1, <1>2, <1>3, <2>1, <2>2, <2>3, <2>4
      <2>c27. CASE e.op2 = \hC4
        <3>1. Vector66(e) = Inst("Pinsrw", <<V(e), E(e, IF Direct(e) THEN W3264(e) ELSE 16), Count>>)
          BY <2>c27 DEF Vector66
        <3> QED
          BY <3>1, <1>0, <1>1, <1>2, <1>3, <2>1, <2>2, <2>3, <2>4
      <2>c28. CASE e.op2 = \hC5
        <3>1. Vector66(e) = Inst("Pextrw", <<G(e, 32), U(e, 128), Count>>)
          BY <2>c28 DEF Vector66
        <3> QED
          BY <3>1, <1>0, <1>1, <1>2, <1>3, <2>1, <2>2, <2>3, <2>4
      <2>c29. CASE e.op2 = \hC6
        <3>1. Vector66(e) = Inst("Shufpd", <<V(e), U(e, 128), Count>>)
          BY <2>c29 DEF Vector66
        <3> QED
          BY <3>1, <1>0, <1>1, <1>2, <1>3, <2>1, <2>2, <2>3, <2>4
      <2>c30. CASE e.op2 = \hD4
        <3>1. Vector66(e) = VU("Paddq", e, 128)
          BY <2>c30 DEF Vector66
        <3> QED
          BY <3>1, <1>0, <1>1, <1>2, <1>3, <2>1, <2>2, <2>3, <2>4
      <2>c31. CASE e.op2 = \hD6
        <3>1. Vector66(e) = Moves("Movq", e, FALSE, 64)
          BY <2>c31 DEF Vector66
        <3> QED
          BY <3>1, <1>0, <1>1, <1>2, <1>3, <2>1, <2>2, <2>3, <2>4
      <2>c32. CASE e.op2 = \hD7
        <3>1. Vector66(e) = Inst("Pmovmskb", <<G(e, 32), U(e, 128)>>)
          BY <2>c32 DEF Vector66
        <3> QED
          BY <3>1, <1>0, <1>1, <1>2, <1>3, <2>1, <2>2, <2>3, <2>4
      <2>c33. CASE e.op2 = \hDB
        <3>1. Vector66(e) = VU("Pand", e, 128)
          BY <2>c33 DEF Vector66
        <3> QED
          BY <3>1, <1>0, <1>1, <1>2, <1>3, <2>1, <2>2, <2>3, <2>4
      <2>c34. CASE e.op2 = \hDF
        <3>1. Vector66(e) = VU("Pandn", e, 128)
          BY <2>c34 DEF Vector66
        <3> QED
          BY <3>1, <1>0, <1>1, <1>2, <1>3, <2>1, <2>2, <2>3, <2>4
      <2>c35. CASE e.op2 = \hEB
        <3>1. Vector66(e) = VU("Por", e, 128)
          BY <2>c35 DEF Vector66
        <3> QED
          BY <3>1, <1>0, <1>1, <1>2, <1>3, <2>1, <2>2, <2>3, <2>4
      <2>c36. CASE e.op2 = \hEF
        <3>1. Vector66(e) = VU("Pxor", e, 128)
          BY <2>c36 DEF Vector66
        <3> QED
          BY <3>1, <1>0, <1>1, <1>2, <1>3, <2>1, <2>2, <2>3, <2>4
      <2>c37. CASE e.op2 = \hFD
        <3>1. Vector66(e) = VU("Paddw", e, 128)
          BY <2>c37 DEF Vector66
        <3> QED
          BY <3>1, <1>0, <1>1, <1>2, <1>3, <2>1, <2>2, <2>3, <2>4
      <2>c38. CASE e.op2 = \hFE
        <3>1. Vector66(e) = VU("Paddd", e, 128)
          BY <2>c38 DEF Vector66
        <3> QED
          BY <3>1, <1>0, <1>1, <1>2, <1>3, <2>1, <2>2, <2>3, <2>4
      <2>c39. CASE /\ ~(e.op2 = \h38)
                /\ ~(e.op2 = \h3A)
                /\ ~(e.op2 \in {\h10, \h28} /\ Direct(e))
                /\ ~(e.op2 = \h11 \/ (e.op2 = \h10 /\ ~Direct(e)))
                /\ ~(e.op2 = \h29 \/ (e.op2 = \h28 /\ ~Direct(e)))
                /\ ~(e.op2 = \h14)
                /\ ~(e.op2 = \h15)
                /\ ~(e.op2 = \h2E)
                /\ ~(e.op2 = \h50)
                /\ ~(e.op2 = \h51)
                /\ ~(e.op2 = \h57)
                /\ ~(e.op2 = \h58)
                /\ ~(e.op2 = \h59)
                /\ ~(e.op2 = \h5C)
                /\ ~(e.op2 = \h5E)
                /\ ~(e.op2 = \h61)
                /\ ~(e.op2 = \h6C)
                /\ ~(e.op2 = \h6E)
                /\ ~(e.op2 = \h7E)
                /\ ~(e.op2 \in {\h6F, \h7F})
                /\ ~(e.op2 = \h70)
                /\ ~(e.op2 \in {\h72, \h73})
                /\ ~(e.op2 = \h74)
                /\ ~(e.op2 = \h76)
                /\ ~(e.op2 = \h7C)
                /\ ~(e.op2 = \hC2)
                /\ ~(e.op2 = \hC4)
                /\ ~(e.op2 = \hC5)
                /\ ~(e.op2 = \hC6)
                /\ ~(e.op2 = \hD4)
                /\ ~(e.op2 = \hD6)
                /\ ~(e.op2 = \hD7)
                /\ ~(e.op2 = \hDB)
                /\ ~(e.op2 = \hDF)
                /\ ~(e.op2 = \hEB)
                /\ ~(e.op2 = \hEF)
                /\ ~(e.op2 = \hFD)
                /\ ~(e.op2 = \hFE)
        <3>1. Vector66(e) = Undefined
          BY <2>c39 DEF Vector66
        <3> QED
          BY <3>1, <1>0, <1>1, <1>2, <1>3, <2>1, <2>2, <2>3, <2>4
      <2> QED
        BY <2>c1, <2>c2, <2>c3, <2>c4, <2>c5, <2>c6, <2>c7, <2>c8, <2>c9, <2>c10, <2>c11, <2>c12, <2>c13, <2>c14, <2>c15, <2>c16, <2>c17, <2>c18, <2>c19, <2>c20, <2>c21, <2>c22, <2>c23, <2>c24, <2>c25, <2>c26, <2>c27, <2>c28, <2>c29, <2>c30, <2>c31, <2>c32, <2>c33, <2>c34, <2>c35, <2>c36, <2>c37, <2>c38, <2>c39
    <1>9. Proper(Strings(e))
      BY <1>0, ProperForms DEF Strings
    <1>10. /\ \A name, w : Proper(Inst(name, <<E(e, w)>>))
           /\ \A name, w : Proper(Inst(name, <<M(e, w)>>))
           /\ \A name, w, x : Proper(Inst(name, <<E(e, w), G(e, x)>>)) /\ Proper(Inst(name, <<G(e, w), E(e, x)>>))
           /\ \A name, w : Proper(Inst(name, <<E(e, w), Count>>)) /\ Proper(Inst(name, <<E(e, w), One>>))
           /\ \A name, w : Proper(Inst(name, <<E(e, w), ImmZ(w)>>)) /\ Proper(Inst(name, <<E(e, w), SImm(1)>>))
           /\ \A name, w : Proper(Bare(name, <<Acc(w), ImmZ(w)>>))
      BY OperandsFit, ProperForms
    <1>11. /\ \A name, w : Proper(Inst(name, <<E(e, w), G(e, w), Count>>))
           /\ \A name, w : Proper(Inst(name, <<G(e, w), E(e, w), ImmZ(w)>>)) /\ Proper(Inst(name, <<G(e, w), E(e, w), SImm(1)>>))
           /\ \A name, w : Proper(Inst(name, <<G(e, w), M(e, 64)>>))
           /\ \A name : Proper(Bare(name, <<SImm(1)>>)) /\ Proper(Bare(name, <<SImm(4)>>))
           /\ \A name, low, w : Proper(Bare(name, <<OpReg(e, low, w)>>))
           /\ \A name, low, w, n : n \in Nat => Proper(Bare(name, <<OpReg(e, low, w), SImm(n)>>))
      BY OperandsFit, ProperForms
    <1>12. /\ \A name, w, cc : Proper(Cond(Inst(name, <<G(e, w), E(e, w)>>), cc)) /\ Proper(Cond(Inst(name, <<E(e, w)>>), cc))
           /\ \A name, cc : Proper(Cond(Bare(name, <<SImm(1)>>), cc)) /\ Proper(Cond(Bare(name, <<SImm(4)>>), cc))
           /\ \A name, w : Proper(Discard(Inst(name, <<E(e, w)>>)))
           /\ \A name : Proper(Inst(name, NoOperands)) /\ Proper(Bare(name, NoOperands))
      BY OperandsFit, ProperForms
    <1>13. Proper(TwoByte(e))
      <2>c1. CASE e.op2 = \h01 /\ e.reg = 1
        <3>1. TwoByte(e) = Inst("Sidt", <<M(e, 80)>>)
          BY <2>c1 DEF TwoByte
        <3> QED
          BY <3>1, <1>0, <1>10, <1>11, <1>12
      <2>c2. CASE e.op2 = \h05
        <3>1. TwoByte(e) = Bare("Syscall", NoOperands)
          BY <2>c2 DEF TwoByte
        <3> QED
          BY <3>1, <1>0, <1>10, <1>11, <1>12
      <2>c3. CASE e.op2 = \h1F
        <3>1. TwoByte(e) = Discard(Inst("Nop", <<E(e, W163264(e))>>))
          BY <2>c3 DEF TwoByte
        <3> QED
          BY <3>1, <1>0, <1>10, <1>11, <1>12
      <2>c4. CASE e.op2 = \h31
        <3>1. TwoByte(e) = Bare("Rdtsc", NoOperands)
          BY <2>c4 DEF TwoByte
        <3> QED
          BY <3>1, <1>0, <1>10, <1>11, <1>12
      <2>c5. CASE e.op2 \in \h40 .. \h4F
        <3>1. TwoByte(e) = Cond(Inst("Cmov", <<G(e, W163264(e)), E(e, W163264(e))>>), Condition(e.op2 % 16))
          BY <2>c5 DEF TwoByte
        <3> QED
          BY <3>1, <1>0, <1>10, <1>11, <1>12
      <2>c6. CASE e.op2 \in \h80 .. \h8F
        <3>1. TwoByte(e) = Cond(Bare("Jcc", <<SImm(4)>>), Condition(e.op2 % 16))
          BY <2>c6 DEF TwoByte
        <3> QED
          BY <3>1, <1>0, <1>10, <1>11, <1>12
      <2>c7. CASE e.op2 \in \h90 .. \h9F
        <3>1. TwoByte(e) = Cond(Inst("Set", <<E(e, 8)>>), Condition(e.op2 % 16))
          BY <2>c7 DEF TwoByte
        <3> QED
          BY <3>1, <1>0, <1>10, <1>11, <1>12
      <2>c8. CASE e.op2 = \hA2
        <3>1. TwoByte(e) = Bare("Cpuid", NoOperands)
          BY <2>c8 DEF TwoByte
        <3> QED
          BY <3>1, <1>0, <1>10, <1>11, <1>12
      <2>c9. CASE e.op2 \in {\hA3, \hAB}
        <3>1. TwoByte(e) = Inst(IF e.op2 = \hA3 THEN "BitTest" ELSE "BitSet", <<E(e, W163264(e)), G(e, W163264(e))>>)
          BY <2>c9 DEF TwoByte
        <3> QED
          BY <3>1, <1>0, <1>10, <1>11, <1>12
      <2>c10. CASE e.op2 = \hA4
        <3>1. TwoByte(e) = Inst("Shld", <<E(e, W163264(e)), G(e, W163264(e)), Count>>)
          BY <2>c10 DEF TwoByte
        <3> QED
          BY <3>1, <1>0, <1>10, <1>11, <1>12
      <2>c11. CASE e.op2 = \hAC
        <3>1. TwoByte(e) = Inst("Shrd", <<E(e, W163264(e)), G(e, W163264(e)), Count>>)
          BY <2>c11 DEF TwoByte
        <3> QED
          BY <3>1, <1>0, <1>10, <1>11, <1>12
      <2>c12. CASE e.op2 = \hAE /\ Direct(e) /\ e.reg = 5
        <3>1. TwoByte(e) = Inst("Lfence", NoOperands)
          BY <2>c12 DEF TwoByte
        <3> QED
          BY <3>1, <1>0, <1>10, <1>11, <1>12
      <2>c13. CASE e.op2 = \hAE /\ Direct(e) /\ e.reg = 6
        <3>1. TwoByte(e) = Inst("Mfence", NoOperands)
          BY <2>c13 DEF TwoByte
        <3> QED
          BY <3>1, <1>0, <1>10, <1>11, <1>12
      <2>c14. CASE e.op2 = \hAF
        <3>1. TwoByte(e) = Inst("Imul", <<G(e, W163264(e)), E(e, W163264(e))>>)
          BY <2>c14 DEF TwoByte
        <3> QED
          BY <3>1, <1>0, <1>10, <1>11, <1>12
      <2>c15. CASE e.op2 = \hB0
        <3>1. TwoByte(e) = Inst("Cmpxchg", <<E(e, 8), G(e, 8)>>)
          BY <2>c15 DEF TwoByte
        <3> QED
          BY <3>1, <1>0, <1>10, <1>11, <1>12
      <2>c16. CASE e.op2 = \hB1
        <3>1. TwoByte(e) = Inst("Cmpxchg", <<E(e, W163264(e)), G(e, W163264(e))>>)
          BY <2>c16 DEF TwoByte
        <3> QED
          BY <3>1, <1>0, <1>10, <1>11, <1>12
      <2>c17. CASE e.op2 = \hB6
        <3>1. TwoByte(e) = Inst("Movzx", <<G(e, W163264(e)), E(e, 8)>>)
          BY <2>c17 DEF TwoByte
        <3> QED
          BY <3>1, <1>0, <1>10, <1>11, <1>12
      <2>c18. CASE e.op2 = \hB7
        <3>1. TwoByte(e) = Inst("Movzx", <<G(e, W163264(e)), E(e, 16)>>)
          BY <2>c18 DEF TwoByte
        <3> QED
          BY <3>1, <1>0, <1>10, <1>11, <1>12
      <2>c19. CASE e.op2 = \hBE
        <3>1. TwoByte(e) = Inst("Movsx", <<G(e, W163264(e)), E(e, 8)>>)
          BY <2>c19 DEF TwoByte
        <3> QED
          BY <3>1, <1>0, <1>10, <1>11, <1>12
      <2>c20. CASE e.op2 = \hBF
        <3>1. TwoByte(e) = Inst("Movsx", <<G(e, W163264(e)), E(e, 16)>>)
          BY <2>c20 DEF TwoByte
        <3> QED
          BY <3>1, <1>0, <1>10, <1>11, <1>12
      <2>c21. CASE e.op2 = \hBA /\ e.reg >= 4
        <3>1. TwoByte(e) = Inst(BitGroup[e.reg - 3], <<E(e, W163264(e)), Count>>)
          BY <2>c21 DEF TwoByte
        <3> QED
          BY <3>1, <1>0, <1>10, <1>11, <1>12
      <2>c22. CASE e.op2 = \hBC
        <3>1. TwoByte(e) = Inst("BitScanForward", <<G(e, W163264(e)), E(e, W163264(e))>>)
          BY <2>c22 DEF TwoByte
        <3> QED
          BY <3>1, <1>0, <1>10, <1>11, <1>12
      <2>c23. CASE e.op2 = \hBD
        <3>1. TwoByte(e) = Inst("BitScanReverse", <<G(e, W163264(e)), E(e, W163264(e))>>)
          BY <2>c23 DEF TwoByte
        <3> QED
          BY <3>1, <1>0, <1>10, <1>11, <1>12
      <2>c24. CASE e.op2 = \hC1
        <3>1. TwoByte(e) = Inst("Xadd", <<E(e, W163264(e)), G(e, W163264(e))>>)
          BY <2>c24 DEF TwoByte
        <3> QED
          BY <3>1, <1>0, <1>10, <1>11, <1>12
      <2>c25. CASE e.op2 = \hC7 /\ e.reg = 1 /\ W(e)
        <3>1. TwoByte(e) = Inst("Cmpxchg16b", <<M(e, 128)>>)
          BY <2>c25 DEF TwoByte
        <3> QED
          BY <3>1, <1>0, <1>10, <1>11, <1>12
      <2>c26. CASE e.op2 \in \hC8 .. \hCF
        <3>1. TwoByte(e) = Bare("Bswap", <<OpReg(e, e.op2 - \hC8, W163264(e))>>)
          BY <2>c26 DEF TwoByte
        <3> QED
          BY <3>1, <1>0, <1>10, <1>11, <1>12
      <2>c27. CASE /\ ~(e.op2 = \h01 /\ e.reg = 1)
                /\ ~(e.op2 = \h05)
                /\ ~(e.op2 = \h1F)
                /\ ~(e.op2 = \h31)
                /\ ~(e.op2 \in \h40 .. \h4F)
                /\ ~(e.op2 \in \h80 .. \h8F)
                /\ ~(e.op2 \in \h90 .. \h9F)
                /\ ~(e.op2 = \hA2)
                /\ ~(e.op2 \in {\hA3, \hAB})
                /\ ~(e.op2 = \hA4)
                /\ ~(e.op2 = \hAC)
                /\ ~(e.op2 = \hAE /\ Direct(e) /\ e.reg = 5)
                /\ ~(e.op2 = \hAE /\ Direct(e) /\ e.reg = 6)
                /\ ~(e.op2 = \hAF)
                /\ ~(e.op2 = \hB0)
                /\ ~(e.op2 = \hB1)
                /\ ~(e.op2 = \hB6)
                /\ ~(e.op2 = \hB7)
                /\ ~(e.op2 = \hBE)
                /\ ~(e.op2 = \hBF)
                /\ ~(e.op2 = \hBA /\ e.reg >= 4)
                /\ ~(e.op2 = \hBC)
                /\ ~(e.op2 = \hBD)
                /\ ~(e.op2 = \hC1)
                /\ ~(e.op2 = \hC7 /\ e.reg = 1 /\ W(e))
                /\ ~(e.op2 \in \hC8 .. \hCF)
        <3>1. TwoByte(e) = Undefined
          BY <2>c27 DEF TwoByte
        <3> QED
          BY <3>1, <1>0, <1>10, <1>11, <1>12
      <2> QED
        BY <2>c1, <2>c2, <2>c3, <2>c4, <2>c5, <2>c6, <2>c7, <2>c8, <2>c9, <2>c10, <2>c11, <2>c12, <2>c13, <2>c14, <2>c15, <2>c16, <2>c17, <2>c18, <2>c19, <2>c20, <2>c21, <2>c22, <2>c23, <2>c24, <2>c25, <2>c26, <2>c27
    <1>14. Proper(Arithmetic(e)) /\ Proper(ImmediateGroup(e)) /\ Proper(Unary(e))
      BY <1>0, <1>10 DEF Arithmetic, ImmediateGroup, Unary
    <1>15. Proper(IncDecGroup(e)) /\ Proper(Shift(e))
      BY <1>0, <1>10 DEF IncDecGroup, Shift
    <1>16. Proper(OneByte(e))
      <2>1. W163264(e) \div 8 \in Nat
        BY DEF W163264
      <2>c1. CASE e.op < \h40 /\ e.op % 8 < 6
        <3>1. OneByte(e) = Arithmetic(e)
          BY <2>c1 DEF OneByte
        <3> QED
          BY <3>1, <1>0, <1>10, <1>11, <1>12, <1>14, <1>15, <2>1
      <2>c2. CASE e.op \in \h50 .. \h57
        <3>1. OneByte(e) = Bare("Push", <<OpReg(e, e.op - \h50, 64)>>)
          BY <2>c2 DEF OneByte
        <3> QED
          BY <3>1, <1>0, <1>10, <1>11, <1>12, <1>14, <1>15, <2>1
      <2>c3. CASE e.op \in \h58 .. \h5F
        <3>1. OneByte(e) = Bare("Pop", <<OpReg(e, e.op - \h58, 64)>>)
          BY <2>c3 DEF OneByte
        <3> QED
          BY <3>1, <1>0, <1>10, <1>11, <1>12, <1>14, <1>15, <2>1
      <2>c4. CASE e.op = \h63
        <3>1. OneByte(e) = Inst("Movsxd", <<G(e, Width(e)), E(e, 32)>>)
          BY <2>c4 DEF OneByte
        <3> QED
          BY <3>1, <1>0, <1>10, <1>11, <1>12, <1>14, <1>15, <2>1
      <2>c5. CASE e.op = \h68
        <3>1. OneByte(e) = Bare("Push", <<SImm(4)>>)
          BY <2>c5 DEF OneByte
        <3> QED
          BY <3>1, <1>0, <1>10, <1>11, <1>12, <1>14, <1>15, <2>1
      <2>c6. CASE e.op = \h6A
        <3>1. OneByte(e) = Bare("Push", <<SImm(1)>>)
          BY <2>c6 DEF OneByte
        <3> QED
          BY <3>1, <1>0, <1>10, <1>11, <1>12, <1>14, <1>15, <2>1
      <2>c7. CASE e.op = \h69
        <3>1. OneByte(e) = Inst("Imul", <<G(e, Width(e)), E(e, Width(e)), ImmZ(Width(e))>>)
          BY <2>c7 DEF OneByte
        <3> QED
          BY <3>1, <1>0, <1>10, <1>11, <1>12, <1>14, <1>15, <2>1
      <2>c8. CASE e.op = \h6B
        <3>1. OneByte(e) = Inst("Imul", <<G(e, W163264(e)), E(e, W163264(e)), SImm(1)>>)
          BY <2>c8 DEF OneByte
        <3> QED
          BY <3>1, <1>0, <1>10, <1>11, <1>12, <1>14, <1>15, <2>1
      <2>c9. CASE e.op \in \h70 .. \h7F
        <3>1. OneByte(e) = Cond(Bare("Jcc", <<SImm(1)>>), Condition(e.op % 16))
          BY <2>c9 DEF OneByte
        <3> QED
          BY <3>1, <1>0, <1>10, <1>11, <1>12, <1>14, <1>15, <2>1
      <2>c10. CASE e.op \in {\h80, \h81, \h83}
        <3>1. OneByte(e) = ImmediateGroup(e)
          BY <2>c10 DEF OneByte
        <3> QED
          BY <3>1, <1>0, <1>10, <1>11, <1>12, <1>14, <1>15, <2>1
      <2>c11. CASE e.op \in {\h84, \h85}
        <3>1. OneByte(e) = Inst("Test", <<E(e, Width(e)), G(e, Width(e))>>)
          BY <2>c11 DEF OneByte
        <3> QED
          BY <3>1, <1>0, <1>10, <1>11, <1>12, <1>14, <1>15, <2>1
      <2>c12. CASE e.op \in {\h86, \h87}
        <3>1. OneByte(e) = Inst("Xchg", <<E(e, Width(e)), G(e, Width(e))>>)
          BY <2>c12 DEF OneByte
        <3> QED
          BY <3>1, <1>0, <1>10, <1>11, <1>12, <1>14, <1>15, <2>1
      <2>c13. CASE e.op \in {\h88, \h89}
        <3>1. OneByte(e) = Inst("Mov", <<E(e, Width(e)), G(e, Width(e))>>)
          BY <2>c13 DEF OneByte
        <3> QED
          BY <3>1, <1>0, <1>10, <1>11, <1>12, <1>14, <1>15, <2>1
      <2>c14. CASE e.op \in {\h8A, \h8B}
        <3>1. OneByte(e) = Inst("Mov", <<G(e, Width(e)), E(e, Width(e))>>)
          BY <2>c14 DEF OneByte
        <3> QED
          BY <3>1, <1>0, <1>10, <1>11, <1>12, <1>14, <1>15, <2>1
      <2>c15. CASE e.op = \h8D
        <3>1. OneByte(e) = Inst("Lea", <<G(e, Width(e)), M(e, 64)>>)
          BY <2>c15 DEF OneByte
        <3> QED
          BY <3>1, <1>0, <1>10, <1>11, <1>12, <1>14, <1>15, <2>1
      <2>c16. CASE e.op = \h90
        <3>1. OneByte(e) = IF B(e) THEN Undefined ELSE Bare("Nop", NoOperands)
          BY <2>c16 DEF OneByte
        <3> QED
          BY <3>1, <1>0, <1>10, <1>11, <1>12, <1>14, <1>15, <2>1
      <2>c17. CASE e.op = \h98
        <3>1. OneByte(e) = Bare(IF W(e) THEN "Cdqe" ELSE "Cwde", NoOperands)
          BY <2>c17 DEF OneByte
        <3> QED
          BY <3>1, <1>0, <1>10, <1>11, <1>12, <1>14, <1>15, <2>1
      <2>c18. CASE e.op \in {\hA8, \hA9}
        <3>1. OneByte(e) = Bare("Test", <<Acc(Width(e)), ImmZ(Width(e))>>)
          BY <2>c18 DEF OneByte
        <3> QED
          BY <3>1, <1>0, <1>10, <1>11, <1>12, <1>14, <1>15, <2>1
      <2>c19. CASE e.op \in \hB0 .. \hB7
        <3>1. OneByte(e) = Bare("Mov", <<OpReg(e, e.op - \hB0, 8), SImm(1)>>)
          BY <2>c19 DEF OneByte
        <3> QED
          BY <3>1, <1>0, <1>10, <1>11, <1>12, <1>14, <1>15, <2>1
      <2>c20. CASE e.op \in \hB8 .. \hBF
        <3>1. OneByte(e) = Bare("Mov", <<OpReg(e, e.op - \hB8, W163264(e)), SImm(W163264(e) \div 8)>>)
          BY <2>c20 DEF OneByte
        <3> QED
          BY <3>1, <1>0, <1>10, <1>11, <1>12, <1>14, <1>15, <2>1
      <2>c21. CASE e.op \in {\hC0, \hC1} \union (\hD0 .. \hD3)
        <3>1. OneByte(e) = Shift(e)
          BY <2>c21 DEF OneByte
        <3> QED
          BY <3>1, <1>0, <1>10, <1>11, <1>12, <1>14, <1>15, <2>1
      <2>c22. CASE e.op \in {\hC6, \hC7} /\ e.reg = 0
        <3>1. OneByte(e) = Inst("Mov", <<E(e, Width(e)), ImmZ(Width(e))>>)
          BY <2>c22 DEF OneByte
        <3> QED
          BY <3>1, <1>0, <1>10, <1>11, <1>12, <1>14, <1>15, <2>1
      <2>c23. CASE e.op = \hC3
        <3>1. OneByte(e) = Bare("Ret", NoOperands)
          BY <2>c23 DEF OneByte
        <3> QED
          BY <3>1, <1>0, <1>10, <1>11, <1>12, <1>14, <1>15, <2>1
      <2>c24. CASE e.op = \hC9
        <3>1. OneByte(e) = Bare("Leave", NoOperands)
          BY <2>c24 DEF OneByte
        <3> QED
          BY <3>1, <1>0, <1>10, <1>11, <1>12, <1>14, <1>15, <2>1
      <2>c25. CASE e.op = \hE8
        <3>1. OneByte(e) = Bare("Call", <<SImm(4)>>)
          BY <2>c25 DEF OneByte
        <3> QED
          BY <3>1, <1>0, <1>10, <1>11, <1>12, <1>14, <1>15, <2>1
      <2>c26. CASE e.op = \hE9
        <3>1. OneByte(e) = Bare("Jmp", <<SImm(4)>>)
          BY <2>c26 DEF OneByte
        <3> QED
          BY <3>1, <1>0, <1>10, <1>11, <1>12, <1>14, <1>15, <2>1
      <2>c27. CASE e.op = \hEB
        <3>1. OneByte(e) = Bare("Jmp", <<SImm(1)>>)
          BY <2>c27 DEF OneByte
        <3> QED
          BY <3>1, <1>0, <1>10, <1>11, <1>12, <1>14, <1>15, <2>1
      <2>c28. CASE e.op \in {\hF6, \hF7}
        <3>1. OneByte(e) = Unary(e)
          BY <2>c28 DEF OneByte
        <3> QED
          BY <3>1, <1>0, <1>10, <1>11, <1>12, <1>14, <1>15, <2>1
      <2>c29. CASE e.op = \hFC
        <3>1. OneByte(e) = Bare("Cld", NoOperands)
          BY <2>c29 DEF OneByte
        <3> QED
          BY <3>1, <1>0, <1>10, <1>11, <1>12, <1>14, <1>15, <2>1
      <2>c30. CASE e.op = \hFD
        <3>1. OneByte(e) = Bare("Std", NoOperands)
          BY <2>c30 DEF OneByte
        <3> QED
          BY <3>1, <1>0, <1>10, <1>11, <1>12, <1>14, <1>15, <2>1
      <2>c31. CASE e.op \in {\hFE, \hFF}
        <3>1. OneByte(e) = IncDecGroup(e)
          BY <2>c31 DEF OneByte
        <3> QED
          BY <3>1, <1>0, <1>10, <1>11, <1>12, <1>14, <1>15, <2>1
      <2>c32. CASE /\ ~(e.op < \h40 /\ e.op % 8 < 6)
                /\ ~(e.op \in \h50 .. \h57)
                /\ ~(e.op \in \h58 .. \h5F)
                /\ ~(e.op = \h63)
                /\ ~(e.op = \h68)
                /\ ~(e.op = \h6A)
                /\ ~(e.op = \h69)
                /\ ~(e.op = \h6B)
                /\ ~(e.op \in \h70 .. \h7F)
                /\ ~(e.op \in {\h80, \h81, \h83})
                /\ ~(e.op \in {\h84, \h85})
                /\ ~(e.op \in {\h86, \h87})
                /\ ~(e.op \in {\h88, \h89})
                /\ ~(e.op \in {\h8A, \h8B})
                /\ ~(e.op = \h8D)
                /\ ~(e.op = \h90)
                /\ ~(e.op = \h98)
                /\ ~(e.op \in {\hA8, \hA9})
                /\ ~(e.op \in \hB0 .. \hB7)
                /\ ~(e.op \in \hB8 .. \hBF)
                /\ ~(e.op \in {\hC0, \hC1} \union (\hD0 .. \hD3))
                /\ ~(e.op \in {\hC6, \hC7} /\ e.reg = 0)
                /\ ~(e.op = \hC3)
                /\ ~(e.op = \hC9)
                /\ ~(e.op = \hE8)
                /\ ~(e.op = \hE9)
                /\ ~(e.op = \hEB)
                /\ ~(e.op \in {\hF6, \hF7})
                /\ ~(e.op = \hFC)
                /\ ~(e.op = \hFD)
                /\ ~(e.op \in {\hFE, \hFF})
        <3>1. OneByte(e) = Undefined
          BY <2>c32 DEF OneByte
        <3> QED
          BY <3>1, <1>0, <1>10, <1>11, <1>12, <1>14, <1>15, <2>1
      <2> QED
        BY <2>c1, <2>c2, <2>c3, <2>c4, <2>c5, <2>c6, <2>c7, <2>c8, <2>c9, <2>c10, <2>c11, <2>c12, <2>c13, <2>c14, <2>c15, <2>c16, <2>c17, <2>c18, <2>c19, <2>c20, <2>c21, <2>c22, <2>c23, <2>c24, <2>c25, <2>c26, <2>c27, <2>c28, <2>c29, <2>c30, <2>c31, <2>c32
    <1>17. Proper(IF e.op = \h0F THEN TwoByte(e) ELSE OneByte(e))
      BY <1>13, <1>16
    <1>18. Proper(Locked(IF e.op = \h0F THEN TwoByte(e) ELSE OneByte(e)))
      BY <1>17, LocksProper
    <1> QED
      BY <1>0, <1>4, <1>5, <1>6, <1>7, <1>8, <1>9, <1>17, <1>18 DEF Meaning

\* Every encoding takes at least a byte of the program.
LEMMA LengthIsPositive ==
    ASSUME NEW e \in Encodings
    PROVE  LengthOf(e) \in Nat \ {0}
    BY ArchitectureProper, ProperLength DEF LengthOf, Architecture

(***************************************************************************)
(* A misdecoding that does not derail the decoder keeps the length of the  *)
(* instruction: what it takes for the operands spans the same bytes.       *)
(***************************************************************************)
Level(e, a, b) ==
    Placed(e, a) = Error \/ (FormOf(e, b) # Error /\ Taken(Placed(e, a)) = Taken(FormOf(e, b)))

\* d is rejected, or takes as many bytes as the architecture gives e.
Even(e, d) == Decoded(e, d) = Error \/ Decoded(e, d).len = LengthOf(e)

\* Normalising operands leaves the length alone.
LEMMA RecordExtent ==
    ASSUME NEW op, NEW args, NEW cc, NEW len
    PROVE  Extent(Normal([op |-> op, args |-> args, cc |-> cc, len |-> len])) = len
    <1> DEFINE r == [op |-> op, args |-> args, cc |-> cc, len |-> len]
    <1>1. r \notin {Error, Undefined} /\ r.len = len
      BY CompleteIsInstruction
    <1>2. CASE r.args = NoOperands
      <2>1. Normal(r) = r
        BY <1>2 DEF Normal
      <2> QED
        BY <1>1, <2>1 DEF Extent
    <1>3. CASE r.args # NoOperands
      <2> HIDE DEF r
      <2>1. PICK x : Normal(r) = [op |-> r.op, args |-> x, cc |-> r.cc, len |-> r.len]
        BY <1>1, <1>3 DEF Normal
      <2> DEFINE n == [op |-> r.op, args |-> x, cc |-> r.cc, len |-> r.len]
      <2>2. n \notin {Error, Undefined}
        BY CompleteIsInstruction
      <2>3. n.len = r.len
        OBVIOUS
      <2> HIDE DEF n
      <2>4. Extent(n) = len
        BY <1>1, <2>2, <2>3 DEF Extent
      <2> QED
        BY <2>1, <2>4 DEF n, r
    <1> QED
      BY <1>2, <1>3

\* What is the architecture's instruction has its length.
LEMMA SameIsEven ==
    ASSUME NEW e, NEW d, d \in {Error, Pass} \/ Same(e, d)
    PROVE  Even(e, d)
    <1>1. CASE Decoded(e, d) = Error
      BY <1>1 DEF Even
    <1>2. CASE Decoded(e, d) # Error
      <2>1. d \notin {Error, Pass} /\ Normal(Decoded(e, d)) = Architecture(e)
        BY <1>2 DEF Decoded, Same
      <2> DEFINE args == [i \in DOMAIN d.args |-> Placed(e, d.args[i])]
      <2>2. Decoded(e, d) = Complete(e, d, args)
        BY <2>1 DEF Decoded
      <2>3. PICK a : Decoded(e, d) = [op |-> d.op, args |-> a, cc |-> d.cc,
                                     len |-> HeaderLength(e) + d.modrm + TakenBy(args)]
        BY <1>2, <2>2 DEF Complete
      <2>4. Extent(Normal(Decoded(e, d))) = Decoded(e, d).len
        BY <2>3, RecordExtent
      <2> QED
        BY <2>1, <2>4 DEF Even, LengthOf
    <1> QED
      BY <1>1, <1>2

\* What decoding makes of operands that are accepted.
LEMMA DecodedWhole ==
    ASSUME NEW e, NEW op, NEW args, NEW cc, NEW modrm, NEW k, DOMAIN args = 1 .. k,
           \A i \in 1 .. k : PlacedAll(e, args)[i] # Error
    PROVE  Decoded(e, Made(op, args, cc, modrm, TRUE)) =
               [op |-> op, args |-> PlacedAll(e, args), cc |-> cc,
                len |-> HeaderLength(e) + modrm + TakenBy(PlacedAll(e, args))]
    BY DecodedMade

\* The architecture's tables give e this instruction.
Means(e, name, forms, how, modrm) == Meaning(e) = Made(name, forms, how, modrm, TRUE)

\* Operand by operand: operands that span the same bytes.
LEMMA EvenMade ==
    ASSUME NEW e, NEW op, NEW args, NEW forms, NEW cc, NEW name, NEW how, NEW modrm, NEW k \in 0 .. 3,
           Means(e, name, forms, how, modrm), DOMAIN args = 1 .. k, DOMAIN forms = 1 .. k,
           \A i \in 1 .. k : Level(e, args[i], forms[i])
    PROVE  Even(e, Made(op, args, cc, modrm, TRUE))
    <1> DEFINE p == PlacedAll(e, args)
               f == FormedAll(e, forms)
               d == [op |-> op, args |-> p, cc |-> cc, len |-> HeaderLength(e) + modrm + TakenBy(p)]
               m == [op |-> name, args |-> f, cc |-> how, len |-> HeaderLength(e) + modrm + TakenBy(f)]
    <1>1. /\ p = [i \in 1 .. k |-> Placed(e, args[i])]
          /\ f = [i \in 1 .. k |-> FormOf(e, forms[i])]
      BY DEF PlacedAll, FormedAll
    <1>2. CASE \E i \in 1 .. k : p[i] = Error
      <2>1. Decoded(e, Made(op, args, cc, modrm, TRUE)) = Error
        BY <1>2, DecodedMade
      <2> QED
        BY <2>1 DEF Even
    <1>3. CASE \A i \in 1 .. k : p[i] # Error
      <2>1. Decoded(e, Made(op, args, cc, modrm, TRUE)) = d
        <3>1. \A i \in 1 .. k : PlacedAll(e, args)[i] # Error
          BY <1>3
        <3> QED
          BY <3>1, DecodedWhole
      <2>2. \A i \in 1 .. k : f[i] # Error /\ Taken(p[i]) = Taken(f[i])
        BY <1>1, <1>3 DEF Level
      <2>3. Formed(e, Made(name, forms, how, modrm, TRUE)) = m
        BY <2>2, FormedMade
      <2>4. d.len = HeaderLength(e) + modrm + TakenBy(p)
        OBVIOUS
      <2>5. Extent(Normal(m)) = HeaderLength(e) + modrm + TakenBy(f)
        BY RecordExtent
      <2>6. \A i : TakenAt(p, i) = TakenAt(f, i)
        BY <1>1, <2>2 DEF TakenAt
      <2> HIDE DEF p, f, d, m
      <2>7. TakenBy(p) = TakenBy(f)
        BY <2>6 DEF TakenBy
      <2>8. LengthOf(e) = Extent(Normal(m))
        BY <2>3 DEF LengthOf, Architecture, Means
      <2> QED
        BY <2>1, <2>4, <2>5, <2>7, <2>8, Zenon DEF Even
    <1> QED
      BY <1>2, <1>3

\* EvenMade for two operands.
LEMMA EvenInst2 ==
    ASSUME NEW e, NEW op, NEW a1, NEW a2, NEW name, NEW b1, NEW b2,
           Meaning(e) = Inst(name, <<b1, b2>>), Level(e, a1, b1), Level(e, a2, b2)
    PROVE  Even(e, Inst(op, <<a1, a2>>))
    <1> DEFINE args == <<a1, a2>>
               forms == <<b1, b2>>
    <1>1. DOMAIN args = 1 .. 2 /\ DOMAIN forms = 1 .. 2 /\ 2 \in 0 .. 3
      OBVIOUS
    <1>2. \A i \in 1 .. 2 : Level(e, args[i], forms[i])
      OBVIOUS
    <1>3. Means(e, name, forms, "none", 1) /\ Inst(op, args) = Made(op, args, "none", 1, TRUE)
      BY DEF Inst, Means
    <1> HIDE DEF args, forms
    <1>4. Even(e, Made(op, args, "none", 1, TRUE))
      BY <1>1, <1>2, <1>3, EvenMade, Zenon
    <1> QED
      BY <1>3, <1>4 DEF args

\* EvenMade for three operands.
LEMMA EvenInst3 ==
    ASSUME NEW e, NEW op, NEW a1, NEW a2, NEW a3, NEW name, NEW b1, NEW b2, NEW b3,
           Meaning(e) = Inst(name, <<b1, b2, b3>>), Level(e, a1, b1), Level(e, a2, b2), Level(e, a3, b3)
    PROVE  Even(e, Inst(op, <<a1, a2, a3>>))
    <1> DEFINE args == <<a1, a2, a3>>
               forms == <<b1, b2, b3>>
    <1>1. DOMAIN args = 1 .. 3 /\ DOMAIN forms = 1 .. 3 /\ 3 \in 0 .. 3
      OBVIOUS
    <1>2. \A i \in 1 .. 3 : Level(e, args[i], forms[i])
      OBVIOUS
    <1>3. Means(e, name, forms, "none", 1) /\ Inst(op, args) = Made(op, args, "none", 1, TRUE)
      BY DEF Inst, Means
    <1> HIDE DEF args, forms
    <1>4. Even(e, Made(op, args, "none", 1, TRUE))
      BY <1>1, <1>2, <1>3, EvenMade, Zenon
    <1> QED
      BY <1>3, <1>4 DEF args

\* An addressing form spans the same bytes unless REX.B takes it for R13.
LEMMA MemoryLevel ==
    ASSUME NEW e \in Encodings, NEW w, NEW p, NEW wide,
           B(e) /\ RipForm(e) => "ripB" \in p \/ "r13" \notin p,
           B(e) /\ NoBaseForm(e) => "r13Sib" \notin p
    PROVE  /\ Level(e, Mem(w, p), E(e, wide))
           /\ Level(e, Mem(w, p), U(e, wide))
    <1> USE Fields
    <1> DEFINE m == MemoryForm(e, w, p)
               o == MemoryOperand(e, wide)
    <1>1. CASE Direct(e)
      BY <1>1, DirectRefusesMemory, MemPlaced DEF Level
    <1>2. CASE ~Direct(e)
      <2>1. E(e, wide) = Memory(wide) /\ U(e, wide) = Memory(wide)
        BY <1>2 DEF E, U, Direct
      <2>2. m = Error \/ (m.k = "mem" /\ m.n = o.n)
        <3>1. CASE RipForm(e)
          BY <3>1 DEF MemoryForm, MemoryOperand, RipForm, SibForm, Direct, Address, Indexed
        <3>2. CASE NoBaseForm(e)
          BY <3>2 DEF MemoryForm, MemoryOperand, RipForm, SibForm, NoBaseForm, Direct, Address, Indexed
        <3>3. CASE SibForm(e) /\ ~NoBaseForm(e)
          BY <3>3 DEF MemoryForm, MemoryOperand, RipForm, SibForm, NoBaseForm, Direct, Address,
                      Indexed, DispOf
        <3>4. CASE ~Direct(e) /\ ~RipForm(e) /\ ~SibForm(e)
          BY <3>4 DEF MemoryForm, MemoryOperand, RipForm, SibForm, NoBaseForm, Direct, Address,
                      Indexed, DispOf
        <3> QED
          BY <1>2, <3>1, <3>2, <3>3, <3>4 DEF NoBaseForm
      <2>3. o # Error /\ o.k = "mem"
        BY MemoryOperandFits
      <2>4. FormOf(e, Memory(wide)) = o
        BY MemoryFormed
      <2>5. Placed(e, Mem(w, p)) = m
        BY MemPlaced
      <2> HIDE DEF m, o
      <2>6. Level(e, Mem(w, p), Memory(wide))
        BY <2>2, <2>3, <2>4, <2>5 DEF Level, Taken
      <2> QED
        BY <2>1, <2>6
    <1> QED
      BY <1>1, <1>2

\* Registers span no bytes.
LEMMA PlainLevel ==
    ASSUME NEW e, NEW a, NEW b, a.k \in {"reg", "xmm"}, b.k \in {"reg", "xmm"}, b # Error
    PROVE  Level(e, a, b)
    <1>1. Placed(e, a) = a /\ FormOf(e, b) = b
      BY DEF Placed, FormOf
    <1> QED
      BY <1>1 DEF Level, Taken

\* Either extension of an immediate spans the same bytes.
LEMMA ImmLevel ==
    ASSUME NEW e, NEW n
    PROVE  Level(e, ZImm(n), ZImm(n)) /\ Level(e, ZImm(n), SImm(n))
    <1>1. /\ Placed(e, ZImm(n)) = ZImm(n) /\ FormOf(e, ZImm(n)) = ZImm(n) /\ FormOf(e, SImm(n)) = SImm(n)
          /\ SImm(n) # Error /\ ZImm(n) # Error
      BY DEF Placed, FormOf, ZImm, SImm, Error
    <1> QED
      BY <1>1 DEF Level, Taken, SImm, ZImm

\* The registers of the ModRM byte.
LEMMA RegisterLevels ==
    ASSUME NEW e, NEW w, NEW wide
    PROVE  /\ Level(e, RegField(e, w), G(e, wide)) /\ Level(e, XmmField(e), V(e))
           /\ Direct(e) => /\ Level(e, RmField(e, w), G(e, wide)) /\ Level(e, RegField(e, w), E(e, wide))
                           /\ Level(e, XmmRm(e), U(e, wide)) /\ Level(e, XmmRm(e), V(e))
    <1>1. /\ RegField(e, w).k = "reg" /\ RmField(e, w).k = "reg" /\ XmmField(e).k = "xmm" /\ XmmRm(e).k = "xmm"
      BY DEF RegField, RmField, XmmField, XmmRm, Reg, Xmm
    <1>2. G(e, wide).k = "reg" /\ G(e, wide) # Error /\ V(e).k = "xmm" /\ V(e) # Error
      BY DEF G, V, GeneralReg, Reg, HighByte, Xmm, Error
    <1>3. Direct(e) => /\ E(e, wide).k = "reg" /\ E(e, wide) # Error
                       /\ U(e, wide).k = "xmm" /\ U(e, wide) # Error
      BY DEF E, U, GeneralReg, Reg, HighByte, Xmm, Error, Direct
    <1> QED
      BY <1>1, <1>2, <1>3, PlainLevel

\* Trying one family after another.
LEMMA EvenElse ==
    ASSUME NEW e, NEW a, NEW b, Even(e, a), Even(e, b)
    PROVE  Even(e, Else(a, b))
    BY DEF Else

\* All families in the order decodeInstruction tries them.
LEMMA EvenChain ==
    ASSUME NEW e, e.op # \hC3,
           Even(e, decodeVex(e)), Even(e, decodeScalarSpecial(e)), Even(e, decodeSimdShort(e)),
           Even(e, decodeOperandOverride(e)), Even(e, decodeSimdLanes(e)), Even(e, decodeSimdMemory(e)),
           Even(e, decodeRepeat(e)), Even(e, decodeControlTransfer(e)), Even(e, decodeAtomic(e)),
           Even(e, decodeExtended(e)), Even(e, decodeGeneral(e))
    PROVE  Even(e, Recognized(e))
    <1> DEFINE extended == Else(decodeExtended(e), decodeGeneral(e))
               atomic == Else(decodeAtomic(e), extended)
               control == Else(decodeControlTransfer(e), atomic)
               repeat == Else(decodeRepeat(e), control)
               memory == Else(decodeSimdMemory(e), repeat)
               lanes == Else(decodeSimdLanes(e), memory)
               override == Else(decodeOperandOverride(e), lanes)
               short == Else(decodeSimdShort(e), override)
               special == Else(decodeScalarSpecial(e), short)
               all == Else(decodeVex(e), special)
    <1>1. Recognized(e) \in {Error, all}
      <2>1. Recognized(e) = IF e.pad > 0 /\ ~(e.op = \h0F /\ e.op2 = \h1F) THEN Error ELSE all
        BY Zenon DEF Recognized
      <2> HIDE DEF all
      <2> QED
        BY <2>1
    <1>2. Even(e, extended)
      BY EvenElse
    <1> HIDE DEF extended
    <1>3. Even(e, atomic)
      BY <1>2, EvenElse
    <1> HIDE DEF atomic
    <1>4. Even(e, control)
      BY <1>3, EvenElse
    <1> HIDE DEF control
    <1>5. Even(e, repeat)
      BY <1>4, EvenElse
    <1> HIDE DEF repeat
    <1>6. Even(e, memory)
      BY <1>5, EvenElse
    <1> HIDE DEF memory
    <1>7. Even(e, lanes)
      BY <1>6, EvenElse
    <1> HIDE DEF lanes
    <1>8. Even(e, override)
      BY <1>7, EvenElse
    <1> HIDE DEF override
    <1>9. Even(e, short)
      BY <1>8, EvenElse
    <1> HIDE DEF short
    <1>10. Even(e, special)
      BY <1>9, EvenElse
    <1> HIDE DEF special
    <1>11. Even(e, all)
      BY <1>10, EvenElse
    <1> HIDE DEF all
    <1> QED
      BY <1>1, <1>11, SameIsEven

\* A family that leaves the encoding to the next one, or throws.
Silent(d) == d \in {Pass, Error}

\* A family that passes or throws takes no bytes.
LEMMA SilentIsEven ==
    ASSUME NEW e, NEW d, Silent(d)
    PROVE  Even(e, d)
    BY SameIsEven DEF Silent

\* Families that pass on the misdecoded opcodes.
LEMMA QuietFamilies ==
    ASSUME NEW e, e.op \in {\h0F, \h0B, \h81}
    PROVE  Silent(decodeVex(e)) /\ Silent(decodeRepeat(e)) /\ Silent(decodeControlTransfer(e))
    <1>1. Silent(decodeVex(e))
      BY DEF decodeVex, Silent
    <1>2. Silent(decodeRepeat(e))
      BY DEF decodeRepeat, Silent
    <1>3. Silent(decodeControlTransfer(e))
      BY DEF decodeControlTransfer, Silent
    <1> QED
      BY <1>1, <1>2, <1>3

\* The general families pass on the misdecoded two-byte opcodes.
LEMMA QuietGeneral ==
    ASSUME NEW e, e.op = \h0F, e.op2 \in {\hC1, \h7E, \h14, \h15, \h2E, \h5A, \h3A}
    PROVE  Silent(decodeGeneral(e)) /\ Silent(decodeExtended(e)) /\ Silent(decodeScalarSpecial(e))
    <1>1. Branch(e) = RexEscape(e)
      BY DEF Branch
    <1>2. ~EscapeAdmitted(e)
      BY DEF EscapeAdmitted, CmovOps, ByteConditions
    <1>3. RexEscape(e) = Error
      BY <1>2 DEF RexEscape, Only
    <1>4. Silent(decodeGeneral(e))
      BY <1>1, <1>3 DEF decodeGeneral, Only, Silent
    <1>5. Silent(decodeExtended(e))
      BY DEF decodeExtended, Silent, CmovOps, ByteConditions
    <1>6. Silent(decodeScalarSpecial(e))
      <2> DEFINE Set == {\h90 + c : c \in ByteConditions}
      <2>1. e.op2 \notin Set
        BY DEF ByteConditions
      <2> HIDE DEF Set
      <2>2. ~Escaped(e, Set)
        BY <2>1 DEF Escaped
      <2> QED
        BY <2>2 DEF decodeScalarSpecial, Silent, Escaped, Set
    <1> QED
      BY <1>4, <1>5, <1>6

\* decodeOperandOverride passes on locked and two-byte opcodes.
LEMMA QuietOverride ==
    ASSUME NEW e, e.op \in {\h0F, \h0B} \/ "F0" \in e.pre
    PROVE  Silent(decodeOperandOverride(e))
    <1>1. CASE "F0" \in e.pre
      <2>1. e.pre # {"66"}
        BY <1>1
      <2> QED
        BY <2>1 DEF decodeOperandOverride, Silent
    <1>2. CASE e.op \in {\h0F, \h0B}
      BY <1>2 DEF decodeOperandOverride, Silent
    <1> QED
      BY <1>1, <1>2

\* The vector families pass on one-byte opcodes.
LEMMA QuietVector ==
    ASSUME NEW e, e.op # \h0F
    PROVE  Silent(decodeSimdShort(e)) /\ Silent(decodeSimdLanes(e)) /\ Silent(decodeSimdMemory(e))
    <1>1. Silent(decodeSimdShort(e))
      BY DEF decodeSimdShort, Coded, Silent
    <1>2. Silent(decodeSimdLanes(e))
      BY DEF decodeSimdLanes, Coded, Coded38, Coded3A, Silent
    <1>3. Silent(decodeSimdMemory(e))
      BY DEF decodeSimdMemory, Coded, Coded3A, Silent
    <1> QED
      BY <1>1, <1>2, <1>3

\* OR with swapped operands takes the bytes of OR.
LEMMA OrEven ==
    ASSUME NEW e \in Encodings, e.op = \h0B, Direct(e)
    PROVE  Even(e, Recognized(e))
    <1>1. Silent(decodeScalarSpecial(e))
      BY DEF decodeScalarSpecial, Escaped, Silent
    <1>2. Silent(decodeAtomic(e)) /\ Silent(decodeExtended(e))
      BY DEF decodeAtomic, decodeExtended, Silent
    <1>3. Even(e, decodeGeneral(e))
      <2>1. Branch(e) = Inst("Or", <<RmField(e, W163264(e)), RegField(e, W163264(e))>>)
        BY DEF Branch, Op0B
      <2>2. decodeGeneral(e) = Branch(e) \/ decodeGeneral(e) = Error
        BY DEF decodeGeneral, Only
      <2>3. CASE e.pre \subseteq {"66", "65"}
        <3>1. Scalar(e)
          BY <2>3 DEF Scalar
        <3>2. Meaning(e) = Inst(Row(1), <<G(e, Width(e)), E(e, Width(e))>>)
          <4>1. e.op \in 0 .. 63 /\ e.op % 8 = 3 /\ e.op \div 8 = 1
            OBVIOUS
          <4>2. e.op \in 0 .. 63 /\ e.op # \h0F /\ e.op % 8 \in {2, 3}
            BY <4>1
          <4>3. Meaning(e) = Inst(Row(e.op \div 8), <<G(e, Width(e)), E(e, Width(e))>>)
            BY <3>1, <4>2, RowMeaning
          <4> QED
            BY <4>1, <4>3
        <3> QED
          BY <2>1, <2>2, <3>2, EvenInst2, RegisterLevels, SilentIsEven DEF Silent
      <2>4. CASE ~(e.pre \subseteq {"66", "65"})
        BY <2>4, SilentIsEven DEF decodeGeneral, Only, Silent
      <2> QED
        BY <2>3, <2>4
    <1> QED
      BY <1>1, <1>2, <1>3, QuietFamilies, QuietOverride, QuietVector, SilentIsEven, EvenChain

\* LOCK OR and AND that do not extend their immediate take its bytes.
LEMMA LockImmEven ==
    ASSUME NEW e \in Encodings, e.op = \h81, "F0" \in e.pre, W(e)
    PROVE  Even(e, Recognized(e))
    <1>1. Silent(decodeScalarSpecial(e))
      BY DEF decodeScalarSpecial, Escaped, Silent
    <1>2. Silent(decodeExtended(e)) /\ Silent(decodeGeneral(e))
      BY DEF decodeExtended, decodeGeneral, Only, Silent
    <1>3. Even(e, decodeAtomic(e))
      <2>1. CASE e.pre = {"66", "F0"}
        <3>1. decodeAtomic(e) = LockWordImm(e)
          BY <2>1 DEF decodeAtomic
        <3> QED
          BY <3>1, SilentIsEven DEF LockWordImm, Only, Silent
      <2>2. CASE e.pre = {"F0"}
        <3>1. decodeAtomic(e) = LockImm(e)
          BY <2>2 DEF decodeAtomic
        <3>2. CASE LockImm(e) = Error
          BY <3>1, <3>2, SilentIsEven DEF Silent
        <3>3. CASE LockImm(e) # Error
          <4>1. /\ e.reg \in {1, 4}
                /\ LockImm(e) = Inst(LockName(e.reg), <<Mem(W3264(e), {"rip", "plainSib"}), ZImm(4)>>)
            BY <3>3 DEF LockImm, Only
          <4>2. Width(e) = 64
            BY DEF Width, W163264
          <4>3. OneByte(e) = ImmediateGroup(e)
            BY DEF OneByte
          <4>4. ImmediateGroup(e) = Inst(Row(e.reg), <<E(e, 64), ImmZ(64)>>)
            BY <4>2 DEF ImmediateGroup
          <4>5. Row(e.reg) \in {"Or", "And"}
            BY <4>1 DEF Row
          <4>6. \E name : Locked(Inst(Row(e.reg), <<E(e, 64), ImmZ(64)>>)) = Inst(name, <<E(e, 64), ImmZ(64)>>)
            BY <4>5, LockedNames
          <4>7. PICK name : Meaning(e) = Inst(name, <<E(e, 64), ImmZ(64)>>)
            BY <4>3, <4>4, <4>6, LockedMeaning
          <4>8. Level(e, ZImm(4), ImmZ(64))
            BY ImmLevel, Immediates
          <4>9. Level(e, Mem(W3264(e), {"rip", "plainSib"}), E(e, 64))
            BY MemoryLevel
          <4> QED
            BY <3>1, <4>1, <4>7, <4>8, <4>9, EvenInst2
        <3> QED
          BY <3>2, <3>3
      <2>3. CASE e.pre # {"66", "F0"} /\ e.pre # {"F0"}
        BY <2>3, SilentIsEven DEF decodeAtomic, Silent
      <2> QED
        BY <2>1, <2>2, <2>3
    <1> QED
      BY <1>1, <1>2, <1>3, QuietFamilies, QuietOverride, QuietVector, SilentIsEven, EvenChain

\* XADD of the wrong width, or without its index, takes the bytes of XADD.
LEMMA XaddEven ==
    ASSUME NEW e \in Encodings, e.op = \h0F, e.op2 = \hC1
    PROVE  Even(e, Recognized(e))
    <1>1. Silent(decodeSimdShort(e)) /\ Silent(decodeSimdLanes(e)) /\ Silent(decodeSimdMemory(e))
      <2>1. Silent(decodeSimdShort(e))
        BY DEF decodeSimdShort, Coded, PackedArithmetic, Silent
      <2>2. Silent(decodeSimdLanes(e))
        BY DEF decodeSimdLanes, Coded, Coded38, Coded3A, Silent
      <2>3. Silent(decodeSimdMemory(e))
        BY DEF decodeSimdMemory, Coded, Coded3A, ScalarArithmetic, Silent
      <2> QED
        BY <2>1, <2>2, <2>3
    <1>2. Even(e, decodeAtomic(e))
      <2>1. CASE e.pre \in {{"F0"}, {"66", "F0"}}
        <3>1. decodeAtomic(e) = LockXadd(e)
          BY <2>1 DEF decodeAtomic
        <3> DEFINE w == IF "66" \in e.pre THEN 16 ELSE W3264(e)
        <3>2. LockXadd(e) = Inst("LockXadd", <<Mem(w, {"rip", "sib", "noR12"}), RegField(e, w)>>)
          BY DEF LockXadd
        <3>3. TwoByte(e) = Inst("Xadd", <<E(e, W163264(e)), G(e, W163264(e))>>)
          BY DEF TwoByte
        <3>4. Meaning(e) = Inst("LockXadd", <<E(e, W163264(e)), G(e, W163264(e))>>)
          BY <2>1, <3>3, LockedMeaning, LockedNames
        <3> HIDE DEF w
        <3>5. Level(e, Mem(w, {"rip", "sib", "noR12"}), E(e, W163264(e)))
          BY MemoryLevel
        <3>6. Level(e, RegField(e, w), G(e, W163264(e)))
          BY RegisterLevels
        <3> QED
          BY <3>1, <3>2, <3>4, <3>5, <3>6, EvenInst2
      <2>2. CASE e.pre \notin {{"F0"}, {"66", "F0"}}
        BY <2>2, SilentIsEven DEF decodeAtomic, Silent
      <2> QED
        BY <2>1, <2>2
    <1> QED
      BY <1>1, <1>2, QuietFamilies, QuietOverride, QuietGeneral, SilentIsEven, EvenChain

\* MOVQ without its index takes the bytes of MOVQ.
LEMMA MovqEven ==
    ASSUME NEW e \in Encodings, e.op = \h0F, e.op2 = \h7E, "F3" \in e.pre
    PROVE  Even(e, Recognized(e))
    <1>0. e.pre # {"66"} /\ e.pre # {} /\ e.pre # {"F2"}
      OBVIOUS
    <1>1. Silent(decodeSimdShort(e))
      BY <1>0 DEF decodeSimdShort, Coded, PackedArithmetic, Silent
    <1>2. Silent(decodeSimdLanes(e))
      BY <1>0 DEF decodeSimdLanes, Coded, Coded38, Coded3A, Silent
    <1>3. Silent(decodeAtomic(e))
      BY DEF decodeAtomic, Silent
    <1>4. Even(e, decodeSimdMemory(e))
      <2>1. CASE e.pre = {"F3"} /\ ~Direct(e)
        <3> DEFINE p == {"rip", "ripB", "sib", "noBase", "looseX", "noR12"}
        <3>1. decodeSimdMemory(e) = Inst("Movq", <<XmmField(e), Mem(64, p)>>)
          BY <1>0, <2>1 DEF decodeSimdMemory, Coded, Coded3A, ScalarArithmetic, MovqLoad
        <3>2. VectorF3(e) = Inst("Movq", <<V(e), U(e, 64)>>)
          BY DEF VectorF3, VU
        <3>3. Meaning(e) = Inst("Movq", <<V(e), U(e, 64)>>)
          BY <2>1, <3>2, VectorMeaning, InstIsInstruction
        <3>4. Level(e, Mem(64, p), U(e, 64)) /\ Level(e, XmmField(e), V(e))
          BY MemoryLevel, RegisterLevels
        <3> HIDE DEF p
        <3> QED
          BY <3>1, <3>3, <3>4, EvenInst2
      <2>2. CASE e.pre # {"F3"} \/ Direct(e)
        BY <1>0, <2>2, SilentIsEven DEF decodeSimdMemory, Coded, Coded3A, ScalarArithmetic, Silent
      <2> QED
        BY <2>1, <2>2
    <1> QED
      BY <1>1, <1>2, <1>3, <1>4, QuietFamilies, QuietOverride, QuietGeneral, SilentIsEven, EvenChain

\* UNPCKLPD, UNPCKHPD and UCOMISD taken for their single-precision forms.
LEMMA VectorEven ==
    ASSUME NEW e \in Encodings, e.op = \h0F, "66" \in e.pre, e.op2 \in {\h14, \h15, \h2E},
           ~(e.op2 = \h2E /\ B(e) /\ RipForm(e))
    PROVE  Even(e, Recognized(e))
    <1>0. e.pre # {"F3"} /\ e.pre # {} /\ e.pre # {"F2"}
      OBVIOUS
    <1>1. Silent(decodeAtomic(e))
      BY DEF decodeAtomic, Silent
    <1>2. Silent(decodeSimdMemory(e))
      BY <1>0 DEF decodeSimdMemory, Coded, Coded3A, Silent
    <1>3. CASE e.pre # {"66"}
      <2>1. Silent(decodeSimdShort(e))
        BY <1>0, <1>3 DEF decodeSimdShort, Coded, Silent
      <2>2. Silent(decodeSimdLanes(e))
        BY <1>0, <1>3 DEF decodeSimdLanes, Coded, Coded38, Coded3A, Silent
      <2> QED
        BY <1>1, <1>2, <2>1, <2>2, QuietFamilies, QuietOverride, QuietGeneral, SilentIsEven, EvenChain
    <1>4. CASE e.pre = {"66"}
      <2>m. ASSUME NEW name, NEW w, Vector66(e) = Inst(name, <<V(e), U(e, w)>>)
            PROVE  Meaning(e) = Inst(name, <<V(e), U(e, w)>>)
        BY <1>4, <2>m, VectorMeaning, InstIsInstruction
      <2>x. ASSUME NEW w, NEW p, NEW wide, B(e) /\ RipForm(e) => "r13" \notin p, "r13Sib" \notin p
            PROVE  Level(e, XmmOrMem(e, w, p), U(e, wide)) /\ Level(e, XmmField(e), V(e))
        BY <2>x, MemoryLevel, RegisterLevels DEF XmmOrMem
      <2>1. Even(e, decodeSimdShort(e))
        <3>1. CASE e.op2 = \h14
          <4>1. Vector66(e) = Inst("Unpcklpd", <<V(e), U(e, 128)>>)
            BY <3>1 DEF Vector66, VU
          <4>2. decodeSimdShort(e) = Unpcklps(e)
            BY <1>4, <3>1 DEF decodeSimdShort, Coded, PackedArithmetic
          <4>3. Level(e, XmmOrMem(e, 128, {"rip"}), U(e, 128)) /\ Level(e, XmmField(e), V(e))
            BY <2>x
          <4>4. Even(e, Inst("Unpcklps", <<XmmField(e), XmmOrMem(e, 128, {"rip"})>>))
            BY <2>m, <4>1, <4>3, EvenInst2
          <4> QED
            BY <4>2, <4>4, SilentIsEven DEF Unpcklps, Only, Silent
        <3>2. CASE e.op2 = \h15
          <4>1. Vector66(e) = Inst("Unpckhpd", <<V(e), U(e, 128)>>)
            BY <3>2 DEF Vector66, VU
          <4>2. decodeSimdShort(e) = Unpckhps(e)
            BY <1>4, <3>2 DEF decodeSimdShort, Coded, PackedArithmetic
          <4>3. Level(e, XmmOrMem(e, 128, {"rip"}), U(e, 128)) /\ Level(e, XmmField(e), V(e))
            BY <2>x
          <4>4. Even(e, Inst("Unpckhps", <<XmmField(e), XmmOrMem(e, 128, {"rip"})>>))
            BY <2>m, <4>1, <4>3, EvenInst2
          <4> QED
            BY <4>2, <4>4, SilentIsEven DEF Unpckhps, Only, Silent
        <3>3. CASE e.op2 = \h2E
          BY <1>4, <3>3, SilentIsEven DEF decodeSimdShort, Coded, PackedArithmetic, Silent
        <3> QED
          BY <3>1, <3>2, <3>3
      <2>2. Even(e, decodeSimdLanes(e))
        <3>0. CASE e.op2 = \h14
          BY <1>4, <3>0, SilentIsEven DEF decodeSimdLanes, Coded, Coded38, Coded3A, Silent
        <3>1. CASE e.op2 = \h15
          BY <1>4, <3>1, SilentIsEven DEF decodeSimdLanes, Coded, Coded38, Coded3A, Silent
        <3>2. CASE e.op2 = \h2E
          <4> DEFINE p == {"rip", "r13", "sib", "ripX"}
          <4>1. Vector66(e) = Inst("Ucomisd", <<V(e), U(e, 64)>>)
            BY <3>2 DEF Vector66, VU
          <4>2. decodeSimdLanes(e) = Ucomiss(e)
            BY <1>4, <3>2 DEF decodeSimdLanes, Coded, Coded38, Coded3A
          <4>3. Level(e, XmmOrMem(e, 32, p), U(e, 64)) /\ Level(e, XmmField(e), V(e))
            BY <2>x, <3>2
          <4>4. Even(e, Inst("Ucomiss", <<XmmField(e), XmmOrMem(e, 32, p)>>))
            BY <2>m, <4>1, <4>3, EvenInst2
          <4> QED
            BY <4>2, <4>4, SilentIsEven DEF Ucomiss, Only, Silent
        <3> QED
          BY <3>0, <3>1, <3>2
      <2> QED
        BY <1>1, <1>2, <2>1, <2>2, QuietFamilies, QuietOverride, QuietGeneral, SilentIsEven, EvenChain
    <1> QED
      BY <1>3, <1>4

\* UCOMISS taken for UCOMISD.
LEMMA UcomisEven ==
    ASSUME NEW e \in Encodings, e.op = \h0F, e.pre = {}, e.op2 = \h2E
    PROVE  Even(e, Recognized(e))
    <1>1. Silent(decodeAtomic(e))
      BY DEF decodeAtomic, Silent
    <1>2. Silent(decodeSimdMemory(e))
      BY DEF decodeSimdMemory, Coded, Coded3A, Silent
    <1>3. Silent(decodeSimdShort(e))
      BY DEF decodeSimdShort, Coded, Silent
    <1>4. Even(e, decodeSimdLanes(e))
      <2>1. decodeSimdLanes(e) = Ucomisd(e)
        BY DEF decodeSimdLanes, Coded, Coded38, Coded3A
      <2>2. CASE Direct(e) /\ NoWX(e)
        <3>1. Ucomisd(e) = Inst("Ucomisd", <<XmmField(e), XmmRm(e)>>)
          BY <2>2 DEF Ucomisd, RegisterOnly, Only
        <3>2. VectorPlain(e) = Inst("Ucomiss", <<V(e), U(e, 32)>>)
          BY DEF VectorPlain, VU
        <3>3. Meaning(e) = Inst("Ucomiss", <<V(e), U(e, 32)>>)
          BY <3>2, VectorMeaning, InstIsInstruction
        <3> QED
          BY <2>1, <2>2, <3>1, <3>3, RegisterLevels, EvenInst2
      <2>3. CASE ~(Direct(e) /\ NoWX(e))
        BY <2>1, <2>3, SilentIsEven DEF Ucomisd, RegisterOnly, Only, Silent
      <2> QED
        BY <2>2, <2>3
    <1> QED
      BY <1>1, <1>2, <1>3, <1>4, QuietFamilies, QuietOverride, QuietGeneral, SilentIsEven, EvenChain

\* CVTSD2SS taken for CVTSS2SD.
LEMMA ConversionEven ==
    ASSUME NEW e \in Encodings, e.op = \h0F, "F2" \in e.pre, e.op2 = \h5A, ~(B(e) /\ RipForm(e))
    PROVE  Even(e, Recognized(e))
    <1>0. e.pre # {"66"} /\ e.pre # {} /\ e.pre # {"F3"}
      OBVIOUS
    <1>1. Silent(decodeSimdShort(e))
      BY <1>0 DEF decodeSimdShort, Coded, PackedArithmetic, Silent
    <1>2. Silent(decodeSimdLanes(e))
      BY <1>0 DEF decodeSimdLanes, Coded, Coded38, Coded3A, Silent
    <1>3. Silent(decodeAtomic(e))
      BY DEF decodeAtomic, Silent
    <1>4. Even(e, decodeSimdMemory(e))
      <2>1. CASE e.pre = {"F2"}
        <3> DEFINE p == {"rip", "r13", "sib", "ripX"}
        <3>1. decodeSimdMemory(e) = Inst("Cvtss2sd", <<XmmField(e), XmmOrMem(e, 32, p)>>)
          BY <1>0, <2>1 DEF decodeSimdMemory, Coded, Coded3A, ScalarArithmetic, Cvtss2sd
        <3>2. VectorF2(e) = Inst("Cvtsd2ss", <<V(e), U(e, 64)>>)
          BY DEF VectorF2, VU
        <3>3. Meaning(e) = Inst("Cvtsd2ss", <<V(e), U(e, 64)>>)
          BY <2>1, <3>2, VectorMeaning, InstIsInstruction
        <3>x. ASSUME NEW w, NEW q, NEW wide, B(e) /\ RipForm(e) => "r13" \notin q, "r13Sib" \notin q
              PROVE  Level(e, XmmOrMem(e, w, q), U(e, wide)) /\ Level(e, XmmField(e), V(e))
          BY <3>x, MemoryLevel, RegisterLevels DEF XmmOrMem
        <3>4. Level(e, XmmOrMem(e, 32, p), U(e, 64)) /\ Level(e, XmmField(e), V(e))
          BY <3>x
        <3> HIDE DEF p
        <3> QED
          BY <3>1, <3>3, <3>4, EvenInst2
      <2>2. CASE e.pre # {"F2"}
        BY <1>0, <2>2, SilentIsEven DEF decodeSimdMemory, Coded, Coded3A, ScalarArithmetic, Silent
      <2> QED
        BY <2>1, <2>2
    <1> QED
      BY <1>1, <1>2, <1>3, <1>4, QuietFamilies, QuietOverride, QuietGeneral, SilentIsEven, EvenChain

\* PEXTRD with swapped operands.
LEMMA PextrdEven ==
    ASSUME NEW e \in Encodings, e.op = \h0F, "66" \in e.pre, e.op2 = \h3A, e.op3 = \h16
    PROVE  Even(e, Recognized(e))
    <1>0. e.pre # {"F2"} /\ e.pre # {} /\ e.pre # {"F3"}
      OBVIOUS
    <1>1. Silent(decodeSimdShort(e))
      BY <1>0 DEF decodeSimdShort, Coded, PackedArithmetic, Silent
    <1>2. Silent(decodeSimdLanes(e))
      BY <1>0 DEF decodeSimdLanes, Coded, Coded38, Coded3A, Silent
    <1>3. Silent(decodeAtomic(e))
      BY DEF decodeAtomic, Silent
    <1>4. Even(e, decodeSimdMemory(e))
      <2>1. CASE e.pre = {"66"} /\ ~e.hasRex /\ Direct(e)
        <3>1. decodeSimdMemory(e) = Inst("Pextrd", <<RegField(e, 32), XmmRm(e), ZImm(1)>>)
          BY <1>0, <2>1 DEF decodeSimdMemory, Coded, Coded3A, ScalarArithmetic, Pextrd, Only
        <3>2. Vector66(e) = Inst("Pextrd", <<E(e, W3264(e)), V(e), Count>>)
          BY DEF Vector66, Vector3A
        <3>3. Meaning(e) = Inst("Pextrd", <<E(e, W3264(e)), V(e), Count>>)
          BY <2>1, <3>2, VectorMeaning, InstIsInstruction
        <3>4. Level(e, RegField(e, 32), E(e, W3264(e))) /\ Level(e, XmmRm(e), V(e))
          BY <2>1, RegisterLevels
        <3>5. Level(e, ZImm(1), Count)
          BY ImmLevel DEF Count
        <3> QED
          BY <3>1, <3>3, <3>4, <3>5, EvenInst3
      <2>2. CASE ~(e.pre = {"66"} /\ ~e.hasRex /\ Direct(e))
        BY <1>0, <2>2, SilentIsEven DEF decodeSimdMemory, Coded, Coded3A, ScalarArithmetic, Pextrd, Only, Silent
      <2> QED
        BY <2>1, <2>2
    <1> QED
      BY <1>1, <1>2, <1>3, <1>4, QuietFamilies, QuietOverride, QuietGeneral, SilentIsEven, EvenChain

(***************************************************************************)
(* Apart from the encodings that derail it, decodeInstruction takes as     *)
(* many bytes as the architecture gives the instruction, the ones it       *)
(* misunderstands included.                                                *)
(***************************************************************************)
THEOREM LengthsAreArchitectural ==
    \A e \in Encodings :
        Derails(e) \/ decodeInstruction(e) = Error \/ decodeInstruction(e).len = LengthOf(e)
    <1> SUFFICES ASSUME NEW e \in Encodings, ~Derails(e)
                 PROVE  Even(e, Recognized(e))
      BY DEF Even, decodeInstruction
    <1>1. CASE ~KnownMisdecode(e)
      BY <1>1, RecognizedRight, SameIsEven
    <1>2. CASE IndexDropped(e)
      BY <1>2, XaddEven, MovqEven DEF IndexDropped, TwoByteForm
    <1>3. CASE e.op = \h0B /\ Direct(e)
      BY <1>3, OrEven
    <1>4. CASE e.op = \h81 /\ "F0" \in e.pre /\ W(e)
      BY <1>4, LockImmEven
    <1>5. CASE TwoByteForm(e, {"66", "F0"}, {\hC1}) /\ W(e)
      BY <1>5, XaddEven DEF TwoByteForm
    <1>6. CASE TwoByteForm(e, {"66"}, {\h14, \h15, \h2E})
      BY <1>6, VectorEven DEF TwoByteForm, Derails, TakenForR13
    <1>7. CASE e.pre = {} /\ TwoByteForm(e, {}, {\h2E})
      BY <1>7, UcomisEven DEF TwoByteForm
    <1>8. CASE TwoByteForm(e, {"F2"}, {\h5A})
      BY <1>8, ConversionEven DEF TwoByteForm, Derails, TakenForR13
    <1>9. CASE TwoByteForm(e, {"66"}, {\h3A}) /\ e.op3 = \h16
      BY <1>9, PextrdEven DEF TwoByteForm
    <1> QED
      BY <1>1, <1>2, <1>3, <1>4, <1>5, <1>6, <1>7, <1>8, <1>9 DEF KnownMisdecode, Derails
=============================================================================
