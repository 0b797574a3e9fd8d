--------------------------- MODULE DecoderProofs ----------------------------
(***************************************************************************)
(* decodeBlock over a whole program. The inductive invariant says where    *)
(* the decoder stands: in step with the program until an encoding derails  *)
(* it (InStep), and along the same places on both passes (FirstPass,       *)
(* SecondPass), because the places an instruction can start at are         *)
(* distinct. That they are rests on the recursive definition of BytesOf,   *)
(* whose equations are proved by induction over a set of naturals.         *)
(***************************************************************************)
EXTENDS DecoderLengthProofs

-----------------------------------------------------------------------------
(* Induction over the natural numbers, for a set instead of an operator *)

\* A set of naturals that holds zero and the successor of each member holds them all.
LEMMA SetInduction ==
    ASSUME NEW T, T \subseteq Nat, 0 \in T, \A n \in T : n + 1 \in T
    PROVE  T = Nat
    <1> SUFFICES ASSUME Nat \ T # {} PROVE FALSE
      OBVIOUS
    <1>1. PICK x \in Nat \ T : \A y \in Nat \ T : ~ (<<y, x>> \in OpToRel(<, Nat))
      BY NatLessThanWellFounded, WFMin
    <1>2. \A y \in Nat \ T : ~(y < x)
      BY <1>1 DEF OpToRel
    <1>3. x \in Nat /\ x # 0
      OBVIOUS
    <1>4. x - 1 \in Nat /\ x - 1 < x /\ x - 1 + 1 = x
      BY <1>3, SMT
    <1>5. x - 1 \in T
      BY <1>2, <1>4
    <1> QED
      BY <1>4, <1>5

-----------------------------------------------------------------------------
(* Where the instructions of a program start *)

\* What the recursive definition of BytesOf asks of a function.
Places(c, g, n) ==
    /\ g \in [0 .. n -> Nat]
    /\ g[0] = 0
    /\ \A i \in 1 .. n : g[i] = g[i - 1] + LengthOf(c[i])

\* There is such a function, by induction on n.
LEMMA PlacesExist ==
    ASSUME NEW c \in Seq(Encodings), NEW n \in 0 .. Len(c)
    PROVE  \E g : Places(c, g, n)
    <1> DEFINE T == {k \in Nat : k > Len(c) \/ \E g : Places(c, g, k)}
    <1>1. 0 \in T
      <2>1. Places(c, [i \in 0 .. 0 |-> 0], 0)
        BY DEF Places
      <2> QED
        BY <2>1
    <1>2. ASSUME NEW k \in T PROVE k + 1 \in T
      <2>1. CASE k + 1 > Len(c)
        BY <2>1
      <2>2. CASE k + 1 <= Len(c)
        <3>1. PICK g : Places(c, g, k)
          BY <2>2
        <3>2. c[k + 1] \in Encodings
          BY <2>2
        <3>3. LengthOf(c[k + 1]) \in Nat
          BY <3>2, LengthIsPositive
        <3> DEFINE h == [i \in 0 .. k + 1 |-> IF i = k + 1 THEN g[k] + LengthOf(c[k + 1]) ELSE g[i]]
        <3>4. h \in [0 .. k + 1 -> Nat]
          BY <3>1, <3>3 DEF Places
        <3>5. h[0] = 0
          BY <3>1 DEF Places
        <3>6. ASSUME NEW i \in 1 .. k + 1 PROVE h[i] = h[i - 1] + LengthOf(c[i])
          <4>1. CASE i = k + 1
            BY <4>1
          <4>2. CASE i # k + 1
            <5>1. i \in 1 .. k /\ i - 1 \in 0 .. k /\ i \in 0 .. k + 1 /\ i - 1 \in 0 .. k + 1 /\ i - 1 # k + 1
              BY <4>2
            <5> QED
              BY <3>1, <4>2, <5>1 DEF Places
          <4> QED
            BY <4>1, <4>2
        <3>7. Places(c, h, k + 1)
          BY <3>4, <3>5, <3>6 DEF Places
        <3> QED
          BY <3>7
      <2> QED
        BY <2>1, <2>2
    <1>3. T = Nat
      <2> HIDE DEF T
      <2>1. T \subseteq Nat
        BY DEF T
      <2> QED
        BY <1>1, <1>2, <2>1, SetInduction
    <1> QED
      BY <1>3

\* BytesOf is one: the places of a program satisfy their recursive definition.
LEMMA BytesPlaces ==
    ASSUME NEW c \in Seq(Encodings)
    PROVE  Places(c, BytesOf(c), Len(c))
    <1> DEFINE N == Len(c)
               P(f) == f = [n \in 0 .. N |-> IF n = 0 THEN 0 ELSE f[n - 1] + LengthOf(c[n])]
    <1>0. N \in Nat
      OBVIOUS
    <1>1. PICK g : Places(c, g, N)
      BY <1>0, PlacesExist
    <1>2. P(g)
      BY <1>0, <1>1 DEF Places
    <1>3. BytesOf(c) = CHOOSE f : P(f)
      BY Zenon DEF BytesOf
    <1>4. P(BytesOf(c))
      <2> HIDE DEF P
      <2>1. P(CHOOSE f : P(f))
        BY <1>2
      <2> QED
        BY <1>3, <2>1, Zenon
    <1> DEFINE b == BytesOf(c)
    <1>5. \A i \in 0 .. N : b[i] = IF i = 0 THEN 0 ELSE b[i - 1] + LengthOf(c[i])
      BY <1>4
    <1>6. b[0] = 0 /\ \A i \in 1 .. N : b[i] = b[i - 1] + LengthOf(c[i])
      BY <1>0, <1>5
    <1>d. DOMAIN b = 0 .. N
      BY <1>4
    <1>e. b = [n \in DOMAIN b |-> b[n]]
      BY <1>4
    <1> HIDE DEF b, P
    <1> DEFINE T == {k \in Nat : k > N \/ b[k] \in Nat}
    <1>7. 0 \in T
      BY <1>6
    <1>8. ASSUME NEW k \in T PROVE k + 1 \in T
      <2>1. CASE k + 1 > N
        BY <2>1
      <2>2. CASE k + 1 <= N
        <3>1. k + 1 \in 1 .. N /\ c[k + 1] \in Encodings
          BY <1>0, <2>2
        <3>2. LengthOf(c[k + 1]) \in Nat
          BY <3>1, LengthIsPositive
        <3>3. b[k] \in Nat
          BY <1>0, <2>2
        <3>4. b[k + 1] = b[k] + LengthOf(c[k + 1])
          BY <1>6, <3>1
        <3> QED
          BY <3>2, <3>3, <3>4
      <2> QED
        BY <1>0, <2>1, <2>2
    <1>9. T = Nat
      <2> HIDE DEF T
      <2>1. T \subseteq Nat
        BY DEF T
      <2> QED
        BY <1>7, <1>8, <2>1, SetInduction
    <1>10. \A i \in 0 .. N : b[i] \in Nat
      BY <1>0, <1>9
    <1>11. b \in [0 .. N -> Nat]
      BY <1>10, <1>d, <1>e
    <1> QED
      BY <1>6, <1>11 DEF Places, b

\* Instructions start one behind the other, so no two at the same byte.
LEMMA BytesIncrease ==
    ASSUME NEW c \in Seq(Encodings), NEW i \in 0 .. Len(c), NEW j \in 0 .. Len(c), i < j
    PROVE  BytesOf(c)[i] < BytesOf(c)[j]
    <1> DEFINE b == BytesOf(c)
               T == {k \in Nat : \A m, n \in 0 .. Len(c) : n = m + k + 1 => b[m] < b[n]}
    <1>0. Places(c, b, Len(c)) /\ Len(c) \in Nat
      BY BytesPlaces
    <1>1. ASSUME NEW n \in 1 .. Len(c) PROVE b[n - 1] \in Nat /\ b[n] \in Nat /\ b[n - 1] < b[n]
      <2>1. c[n] \in Encodings /\ n - 1 \in 0 .. Len(c) /\ n \in 0 .. Len(c)
        OBVIOUS
      <2>2. LengthOf(c[n]) \in Nat \ {0}
        BY <2>1, LengthIsPositive
      <2>3. b[n] = b[n - 1] + LengthOf(c[n]) /\ b[n - 1] \in Nat
        BY <1>0, <2>1 DEF Places
      <2> QED
        BY <2>2, <2>3
    <1> HIDE DEF b
    <1>2. 0 \in T
      BY <1>0, <1>1
    <1>3. ASSUME NEW k \in T PROVE k + 1 \in T
      <2> SUFFICES ASSUME NEW m \in 0 .. Len(c), NEW n \in 0 .. Len(c), n = m + (k + 1) + 1
                   PROVE  b[m] < b[n]
        OBVIOUS
      <2>1. n \in 1 .. Len(c) /\ n - 1 \in 0 .. Len(c) /\ n - 1 = m + k + 1
        BY <1>0
      <2>2. b[m] < b[n - 1]
        BY <2>1
      <2>3. b[n - 1] < b[n] /\ b[n - 1] \in Nat /\ b[n] \in Nat
        BY <1>1, <2>1
      <2>4. b[m] \in Nat
        BY <1>0 DEF Places
      <2> QED
        BY <2>2, <2>3, <2>4
    <1>4. T = Nat
      <2> HIDE DEF T
      <2>1. T \subseteq Nat
        BY DEF T
      <2> QED
        BY <1>2, <1>3, <2>1, SetInduction
    <1> DEFINE k == j - i - 1
    <1>5. k \in Nat /\ j = i + k + 1
      BY <1>0
    <1>6. k \in T
      BY <1>4, <1>5
    <1> QED
      BY <1>5, <1>6 DEF b

-----------------------------------------------------------------------------
(* The inductive invariant *)

\* Whatever decodeInstruction accepts.
Insts == {decodeInstruction(e) : e \in Encodings} \ {Error}

\* Types.
Typed ==
    /\ page \in Pages
    /\ status \in {"idle", "decoding", "block", "error", "lost"}
    /\ code \in Seq(Encodings)
    /\ cursor \in Nat /\ window \in Nat /\ limit \in Nat
    /\ result \in Seq(Insts) /\ source \in Seq(Insts)

\* decodeBlock never reads behind the window, nor the window behind the program.
Windowed ==
    /\ cursor <= window
    /\ window <= BytesOf(code)[Len(code)]
    /\ status = "idle" => Len(result) = 0 /\ cursor = 0 /\ Len(source) = 0

\* As long as nothing has derailed the decoder, its nth instruction is the program's.
InStep ==
    /\ \A n \in DOMAIN result :
          ~Derailed(n - 1) => n \in DOMAIN code /\ result[n] = decodeInstruction(code[n])
    /\ ~Derailed(Len(result)) => Len(result) <= Len(code) /\ cursor = BytesOf(code)[Len(result)]
    /\ status = "lost" => Derailed(Len(result))

\* Where a block ends: no control transfer but the last, and within the limit.
Ends ==
    /\ \A n \in DOMAIN result : terminatesBlock(result[n]) => n = Len(result) /\ status = "block"
    /\ Len(result) <= limit
    /\ status = "decoding" => Len(result) < limit
    /\ status = "block" => /\ Len(result) > 0
                           /\ Len(result) = limit \/ terminatesBlock(result[Len(result)])

\* The places p at which the decoder found the instructions s of a block.
Along(s, p) ==
    /\ p \in [0 .. Len(s) -> Nat]
    /\ p[0] = 0
    /\ \A n \in 1 .. Len(s) :
          /\ p[n] = p[n - 1] + s[n].len
          /\ \E m \in DOMAIN code : BytesOf(code)[m - 1] = p[n - 1] /\ s[n] = decodeInstruction(code[m])
    /\ \A n \in 0 .. Len(s) : p[n] <= p[Len(s)]

\* The first pass has walked along the places of its result up to the cursor.
FirstPass == Len(source) = 0 => \E p : Along(result, p) /\ p[Len(result)] = cursor

\* The second pass walks along the places of the first one.
Retraces(p) ==
    /\ Along(source, p)
    /\ p[Len(source)] = window
    /\ p[Len(result)] = cursor
\* It gives the instructions of the first one, and ends with them.
SecondPass ==
    Len(source) > 0 =>
        /\ \E p : Retraces(p)
        /\ Len(result) <= Len(source)
        /\ \A n \in 1 .. Len(result) : result[n] = source[n]
        /\ \/ status = "decoding" /\ Len(result) < Len(source)
           \/ status = "block" /\ Len(result) = Len(source)
        /\ \A n \in 1 .. Len(source) : terminatesBlock(source[n]) => n = Len(source)
        /\ Len(source) = limit \/ terminatesBlock(source[Len(source)])
        /\ Len(source) <= limit

\* Together with InStep, the two passes make the invariant inductive.
IndInv == Typed /\ Windowed /\ InStep /\ Ends /\ FirstPass /\ SecondPass

\* An instruction in a block has a length the architecture allows.
LEMMA InstFacts ==
    ASSUME NEW d \in Insts
    PROVE  d # Error /\ d.len \in 1 .. 15
    BY InstructionsAreShort DEF Insts

\* A step that stays in the window started before its end.
LEMMA Advance ==
    ASSUME NEW a \in Nat, NEW b \in Nat, NEW l \in 1 .. 15, a + l <= b
    PROVE  a < b /\ a + l \in Nat
    OBVIOUS

\* A step goes forward.
LEMMA Beyond ==
    ASSUME NEW a \in Nat, NEW l \in 1 .. 15
    PROVE  a + l \in Nat /\ a <= a + l
    OBVIOUS

\* The places of a program, taken apart.
LEMMA BytesTyped ==
    ASSUME NEW c \in Seq(Encodings)
    PROVE  /\ BytesOf(c)[0] = 0
           /\ \A i \in 0 .. Len(c) : BytesOf(c)[i] \in Nat
           /\ \A i \in 1 .. Len(c) : BytesOf(c)[i] = BytesOf(c)[i - 1] + LengthOf(c[i])
    BY BytesPlaces DEF Places

\* Once derailed, the decoder stays so.
LEMMA DerailedGrows ==
    ASSUME NEW i \in Nat, NEW j \in Nat, i <= j, code \in Seq(Encodings), Derailed(i)
    PROVE  Derailed(j)
    BY DEF Derailed

\* The invariant holds initially.
LEMMA InitInv == Init => IndInv
    <1> SUFFICES ASSUME Init PROVE IndInv
      OBVIOUS
    <1>1. Len(code) = 0 /\ Len(result) = 0 /\ Len(source) = 0
      BY DEF Init
    <1>2. code \in Seq(Encodings) /\ result \in Seq(Insts) /\ source \in Seq(Insts)
      BY DEF Init
    <1>3. cursor = 0 /\ window = 0 /\ limit = 0 /\ status = "idle" /\ page \in Pages
      BY DEF Init
    <1>4. DOMAIN result = {}
      BY <1>1, <1>2
    <1>5. BytesOf(code)[0] = 0
      BY <1>2, BytesTyped
    <1>6. Typed
      BY <1>2, <1>3 DEF Typed
    <1>7. Windowed
      BY <1>1, <1>3, <1>5 DEF Windowed
    <1>8. InStep
      BY <1>1, <1>3, <1>4, <1>5 DEF InStep
    <1>9. Ends
      BY <1>1, <1>3, <1>4 DEF Ends
    <1>10. FirstPass
      <2> DEFINE p == [i \in 0 .. 0 |-> 0]
      <2>1. p \in [0 .. Len(result) -> Nat] /\ p[0] = 0 /\ p[Len(result)] = 0
        BY <1>1
      <2>2. Along(result, p)
        BY <1>1, <2>1 DEF Along
      <2> QED
        BY <1>3, <2>1, <2>2 DEF FirstPass
    <1>11. SecondPass
      BY <1>1 DEF SecondPass
    <1> QED
      BY <1>6, <1>7, <1>8, <1>9, <1>10, <1>11 DEF IndInv

\* Translate starts at the first byte of a program whose window ends inside it.
LEMMA TranslateInv ==
    ASSUME IndInv, Translate
    PROVE  IndInv'
    <1>0. status = "idle" /\ status' = "decoding"
          /\ page' = page /\ cursor' = cursor /\ result' = result /\ source' = source
      BY DEF Translate
    <1>1. PICK q \in ProgramsOn(page) : code' = q.code /\ limit' = q.limit
                                        /\ window' = BytesOf(q.code)[Len(q.code)] - q.cut
      BY DEF Translate
    <1>2. /\ page \in Pages /\ result \in Seq(Insts) /\ source \in Seq(Insts)
          /\ Len(result) = 0 /\ cursor = 0 /\ Len(source) = 0
      BY <1>0 DEF IndInv, Typed, Windowed
    <1>3. /\ q.code \in Seq(Encodings)
          /\ q.cut \in 0 .. BytesOf(q.code)[Len(q.code)]
          /\ q.limit \in Nat \ {0}
      BY <1>1, <1>2, ProgramsAssumption
    <1>4. code' \in Seq(Encodings) /\ limit' \in Nat \ {0}
      BY <1>1, <1>3
    <1>5. BytesOf(q.code)[Len(q.code)] \in Nat /\ BytesOf(code')[0] = 0
      BY <1>1, <1>3, BytesTyped
    <1>6. window' \in Nat /\ window' <= BytesOf(code')[Len(code')]
      BY <1>1, <1>3, <1>5
    <1>7. DOMAIN result = {}
      BY <1>2
    <1>8. Typed'
      BY <1>0, <1>2, <1>4, <1>6 DEF Typed
    <1>9. Windowed'
      BY <1>0, <1>2, <1>6 DEF Windowed
    <1>10. InStep'
      BY <1>0, <1>2, <1>4, <1>5, <1>7 DEF InStep
    <1>11. Ends'
      BY <1>0, <1>2, <1>4, <1>7 DEF Ends
    <1>12. FirstPass'
      <2> DEFINE p == [i \in 0 .. 0 |-> 0]
      <2>1. p \in [0 .. Len(result) -> Nat] /\ p[0] = 0 /\ p[Len(result)] = 0
        BY <1>2
      <2>2. Along(result, p)'
        BY <1>0, <1>2, <2>1 DEF Along
      <2>3. (p[Len(result)] = cursor)'
        BY <1>0, <1>2, <2>1
      <2> QED
        BY <2>2, <2>3 DEF FirstPass
    <1>13. SecondPass'
      BY <1>0, <1>2 DEF SecondPass
    <1> QED
      BY <1>8, <1>9, <1>10, <1>11, <1>12, <1>13 DEF IndInv

\* In step, the only instruction that starts at the cursor is the program's next one.
LEMMA StartIsNext ==
    ASSUME Typed, InStep, ~Derailed(Len(result)), NEW n \in Starts
    PROVE  n = Len(result) + 1
    <1>1. code \in Seq(Encodings) /\ Len(code) \in Nat /\ Len(result) \in Nat /\ DOMAIN code = 1 .. Len(code)
      BY DEF Typed
    <1>2. Len(result) <= Len(code) /\ cursor = BytesOf(code)[Len(result)]
      BY DEF InStep
    <1>3. n \in 1 .. Len(code) /\ BytesOf(code)[n - 1] = cursor
      BY <1>1 DEF Starts
    <1>4. n - 1 \in 0 .. Len(code) /\ Len(result) \in 0 .. Len(code)
      BY <1>1, <1>2, <1>3
    <1>5. \A i, j \in 0 .. Len(code) : i < j => BytesOf(code)[i] < BytesOf(code)[j]
      BY <1>1, BytesIncrease
    <1>6. cursor \in Nat
      BY DEF Typed
    <1>7. ~(n - 1 < Len(result)) /\ ~(Len(result) < n - 1)
      BY <1>2, <1>3, <1>4, <1>5, <1>6
    <1> QED
      BY <1>1, <1>3, <1>7

\* LoseStep needs a cursor inside an instruction: the decoder is derailed, and not on its second
\* pass.
LEMMA LoseStepInv ==
    ASSUME IndInv, LoseStep
    PROVE  IndInv'
    <1>0. status = "decoding" /\ cursor < window /\ Starts = {} /\ status' = "lost"
          /\ page' = page /\ code' = code /\ window' = window /\ limit' = limit
          /\ cursor' = cursor /\ result' = result /\ source' = source
      BY DEF LoseStep
    <1>1. Typed /\ Windowed /\ InStep /\ Ends /\ FirstPass /\ SecondPass
      BY DEF IndInv
    <1>2. /\ code \in Seq(Encodings) /\ cursor \in Nat /\ window \in Nat
          /\ result \in Seq(Insts) /\ source \in Seq(Insts)
      BY <1>1 DEF Typed
    <1>3. DOMAIN code = 1 .. Len(code) /\ Len(code) \in Nat /\ Len(result) \in Nat /\ Len(source) \in Nat
      BY <1>2
    <1>4. Derailed(Len(result))
      <2> SUFFICES ASSUME ~Derailed(Len(result)) PROVE FALSE
        OBVIOUS
      <2>1. Len(result) <= Len(code) /\ cursor = BytesOf(code)[Len(result)]
        BY <1>1 DEF InStep
      <2>2. BytesOf(code)[Len(code)] \in Nat /\ window <= BytesOf(code)[Len(code)]
        BY <1>1, <1>2, <1>3, BytesTyped DEF Windowed
      <2>3. Len(result) # Len(code)
        BY <1>0, <1>2, <2>1, <2>2
      <2>4. Len(result) + 1 \in DOMAIN code /\ (Len(result) + 1) - 1 = Len(result)
        BY <1>3, <2>1, <2>3
      <2>5. Len(result) + 1 \in Starts
        BY <2>1, <2>4 DEF Starts
      <2> QED
        BY <1>0, <2>5
    <1>5. Len(source) = 0
      <2> SUFFICES ASSUME Len(source) # 0 PROVE FALSE
        OBVIOUS
      <2>1. Len(source) > 0
        BY <1>3
      <2>2. PICK p : Retraces(p)
        BY <1>1, <2>1 DEF SecondPass
      <2>3. Len(result) < Len(source)
        BY <1>0, <1>1, <2>1 DEF SecondPass
      <2>4. Len(result) + 1 \in 1 .. Len(source) /\ (Len(result) + 1) - 1 = Len(result)
        BY <1>3, <2>3
      <2>5. PICK m \in DOMAIN code : BytesOf(code)[m - 1] = p[Len(result)]
        BY <2>2, <2>4 DEF Retraces, Along
      <2>6. m \in Starts
        BY <2>2, <2>5 DEF Starts, Retraces
      <2> QED
        BY <1>0, <2>6
    <1>6. Typed'
      BY <1>0, <1>1 DEF Typed
    <1>7. Windowed'
      BY <1>0, <1>1 DEF Windowed
    <1>8. InStep'
      BY <1>0, <1>1, <1>4 DEF InStep, Derailed
    <1>9. Ends'
      BY <1>0, <1>1 DEF Ends
    <1>10. FirstPass'
      BY <1>0, <1>1 DEF FirstPass, Along
    <1>11. SecondPass'
      BY <1>0, <1>5 DEF SecondPass
    <1> QED
      BY <1>6, <1>7, <1>8, <1>9, <1>10, <1>11 DEF IndInv

\* RunOut cannot happen on the second pass: the saved bytes do not end before the block does.
LEMMA RunOutInv ==
    ASSUME IndInv, RunOut
    PROVE  IndInv'
    <1>0. status = "decoding" /\ cursor >= window /\ status' = "error"
          /\ page' = page /\ code' = code /\ window' = window /\ limit' = limit
          /\ cursor' = cursor /\ result' = result /\ source' = source
      BY DEF RunOut
    <1>1. Typed /\ Windowed /\ InStep /\ Ends /\ FirstPass /\ SecondPass
      BY DEF IndInv
    <1>2. cursor \in Nat /\ window \in Nat /\ result \in Seq(Insts) /\ source \in Seq(Insts)
      BY <1>1 DEF Typed
    <1>3. Len(result) \in Nat /\ Len(source) \in Nat
      BY <1>2
    <1>5. Len(source) = 0
      <2> SUFFICES ASSUME Len(source) # 0 PROVE FALSE
        OBVIOUS
      <2>1. Len(source) > 0
        BY <1>3
      <2>2. PICK p : Retraces(p)
        BY <1>1, <2>1 DEF SecondPass
      <2>3. Len(result) < Len(source)
        BY <1>0, <1>1, <2>1 DEF SecondPass
      <2>4. Len(result) + 1 \in 1 .. Len(source) /\ (Len(result) + 1) - 1 = Len(result)
        BY <1>3, <2>3
      <2>5. source[Len(result) + 1].len \in 1 .. 15
        BY <1>2, <2>4, InstFacts
      <2>6. p[Len(result) + 1] = p[Len(result)] + source[Len(result) + 1].len
        BY <2>2, <2>4 DEF Retraces, Along
      <2>7. p[Len(result) + 1] <= window /\ p[Len(result)] = cursor
        BY <2>2, <2>4 DEF Retraces, Along
      <2>8. cursor + source[Len(result) + 1].len <= window
        BY <2>6, <2>7
      <2>9. cursor < window
        BY <1>2, <2>5, <2>8, Advance
      <2>10. cursor \in Nat /\ window \in Nat /\ cursor >= window
        BY <1>0, <1>2
      <2> QED
        BY <2>9, <2>10
    <1>6. Typed'
      BY <1>0, <1>1 DEF Typed
    <1>7. Windowed'
      BY <1>0, <1>1 DEF Windowed
    <1>8. InStep'
      BY <1>0, <1>1 DEF InStep, Derailed
    <1>9. Ends'
      BY <1>0, <1>1 DEF Ends
    <1>10. FirstPass'
      BY <1>0, <1>1 DEF FirstPass, Along
    <1>11. SecondPass'
      BY <1>0, <1>5 DEF SecondPass
    <1> QED
      BY <1>6, <1>7, <1>8, <1>9, <1>10, <1>11 DEF IndInv

\* Reconstruct starts the second pass on the places of the first one.
LEMMA ReconstructInv ==
    ASSUME IndInv, Reconstruct
    PROVE  IndInv'
    <1>0. status = "block" /\ source' = result /\ window' = cursor /\ cursor' = 0 /\ status' = "decoding"
          /\ page' = page /\ code' = code /\ limit' = limit
      BY DEF Reconstruct
    <1>s. Len(source) = 0 /\ Len(result') = 0 /\ result' \in Seq(Insts)
      BY DEF Reconstruct
    <1>1. Typed /\ Windowed /\ InStep /\ Ends /\ FirstPass /\ SecondPass
      BY DEF IndInv
    <1>2. /\ code \in Seq(Encodings) /\ cursor \in Nat /\ window \in Nat /\ limit \in Nat
          /\ result \in Seq(Insts)
      BY <1>1 DEF Typed
    <1>3. Len(result) \in Nat /\ Len(code) \in Nat /\ DOMAIN result = 1 .. Len(result) /\ DOMAIN result' = {}
      BY <1>2, <1>s
    <1>4. BytesOf(code)[0] = 0 /\ BytesOf(code)[Len(code)] \in Nat
      BY <1>2, <1>3, BytesTyped
    <1>5. Len(result) > 0 /\ (Len(result) = limit \/ terminatesBlock(result[Len(result)]))
          /\ Len(result) <= limit
          /\ \A n \in DOMAIN result : terminatesBlock(result[n]) => n = Len(result)
      BY <1>0, <1>1 DEF Ends
    <1>6. Typed'
      BY <1>0, <1>1, <1>2, <1>s DEF Typed
    <1>7. Windowed'
      BY <1>0, <1>1, <1>2, <1>4 DEF Windowed
    <1>8. InStep'
      BY <1>0, <1>3, <1>4, <1>s DEF InStep
    <1>9. Ends'
      <2>a. Len(result) > 0 /\ Len(result) <= limit
        BY <1>5
      <2>b. Len(result) \in Nat /\ limit \in Nat
        BY <1>2, <1>3
      <2>0. limit > 0
        BY <2>a, <2>b
      <2>1. Len(result') < limit' /\ Len(result') <= limit'
        BY <1>0, <1>2, <1>s, <2>0
      <2> QED
        BY <1>0, <1>3, <2>1 DEF Ends
    <1>10. FirstPass'
      BY <1>0, <1>5 DEF FirstPass
    <1>11. SecondPass'
      <2>1. PICK p : Along(result, p) /\ p[Len(result)] = cursor
        BY <1>1, <1>s DEF FirstPass
      <2>2. Along(source, p)'
        BY <1>0, <2>1 DEF Along
      <2>3. p[Len(source')] = window' /\ p[Len(result')] = cursor'
        BY <1>0, <1>s, <2>1 DEF Along
      <2>4. Retraces(p)'
        BY <2>2, <2>3 DEF Retraces
      <2>5. \E r : Retraces(r)'
        BY <2>4
      <2>6. (\A n \in 1 .. Len(result) : result[n] = source[n])'
        BY <1>s
      <2>7. Len(result') <= Len(source') /\ Len(result') < Len(source') /\ Len(source') <= limit'
        BY <1>0, <1>3, <1>5, <1>s
      <2>8. (\A n \in 1 .. Len(source) : terminatesBlock(source[n]) => n = Len(source))'
        BY <1>0, <1>3, <1>5
      <2>9. (Len(source) = limit \/ terminatesBlock(source[Len(source)]))'
        BY <1>0, <1>5
      <2> QED
        BY <1>0, <2>5, <2>6, <2>7, <2>8, <2>9 DEF SecondPass
    <1> QED
      BY <1>6, <1>7, <1>8, <1>9, <1>10, <1>11 DEF IndInv

\* DecodeNext keeps in step with the program and, on the second pass, with the first one.
LEMMA DecodeNextInv ==
    ASSUME IndInv, DecodeNext
    PROVE  IndInv'
    <1>0. status = "decoding" /\ cursor < window
          /\ page' = page /\ code' = code /\ window' = window /\ limit' = limit /\ source' = source
      BY DEF DecodeNext
    <1>1. Typed /\ Windowed /\ InStep /\ Ends /\ FirstPass /\ SecondPass
      BY DEF IndInv
    <1>2. /\ code \in Seq(Encodings) /\ cursor \in Nat /\ window \in Nat /\ limit \in Nat
          /\ result \in Seq(Insts) /\ source \in Seq(Insts)
      BY <1>1 DEF Typed
    <1>3. /\ DOMAIN code = 1 .. Len(code) /\ Len(code) \in Nat
          /\ DOMAIN result = 1 .. Len(result) /\ Len(result) \in Nat /\ Len(source) \in Nat
      BY <1>2
    <1> DEFINE L == Len(result)
               Fails(d) == d = Error \/ cursor + d.len > window
               Taking(d) == /\ cursor' = cursor + d.len
                            /\ result' = Append(result, d)
                            /\ status' = IF terminatesBlock(d) \/ Len(result') = limit
                                         THEN "block" ELSE "decoding"
    <1>4. PICK n \in Starts :
              IF Fails(decodeInstruction(code[n]))
              THEN status' = "error" /\ UNCHANGED <<cursor, result>>
              ELSE Taking(decodeInstruction(code[n]))
      BY DEF DecodeNext
    <1> DEFINE d == decodeInstruction(code[n])
    <1>5. n \in 1 .. Len(code) /\ n \in DOMAIN code /\ BytesOf(code)[n - 1] = cursor /\ code[n] \in Encodings
      BY <1>2, <1>3 DEF Starts
    \* In the second pass the instruction found is the next of the first one.
    <1>6. ASSUME Len(source) > 0
          PROVE  /\ L < Len(source) /\ L + 1 \in 1 .. Len(source)
                 /\ d = source[L + 1]
                 /\ \E p : Retraces(p) /\ p[L + 1] = cursor + d.len /\ p[L + 1] <= window
                 /\ ~Fails(d)
      <2>1. PICK p : Retraces(p)
        BY <1>1, <1>6 DEF SecondPass
      <2>2. L < Len(source)
        BY <1>0, <1>1, <1>6 DEF SecondPass
      <2>3. L + 1 \in 1 .. Len(source) /\ (L + 1) - 1 = L
        BY <1>3, <2>2
      <2>4. PICK m \in DOMAIN code : BytesOf(code)[m - 1] = p[L] /\ source[L + 1] = decodeInstruction(code[m])
        BY <2>1, <2>3 DEF Retraces, Along
      <2>5. p[L] = cursor /\ p[L + 1] = p[L] + source[L + 1].len /\ p[L + 1] <= window
        BY <2>1, <2>3 DEF Retraces, Along
      <2>6. m = n
        <3>1. m - 1 \in 0 .. Len(code) /\ n - 1 \in 0 .. Len(code) /\ m \in Nat /\ n \in Nat
          BY <1>3, <1>5
        <3>2. \A i, j \in 0 .. Len(code) : i < j => BytesOf(code)[i] < BytesOf(code)[j]
          BY <1>2, BytesIncrease
        <3>3. BytesOf(code)[m - 1] = BytesOf(code)[n - 1] /\ BytesOf(code)[n - 1] \in Nat
          BY <1>2, <1>5, <2>4, <2>5
        <3>4. ~(m - 1 < n - 1) /\ ~(n - 1 < m - 1)
          BY <3>1, <3>2, <3>3
        <3> QED
          BY <3>1, <3>4
      <2>7. d = source[L + 1]
        BY <2>4, <2>6
      <2>8. source[L + 1] \in Insts
        BY <1>2, <2>3
      <2>9. d # Error
        BY <2>7, <2>8, InstFacts
      <2>10. cursor + d.len <= window /\ p[L + 1] = cursor + d.len
        BY <2>5, <2>7
      <2>11. d.len \in Nat
        BY <2>7, <2>8, InstFacts
      <2>12. ~Fails(d)
        <3> HIDE DEF d
        <3> QED
          BY <1>2, <2>9, <2>10, <2>11
      <2> QED
        BY <2>1, <2>2, <2>3, <2>5, <2>7, <2>10, <2>12
    <1>7. CASE Fails(d)
      <2>1. status' = "error" /\ cursor' = cursor /\ result' = result
        BY <1>4, <1>7
      <2>2. Len(source) = 0
        BY <1>3, <1>6, <1>7
      <2>3. Typed'
        BY <1>0, <1>1, <2>1 DEF Typed
      <2>4. Windowed'
        BY <1>0, <1>1, <2>1 DEF Windowed
      <2>5. InStep'
        BY <1>0, <1>1, <2>1 DEF InStep, Derailed
      <2>6. Ends'
        BY <1>0, <1>1, <2>1 DEF Ends
      <2>7. FirstPass'
        BY <1>0, <1>1, <2>1 DEF FirstPass, Along
      <2>8. SecondPass'
        BY <1>0, <2>2 DEF SecondPass
      <2> QED
        BY <2>3, <2>4, <2>5, <2>6, <2>7, <2>8 DEF IndInv
    <1>8. CASE ~Fails(d)
      <2>1. /\ cursor' = cursor + d.len
            /\ result' = Append(result, d)
            /\ status' = IF terminatesBlock(d) \/ Len(result') = limit THEN "block" ELSE "decoding"
        BY <1>4, <1>8
      <2>2. d # Error /\ d \in Insts
        BY <1>5, <1>8 DEF Insts
      <2>3. d.len \in 1 .. 15
        BY <2>2, InstFacts
      <2>d. d = decodeInstruction(code[n])
        OBVIOUS
      <2>w. ~(cursor + d.len > window)
        BY <1>8
      <2> HIDE DEF d
      <2>4. cursor' \in Nat /\ cursor' <= window
        <3>1. cursor' = cursor + d.len
          BY <2>1
        <3>2. cursor \in Nat /\ window \in Nat
          BY <1>2
        <3> QED
          BY <2>3, <2>w, <3>1, <3>2
      <2>5. /\ result' \in Seq(Insts) /\ Len(result') = L + 1 /\ DOMAIN result' = 1 .. L + 1
            /\ result'[L + 1] = d
            /\ \A i \in 1 .. L : result'[i] = result[i]
        BY <1>2, <1>3, <2>1, <2>2
      <2>6. status' \in {"block", "decoding"}
        BY <2>1
      <2>7. L < limit /\ \A i \in DOMAIN result : ~terminatesBlock(result[i])
        BY <1>0, <1>1 DEF Ends
      <2>8. Typed'
        BY <1>0, <1>1, <2>4, <2>5, <2>6 DEF Typed
      <2>9. Windowed'
        BY <1>0, <1>1, <2>4, <2>6 DEF Windowed
      <2>10. InStep'
        <3>1. ~Derailed(L) => n = L + 1
          BY <1>1, StartIsNext
        <3>2. \A i : Derailed(i)' <=> Derailed(i)
          BY <1>0 DEF Derailed
        <3>3. ASSUME NEW i \in 1 .. L + 1, ~Derailed(i - 1)
              PROVE  i \in DOMAIN code /\ result'[i] = decodeInstruction(code[i])
          <4>1. CASE i = L + 1
            <5>1. n = L + 1
              BY <1>3, <3>1, <3>3, <4>1
            <5> QED
              BY <1>5, <2>5, <2>d, <4>1, <5>1
          <4>2. CASE i # L + 1
            <5>1. i \in 1 .. L
              BY <1>3, <4>2
            <5>2. i \in DOMAIN code /\ result[i] = decodeInstruction(code[i])
              BY <1>1, <1>3, <3>3, <5>1 DEF InStep
            <5> QED
              BY <2>5, <5>1, <5>2
          <4> QED
            BY <4>1, <4>2
        <3>4. ASSUME ~Derailed(L + 1)
              PROVE  L + 1 <= Len(code) /\ cursor' = BytesOf(code)[L + 1]
          <4>1. ~Derailed(L)
            BY <1>2, <1>3, <3>4, DerailedGrows
          <4>2. n = L + 1
            BY <3>1, <4>1
          <4>3. ~Derails(code[n])
            BY <1>3, <1>5, <3>4, <4>2 DEF Derailed
          <4>4. d.len = LengthOf(code[n])
            BY <1>5, <2>2, <2>d, <4>3, LengthsAreArchitectural
          <4>5. BytesOf(code)[n] = BytesOf(code)[n - 1] + LengthOf(code[n])
            BY <1>2, <1>5, BytesTyped
          <4>6. cursor' = BytesOf(code)[n]
            BY <1>5, <2>1, <4>4, <4>5
          <4>7. n <= Len(code)
            BY <1>3, <1>5
          <4> QED
            BY <4>2, <4>6, <4>7
        <3>5. (\A i \in DOMAIN result :
                  ~Derailed(i - 1) => i \in DOMAIN code /\ result[i] = decodeInstruction(code[i]))'
          BY <1>0, <2>5, <3>2, <3>3
        <3>6. (~Derailed(Len(result)) => Len(result) <= Len(code) /\ cursor = BytesOf(code)[Len(result)])'
          BY <1>0, <2>5, <3>2, <3>4
        <3> QED
          BY <2>6, <3>5, <3>6 DEF InStep
      <2>11. Ends'
        <3>1. ASSUME NEW i \in DOMAIN result', terminatesBlock(result'[i])
              PROVE  i = Len(result') /\ status' = "block"
          <4>1. i = L + 1
            BY <1>3, <2>5, <2>7, <3>1
          <4>2. terminatesBlock(d)
            BY <2>5, <3>1, <4>1
          <4> QED
            BY <2>1, <2>5, <4>1, <4>2
        <3>2. Len(result') <= limit'
          BY <1>0, <1>2, <1>3, <2>5, <2>7
        <3>3. status' = "decoding" => Len(result') < limit'
          <4>1. status' = "decoding" => Len(result') # limit
            BY <2>1
          <4> QED
            BY <1>0, <1>2, <1>3, <2>5, <3>2, <4>1
        <3>4. status' = "block" => Len(result') = limit' \/ terminatesBlock(result'[Len(result')])
          BY <1>0, <2>1, <2>5
        <3>5. Len(result') > 0
          BY <1>3, <2>5
        <3> QED
          BY <3>1, <3>2, <3>3, <3>4, <3>5 DEF Ends
      <2>12. FirstPass'
        <3> SUFFICES ASSUME Len(source) = 0
                     PROVE  \E p : Along(result, p)' /\ p[Len(result')] = cursor'
          BY <1>0 DEF FirstPass
        <3>1. PICK p : Along(result, p) /\ p[L] = cursor
          BY <1>1 DEF FirstPass
        <3> DEFINE x == cursor + d.len
        <3>q. PICK q : q = [i \in 0 .. L + 1 |-> IF i = L + 1 THEN x ELSE p[i]]
          OBVIOUS
        <3>2. p \in [0 .. L -> Nat] /\ p[0] = 0 /\ \A i \in 0 .. L : p[i] <= cursor
          BY <3>1 DEF Along
        <3>x. x \in Nat /\ cursor \in Nat /\ cursor <= x /\ x = cursor + d.len
          BY <1>2, <2>3, Beyond
        <3> HIDE DEF x
        <3>l. L \in Nat /\ L + 1 \in 0 .. L + 1 /\ 0 # L + 1
          BY <1>3
        <3>3. q \in [0 .. L + 1 -> Nat] /\ q[0] = 0 /\ q[L + 1] = x
          BY <3>2, <3>l, <3>q, <3>x
        <3>4. \A i \in 0 .. L : q[i] = p[i]
          BY <3>l, <3>q
        <3>5. ASSUME NEW i \in 1 .. L + 1
              PROVE  /\ q[i] = q[i - 1] + result'[i].len
                     /\ \E m \in DOMAIN code : BytesOf(code)[m - 1] = q[i - 1] /\ result'[i] = decodeInstruction(code[m])
          <4>1. CASE i = L + 1
            <5>0. i - 1 = L /\ L \in 0 .. L
              BY <3>l, <4>1
            <5>1. q[i - 1] = cursor
              BY <3>1, <3>4, <5>0
            <5>2. result'[i] = d
              BY <2>5, <4>1
            <5> QED
              BY <1>5, <2>d, <3>3, <3>x, <4>1, <5>1, <5>2
          <4>2. CASE i # L + 1
            <5>1. i \in 1 .. L /\ i \in 0 .. L /\ i - 1 \in 0 .. L
              BY <1>3, <4>2
            <5>2. q[i] = p[i] /\ q[i - 1] = p[i - 1] /\ result'[i] = result[i]
              BY <2>5, <3>4, <5>1
            <5> QED
              BY <3>1, <5>1, <5>2 DEF Along
          <4> QED
            BY <4>1, <4>2
        <3>6. ASSUME NEW i \in 0 .. L + 1 PROVE q[i] <= q[L + 1]
          <4>1. CASE i = L + 1
            BY <3>3, <3>x, <4>1
          <4>2. CASE i # L + 1
            <5>1. i \in 0 .. L
              BY <1>3, <4>2
            <5>2. q[i] \in Nat /\ q[i] <= cursor
              BY <3>2, <3>4, <5>1
            <5> QED
              BY <3>3, <3>x, <5>2
          <4> QED
            BY <4>1, <4>2
        <3>r. Len(result') = L + 1 /\ code' = code
          BY <1>0, <2>5
        <3>7. Along(result, q)'
          BY <3>3, <3>5, <3>6, <3>r DEF Along
        <3>8. q[Len(result')] = cursor'
          BY <2>1, <3>3, <3>r, <3>x
        <3>9. Along(result, q)' /\ q[Len(result')] = cursor'
          BY <3>7, <3>8
        <3> QED
          BY <3>9, Zenon
      <2>13. SecondPass'
        <3> SUFFICES ASSUME Len(source) > 0
                     PROVE  SecondPass'
          BY <1>0 DEF SecondPass
        <3>1. L < Len(source) /\ L + 1 \in 1 .. Len(source) /\ d = source[L + 1]
          BY <1>6, <2>d
        <3>2. PICK p : Retraces(p) /\ p[L + 1] = cursor + d.len
          BY <1>6, <2>d
        <3>3. Retraces(p)'
          BY <1>0, <2>1, <2>5, <3>2 DEF Retraces, Along
        <3>4. (\E r : Retraces(r))'
          BY <3>3
        <3>5. /\ \A i \in 1 .. L : result[i] = source[i]
              /\ \A i \in 1 .. Len(source) : terminatesBlock(source[i]) => i = Len(source)
              /\ Len(source) = limit \/ terminatesBlock(source[Len(source)])
              /\ Len(source) <= limit
          BY <1>1 DEF SecondPass
        <3>6. \A i \in 1 .. L + 1 : result'[i] = source[i]
          BY <1>3, <2>5, <3>1, <3>5
        <3>7. L + 1 <= Len(source)
          BY <1>3, <3>1
        <3>8. CASE L + 1 = Len(source)
          <4>1. terminatesBlock(d) \/ Len(result') = limit
            BY <2>5, <3>1, <3>5, <3>8
          <4>2. status' = "block"
            BY <2>1, <4>1
          <4> QED
            BY <1>0, <2>5, <3>4, <3>5, <3>6, <3>7, <3>8, <4>2 DEF SecondPass
        <3>9. CASE L + 1 # Len(source)
          <4>1. L + 1 < Len(source)
            BY <1>3, <3>7, <3>9
          <4>2. ~terminatesBlock(d)
            BY <3>1, <3>5, <3>9
          <4>3. Len(result') # limit
            BY <1>2, <1>3, <2>5, <3>5, <4>1
          <4>4. status' = "decoding"
            BY <2>1, <4>2, <4>3
          <4> QED
            BY <1>0, <2>5, <3>4, <3>5, <3>6, <3>7, <4>1, <4>4 DEF SecondPass
        <3> QED
          BY <3>8, <3>9
      <2> QED
        BY <2>8, <2>9, <2>10, <2>11, <2>12, <2>13 DEF IndInv
    <1> QED
      BY <1>7, <1>8

\* The invariant only depends on the variables.
LEMMA StutterInv ==
    ASSUME IndInv, UNCHANGED vars
    PROVE  IndInv'
    <1>1. page' = page /\ code' = code /\ window' = window /\ limit' = limit /\ cursor' = cursor
          /\ result' = result /\ status' = status /\ source' = source
      BY DEF vars
    <1>2. Typed' /\ Windowed' /\ Ends'
      BY <1>1 DEF IndInv, Typed, Windowed, Ends
    <1>3. InStep'
      BY <1>1 DEF IndInv, InStep, Derailed
    <1>4. FirstPass'
      BY <1>1 DEF IndInv, FirstPass, Along
    <1>5. SecondPass'
      BY <1>1 DEF IndInv, SecondPass, Retraces, Along
    <1> QED
      BY <1>2, <1>3, <1>4, <1>5 DEF IndInv

-----------------------------------------------------------------------------
(* The invariants of decodeBlock *)

\* IndInv is an invariant: it holds initially and every action of decodeBlock keeps it.
LEMMA Inductive == Spec => []IndInv
    <1>1. IndInv /\ [Next]_vars => IndInv'
      BY TranslateInv, DecodeNextInv, LoseStepInv, RunOutInv, ReconstructInv, StutterInv DEF Next
    <1> QED
      BY InitInv, <1>1, PTL DEF Spec

(***************************************************************************)
(* decodeBlock's cursor, window and limit are natural numbers, and every   *)
(* instruction of a block has between one and fifteen bytes.               *)
(***************************************************************************)
THEOREM TypeIsInvariant == Spec => []TypeOK
    <1>1. IndInv => TypeOK
      <2> SUFFICES ASSUME IndInv PROVE TypeOK
        OBVIOUS
      <2>1. \A n \in DOMAIN result : result[n] \in Insts
        BY DEF IndInv, Typed
      <2>2. \A n \in DOMAIN result : result[n].len \in 1 .. 15
        BY <2>1, InstFacts
      <2> QED
        BY <2>2 DEF IndInv, Typed, TypeOK
    <1> QED
      BY <1>1, Inductive, PTL

(***************************************************************************)
(* As long as nothing has derailed the decoder, the nth instruction of a   *)
(* block is what the architecture defines for the nth instruction of the   *)
(* program, or a misdecoding known by name; for every program, window and  *)
(* limit.                                                                  *)
(***************************************************************************)
THEOREM BlocksAreArchitectural == Spec => []DecodesAsArchitecture
    <1>1. IndInv => DecodesAsArchitecture
      <2> SUFFICES ASSUME IndInv, NEW n \in DOMAIN result, ~Derailed(n - 1), n \in DOMAIN code => ~KnownMisdecode(code[n])
                   PROVE  AsArchitecture(n)
        BY DEF DecodesAsArchitecture
      <2>1. n \in DOMAIN code /\ result[n] = decodeInstruction(code[n])
        BY DEF IndInv, InStep
      <2>2. code[n] \in Encodings /\ result[n] # Error
        BY <2>1, InstFacts DEF IndInv, Typed
      <2> QED
        BY <2>1, <2>2, InstructionsAreArchitectural DEF AsArchitecture
    <1> QED
      BY <1>1, Inductive, PTL

(***************************************************************************)
(* decodeBlock only ever looks for an instruction inside another one       *)
(* behind an encoding of Derails.                                          *)
(***************************************************************************)
THEOREM DecoderStaysInStep == Spec => []StaysInStep
    <1>1. IndInv => StaysInStep
      BY DEF IndInv, InStep, StaysInStep
    <1> QED
      BY <1>1, Inductive, PTL

(***************************************************************************)
(* A block ends at its first control transfer or at the limit, whichever   *)
(* comes first, and nowhere else.                                          *)
(***************************************************************************)
THEOREM BlocksAreMaximal == Spec => []BlockIsMaximal
    <1>1. IndInv => BlockIsMaximal
      <2> SUFFICES ASSUME IndInv PROVE BlockIsMaximal
        OBVIOUS
      <2>1. ASSUME NEW n \in DOMAIN result, ~Derailed(n - 1)
            PROVE  n \in DOMAIN code /\ (terminatesBlock(result[n]) <=> Transfers(code[n]))
        <3>1. n \in DOMAIN code /\ result[n] = decodeInstruction(code[n])
          BY <2>1 DEF IndInv, InStep
        <3>2. code[n] \in Encodings /\ result[n] # Error
          BY <3>1, InstFacts DEF IndInv, Typed
        <3> QED
          BY <3>1, <3>2, InstructionsAreShort
      <2>2. Ends /\ result \in Seq(Insts)
        BY DEF IndInv, Typed
      <2>3. status = "block" => Len(result) \in DOMAIN result
        BY <2>2 DEF Ends
      <2>4. status = "block" => Len(result) = limit \/ terminatesBlock(result[Len(result)])
        BY <2>2 DEF Ends
      <2>5. \A n \in DOMAIN result : terminatesBlock(result[n]) => n = Len(result) /\ status = "block"
        BY <2>2 DEF Ends
      <2>6. Len(result) <= limit
        BY <2>2 DEF Ends
      <2> QED
        BY <2>1, <2>3, <2>4, <2>5, <2>6 DEF BlockIsMaximal
    <1> QED
      BY <1>1, Inductive, PTL

(***************************************************************************)
(* TranslatedBlock::decoded, which decodes the saved bytes of a block      *)
(* again, never throws and never stops elsewhere: it gives the block       *)
(* again, derailed or not.                                                 *)
(***************************************************************************)
THEOREM BlocksAreReconstructed == Spec => []ReconstructsFromSource
    <1>1. IndInv => ReconstructsFromSource
      <2> SUFFICES ASSUME IndInv, source # <<>>
                   PROVE  status \in {"decoding", "block"} /\ (status = "block" => result = source)
        BY DEF ReconstructsFromSource
      <2>1. source \in Seq(Insts) /\ result \in Seq(Insts)
        BY DEF IndInv, Typed
      <2>2. Len(source) > 0
        BY <2>1
      <2>3. /\ \A n \in 1 .. Len(result) : result[n] = source[n]
            /\ \/ status = "decoding" /\ Len(result) < Len(source)
               \/ status = "block" /\ Len(result) = Len(source)
        BY <2>2 DEF IndInv, SecondPass
      <2>4. Len(result) = Len(source) => result = source
        BY <2>1, <2>3
      <2> QED
        BY <2>3, <2>4
    <1> QED
      BY <1>1, Inductive, PTL
=============================================================================
