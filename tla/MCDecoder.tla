------------------------------ MODULE MCDecoder ------------------------------
(***************************************************************************)
(* Instances of Decoder.  A page is an opcode, its code any one            *)
(* instruction with that opcode: the prefixes that mean something to it,   *)
(* eight REX bytes or none, and the ModRM and SIB forms at which a branch  *)
(* of the decoder may turn.  One more page holds sequences.                *)
(***************************************************************************)
EXTENDS Decoder

Base ==
    [pre |-> {}, pad |-> 0, hasRex |-> FALSE, rex |-> {}, op |-> 0, op2 |-> 0, op3 |-> 0,
     mod |-> 3, reg |-> 0, rm |-> 0, ss |-> 0, index |-> 0, base |-> 0, vl |-> 0, pp |-> 0, v |-> 0]

OneByteModRM ==
    {8 * row + column : row \in 0 .. 7, column \in 0 .. 3}
        \union {\h63, \h69, \h6B} \union (\h80 .. \h8B) \union {\h8D, \hC0, \hC1, \hC6, \hC7}
        \union (\hD0 .. \hD3) \union {\hF6, \hF7, \hFE, \hFF}
OneBytePlain ==
    {8 * row + column : row \in 0 .. 7, column \in 4 .. 5}
        \union (\h50 .. \h5F) \union {\h68, \h6A} \union (\h70 .. \h7F) \union {\h90, \h98}
        \union {\hA4, \hA8, \hA9, \hAA, \hAB} \union (\hB0 .. \hBF)
        \union {\hC3, \hC9, \hE8, \hE9, \hEB, \hFC, \hFD}
TwoByteVector ==
    {\h10, \h11, \h12, \h13, \h14, \h15, \h16, \h28, \h29, \h2A, \h2C, \h2E, \h50, \h51, \h57,
     \h58, \h59, \h5A, \h5C, \h5D, \h5E, \h5F, \h61, \h6C, \h6E, \h6F, \h70, \h72, \h73, \h74,
     \h76, \h7C, \h7E, \h7F, \hC2, \hC4, \hC5, \hC6, \hD4, \hD6, \hD7, \hDB, \hDF, \hE6, \hEB,
     \hEF, \hFD, \hFE}
TwoByteInteger ==
    {\h01, \h1F, \hA3, \hAB, \hA4, \hAC, \hAE, \hAF, \hB0, \hB1, \hB6, \hB7, \hBA, \hBC, \hBD,
     \hBE, \hBF, \hC1, \hC7} \union {\h40, \h41, \h44, \h4A, \h4F, \h90, \h92, \h9A, \h9F}
TwoBytePlain == {\h05, \h31, \hA2} \union (\h80 .. \h8F) \union (\hC8 .. \hCF)
Map38 == {\h00, \h02, \h15, \h17, \h21, \h22, \h25, \h29, \h31}
Map3A == {\h0E, \h0F, \h16, \h17, \h20, \h22}

Groups == {<<\h0F, o>> : o \in {\h01, \h1F, \h72, \h73, \h90, \h92, \h9A, \h9F, \hAE, \hBA, \hC7}}
          \union {<<o, 0>> : o \in {\h80, \h81, \h83, \hC0, \hC1, \hC6, \hC7, \hF6, \hF7, \hFE, \hFF}
                                    \union (\hD0 .. \hD3)}

OpcodePages ==
    {<<o, 0, 0>> : o \in OneByteModRM \union OneBytePlain}
        \union {<<\h0F, o, 0>> : o \in TwoByteVector \union TwoByteInteger \union TwoBytePlain}
        \union {<<\h0F, \h38, o>> : o \in Map38} \union {<<\h0F, \h3A, o>> : o \in Map3A}
        \union {<<\hC4, \h18, 2>>} \union {<<\hC5, o, 0>> : o \in {\h10, \h11, \h28, \h29, \h57, \h77}}

HasModRM(p) ==
    \/ p[1] \in OneByteModRM \union {\hC4}
    \/ p[1] = \hC5 /\ p[2] # \h77
    \/ p[1] = \h0F /\ p[2] \notin TwoBytePlain

RexSets == {{}, {"W"}, {"R"}, {"X"}, {"B"}, {"W", "B"}, {"X", "B"}, {"W", "R", "X", "B"}}

Prefixes(p) ==
    {{}, {"66"}}
        \union (IF p[1] \in {\h89, \h8B, \hC7, \h39, \h3B, \hF6, \h01} THEN {{"65"}, {"66", "65"}} ELSE {})
        \union (IF p[1] \in {\h01, \h09, \h80, \h81, \h83, \hFF} \/ p[2] \in {\hB0, \hB1, \hBA, \hC1, \hC7}
                THEN {{"F0"}, {"66", "F0"}} ELSE {})
        \union (IF p[1] \in {\hA4, \hAA, \hAB} \/ (p[1] = \h0F /\ p[2] \in TwoByteVector)
                THEN {{"F2"}, {"F3"}} ELSE {})
        \union (IF p[1] \in {\h70, \h7F} \/ p[2] = \h1F THEN {{"2E"}, {"66", "2E"}} ELSE {})

Sibs == {<<1, 1, 3>>, <<0, 4, 3>>, <<1, 4, 3>>, <<1, 1, 5>>, <<0, 4, 5>>}
Forms ==
    {[mod |-> 3, rm |-> r, ss |-> 0, index |-> 0, base |-> 0] : r \in {0, 1, 4, 5}}
        \union {[mod |-> m, rm |-> r, ss |-> 0, index |-> 0, base |-> 0] : m \in 0 .. 2, r \in {1, 5}}
        \union {[mod |-> m, rm |-> 4, ss |-> s[1], index |-> s[2], base |-> s[3]] : m \in 0 .. 1, s \in Sibs}

Regs(p) == IF <<p[1], p[2]>> \in Groups THEN 0 .. 7 ELSE {1, 4, 5}

Rexes(p) ==
    IF p[1] = \hC5 THEN {[hasRex |-> FALSE, rex |-> r] : r \in {{}, {"R"}}}
    ELSE IF p[1] = \hC4 THEN {[hasRex |-> FALSE, rex |-> r] : r \in SUBSET {"W", "R", "X", "B"}}
    ELSE {[hasRex |-> FALSE, rex |-> {}]} \union {[hasRex |-> TRUE, rex |-> r] : r \in RexSets}

\* One record of encodings with the given header and form.
Assembled(p, pre, rex, pad) ==
    [Base EXCEPT !.op = p[1], !.op2 = p[2], !.op3 = p[3], !.pre = pre, !.pad = pad,
                 !.hasRex = rex.hasRex, !.rex = rex.rex]
Headers(p) ==
    {Assembled(p, pre, rex, pad) :
        pre \in IF p[1] \in {\hC4, \hC5} THEN {{}} ELSE Prefixes(p), rex \in Rexes(p),
        pad \in IF p[2] = \h1F THEN {0, 5, 6, 10} ELSE {0}}
Vexed(h) ==
    IF h.op \notin {\hC4, \hC5} THEN {h}
    ELSE {[h EXCEPT !.vl = l, !.pp = q, !.v = n] : l \in {0, 1}, q \in {0, 1}, n \in {0, 9}}
With(h, reg, f) ==
    [h EXCEPT !.mod = f.mod, !.reg = reg, !.rm = f.rm, !.ss = f.ss, !.index = f.index, !.base = f.base]

EncodingsOn(p) ==
    LET heads == UNION {Vexed(h) : h \in {g \in Headers(p) : g.pad > 0 => "66" \in g.pre}}
    IN  IF ~HasModRM(p) THEN heads
        ELSE {With(h, reg, f) : h \in heads, reg \in Regs(p), f \in Forms}

-----------------------------------------------------------------------------
(* Sequences of up to three instructions, on a page of their own *)

SequencePage == <<256, 0, 0>>

OpcodeOf(op) == [Base EXCEPT !.op = op]
Pieces ==
    {[OpcodeOf(\h89) EXCEPT !.rm = 1],                               \* mov
     [OpcodeOf(\h01) EXCEPT !.mod = 0, !.rm = 5],                    \* add [rip], eax
     OpcodeOf(\h74), OpcodeOf(\hEB), OpcodeOf(\hE8), OpcodeOf(\hC3),         \* jcc, jmp, call, ret
     [OpcodeOf(\hFF) EXCEPT !.reg = 2], [OpcodeOf(\hFF) EXCEPT !.reg = 4],
     [OpcodeOf(\h0F) EXCEPT !.op2 = \h05],                           \* syscall
     [OpcodeOf(\h0F) EXCEPT !.op2 = \h0B],                           \* ud2, unsupported
     [OpcodeOf(\h83) EXCEPT !.hasRex = TRUE, !.rex = {"B"}, !.mod = 0, !.reg = 1, !.rm = 5]}

Sequences == UNION {[1 .. n -> Pieces] : n \in 1 .. 3}

Programs(p) ==
    IF p = SequencePage
    THEN [code : Sequences, cut : {0, 1}, limit : 1 .. 3]
    ELSE [code : {<<e>> : e \in EncodingsOn(p)}, cut : {0}, limit : {1}]

AllPages == OpcodePages \union {SequencePage}
ConversionPage == {<<\h0F, \h5A, 0>>}
=============================================================================
