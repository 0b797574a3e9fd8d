------------------------------- MODULE Decoder -------------------------------
(***************************************************************************)
(* Decoder::decodeInstruction tries the families in order; decodeBlock     *)
(* calls it along a window of guest bytes until a control transfer or the  *)
(* limit on instructions.  A block keeps only the bytes it was made from,  *)
(* and TranslatedBlock::decoded runs decodeBlock over them again, with the *)
(* same limit, when a dump or the optimizing tier wants the instructions.  *)
(*                                                                         *)
(* The bytes are a sequence of encodings, as the program was assembled.    *)
(* The decoder only knows its byte cursor: where it believes the next      *)
(* instruction to start is where its own lengths have taken it.            *)
(***************************************************************************)
EXTENDS DecodeGeneral, DecodePrefixed, DecodeSimd, X86Format

CONSTANTS Pages,        \* the places guest code is translated from
          ProgramsOn(_) \* what may stand on a page: the instructions `code', by how
                        \* many bytes the mapping `cut's them, and the limit

VARIABLES page,     \* where the block starts
          code,     \* the instructions that stand there
          window,   \* how many of their bytes are readable
          limit,
          cursor,   \* bytes decoded so far
          result,   \* the decoded instructions
          status,   \* "idle", "decoding", "block", "error" or "lost"
          source    \* the block the bytes were saved of, or <<>>
vars == <<page, code, window, limit, cursor, result, status, source>>

-----------------------------------------------------------------------------
(* One instruction *)

Ret == Bare("Ret", NoOperands)

Else(a, b) == IF a # Pass THEN a ELSE b

Recognized(e) ==
    IF e.pre = {} /\ ~e.hasRex /\ e.op = \hC3 THEN Ret
    ELSE IF e.pad > 0 /\ ~(e.op = \h0F /\ e.op2 = \h1F) THEN Error
    ELSE Else(decodeVex(e), Else(decodeScalarSpecial(e), Else(decodeSimdShort(e),
         Else(decodeOperandOverride(e), Else(decodeSimdLanes(e), Else(decodeSimdMemory(e),
         Else(decodeRepeat(e), Else(decodeControlTransfer(e), Else(decodeAtomic(e),
         Else(decodeExtended(e), decodeGeneral(e)))))))))))

decodeInstruction(e) == Decoded(e, Recognized(e))

\* Mutant: a call falls through to its return address.
terminatesExceptCall(d) == d.op \in {"Jmp", "Jcc", "Syscall", "Ret"}

terminatesBlock(d) == d.op \in {"Jmp", "Jcc", "Call", "Syscall", "Ret"}

-----------------------------------------------------------------------------
(* Where the instructions of the window really start *)

Extent(a) == IF a = Undefined \/ a = Error THEN 1 ELSE a.len
LengthOf(e) == Extent(Architecture(e))
BytesOf(c) ==
    LET f[n \in 0 .. Len(c)] == IF n = 0 THEN 0 ELSE f[n - 1] + LengthOf(c[n])
    IN  f

\* decodeBlock refuses a limit of zero, and a mapping cuts no more than stands there.
ASSUME ProgramsAssumption ==
    \A p \in Pages : \A q \in ProgramsOn(p) :
        /\ q.code \in Seq(Encodings)
        /\ q.cut \in 0 .. BytesOf(q.code)[Len(q.code)]
        /\ q.limit \in Nat \ {0}

Starts == {n \in DOMAIN code : BytesOf(code)[n - 1] = cursor}

-----------------------------------------------------------------------------
(* decodeBlock *)

Init ==
    /\ page \in Pages
    /\ code = <<>> /\ window = 0 /\ limit = 0 /\ cursor = 0
    /\ result = <<>> /\ status = "idle" /\ source = <<>>

Translate ==
    /\ status = "idle"
    /\ \E p \in ProgramsOn(page) :
          /\ code' = p.code
          /\ limit' = p.limit
          /\ window' = BytesOf(p.code)[Len(p.code)] - p.cut
    /\ status' = "decoding"
    /\ UNCHANGED <<page, cursor, result, source>>

\* Mutant: the displacement of a RIP operand is not counted.
DecodeNextWithoutRip ==
    /\ status = "decoding"
    /\ cursor < window
    /\ \E n \in Starts : \E d \in {decodeInstruction(code[n])} :
              IF d = Error \/ cursor + d.len > window
              THEN status' = "error" /\ UNCHANGED <<cursor, result>>
              ELSE /\ cursor' = cursor + d.len - (IF RipForm(code[n]) /\ d.len > 4 THEN 4 ELSE 0)
                   /\ result' = Append(result, d)
                   /\ status' = IF terminatesBlock(d) \/ Len(result') = limit
                                THEN "block" ELSE "decoding"
    /\ UNCHANGED <<page, code, window, limit, source>>

\* decodeInstruction throws when the bytes end before the instruction does.
DecodeNext ==
    /\ status = "decoding"
    /\ cursor < window
    /\ \E n \in Starts : \E d \in {decodeInstruction(code[n])} :
              IF d = Error \/ cursor + d.len > window
              THEN status' = "error" /\ UNCHANGED <<cursor, result>>
              ELSE /\ cursor' = cursor + d.len
                   /\ result' = Append(result, d)
                   /\ status' = IF terminatesBlock(d) \/ Len(result') = limit
                                THEN "block" ELSE "decoding"
    /\ UNCHANGED <<page, code, window, limit, source>>

\* The cursor stands inside an instruction: what is decoded from here on has
\* nothing to do with the program.
LoseStep ==
    /\ status = "decoding"
    /\ cursor < window
    /\ Starts = {}
    /\ status' = "lost"
    /\ UNCHANGED <<page, code, window, limit, cursor, result, source>>

RunOut ==
    /\ status = "decoding"
    /\ cursor >= window
    /\ status' = "error"
    /\ UNCHANGED <<page, code, window, limit, cursor, result, source>>

\* Mutant: the block is decoded again under another limit.
ReconstructUnlimited ==
    /\ status = "block"
    /\ source = <<>>
    /\ source' = result
    /\ window' = cursor
    /\ cursor' = 0 /\ result' = <<>> /\ status' = "decoding"
    /\ limit' = limit + 1
    /\ UNCHANGED <<page, code>>

\* TranslatedBlock::decoded, from the bytes of the block alone.
Reconstruct ==
    /\ status = "block"
    /\ source = <<>>
    /\ source' = result
    /\ window' = cursor
    /\ cursor' = 0 /\ result' = <<>> /\ status' = "decoding"
    /\ UNCHANGED <<page, code, limit>>

Next == Translate \/ DecodeNext \/ LoseStep \/ RunOut \/ Reconstruct

Spec == Init /\ [][Next]_vars

-----------------------------------------------------------------------------
(* Properties *)

TypeOK ==
    /\ page \in Pages
    /\ status \in {"idle", "decoding", "block", "error", "lost"}
    /\ cursor \in Nat /\ window \in Nat /\ limit \in Nat
    /\ \A n \in DOMAIN result : result[n].len \in 1 .. 15

(***************************************************************************)
(* Encodings the decoder takes for something else than the architecture    *)
(* defines, each at the branch that does so.  `TakenForR13': REX.B selects *)
(* a base register although mode 0 leaves none to select.                  *)
(***************************************************************************)
TwoByteForm(e, prefix, ops) == e.op = \h0F /\ prefix \subseteq e.pre /\ e.op2 \in ops

TakenForR13(e) ==
    \/ /\ B(e) /\ RipForm(e)
       /\ \/ e.op \in {\h2B, \h84, \h85}
          \/ e.op = \h83 /\ e.reg # 5
          \/ e.op = \hFF /\ e.reg = 1
          \/ TwoByteForm(e, {"66"}, {\h2E, \h6F, \hFE})
          \/ TwoByteForm(e, {"F2"}, {\h5A})
          \/ TwoByteForm(e, {"F3"}, {\h7F})
    \/ /\ B(e) /\ NoBaseForm(e)
       /\ \/ e.op \in {\h3B, \h63, \h84, \h85}
          \/ e.op = \hFF /\ e.reg # 0
          \/ e.op = \hC7 /\ "66" \in e.pre
          \/ TwoByteForm(e, {}, {\hB0, \hB1, \hBE})

IndexDropped(e) ==
    X(e) /\ SibForm(e) /\ e.index = 4 /\ (TwoByteForm(e, {}, {\hC1}) \/ TwoByteForm(e, {"F3"}, {\h7E}))

WordTest(e) == e.op = \hF7 /\ "66" \in e.pre /\ e.reg = 0 /\ ~Direct(e) /\ ~W(e)

KnownMisdecode(e) ==
    \/ TakenForR13(e)
    \/ IndexDropped(e)
    \/ e.op = \h0B /\ Direct(e)                                   \* operands swapped
    \/ WordTest(e)                                                \* dword TEST
    \/ e.op = \h81 /\ "F0" \in e.pre /\ W(e)                      \* immediate not sign extended
    \/ TwoByteForm(e, {"66", "F0"}, {\hC1}) /\ W(e)                   \* word XADD
    \/ TwoByteForm(e, {"66"}, {\h14, \h15, \h2E})                     \* PS for PD, SS for SD
    \/ e.pre = {} /\ TwoByteForm(e, {}, {\h2E})                       \* SD for SS
    \/ TwoByteForm(e, {"F2"}, {\h5A})                                 \* CVTSS2SD for CVTSD2SS
    \/ TwoByteForm(e, {"66"}, {\h3A}) /\ e.op3 = \h16                 \* PEXTRD swapped

\* Those of them that take another number of bytes: what the decoder makes of the
\* program behind one of these has nothing to do with it.
Derails(e) == TakenForR13(e) \/ WordTest(e)
Derailed(n) == \E m \in DOMAIN code : m <= n /\ Derails(code[m])

AsArchitecture(n) == n \in DOMAIN code /\ Normal(result[n]) = Architecture(code[n])

(***************************************************************************)
(* Apart from the misdecodings known by name, whatever the decoder accepts *)
(* has the mnemonic, the operands, the immediate extension and the length  *)
(* the architecture gives it; everything else throws.                      *)
(***************************************************************************)
DecodesAsArchitecture ==
    \A n \in DOMAIN result :
        Derailed(n - 1) \/ AsArchitecture(n) \/ (n \in DOMAIN code /\ KnownMisdecode(code[n]))

(***************************************************************************)
(* docs/backend-contract.md: "Unsupported instructions stop translation";  *)
(* none of them is taken for another instruction.                          *)
(***************************************************************************)
UnsupportedStops == \A n \in DOMAIN result : AsArchitecture(n)

(***************************************************************************)
(* decodeBlock never starts an instruction inside another one, unless it   *)
(* has already passed one of the misdecodings that change the length.      *)
(***************************************************************************)
StaysInStep == status = "lost" => Derailed(Len(result))

(***************************************************************************)
(* A block ends at the first of its instructions that the program may not  *)
(* fall out of, or at the limit, whichever comes first, and nowhere else:  *)
(* code behind a transfer is never translated into the same block.         *)
(***************************************************************************)
Transfers(e) ==
    \/ e.op \in (\h70 .. \h7F) \union {\hC3, \hE8, \hE9, \hEB}
    \/ e.op = \h0F /\ e.op2 \in {\h05} \union (\h80 .. \h8F)
    \/ e.op = \hFF /\ e.reg \in {2, 4}
BlockIsMaximal ==
    /\ \A n \in DOMAIN result \intersect DOMAIN code :
          ~Derailed(n - 1) /\ Transfers(code[n]) => n = Len(result) /\ status = "block"
    /\ status = "block" =>
          \/ Len(result) = limit
          \/ Derailed(Len(result) - 1)
          \/ Len(result) \in DOMAIN code /\ Transfers(code[Len(result)])
    /\ Len(result) <= limit

(***************************************************************************)
(* Decoding the saved bytes of a block gives the block again: it neither   *)
(* throws at their end nor stops elsewhere.                                *)
(***************************************************************************)
ReconstructsFromSource ==
    source # <<>> => /\ status \in {"decoding", "block"}
                     /\ status = "block" => result = source
=============================================================================
