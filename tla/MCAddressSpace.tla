-------------------------- MODULE MCAddressSpace ----------------------------
(* Finite instances of AddressSpace for TLC.                               *)
EXTENDS AddressSpaceRefinement

\* A page transform that, applied twice, does not give what it gives once.
MCSlid(v) == (v + 1) % 3

\* The same for memory that holds two values.
MCFlipped(v) == 1 - v
BitPayload == {<<1, 0>>}

PairPayload == {<<2, 0>>}
=============================================================================
