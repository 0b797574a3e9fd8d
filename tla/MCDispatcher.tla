---------------------------- MODULE MCDispatcher ----------------------------
(* Finite instances of Dispatcher for TLC.                                 *)
EXTENDS Dispatcher, TLC

\* Translated blocks differ only in their identity.
Storage == Permutations(Blocks)

\* Every content of the code cells.
AllPrograms == [Code -> Cell]
\* A byte store in front of the branch back to it.
ByteStoreLoop == {[a \in Code |-> IF a = 0 THEN "store8" ELSE "loop"]}
\* Loops of byte loads and byte stores.
ByteLoops ==
    {program \in AllPrograms : \A a \in Code : program[a] = "loop" <=> a = CodeSize - 1}
=============================================================================
