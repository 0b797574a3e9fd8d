------------------------ MODULE AddressSpaceRefinement ----------------------
(***************************************************************************)
(* AddressSpace implements FlatMemory.  A cell of the flat memory is what  *)
(* a program would find at that address: the contents are read through the *)
(* mapping's backing with the lazy transform applied, and a multi-mapping  *)
(* write counts as done when its validation loop ends, so the cells its    *)
(* copy loop has not reached yet already show the payload.                 *)
(***************************************************************************)
EXTENDS AddressSpace

Committed == call.op = "write" /\ call.phase = "copy"

\* Contents at an offset of a mapping, as the next access would see them.
Contents(m, offset) ==
    LET host == hosts[m.fileBytes]
        cell == m.fileDataOffset + offset
    IN  CASE ~HasBacking(m) -> Zero
          [] HasBacking(m) /\ ~HasFile(m) -> m.bytes[offset]
          [] HasFile(m) /\ m.lazyFileTransform /\ Pending(host.transform, cell)
                -> Slid(host.cells[cell])
          [] OTHER -> host.cells[cell]

Unwritten(a) == Committed /\ Cursor <= a /\ a < call.address + call.size

ValueAt(m, a) ==
    IF Unwritten(a) THEN call.data[a - call.address + 1] ELSE Contents(m, a - m.base)

CellOf(m, a) ==
    [mapped |-> TRUE, permissions |-> m.permissions, maximum |-> m.maximumPermissions,
     backed |-> HasBacking(m), value |-> ValueAt(m, a),
     readable |-> IF IsSparse(m) THEN m.readableBytes[a - m.base] ELSE TRUE]

CellAt(a) ==
    LET found == {CellOf(m, a) : m \in mappingContaining(a)}
    IN  IF found = {} THEN [mapped |-> FALSE] ELSE CHOOSE c \in found : TRUE

\* The flat memory, the version its callers see and what the last call returned.
Memory == [a \in Address |-> CellAt(a)]
VisibleVersion == executableVersion + (IF Committed /\ call.exec THEN 1 ELSE 0)
VisibleResult == IF Committed THEN Returned("success", << >>) ELSE result

\* The request as its caller made it: a direct byte access is a read or a write of one cell.
RequestedOp == IF call.op = "direct" THEN (IF "W" \in call.required THEN "write" ELSE "read")
                                     ELSE call.op
Request ==
    [op |-> IF Committed THEN "none" ELSE RequestedOp,
     address |-> IF Committed THEN 0 ELSE call.address,
     size |-> IF Committed THEN 0 ELSE call.size,
     required |-> IF Committed THEN {} ELSE call.required,
     data |-> IF Committed \/ RequestedOp = "read" THEN << >> ELSE call.data]

Flat == INSTANCE FlatMemory WITH
    cells <- Memory, version <- VisibleVersion, request <- Request, result <- VisibleResult

\* Every call on the address space behaves as one step of the flat memory: reads return what the
\* cells hold, a write stores all of its payload or nothing, protect and deallocate change
\* exactly the pages they touch, and the executable version moves whenever code changes.
FlatMemoryRefinement == Flat!FSpec

\* The contract BlockCache relies on (AddressSpace.h: "The block cache can therefore trust a
\* matching version without re-reading guest code"): as long as the version is the same, the
\* executable cells and their contents are the same.
VisibleCode == Flat!Code(Memory)
CodeVersioned == [][VisibleVersion' = VisibleVersion => VisibleCode' = VisibleCode]_vars
=============================================================================
