---------------------------- MODULE AddressSpace ----------------------------
(***************************************************************************)
(* guest::AddressSpace: the guest's virtual memory.                        *)
(*                                                                         *)
(* The mappings are a set of records; the vector mappings_ of the source   *)
(* is that set ordered by base, so a vector index is the number of         *)
(* mappings with a smaller base.  Addresses are counted in cells; a page   *)
(* is PageSize cells.  An access that spans several mappings is a loop     *)
(* over chunks in the source; here every iteration is a step, so that the  *)
(* lookup table, the lazily transformed pages and a fault half way through *)
(* are seen exactly where the code can meet them.                          *)
(***************************************************************************)
EXTENDS Integers, FiniteSets, Sequences

CONSTANTS
    PageSize,    \* guestPageSize, in cells
    Limit,       \* largest value of a guest address (UINT64_MAX)
    LookupSize,  \* mappingLookupSize
    Value,       \* contents of a cell
    Zero,        \* a zero-filled cell
    FileByte,    \* what a mapped file holds in each of its cells
    Slid(_),     \* what a lazy page transform does to a cell (not idempotent)
    Backings,    \* host mappings that may exist at once (bound)
    NoBacking,
    Prefixes,    \* host-page prefixes of a file mapping (fileDataOffset)
    LazyPages,   \* page sizes of a lazy transform
    MapBases,    \* addresses and sizes asked of the map calls
    MapSizes,
    ChangeSizes, \* sizes asked of protect and deallocate
    Protections, \* permissions asked of the map and protect calls
    Maxima,      \* maximum permissions asked of the map calls
    Copies,      \* values of makePrivateCopy a caller passes
    Kinds,       \* which map calls the callers make
    Payloads,    \* sequences of cells a caller writes
    AccessSizes, \* sizes of reads and of validated accesses
    MaxVersion   \* bound on executableVersion_

Address == 0 .. Limit
Permission == SUBSET {"R", "W", "X"}
None == {}
Empty == << >>       \* an empty std::vector

ASSUME GeometryAssumption ==
    /\ PageSize \in Nat \ {0}
    /\ Limit \in Nat
    /\ (Limit + 1) % PageSize = 0
    /\ LookupSize \in Nat \ {0}

ASSUME ContentAssumption ==
    /\ {Zero, FileByte} \subseteq Value
    /\ \A v \in Value : Slid(v) \in Value
    /\ NoBacking \notin Backings

ASSUME InputAssumption ==
    /\ Prefixes \subseteq Nat
    /\ LazyPages \subseteq Nat \ {0}
    /\ MapBases \subseteq Address
    /\ MapSizes \subseteq Address
    /\ ChangeSizes \subseteq Address
    /\ Protections \subseteq Permission
    /\ Maxima \subseteq Permission
    /\ Copies \subseteq BOOLEAN
    /\ AccessSizes \subseteq Nat \ {0}
    /\ Payloads \subseteq Seq(Value) \ {<< >>}
    /\ MaxVersion \in Nat

VARIABLES
    mappings,          \* mappings_
    lookup,            \* mappingLookup_
    hosts,             \* the live PrivateFileMapping objects and their LazyFilePageTransform
    executableVersion, \* executableVersion_
    call,              \* the chunked call in progress
    result             \* what the last completed call returned to its caller

vars == <<mappings, lookup, hosts, executableVersion, call, result>>

-----------------------------------------------------------------------------
(* Mappings and their geometry.                                            *)

hasPermission(actual, required) == required \subseteq actual
isExecutable(permissions) == hasPermission(permissions, {"X"})

rangeContains(base, mappingSize, address, accessSize) ==
    /\ address >= base
    /\ accessSize <= mappingSize
    /\ address - base <= mappingSize - accessSize

End(m) == m.base + m.size
Touches(m, start, end) == ~(End(m) <= start \/ m.base >= end)

IndexOf(m) == Cardinality({x \in mappings : x.base < m.base})

\* The mapping std::upper_bound steps back to: the last one that starts at or below address.
IsFloor(m, address) ==
    /\ m.base <= address
    /\ \A x \in mappings : x.base <= address => x.base <= m.base

\* Mutant: upper_bound, which steps over a mapping that starts exactly there.
IsCeilingUpperBound(m, address) ==
    /\ m.base > address
    /\ \A x \in mappings : x.base > address => m.base <= x.base

\* The mapping std::lower_bound finds: the first one that starts at or above address.
IsCeiling(m, address) ==
    /\ m.base >= address
    /\ \A x \in mappings : x.base >= address => m.base <= x.base

\* The mapping just before that one in the vector.
IsBelow(m, address) ==
    /\ m.base < address
    /\ \A x \in mappings : x.base < address => x.base <= m.base

mappingContaining(address) ==
    {m \in mappings : IsFloor(m, address) /\ rangeContains(m.base, m.size, address, 1)}

\* Mutant: no overflow check of base + size.
validateNewMappingWraps(base, size, permissions, maximumPermissions) ==
    /\ size # 0
    /\ base % PageSize = 0
    /\ size % PageSize = 0
    /\ hasPermission(maximumPermissions, permissions)
    /\ \A m \in mappings : IsCeiling(m, base) => base + size <= m.base
    /\ \A m \in mappings : IsBelow(m, base) => End(m) <= base

validateNewMapping(base, size, permissions, maximumPermissions) ==
    /\ size # 0
    /\ base % PageSize = 0
    /\ size % PageSize = 0
    /\ base <= Limit - size
    /\ hasPermission(maximumPermissions, permissions)
    /\ \A m \in mappings : IsCeiling(m, base) => base + size <= m.base
    /\ \A m \in mappings : IsBelow(m, base) => End(m) <= base

-----------------------------------------------------------------------------
(* The lookup table and find().                                            *)

NoEntry == [base |-> 0, end |-> 0, index |-> 0, valid |-> FALSE]
EmptyLookup == [s \in 0 .. LookupSize - 1 |-> NoEntry]

\* Mutant: the loop over the table stops one slot short.
invalidateAllButLast == [EmptyLookup EXCEPT ![LookupSize - 1] = lookup[LookupSize - 1]]

invalidateMappingLookup == EmptyLookup

\* The xor with the upper page bits is the identity on the addresses of a small instance.
SlotOf(address) == (address \div PageSize) % LookupSize

\* Mutant: the cached index is trusted without comparing the mapping's base.
LookupHitByIndex(address, size) ==
    LET cached == lookup[SlotOf(address)] IN
    {m \in mappings :
        /\ cached.valid
        /\ address >= cached.base
        /\ address < cached.end
        /\ size <= cached.end - address
        /\ IndexOf(m) = cached.index}

LookupHit(address, size) ==
    LET cached == lookup[SlotOf(address)] IN
    {m \in mappings :
        /\ cached.valid
        /\ address >= cached.base
        /\ address < cached.end
        /\ size <= cached.end - address
        /\ IndexOf(m) = cached.index
        /\ m.base = cached.base}

SearchHit(address, size) ==
    {m \in mappings : IsFloor(m, address) /\ rangeContains(m.base, m.size, address, size)}

Resolved(address, size) ==
    IF LookupHit(address, size) # {} THEN LookupHit(address, size)
                                     ELSE SearchHit(address, size)

\* find(address, size, required) returns m; otherwise it throws.
find(m, address, size, required) ==
    m \in Resolved(address, size) /\ hasPermission(m.permissions, required)

FindThrows(address, size, required) ==
    \A m \in mappings : ~find(m, address, size, required)

LookupAfter(m, address, size) ==
    IF LookupHit(address, size) # {}
    THEN lookup
    ELSE [lookup EXCEPT ![SlotOf(address)] =
            [base |-> m.base, end |-> End(m), index |-> IndexOf(m), valid |-> TRUE]]

-----------------------------------------------------------------------------
(* Backing storage.  A mapping's cells live in its own vector `bytes', or  *)
(* in a shared host mapping at fileDataOffset, or nowhere.                 *)

HasFile(m) == m.fileBytes # NoBacking
HasBacking(m) == HasFile(m) \/ m.bytes # Empty
IsSparse(m) == m.readableBytes # Empty

NoTransform == [dataOffset |-> 0, size |-> 0, pageSize |-> 1, transformedPages |-> {}]
Released == [cells |-> Empty, transform |-> NoTransform]

\* Host mappings with no owner left are unmapped by the last shared_ptr.
Owned(newMappings, newHosts) ==
    [b \in Backings |-> IF \E m \in newMappings : m.fileBytes = b
                        THEN newHosts[b] ELSE Released]

IsFree(b) == \A m \in mappings : m.fileBytes # b

TransformPage(t, cell) == (cell - t.dataOffset) \div t.pageSize
InTransform(t, cell) == t.dataOffset <= cell /\ cell < t.dataOffset + t.size
Pending(t, cell) == InTransform(t, cell) /\ TransformPage(t, cell) \notin t.transformedPages

\* Mutant: transformedPages_ is not set.
materializeUnmarked(host, first, size) ==
    LET t == host.transform
        pages == {TransformPage(t, c) : c \in first .. first + size - 1}
    IN  [host EXCEPT !.cells = [c \in DOMAIN host.cells |->
            IF InTransform(t, c) /\ TransformPage(t, c) \in pages
            THEN Slid(host.cells[c]) ELSE host.cells[c]]]

\* LazyFilePageTransform::materialize of the pages that hold cells first .. first + size - 1.
\* The transform of a page succeeds: the slide chains of the cache file are taken to be well
\* formed.  One that leaves its page throws after it has rewritten some of it, and the page stays
\* unmarked (SharedCache.cpp:338-366).
materialize(host, first, size) ==
    LET t == host.transform
        pages == {TransformPage(t, c) : c \in first .. first + size - 1} \ t.transformedPages
    IN  [cells |-> [c \in DOMAIN host.cells |->
                      IF InTransform(t, c) /\ TransformPage(t, c) \in pages
                      THEN Slid(host.cells[c]) ELSE host.cells[c]],
         transform |-> [t EXCEPT !.transformedPages = @ \cup pages]]

\* materialize throws when the range is not inside the transform's mapping.
materializeThrows(m, offset, size) ==
    /\ m.lazyFileTransform
    /\ LET t == hosts[m.fileBytes].transform
           first == m.fileDataOffset + offset
       IN  ~(first >= t.dataOffset /\ first + size <= t.dataOffset + t.size)

materializeFileBytes(m, offset, size) ==
    IF HasFile(m) /\ m.lazyFileTransform
    THEN [hosts EXCEPT ![m.fileBytes] = materialize(@, m.fileDataOffset + offset, size)]
    ELSE hosts

\* The cell at offset in the mapping's backing, as stored.
Stored(m, h, offset) ==
    IF HasFile(m) THEN h[m.fileBytes].cells[m.fileDataOffset + offset] ELSE m.bytes[offset]

\* A copy of data into the backing at offset: the mapping and the host mappings after it.
Overwrite(f, at, data) ==
    [c \in DOMAIN f |-> IF at <= c /\ c < at + Len(data) THEN data[c - at + 1] ELSE f[c]]

\* A sub-range of a mapping with its own vectors and its share of the host mapping.
SubVector(f, offset, size) ==
    IF f = Empty THEN Empty ELSE [i \in 0 .. size - 1 |-> f[offset + i]]

\* A slice whose cells start at `at' of the host mapping.
SliceAt(m, start, end, permissions, maximumPermissions, at) ==
    LET offset == start - m.base
        size == end - start
    IN  [base |-> start, size |-> size,
         permissions |-> permissions, maximumPermissions |-> maximumPermissions,
         bytes |-> SubVector(m.bytes, offset, size),
         fileBytes |-> m.fileBytes, fileDataOffset |-> at,
         lazyFileTransform |-> m.lazyFileTransform,
         readableBytes |-> SubVector(m.readableBytes, offset, size)]

\* Mutants: the piece keeps the offset of the whole; the piece adds an absolute address.
sliceKeepsOffset(m, start, end, permissions, maximumPermissions) ==
    SliceAt(m, start, end, permissions, maximumPermissions, m.fileDataOffset)
sliceAddsAddress(m, start, end, permissions, maximumPermissions) ==
    SliceAt(m, start, end, permissions, maximumPermissions, m.fileDataOffset + start)

slice(m, start, end, permissions, maximumPermissions) ==
    SliceAt(m, start, end, permissions, maximumPermissions,
            m.fileDataOffset + (start - m.base))

-----------------------------------------------------------------------------
(* Calls.  One call runs at a time; Idle holds between calls.              *)

NoCall == [op |-> "none", address |-> 0, size |-> 0, required |-> None, data |-> << >>,
           phase |-> "none", done |-> 0, exec |-> FALSE]
Idle == call = NoCall
Returned(status, data) == [status |-> status, data |-> data]
Finish(status, data) == result' = Returned(status, data) /\ call' = NoCall

Init ==
    /\ mappings = {}
    /\ lookup = EmptyLookup
    /\ hosts = [b \in Backings |-> Released]
    /\ executableVersion = 0
    /\ call = NoCall
    /\ result = Returned("none", << >>)

\* ++executableVersion_ when changed, below the bound.
BumpVersion(changed) ==
    /\ changed => executableVersion < MaxVersion
    /\ executableVersion' = executableVersion + (IF changed THEN 1 ELSE 0)

-----------------------------------------------------------------------------
(* Creating mappings.                                                      *)

\* A call that returns or throws without having changed anything.
Unchanged(status) ==
    /\ Finish(status, << >>)
    /\ UNCHANGED <<mappings, lookup, hosts, executableVersion>>
Rejected == Unchanged("rejected")

insertMapping(m, newHosts) ==
    /\ mappings' = mappings \cup {m}
    /\ lookup' = invalidateMappingLookup
    /\ hosts' = newHosts
    /\ BumpVersion(isExecutable(m.permissions))
    /\ Finish("success", << >>)

PlainMapping(base, size, permissions, maximumPermissions, bytes) ==
    [base |-> base, size |-> size,
     permissions |-> permissions, maximumPermissions |-> maximumPermissions,
     bytes |-> bytes, fileBytes |-> NoBacking, fileDataOffset |-> 0,
     lazyFileTransform |-> FALSE, readableBytes |-> Empty]

FileMapping(base, size, permissions, maximumPermissions, host, prefix, lazy) ==
    [PlainMapping(base, size, permissions, maximumPermissions, Empty) EXCEPT
        !.fileBytes = host, !.fileDataOffset = prefix, !.lazyFileTransform = lazy]

\* initialBytes followed by a zero-filled tail.
InitialBytes(size, fileSize) ==
    [i \in 0 .. size - 1 |-> IF i < fileSize THEN FileByte ELSE Zero]

mapAnonymous(base, size, permissions, maximumPermissions) ==
    /\ Idle
    /\ \/ /\ \/ ~validateNewMapping(base, size, permissions, maximumPermissions)
             \/ maximumPermissions # None   \* the host may not reserve the backing
          /\ Rejected
       \/ /\ validateNewMapping(base, size, permissions, maximumPermissions)
          /\ maximumPermissions = None
          /\ insertMapping(PlainMapping(base, size, permissions, maximumPermissions, Empty), hosts)
       \/ /\ validateNewMapping(base, size, permissions, maximumPermissions)
          /\ maximumPermissions # None
          /\ \E b \in Backings : IsFree(b)
          /\ LET b == CHOOSE b \in Backings : IsFree(b)
             IN  insertMapping(
                    FileMapping(base, size, permissions, maximumPermissions, b, 0, FALSE),
                    [hosts EXCEPT ![b] = [cells |-> [c \in 0 .. size - 1 |-> Zero],
                                          transform |-> NoTransform]])

\* addMapping: the vector is empty for a mapping nothing may ever access.
SegmentOf(base, size, permissions, maximumPermissions, fileSize) ==
    PlainMapping(base, size, permissions, maximumPermissions,
                 IF maximumPermissions = None THEN Empty ELSE InitialBytes(size, fileSize))

mapSegment(base, size, permissions, maximumPermissions, fileSize) ==
    /\ Idle
    /\ LET valid == fileSize <= size
                    /\ validateNewMapping(base, size, permissions, maximumPermissions)
       IN  \/ ~valid /\ Rejected
           \/ valid /\ insertMapping(
                SegmentOf(base, size, permissions, maximumPermissions, fileSize), hosts)

\* MappingBatch.cpp.  The lookup table is left alone: indices may go stale there.
mapSegments(requests) ==
    /\ Idle
    /\ LET valid ==
             /\ \A r \in requests :
                  /\ r.fileSize <= r.size
                  /\ validateNewMapping(r.base, r.size, r.permissions, r.maximumPermissions)
             /\ \A r, s \in requests : r # s => (End(r) <= s.base \/ End(s) <= r.base)
       IN  \/ ~valid /\ Rejected
           \/ /\ valid
              /\ mappings' = mappings \cup
                   {SegmentOf(r.base, r.size, r.permissions, r.maximumPermissions, r.fileSize) :
                        r \in requests}
              /\ BumpVersion(\E r \in requests : isExecutable(r.permissions))
              /\ Finish("success", << >>)
              /\ UNCHANGED <<lookup, hosts>>

\* mapFileSegment, and when lazyPage # 0 the installLazyFilePageTransform that
\* GuestSharedCache::mapInto makes on the new mapping before anything can access it.
\* Opening, inspecting or mapping the host file may fail, which rejects the call.
\* parseSlideInfo2 has thrown before the install when the pages do not divide the mapping
\* (SharedCache.cpp:237), so that the same throw of the install is never reached.
installLazyFilePageTransform(prefix, size, lazyPage) ==
    [dataOffset |-> prefix, size |-> size, pageSize |-> lazyPage, transformedPages |-> {}]

mapFileSegment(base, size, permissions, maximumPermissions, prefix, lazyPage) ==
    /\ Idle
    /\ lazyPage # 0 => size % lazyPage = 0
    /\ \/ Rejected
       \/ /\ validateNewMapping(base, size, permissions, maximumPermissions)
          /\ \E b \in Backings : IsFree(b)
          /\ LET b == CHOOSE b \in Backings : IsFree(b)
                 transform == IF lazyPage = 0 THEN NoTransform
                              ELSE installLazyFilePageTransform(prefix, size, lazyPage)
             IN  insertMapping(
                    FileMapping(base, size, permissions, maximumPermissions, b, prefix,
                                lazyPage # 0),
                    [hosts EXCEPT ![b] = [cells |-> [c \in 0 .. prefix + size - 1 |-> FileByte],
                                          transform |-> transform]])

\* mapSparseReadOnly of the data at 0 .. dataSize - 1, and the populateSparseReadOnly calls that
\* Commpage.cpp makes on the new page before anything can access it; populated is the set of
\* offsets they fill.  Each of them finds the page, which leaves it in the lookup table.
populateSparseReadOnly(m, populated) ==
    [m EXCEPT !.bytes = [i \in DOMAIN m.bytes |-> IF i \in populated THEN FileByte ELSE @[i]],
              !.readableBytes = [i \in DOMAIN m.readableBytes |-> i \in populated \/ @[i]]]

mapSparseReadOnly(base, size, dataSize, populated) ==
    /\ Idle
    /\ populated \subseteq 0 .. size - 1
    /\ LET valid == dataSize <= size /\ validateNewMapping(base, size, {"R"}, {"R"})
           fresh == [PlainMapping(base, size, {"R"}, {"R"}, InitialBytes(size, dataSize))
                       EXCEPT !.readableBytes = [i \in 0 .. size - 1 |-> i < dataSize]]
           entry == [base |-> base, end |-> base + size, valid |-> TRUE,
                     index |-> IndexOf(fresh)]
       IN  \/ ~valid /\ Rejected
           \/ /\ valid
              /\ mappings' = mappings \cup {populateSparseReadOnly(fresh, populated)}
              /\ lookup' = [s \in 0 .. LookupSize - 1 |->
                              IF \E i \in populated : SlotOf(base + i) = s THEN entry ELSE NoEntry]
              /\ Finish("success", << >>)
              /\ UNCHANGED <<hosts, executableVersion>>

-----------------------------------------------------------------------------
(* Changing and removing mappings.                                         *)

PageFloor(a) == a - (a % PageSize)
PageCeiling(a) == PageFloor(a + PageSize - 1)

RangeOverflows(address, size) ==
    address > Limit - size \/ address + size > Limit - (PageSize - 1)

\* One vector entry becomes the pieces before, inside and after [start, end).
ProtectPieces(m, start, end, permissions, makePrivateCopy) ==
    LET from == IF m.base > start THEN m.base ELSE start
        to == IF End(m) < end THEN End(m) ELSE end
        before == slice(m, m.base, start, m.permissions, m.maximumPermissions)
        inside == slice(m, from, to, permissions,
                        IF makePrivateCopy THEN permissions ELSE m.maximumPermissions)
        after == slice(m, to, End(m), m.permissions, m.maximumPermissions)
    IN  {inside} \cup {p \in {before} : m.base < start} \cup {p \in {after} : to < End(m)}

DeallocatePieces(m, start, end) ==
    {p \in {slice(m, m.base, start, m.permissions, m.maximumPermissions)} : m.base < start}
    \cup {p \in {slice(m, end, End(m), m.permissions, m.maximumPermissions)} : end < End(m)}

\* Where the walk over [start, end) stops: a hole, or a mapping whose maximum forbids it.
Holes(start, end) == {c \in start .. end - 1 : mappingContaining(c) = {}}
Denials(start, end, permissions) ==
    {c \in start .. end - 1 : \E m \in mappingContaining(c) :
        ~hasPermission(m.maximumPermissions, permissions)}
Stops(start, end, permissions, makePrivateCopy) ==
    Holes(start, end) \cup (IF makePrivateCopy THEN {} ELSE Denials(start, end, permissions))
FirstStop(stops) == CHOOSE c \in stops : \A d \in stops : c <= d

protect(address, size, permissions, makePrivateCopy) ==
    LET start == PageFloor(address)
        end == PageCeiling(address + size)
        stops == Stops(start, end, permissions, makePrivateCopy)
    IN  /\ Idle
        /\ \/ size = 0 /\ Unchanged("success")
           \/ size # 0 /\ RangeOverflows(address, size) /\ Unchanged("invalidArgument")
           \/ /\ size # 0
              /\ ~RangeOverflows(address, size)
              /\ stops # {}
              /\ Unchanged(IF FirstStop(stops) \in Holes(start, end) THEN "invalidAddress"
                                                                     ELSE "protectionFailure")
           \/ /\ size # 0
              /\ ~RangeOverflows(address, size)
              /\ stops = {}
              /\ mappings' = UNION {IF Touches(m, start, end)
                                    THEN ProtectPieces(m, start, end, permissions, makePrivateCopy)
                                    ELSE {m} : m \in mappings}
              /\ lookup' = invalidateMappingLookup
              /\ BumpVersion(\/ isExecutable(permissions)
                             \/ \E m \in mappings :
                                  Touches(m, start, end) /\ isExecutable(m.permissions))
              /\ Finish("success", << >>)
              /\ UNCHANGED hosts

deallocate(address, size) ==
    LET start == PageFloor(address)
        end == PageCeiling(address + size)
    IN  /\ Idle
        /\ \/ size = 0 /\ Unchanged("success")
           \/ size # 0 /\ RangeOverflows(address, size) /\ Unchanged("invalidArgument")
           \/ /\ size # 0
              /\ ~RangeOverflows(address, size)
              /\ mappings' = UNION {IF Touches(m, start, end)
                                    THEN DeallocatePieces(m, start, end)
                                    ELSE {m} : m \in mappings}
              /\ lookup' = invalidateMappingLookup
              /\ hosts' = Owned(mappings', hosts)
              /\ BumpVersion(\E m \in mappings :
                                Touches(m, start, end) /\ isExecutable(m.permissions))
              /\ Finish("success", << >>)

-----------------------------------------------------------------------------
(* Accesses.  begin is the entry of readBytes, readU*, writeBytes, writeU*, *)
(* validateAccess, executableBytes and the direct byte access of the       *)
(* runtime helpers; the steps below are the iterations of their loops.     *)

begin(op, address, size, required, data) ==
    /\ Idle
    /\ "W" \in required => executableVersion < MaxVersion   \* leaves room for its ++
    /\ call' = [NoCall EXCEPT !.op = op, !.address = address, !.size = size,
                              !.required = required, !.data = data, !.phase = "first"]
    /\ result' = Returned("none", << >>)
    /\ UNCHANGED <<mappings, lookup, hosts, executableVersion>>

Cursor == call.address + call.done
Remaining == call.size - call.done
Offset(m) == Cursor - m.base
Chunk(m) == IF Remaining < m.size - Offset(m) THEN Remaining ELSE m.size - Offset(m)
Found(m) == find(m, Cursor, 1, call.required)

Fault == Unchanged("fault") /\ FindThrows(Cursor, 1, call.required)

\* The bytes of a mapping that has no backing are read or written through a null pointer.
Crash(m) ==
    /\ ~HasBacking(m)
    /\ call' = [NoCall EXCEPT !.op = "crashed"]
    /\ result' = Returned("crash", << >>)
    /\ UNCHANGED <<mappings, hosts, executableVersion>>

MaterializeFault(m, size) ==
    /\ materializeThrows(m, Offset(m), size)
    /\ Finish("fault", << >>)
    /\ UNCHANGED <<mappings, hosts, executableVersion>>

Cells(m, h, offset, size) == [i \in 1 .. size |-> Stored(m, h, offset + i - 1)]

\* Mutant: only the first byte of the chunk is checked.
UnreadableFirst(m) == IsSparse(m) /\ ~m.readableBytes[Offset(m)]

UnreadableSparse(m) ==
    IsSparse(m) /\ \E i \in Offset(m) .. Offset(m) + Chunk(m) - 1 : ~m.readableBytes[i]

\* One iteration of readInto; readU* copy a chunk that covers the whole access the same way.
readInto ==
    /\ call.op = "read"
    /\ \/ Fault
       \/ \E m \in mappings :
            /\ Found(m)
            /\ lookup' = LookupAfter(m, Cursor, 1)
            /\ \/ /\ UnreadableSparse(m)
                  /\ Finish("fault", << >>)
                  /\ UNCHANGED <<mappings, hosts, executableVersion>>
               \/ ~UnreadableSparse(m) /\ Crash(m)
               \/ ~UnreadableSparse(m) /\ MaterializeFault(m, Chunk(m))
               \/ /\ ~UnreadableSparse(m)
                  /\ HasBacking(m)
                  /\ ~materializeThrows(m, Offset(m), Chunk(m))
                  /\ hosts' = materializeFileBytes(m, Offset(m), Chunk(m))
                  /\ LET read == call.data \o Cells(m, hosts', Offset(m), Chunk(m))
                     IN  \/ Chunk(m) = Remaining /\ Finish("success", read)
                         \/ /\ Chunk(m) < Remaining
                            /\ call' = [call EXCEPT !.done = @ + Chunk(m), !.data = read]
                            /\ UNCHANGED result
                  /\ UNCHANGED <<mappings, executableVersion>>

validateAccess ==
    /\ call.op = "validate"
    /\ \/ Fault
       \/ \E m \in mappings :
            /\ Found(m)
            /\ lookup' = LookupAfter(m, Cursor, 1)
            /\ \/ Chunk(m) = Remaining /\ Finish("success", << >>)
               \/ /\ Chunk(m) < Remaining
                  /\ call' = [call EXCEPT !.done = @ + Chunk(m)]
                  /\ UNCHANGED result
            /\ UNCHANGED <<mappings, hosts, executableVersion>>

\* Store size cells of the payload, from the cursor, into m's backing.
StoreChunk(m, h, size) ==
    LET data == SubSeq(call.data, call.done + 1, call.done + size)
    IN  IF HasFile(m)
        THEN /\ hosts' = [h EXCEPT ![m.fileBytes].cells =
                            Overwrite(@, m.fileDataOffset + Offset(m), data)]
             /\ UNCHANGED mappings
        ELSE /\ mappings' = (mappings \ {m}) \cup
                              {[m EXCEPT !.bytes = Overwrite(@, Offset(m), data)]}
             /\ hosts' = h

\* writeBytes when the first mapping holds the whole range, or else the switch to the slow path.
writeFirst ==
    /\ call.op = "write" /\ call.phase = "first"
    /\ \/ Fault
       \/ \E m \in mappings :
            /\ Found(m)
            /\ lookup' = LookupAfter(m, Cursor, 1)
            /\ \/ Chunk(m) = Remaining /\ Crash(m)
               \/ Chunk(m) = Remaining /\ MaterializeFault(m, Remaining)
               \/ /\ Chunk(m) = Remaining
                  /\ HasBacking(m)
                  /\ ~materializeThrows(m, Offset(m), Remaining)
                  /\ StoreChunk(m, materializeFileBytes(m, Offset(m), Remaining), Remaining)
                  /\ BumpVersion(isExecutable(m.permissions))
                  /\ Finish("success", << >>)
               \/ /\ Chunk(m) < Remaining
                  /\ call' = [call EXCEPT !.phase = "validate"]
                  /\ UNCHANGED <<mappings, hosts, executableVersion, result>>

\* The validation loop: the whole range is checked, and materialized, before a cell is stored.
\* next is the call after the chunk of m was checked.
ValidateChunk(next(_)) ==
    /\ call.op = "write" /\ call.phase = "validate"
    /\ \/ Fault
       \/ \E m \in mappings :
            /\ Found(m)
            /\ lookup' = LookupAfter(m, Cursor, 1)
            /\ \/ MaterializeFault(m, Chunk(m))
               \/ /\ ~materializeThrows(m, Offset(m), Chunk(m))
                  /\ hosts' = materializeFileBytes(m, Offset(m), Chunk(m))
                  /\ call' = next(m)
                  /\ UNCHANGED <<mappings, executableVersion, result>>

StartCopy(c) == [c EXCEPT !.done = 0, !.phase = "copy"]

\* Mutants: the loop ends after one chunk; the flag is assigned instead of accumulated.
writeValidateOnce ==
    LET next(m) == StartCopy([call EXCEPT !.exec = @ \/ isExecutable(m.permissions)])
    IN  ValidateChunk(next)
writeValidateLastOnly ==
    LET next(m) == LET checked == [call EXCEPT !.done = @ + Chunk(m),
                                               !.exec = isExecutable(m.permissions)]
                   IN  IF Chunk(m) = Remaining THEN StartCopy(checked) ELSE checked
    IN  ValidateChunk(next)

writeValidate ==
    LET next(m) == LET checked == [call EXCEPT !.done = @ + Chunk(m),
                                               !.exec = @ \/ isExecutable(m.permissions)]
                   IN  IF Chunk(m) = Remaining THEN StartCopy(checked) ELSE checked
    IN  ValidateChunk(next)

writeCopy ==
    /\ call.op = "write" /\ call.phase = "copy"
    /\ \/ Fault
       \/ \E m \in mappings :
            /\ Found(m)
            /\ lookup' = LookupAfter(m, Cursor, 1)
            /\ \/ Crash(m)
               \/ /\ HasBacking(m)
                  /\ StoreChunk(m, hosts, Chunk(m))
                  /\ \/ /\ Chunk(m) = Remaining
                        /\ BumpVersion(call.exec)
                        /\ Finish("success", << >>)
                     \/ /\ Chunk(m) < Remaining
                        /\ call' = [call EXCEPT !.done = @ + Chunk(m)]
                        /\ UNCHANGED <<executableVersion, result>>

\* The span runs to the end of the mapping, so all of the remainder is materialized.
executableBytes ==
    /\ call.op = "fetch"
    /\ \/ Fault
       \/ \E m \in mappings :
            LET rest == m.size - Offset(m) IN
            /\ Found(m)
            /\ lookup' = LookupAfter(m, Cursor, 1)
            /\ \/ Crash(m)
               \/ MaterializeFault(m, rest)
               \/ /\ HasBacking(m)
                  /\ ~materializeThrows(m, Offset(m), rest)
                  /\ hosts' = materializeFileBytes(m, Offset(m), rest)
                  /\ Finish("success", Cells(m, hosts', Offset(m), rest))
                  /\ UNCHANGED <<mappings, executableVersion>>

directMemoryView(m, required) ==
    /\ ~HasFile(m)
    /\ ~IsSparse(m)
    /\ m.bytes # Empty
    /\ ~("W" \in required /\ isExecutable(m.permissions))

\* directGuestRead / directGuestWrite of one byte: through the view, or else the checked helper.
directAccess ==
    /\ call.op = "direct"
    /\ \/ Fault
       \/ \E m \in mappings :
            /\ Found(m)
            /\ lookup' = LookupAfter(m, Cursor, 1)
            /\ \/ /\ ~directMemoryView(m, call.required)
                  /\ call' = [call EXCEPT !.op = IF "W" \in call.required THEN "write" ELSE "read"]
                  /\ UNCHANGED <<mappings, hosts, result>>
               \/ /\ directMemoryView(m, call.required)
                  /\ "W" \in call.required
                  /\ StoreChunk(m, hosts, 1)
                  /\ Finish("success", << >>)
               \/ /\ directMemoryView(m, call.required)
                  /\ "W" \notin call.required
                  /\ Finish("success", Cells(m, hosts, Offset(m), 1))
                  /\ UNCHANGED <<mappings, hosts>>
            /\ UNCHANGED executableVersion

-----------------------------------------------------------------------------

SegmentRequests ==
    [base : MapBases, size : MapSizes, permissions : Protections,
     maximumPermissions : Maxima, fileSize : {0, PageSize}]
SegmentBatches == {{r, s} : r, s \in SegmentRequests}

MapNext ==
    \/ /\ "batch" \in Kinds
       /\ \E requests \in SegmentBatches : mapSegments(requests)
    \/ \E base \in MapBases, size \in MapSizes :
        \/ /\ "sparse" \in Kinds
           /\ \E n \in AccessSizes, i \in 0 .. PageSize - 1 : mapSparseReadOnly(base, size, n, {i})
        \/ \E p \in Protections, mx \in Maxima :
            \/ "anonymous" \in Kinds /\ mapAnonymous(base, size, p, mx)
            \/ "segment" \in Kinds /\ \E n \in AccessSizes : mapSegment(base, size, p, mx, n)
            \/ /\ "file" \in Kinds
               /\ \E prefix \in Prefixes, lazyPage \in LazyPages \cup {0} :
                    mapFileSegment(base, size, p, mx, prefix, lazyPage)

ChangeNext ==
    \E address \in Address, size \in ChangeSizes :
        \/ "deallocate" \in Kinds /\ deallocate(address, size)
        \/ \E p \in Protections, copy \in Copies : protect(address, size, p, copy)

BeginNext ==
    \E address \in Address :
        \/ "read" \in Kinds /\ \E n \in AccessSizes : begin("read", address, n, {"R"}, << >>)
        \/ /\ "validate" \in Kinds
           /\ \E n \in AccessSizes, r \in {"R", "W"} : begin("validate", address, n, {r}, << >>)
        \/ /\ "write" \in Kinds
           /\ \E data \in Payloads : begin("write", address, Len(data), {"W"}, data)
        \/ "fetch" \in Kinds /\ begin("fetch", address, 1, {"X"}, << >>)
        \/ "direct" \in Kinds /\ begin("direct", address, 1, {"R"}, << >>)
        \/ "direct" \in Kinds /\ \E d \in Payloads : begin("direct", address, 1, {"W"}, <<d[1]>>)

StepNext ==
    \/ readInto
    \/ validateAccess
    \/ writeFirst
    \/ writeValidate
    \/ writeCopy
    \/ executableBytes
    \/ directAccess

Next == MapNext \/ ChangeNext \/ BeginNext \/ StepNext

Spec == Init /\ [][Next]_vars

-----------------------------------------------------------------------------
(* Properties.                                                             *)

VectorOf(S, size) == [0 .. size - 1 -> S] \cup {Empty}

MappingType(m) ==
    m \in [base : Address, size : Address,
           permissions : Permission, maximumPermissions : Permission,
           bytes : VectorOf(Value, m.size), fileBytes : Backings \cup {NoBacking},
           fileDataOffset : Nat, lazyFileTransform : BOOLEAN,
           readableBytes : VectorOf(BOOLEAN, m.size)]

HostType(host) ==
    /\ host = [cells |-> host.cells, transform |-> host.transform]
    /\ DOMAIN host.cells \subseteq Int
    /\ host.cells \in [DOMAIN host.cells -> Value]
    /\ host.transform \in [dataOffset : Nat, size : Nat, pageSize : Nat \ {0},
                           transformedPages : SUBSET Int]

HostsType(h) == h = [b \in Backings |-> h[b]] /\ \A b \in Backings : HostType(h[b])

LookupType ==
    lookup \in [0 .. LookupSize - 1 ->
                  [base : Address, end : Address, index : Nat, valid : BOOLEAN]]

CallType ==
    call \in [op : {"none", "read", "write", "validate", "fetch", "direct", "crashed"},
              address : Address, size : Nat, required : Permission, data : Seq(Value),
              phase : {"none", "first", "validate", "copy"}, done : Nat, exec : BOOLEAN]

\* The state has the types of the source: vectors and host mappings hold only cell values, also
\* in what a read has gathered so far, so that no read or write left its backing.
TypeOK ==
    /\ IsFiniteSet(mappings)
    /\ \A m \in mappings : MappingType(m)
    /\ HostsType(hosts)
    /\ LookupType
    /\ executableVersion \in Nat
    /\ CallType
    /\ result.data \in Seq(Value)

\* Mappings are whole pages inside the address range and no two of them overlap, whatever
\* sequence of maps, splits by protect and removals by deallocate produced them: the vector
\* can be binary searched (AddressSpace.h, "Kept ordered by guest base address").
WellPlaced(m) ==
    /\ m.size # 0
    /\ m.base % PageSize = 0
    /\ m.size % PageSize = 0
    /\ End(m) <= Limit
Apart(m, n) == End(m) <= n.base \/ End(n) <= m.base
MappingsDisjoint ==
    /\ \A m \in mappings : WellPlaced(m)
    /\ \A m, n \in mappings : m # n => Apart(m, n)

\* Every valid entry of the lookup table has the extent of a mapping that still exists.
LookupCoherent ==
    \A s \in 0 .. LookupSize - 1 : lookup[s].valid =>
        \E m \in mappings : m.base = lookup[s].base /\ End(m) = lookup[s].end

\* The lookup table never changes what find() returns: with or without a hit it is the mapping
\* a fresh search of the vector finds.
FindExact ==
    \A address \in Address, size \in AccessSizes :
        Resolved(address, size) = SearchHit(address, size)

\* The host cells of a mapping exist and a lazy transform covers them, so materialize never
\* throws: the offsets survive every split.
InBounds(m, host) ==
    /\ m.fileDataOffset .. m.fileDataOffset + m.size - 1 \subseteq DOMAIN host.cells
    /\ m.lazyFileTransform =>
         /\ host.transform.dataOffset <= m.fileDataOffset
         /\ m.fileDataOffset + m.size <= host.transform.dataOffset + host.transform.size
BackingInBounds == \A m \in mappings : HasFile(m) => InBounds(m, hosts[m.fileBytes])

\* No two mappings use the same host cells: pieces of a split mapping keep apart in the host
\* mapping they share, and a host mapping is never handed out twice.
BackingUnshared ==
    \A m, n \in mappings : HasFile(m) /\ m.fileBytes = n.fileBytes /\ m # n =>
         \/ m.fileDataOffset + m.size <= n.fileDataOffset
         \/ n.fileDataOffset + n.size <= m.fileDataOffset

\* Once writeBytes has validated its range, its copy loop finds every mapping again: a write
\* that faults has stored nothing.
CopyNeverFaults ==
    call.op = "write" /\ call.phase = "copy" => \E m \in mappings : Found(m)

\* docs/guest-memory.md: "Byte copies may cross mappings and are bounds-checked as a whole."
\* No access the permissions allow is made through storage that does not exist.
AccessesAreChecked == call.op # "crashed"
=============================================================================
