------------------------- MODULE AddressSpaceProofs -------------------------
(***************************************************************************)
(* Machine-checked proofs about AddressSpace, for every page size, address *)
(* range, lookup table size, cell contents and set of inputs.              *)
(***************************************************************************)
EXTENDS AddressSpaceRefinement, FiniteSetTheorems, SequenceTheorems, WellFoundedInduction, TLAPS

-----------------------------------------------------------------------------
(* Multiples of the page size.                                             *)

\* Division with remainder.
LEMMA DivMod ==
    ASSUME NEW P \in Nat \ {0}, NEW a \in Nat
    PROVE  a = P * (a \div P) + (a % P) /\ a % P \in 0 .. P - 1 /\ a \div P \in Nat
  OBVIOUS

\* A product with P leaves no remainder.
LEMMA MultMod ==
    ASSUME NEW P \in Nat \ {0}, NEW q \in Nat
    PROVE  (P * q) % P = 0
  <1> DEFINE a == P * q
             d == a \div P
             r == a % P
  <1>1. a \in Nat
    OBVIOUS
  <1>2. a = P * d + r /\ r \in 0 .. P - 1 /\ d \in Nat
    BY <1>1, DivMod
  <1>3. P * (q - d) = r
    BY <1>2
  <1>4. CASE q - d >= 1
    <2>1. P * (q - d) >= P
      BY <1>4, <1>2
    <2> QED
      BY <2>1, <1>2, <1>3
  <1>5. CASE q - d <= -1
    <2>1. P * (q - d) <= -P
      BY <1>5, <1>2
    <2> QED
      BY <2>1, <1>2, <1>3
  <1>6. CASE q = d
    BY <1>6, <1>3, <1>2
  <1> QED
    BY <1>4, <1>5, <1>6, <1>2

\* PageFloor rounds down to a page boundary, PageCeiling up.
LEMMA RoundingIsAligned ==
    ASSUME NEW a \in Nat
    PROVE  /\ PageFloor(a) \in Nat /\ PageFloor(a) % PageSize = 0
           /\ PageFloor(a) <= a /\ a < PageFloor(a) + PageSize
           /\ PageCeiling(a) \in Nat /\ PageCeiling(a) % PageSize = 0
           /\ a <= PageCeiling(a) /\ PageCeiling(a) < a + PageSize
  <1> USE GeometryAssumption
  <1>1. ASSUME NEW b \in Nat
        PROVE  /\ PageFloor(b) \in Nat /\ PageFloor(b) % PageSize = 0
               /\ PageFloor(b) <= b /\ b < PageFloor(b) + PageSize
    <2>1. b = PageSize * (b \div PageSize) + (b % PageSize) /\ b % PageSize \in 0 .. PageSize - 1
          /\ b \div PageSize \in Nat
      BY DivMod
    <2>2. PageFloor(b) = PageSize * (b \div PageSize)
      BY <2>1 DEF PageFloor
    <2>3. (PageSize * (b \div PageSize)) % PageSize = 0
      BY <2>1, MultMod
    <2> QED
      BY <2>1, <2>2, <2>3 DEF PageFloor
  <1>2. a + PageSize - 1 \in Nat
    OBVIOUS
  <1> DEFINE b == a + PageSize - 1
  <1>3. /\ PageFloor(b) \in Nat /\ PageFloor(b) % PageSize = 0
        /\ PageFloor(b) <= b /\ b < PageFloor(b) + PageSize
    BY <1>1, <1>2
  <1>4. PageCeiling(a) = PageFloor(b)
    BY DEF PageCeiling
  <1> HIDE DEF b
  <1>5. b = a + PageSize - 1
    BY DEF b
  <1>6. /\ PageFloor(a) \in Nat /\ PageFloor(a) % PageSize = 0
        /\ PageFloor(a) <= a /\ a < PageFloor(a) + PageSize
    BY <1>1
  <1>7. PageCeiling(a) \in Nat /\ PageCeiling(a) % PageSize = 0
    BY <1>3, <1>4
  <1>8. a <= PageCeiling(a) /\ PageCeiling(a) < a + PageSize
    <2>1. PageCeiling(a) <= b /\ b < PageCeiling(a) + PageSize
      BY <1>3, <1>4
    <2> QED
      BY <2>1, <1>5, <1>7
  <1> QED
    BY <1>6, <1>7, <1>8

\* The distance of two page boundaries, and their sum, are multiples of the page size.
LEMMA AlignedDistance ==
    ASSUME NEW a \in Nat, NEW b \in Nat, a % PageSize = 0, b % PageSize = 0
    PROVE  /\ (a + b) % PageSize = 0
           /\ a <= b => (b - a) % PageSize = 0
  <1> USE GeometryAssumption
  <1> DEFINE p == a \div PageSize
             q == b \div PageSize
  <1>1. a = PageSize * p /\ p \in Nat /\ b = PageSize * q /\ q \in Nat
    BY DivMod
  <1>2. a + b = PageSize * (p + q) /\ p + q \in Nat
    BY <1>1
  <1>3. (a + b) % PageSize = 0
    BY <1>2, MultMod
  <1>4. ASSUME a <= b PROVE (b - a) % PageSize = 0
    <2>1. b - a = PageSize * (q - p)
      BY <1>1
    <2>2. q - p \in Nat
      BY <1>1, <1>4
    <2> QED
      BY <2>1, <2>2, MultMod
  <1> QED
    BY <1>3, <1>4

-----------------------------------------------------------------------------
(* The inductive invariant.                                                *)

GoodMapping(m, h) ==
    /\ MappingType(m)
    /\ WellPlaced(m)
    /\ HasFile(m) => InBounds(m, h[m.fileBytes])

NatTransforms(h) ==
    \A b \in Backings : h[b].transform.dataOffset \in Nat /\ h[b].transform.size \in Nat

GoodMappings(S, h) ==
    /\ \A m \in S : GoodMapping(m, h)
    /\ \A m, n \in S : m # n => Apart(m, n)

\* A call in progress has cells left to do, and a payload of the size it asked for.
CallProgress ==
    call.op \in {"read", "write", "validate", "fetch", "direct"} =>
        /\ call.done < call.size
        /\ call.op = "write" \/ (call.op = "direct" /\ "W" \in call.required)
             => Len(call.data) = call.size

IInv ==
    /\ GoodMappings(mappings, hosts)
    /\ HostsType(hosts)
    /\ LookupType
    /\ LookupCoherent
    /\ executableVersion \in Nat
    /\ CallType
    /\ CallProgress
    /\ result.data \in Seq(Value)

\* Mappings that keep apart are finitely many: their bases are distinct addresses.
LEMMA FiniteMappings ==
    ASSUME NEW S, \A m \in S : m.base \in Address /\ m.size \in Nat /\ m.size # 0,
           \A m, n \in S : m # n => Apart(m, n)
    PROVE  IsFiniteSet(S)
  <1> DEFINE f == [m \in S |-> m.base]
  <1>1. \A m, n \in S : f[m] = f[n] => m = n
    BY GeometryAssumption DEF Apart, End, Address
  <1>2. f \in Injection(S, Address)
    BY <1>1 DEF Injection, IsInjective
  <1>3. IsFiniteSet(Address)
    BY FS_Interval, GeometryAssumption DEF Address
  <1> QED
    BY <1>2, <1>3, FS_Injection

\* IInv gives the type invariant and the safety invariants.
LEMMA IInvImplies == IInv => TypeOK /\ MappingsDisjoint /\ LookupCoherent /\ BackingInBounds
  <1> SUFFICES ASSUME IInv PROVE TypeOK /\ MappingsDisjoint /\ LookupCoherent /\ BackingInBounds
    OBVIOUS
  <1>1. \A m \in mappings : m.base \in Address /\ m.size \in Nat /\ m.size # 0
    BY GeometryAssumption
       DEF IInv, GoodMappings, GoodMapping, MappingType, WellPlaced, Address
  <1>2. IsFiniteSet(mappings)
    BY <1>1, FiniteMappings DEF IInv, GoodMappings
  <1> QED
    BY <1>2 DEF IInv, TypeOK, MappingsDisjoint, BackingInBounds, GoodMappings, GoodMapping

-----------------------------------------------------------------------------
(* find().                                                                 *)

\* The slot of an address is a slot of the table.
LEMMA SlotInTable ==
    ASSUME NEW a \in Nat
    PROVE  SlotOf(a) \in 0 .. LookupSize - 1
  <1>1. a \div PageSize \in Nat
    BY GeometryAssumption, DivMod
  <1> QED
    BY <1>1, GeometryAssumption, DivMod DEF SlotOf

\* The arithmetic facts about a mapping that the geometry proofs use.
LEMMA MappingFacts ==
    ASSUME IInv
    PROVE  /\ \A m \in mappings : /\ m.base \in Nat /\ m.size \in Nat \ {0}
                                  /\ End(m) \in Nat /\ m.base < End(m) /\ End(m) <= Limit
                                  /\ End(m) = m.base + m.size
           /\ \A m, n \in mappings : m # n => End(m) <= n.base \/ End(n) <= m.base
  BY GeometryAssumption
     DEF IInv, GoodMappings, GoodMapping, MappingType, WellPlaced, Address, End, Apart

\* A hit in the table is the one mapping that holds the accessed range.
LEMMA HitInside ==
    ASSUME IInv, NEW a \in Nat, NEW n \in Nat, NEW m \in LookupHit(a, n)
    PROVE  m \in mappings /\ m.base <= a /\ a < End(m) /\ n <= End(m) - a
  <1> DEFINE cached == lookup[SlotOf(a)]
  <1>1. m \in mappings /\ cached.valid /\ a >= cached.base /\ a < cached.end
        /\ n <= cached.end - a /\ m.base = cached.base
    BY DEF LookupHit
  <1>2. SlotOf(a) \in 0 .. LookupSize - 1
    BY SlotInTable
  <1>3. PICK k \in mappings : k.base = cached.base /\ End(k) = cached.end
    BY <1>1, <1>2 DEF IInv, LookupCoherent
  <1>4. k = m
    BY <1>1, <1>3, MappingFacts
  <1> QED
    BY <1>1, <1>3, <1>4

\* So is a mapping the binary search returns.
LEMMA SearchInside ==
    ASSUME IInv, NEW a \in Nat, NEW n \in Nat \ {0}, NEW m \in SearchHit(a, n)
    PROVE  m \in mappings /\ m.base <= a /\ a < End(m) /\ n <= End(m) - a
  <1>1. m \in mappings /\ rangeContains(m.base, m.size, a, n)
    BY DEF SearchHit
  <1> QED
    BY <1>1, MappingFacts DEF rangeContains

\* Two mappings that hold the same address are the same.
LEMMA OneMappingPerAddress ==
    ASSUME IInv, NEW a \in Nat, NEW m \in mappings, NEW k \in mappings,
           m.base <= a, a < End(m), k.base <= a, a < End(k)
    PROVE  m = k
  BY MappingFacts

\* A mapping that holds the whole range is what the binary search returns.
LEMMA InsideIsSearchHit ==
    ASSUME IInv, NEW a \in Nat, NEW n \in Nat \ {0}, NEW m \in mappings,
           m.base <= a, a < End(m), n <= End(m) - a
    PROVE  m \in SearchHit(a, n)
  <1>1. IsFloor(m, a)
    BY MappingFacts DEF IsFloor
  <1>2. rangeContains(m.base, m.size, a, n)
    BY MappingFacts DEF rangeContains
  <1> QED
    BY <1>1, <1>2 DEF SearchHit

\* find() resolves to a mapping that holds the access, the same with and without the table.
LEMMA ResolvedExact ==
    ASSUME IInv, NEW a \in Nat, NEW n \in Nat \ {0}
    PROVE  /\ Resolved(a, n) = SearchHit(a, n)
           /\ \A m \in Resolved(a, n) :
                m \in mappings /\ m.base <= a /\ a < End(m) /\ n <= End(m) - a
  <1>1. ASSUME LookupHit(a, n) # {} PROVE LookupHit(a, n) = SearchHit(a, n)
    <2>1. PICK h \in LookupHit(a, n) : TRUE
      BY <1>1
    <2>2. h \in mappings /\ h.base <= a /\ a < End(h) /\ n <= End(h) - a
      BY HitInside
    <2>3. \A k \in LookupHit(a, n) : k = h
      <3>1. SUFFICES ASSUME NEW k \in LookupHit(a, n) PROVE k = h
        OBVIOUS
      <3>2. k \in mappings /\ k.base <= a /\ a < End(k)
        BY HitInside
      <3> QED
        BY <2>2, <3>2, OneMappingPerAddress
    <2>4. \A k \in SearchHit(a, n) : k = h
      <3>1. SUFFICES ASSUME NEW k \in SearchHit(a, n) PROVE k = h
        OBVIOUS
      <3>2. k \in mappings /\ k.base <= a /\ a < End(k)
        BY SearchInside
      <3> QED
        BY <2>2, <3>2, OneMappingPerAddress
    <2>5. h \in SearchHit(a, n)
      BY <2>2, InsideIsSearchHit
    <2> QED
      BY <2>3, <2>4, <2>5, <2>1
  <1>2. Resolved(a, n) = SearchHit(a, n)
    BY <1>1 DEF Resolved
  <1>3. \A m \in SearchHit(a, n) : m \in mappings /\ m.base <= a /\ a < End(m) /\ n <= End(m) - a
    BY SearchInside
  <1> QED
    BY <1>2, <1>3

\* The table entry a miss writes describes the mapping that was found.
LEMMA LookupAfterCoherent ==
    ASSUME IInv, NEW a \in Nat, NEW n \in Nat, NEW m \in mappings,
           lookup' = LookupAfter(m, a, n), NEW S,
           \A k \in mappings : \E j \in S : j.base = k.base /\ End(j) = End(k)
    PROVE  /\ LookupType'
           /\ \A s \in 0 .. LookupSize - 1 : lookup'[s].valid =>
                \E j \in S : j.base = lookup'[s].base /\ End(j) = lookup'[s].end
  <1> DEFINE entry == [base |-> m.base, end |-> End(m), index |-> IndexOf(m), valid |-> TRUE]
  <1>1. SlotOf(a) \in 0 .. LookupSize - 1
    BY SlotInTable
  <1>2. m.base \in Address /\ End(m) \in Address
    BY MappingFacts, GeometryAssumption DEF Address
  <1>3. IndexOf(m) \in Nat
    <2>1. IsFiniteSet(mappings)
      BY IInvImplies DEF TypeOK
    <2>2. IsFiniteSet({x \in mappings : x.base < m.base})
      BY <2>1, FS_Subset
    <2> QED
      BY <2>2, FS_CardinalityType DEF IndexOf
  <1>4. entry \in [base : Address, end : Address, index : Nat, valid : BOOLEAN]
    BY <1>2, <1>3
  <1>5. lookup \in [0 .. LookupSize - 1 ->
                      [base : Address, end : Address, index : Nat, valid : BOOLEAN]]
    BY DEF IInv, LookupType
  <1>6. \A s \in 0 .. LookupSize - 1 : lookup[s].valid =>
            \E k \in mappings : k.base = lookup[s].base /\ End(k) = lookup[s].end
    BY DEF IInv, LookupCoherent
  <1>7. lookup' = lookup \/ lookup' = [lookup EXCEPT ![SlotOf(a)] = entry]
    BY DEF LookupAfter
  <1> HIDE DEF entry
  <1>8. entry.base = m.base /\ entry.end = End(m)
    BY DEF entry
  <1>9. LookupType'
    BY <1>1, <1>4, <1>5, <1>7 DEF LookupType
  <1>10. ASSUME NEW s \in 0 .. LookupSize - 1, lookup'[s].valid
         PROVE  \E k \in mappings : k.base = lookup'[s].base /\ End(k) = lookup'[s].end
    BY <1>1, <1>5, <1>6, <1>7, <1>8, <1>10, ZenonT(60)
  <1> QED
    BY <1>9, <1>10

-----------------------------------------------------------------------------
(* Pieces of the invariant that most calls restore the same way.           *)

\* A call that ends leaves a well-typed idle state.
LEMMA FinishTyped ==
    ASSUME NEW status, NEW data \in Seq(Value), Finish(status, data)
    PROVE  CallType' /\ CallProgress' /\ result'.data \in Seq(Value)
  <1>1. call' = NoCall /\ result'.data = data
    BY DEF Finish, Returned
  <1>2. NoCall \in [op : {"none", "read", "write", "validate", "fetch", "direct", "crashed"},
              address : Address, size : Nat, required : Permission, data : Seq(Value),
              phase : {"none", "first", "validate", "copy"}, done : Nat, exec : BOOLEAN]
    BY GeometryAssumption DEF NoCall, Address, Permission, None
  <1>3. NoCall.op = "none"
    BY DEF NoCall
  <1> QED
    BY <1>1, <1>2, <1>3 DEF CallType, CallProgress

\* The empty sequence is a sequence of cells.
LEMMA EmptyData == << >> \in Seq(Value)
  OBVIOUS

\* An invalidated table is coherent with any set of mappings.
LEMMA InvalidatedLookup ==
    ASSUME lookup' = invalidateMappingLookup
    PROVE  LookupType' /\ LookupCoherent'
  <1>1. NoEntry \in [base : Address, end : Address, index : Nat, valid : BOOLEAN]
    BY GeometryAssumption DEF NoEntry, Address
  <1>2. lookup' = [s \in 0 .. LookupSize - 1 |-> NoEntry]
    BY DEF invalidateMappingLookup, EmptyLookup
  <1>3. LookupType'
    BY <1>1, <1>2 DEF LookupType
  <1>4. \A s \in 0 .. LookupSize - 1 : ~lookup'[s].valid
    BY <1>2 DEF NoEntry
  <1> QED
    BY <1>3, <1>4 DEF LookupCoherent

\* The version stays a natural number.
LEMMA BumpTyped ==
    ASSUME executableVersion \in Nat, NEW changed, BumpVersion(changed)
    PROVE  executableVersion' \in Nat
  BY DEF BumpVersion

\* A call that changes nothing but its outcome keeps the invariant.
LEMMA UnchangedKeeps ==
    ASSUME IInv, NEW status, Unchanged(status)
    PROVE  IInv'
  <1>1. Finish(status, << >>)
    BY DEF Unchanged
  <1>2. CallType' /\ CallProgress' /\ result'.data \in Seq(Value)
    BY <1>1, FinishTyped, EmptyData
  <1>3. mappings' = mappings /\ lookup' = lookup /\ hosts' = hosts
        /\ executableVersion' = executableVersion
    BY DEF Unchanged
  <1> QED
    BY <1>2, <1>3 DEF IInv, GoodMappings, GoodMapping, HostsType, LookupType, LookupCoherent

\* A host mapping that was unmapped is well-typed: it has no cells.
LEMMA ReleasedType == HostType(Released)
  <1>1. << >> \in [DOMAIN << >> -> Value] /\ DOMAIN << >> \subseteq Int
    OBVIOUS
  <1>2. NoTransform \in [dataOffset : Nat, size : Nat, pageSize : Nat \ {0},
                         transformedPages : SUBSET Int]
    BY DEF NoTransform
  <1>3. Released.cells = << >> /\ Released.transform = NoTransform
        /\ Released = [cells |-> Released.cells, transform |-> Released.transform]
    BY DEF Released, Empty
  <1> QED
    BY <1>1, <1>2, <1>3 DEF HostType

\* Nothing is mapped at first.
LEMMA InitIInv == Init => IInv
  <1> SUFFICES ASSUME Init PROVE IInv
    OBVIOUS
  <1> USE DEF Init
  <1>1. GoodMappings(mappings, hosts)
    BY DEF GoodMappings
  <1>2. HostsType(hosts)
    BY ReleasedType DEF HostsType
  <1>3. LookupType /\ LookupCoherent
    <2>1. NoEntry \in [base : Address, end : Address, index : Nat, valid : BOOLEAN]
      BY GeometryAssumption DEF NoEntry, Address
    <2>2. \A s \in 0 .. LookupSize - 1 : ~lookup[s].valid
      BY DEF EmptyLookup, NoEntry
    <2> QED
      BY <2>1, <2>2 DEF LookupType, LookupCoherent, EmptyLookup
  <1>4. CallType /\ CallProgress /\ result.data \in Seq(Value)
    BY EmptyData, GeometryAssumption
       DEF NoCall, Address, Permission, None, CallType, CallProgress, Returned
  <1> QED
    BY <1>1, <1>2, <1>3, <1>4 DEF IInv

-----------------------------------------------------------------------------
(* Splitting mappings.                                                     *)

\* A piece of a vector is a vector of the piece's size, and nothing of nothing.
LEMMA SubVectorType ==
    ASSUME NEW V, NEW n \in Nat, NEW f \in VectorOf(V, n),
           NEW offset \in Nat, NEW size \in Nat, offset + size <= n
    PROVE  SubVector(f, offset, size) \in VectorOf(V, size)
  <1>1. CASE f = Empty
    BY <1>1 DEF SubVector, VectorOf
  <1>2. CASE f # Empty
    <2>1. f \in [0 .. n - 1 -> V]
      BY <1>2 DEF VectorOf
    <2>2. \A i \in 0 .. size - 1 : offset + i \in 0 .. n - 1
      OBVIOUS
    <2>3. [i \in 0 .. size - 1 |-> f[offset + i]] \in [0 .. size - 1 -> V]
      BY <2>1, <2>2
    <2> QED
      BY <1>2, <2>3 DEF SubVector, VectorOf
  <1> QED
    BY <1>1, <1>2

\* A page-aligned piece of a good mapping is a good mapping, and covers what was asked.
LEMMA SliceGood ==
    ASSUME NEW m, NEW h, GoodMapping(m, h), NatTransforms(h),
           NEW start \in Nat, NEW end \in Nat,
           start % PageSize = 0, end % PageSize = 0,
           m.base <= start, start < end, end <= End(m),
           NEW p \in Permission, NEW mx \in Permission
    PROVE  /\ GoodMapping(slice(m, start, end, p, mx), h)
           /\ slice(m, start, end, p, mx).base = start
           /\ End(slice(m, start, end, p, mx)) = end
           /\ slice(m, start, end, p, mx).fileBytes = m.fileBytes
  <1> DEFINE k == slice(m, start, end, p, mx)
             offset == start - m.base
             size == end - start
  <1>1. /\ m.base \in Nat /\ m.size \in Nat /\ End(m) = m.base + m.size /\ End(m) <= Limit
        /\ m.fileDataOffset \in Nat
        /\ m.bytes \in VectorOf(Value, m.size) /\ m.readableBytes \in VectorOf(BOOLEAN, m.size)
        /\ m.fileBytes \in Backings \cup {NoBacking} /\ m.lazyFileTransform \in BOOLEAN
    BY GeometryAssumption DEF GoodMapping, MappingType, WellPlaced, Address, End
  <1>2. offset \in Nat /\ size \in Nat \ {0} /\ offset + size <= m.size
    BY <1>1
  <1>3. k = [base |-> start, size |-> size, permissions |-> p, maximumPermissions |-> mx,
             bytes |-> SubVector(m.bytes, offset, size),
             fileBytes |-> m.fileBytes, fileDataOffset |-> m.fileDataOffset + offset,
             lazyFileTransform |-> m.lazyFileTransform,
             readableBytes |-> SubVector(m.readableBytes, offset, size)]
    BY DEF slice, SliceAt
  <1>4. /\ SubVector(m.bytes, offset, size) \in VectorOf(Value, size)
        /\ SubVector(m.readableBytes, offset, size) \in VectorOf(BOOLEAN, size)
    BY <1>1, <1>2, SubVectorType
  <1> HIDE DEF k, offset, size
  <1>5. /\ k.base = start /\ k.size = size /\ k.fileBytes = m.fileBytes
        /\ k.fileDataOffset = m.fileDataOffset + offset
        /\ k.lazyFileTransform = m.lazyFileTransform
    BY <1>3
  <1>6. size = end - start /\ offset = start - m.base
    BY DEF size, offset
  <1>7. End(k) = end
    BY <1>5, <1>6 DEF End
  <1>8. MappingType(k)
    <2>1. start \in Address /\ size \in Address
      BY <1>1, <1>6 , GeometryAssumption DEF Address
    <2> QED
      BY <1>1, <1>2, <1>3, <1>4, <1>5, <2>1 DEF MappingType
  <1>9. WellPlaced(k)
    <2>1. size % PageSize = 0
      BY AlignedDistance, <1>6
    <2> QED
      BY <2>1, <1>2, <1>5, <1>7, <1>1, GeometryAssumption DEF WellPlaced
  <1>10. ASSUME HasFile(k) PROVE InBounds(k, h[k.fileBytes])
    <2>1. HasFile(m)
      BY <1>10, <1>5 DEF HasFile
    <2>2. InBounds(m, h[m.fileBytes])
      BY <2>1 DEF GoodMapping
    <2> DEFINE host == h[m.fileBytes]
    <2>3. m.fileDataOffset + offset .. m.fileDataOffset + offset + size - 1
            \subseteq m.fileDataOffset .. m.fileDataOffset + m.size - 1
      BY <1>1, <1>2
    <2>4. k.fileDataOffset .. k.fileDataOffset + k.size - 1 \subseteq DOMAIN host.cells
      BY <2>2, <2>3, <1>5 DEF InBounds
    <2>5. ASSUME k.lazyFileTransform
          PROVE  /\ host.transform.dataOffset <= k.fileDataOffset
                 /\ k.fileDataOffset + k.size <= host.transform.dataOffset + host.transform.size
      <3>1. /\ host.transform.dataOffset <= m.fileDataOffset
            /\ m.fileDataOffset + m.size <= host.transform.dataOffset + host.transform.size
        BY <2>2, <2>5, <1>5 DEF InBounds
      <3>2. host.transform.dataOffset \in Nat /\ host.transform.size \in Nat
        BY <2>1, <1>1 DEF NatTransforms, HasFile
      <3> HIDE DEF host
      <3> QED
        BY <3>1, <3>2, <1>1, <1>2, <1>5
    <2> QED
      BY <2>4, <2>5, <1>5 DEF InBounds
  <1> QED
    BY <1>5, <1>7, <1>8, <1>9, <1>10 DEF GoodMapping, k

\* Replacing every mapping by pieces inside it keeps mappings good and apart.
LEMMA PiecesGood ==
    ASSUME NEW S, NEW T, NEW h, NEW F, GoodMappings(S, h),
           \A k \in T : \E m \in S : k \in F[m],
           \A m \in S : \A k \in F[m] : GoodMapping(k, h) /\ m.base <= k.base /\ End(k) <= End(m),
           \A m \in S : \A j, k \in F[m] : j # k => Apart(j, k)
    PROVE  GoodMappings(T, h)
  <1>1. \A k \in T : GoodMapping(k, h)
    OBVIOUS
  <1>2. ASSUME NEW j \in T, NEW k \in T, j # k PROVE Apart(j, k)
    <2>1. PICK m \in S : j \in F[m]
      OBVIOUS
    <2>2. PICK n \in S : k \in F[n]
      OBVIOUS
    <2>3. CASE m = n
      BY <2>1, <2>2, <2>3, <1>2
    <2>4. CASE m # n
      <3>1. Apart(m, n)
        BY <2>4 DEF GoodMappings
      <3>2. /\ m.base <= j.base /\ End(j) <= End(m) /\ n.base <= k.base /\ End(k) <= End(n)
            /\ GoodMapping(j, h) /\ GoodMapping(k, h)
        BY <2>1, <2>2
      <3>3. GoodMapping(m, h) /\ GoodMapping(n, h)
        BY DEF GoodMappings
      <3>4. \A x : GoodMapping(x, h) => x.base \in Nat /\ x.size \in Nat
        BY GeometryAssumption DEF GoodMapping, MappingType, Address
      <3> QED
        BY <3>1, <3>2, <3>3, <3>4 DEF Apart, End
    <2> QED
      BY <2>3, <2>4
  <1> QED
    BY <1>1, <1>2 DEF GoodMappings

-----------------------------------------------------------------------------
(* Neighbours.                                                             *)

\* A non-empty set of natural numbers has a least element.
LEMMA LeastElement ==
    ASSUME NEW T \in SUBSET Nat, T # {}
    PROVE  \E x \in T : \A y \in T : x <= y
  <1>1. PICK x \in T : \A y \in T : ~(<<y, x>> \in OpToRel(<, Nat))
    BY NatLessThanWellFounded, WFMin
  <1>2. \A y \in T : ~(y < x)
    BY <1>1 DEF OpToRel
  <1> QED
    BY <1>2

\* Comparing a new mapping with its two neighbours in the vector compares it with all of them.
LEMMA NewMappingApart ==
    ASSUME IInv, NEW base \in Nat, NEW size \in Nat, NEW p, NEW mx,
           validateNewMapping(base, size, p, mx), NEW m \in mappings
    PROVE  End(m) <= base \/ base + size <= m.base
  <1>1. CASE m.base >= base
    <2> DEFINE T == {x.base : x \in {y \in mappings : y.base >= base}}
    <2>1. T \in SUBSET Nat /\ T # {}
      BY <1>1, MappingFacts
    <2>2. PICK b \in T : \A c \in T : b <= c
      BY <2>1, LeastElement
    <2>3. PICK x \in mappings : x.base = b /\ x.base >= base
      OBVIOUS
    <2>4. \A y \in mappings : y.base >= base => x.base <= y.base
      BY <2>2, <2>3
    <2>5. base + size <= x.base
      BY <2>3, <2>4 DEF IsCeiling, validateNewMapping
    <2>6. x.base <= m.base
      BY <1>1, <2>4
    <2> QED
      BY <2>5, <2>6, <2>3, MappingFacts
  <1>2. CASE m.base < base
    <2> DEFINE T == {Limit - x.base : x \in {y \in mappings : y.base < base}}
    <2>1. T \in SUBSET Nat /\ T # {}
      <3>1. \A x \in mappings : Limit - x.base \in Nat
        BY MappingFacts, GeometryAssumption
      <3>2. T \in SUBSET Nat
        BY <3>1
      <3>3. Limit - m.base \in T
        BY <1>2
      <3> QED
        BY <3>2, <3>3
    <2>2. PICK b \in T : \A c \in T : b <= c
      BY <2>1, LeastElement
    <2>3. PICK x \in mappings : Limit - x.base = b /\ x.base < base
      OBVIOUS
    <2>4. ASSUME NEW y \in mappings, y.base < base PROVE y.base <= x.base
      <3>1. Limit - x.base <= Limit - y.base
        BY <2>2, <2>3, <2>4
      <3> QED
        BY <3>1, MappingFacts, GeometryAssumption
    <2>5. End(x) <= base
      BY <2>3, <2>4 DEF IsBelow, validateNewMapping
    <2>6. m = x \/ End(m) <= x.base
      BY <1>2, <2>4, MappingFacts
    <2> QED
      BY <2>5, <2>6, <2>3, MappingFacts
  <1> QED
    BY <1>1, <1>2, MappingFacts

\* Adding mappings that are apart from the old ones and from each other.
LEMMA UnionGood ==
    ASSUME NEW S, NEW T, NEW h, GoodMappings(S, h), GoodMappings(T, h),
           \A m \in S, n \in T : Apart(m, n)
    PROVE  GoodMappings(S \cup T, h)
  BY DEF GoodMappings, Apart

-----------------------------------------------------------------------------
(* Creating mappings.                                                      *)

\* A transform's fields are natural numbers.
LEMMA NatTransformsType ==
    ASSUME NEW h, HostsType(h)
    PROVE  NatTransforms(h)
  BY DEF HostsType, HostType, NatTransforms

\* A checked extent is whole pages inside the address range.
LEMMA NewMappingGood ==
    ASSUME NEW base \in Address, NEW size \in Address, NEW p \in Permission,
           NEW mx \in Permission, validateNewMapping(base, size, p, mx),
           NEW m, NEW h, MappingType(m), m.base = base, m.size = size,
           HasFile(m) => InBounds(m, h[m.fileBytes])
    PROVE  GoodMapping(m, h)
  <1>1. WellPlaced(m)
    BY GeometryAssumption DEF WellPlaced, End, validateNewMapping, Address
  <1> QED
    BY <1>1 DEF GoodMapping

\* An empty vector is a vector of any size.
LEMMA EmptyVector ==
    ASSUME NEW V, NEW n
    PROVE  Empty \in VectorOf(V, n)
  BY DEF VectorOf

\* A new mapping with its own cells, or with none, is good.
LEMMA PlainGood ==
    ASSUME NEW base \in Address, NEW size \in Address, NEW p \in Permission,
           NEW mx \in Permission, validateNewMapping(base, size, p, mx),
           NEW bytes \in VectorOf(Value, size), NEW h
    PROVE  LET m == PlainMapping(base, size, p, mx, bytes)
           IN  GoodMapping(m, h) /\ m.base = base /\ m.size = size
  <1> DEFINE m == PlainMapping(base, size, p, mx, bytes)
  <1>1. /\ m.base = base /\ m.size = size /\ m.fileBytes = NoBacking
    BY DEF PlainMapping
  <1>2. MappingType(m)
    BY EmptyVector DEF MappingType, PlainMapping
  <1> HIDE DEF m
  <1>3. GoodMapping(m, h)
    BY <1>1, <1>2, NewMappingGood DEF HasFile
  <1> QED
    BY <1>1, <1>3 DEF m

\* Inserting a good mapping in a free place keeps the invariant.
LEMMA InsertKeeps ==
    ASSUME IInv, NEW base \in Address, NEW size \in Address, NEW p, NEW mx,
           validateNewMapping(base, size, p, mx), NEW m, NEW h,
           GoodMapping(m, h), m.base = base, m.size = size, HostsType(h),
           \A k \in mappings : HasFile(k) => h[k.fileBytes] = hosts[k.fileBytes],
           insertMapping(m, h)
    PROVE  IInv'
  <1>1. /\ mappings' = mappings \cup {m} /\ lookup' = invalidateMappingLookup /\ hosts' = h
        /\ BumpVersion(isExecutable(m.permissions)) /\ Finish("success", << >>)
    BY DEF insertMapping
  <1>2. CallType' /\ CallProgress' /\ result'.data \in Seq(Value)
    BY <1>1, FinishTyped, EmptyData
  <1>3. LookupType' /\ LookupCoherent'
    BY <1>1, InvalidatedLookup
  <1>4. executableVersion' \in Nat
    BY <1>1, BumpTyped DEF IInv
  <1>5. GoodMappings(mappings, h)
    BY DEF IInv, GoodMappings, GoodMapping
  <1>6. GoodMappings({m}, h)
    BY DEF GoodMappings
  <1>7. \A k \in mappings : Apart(k, m)
    <2>1. base \in Nat /\ size \in Nat
      BY GeometryAssumption DEF Address
    <2> QED
      BY <2>1, NewMappingApart DEF Apart, End
  <1>8. GoodMappings(mappings', hosts')
    BY <1>1, <1>5, <1>6, <1>7, UnionGood
  <1>9. HostsType(hosts)'
    BY <1>1 DEF HostsType, HostType
  <1> QED
    BY <1>2, <1>3, <1>4, <1>8, <1>9 DEF IInv, GoodMappings, GoodMapping

\* A host mapping that is free may be overwritten: no mapping looks at it.
LEMMA FreshHost ==
    ASSUME IInv, NEW b \in Backings, IsFree(b), NEW host, HostType(host)
    PROVE  /\ HostsType([hosts EXCEPT ![b] = host])
           /\ [hosts EXCEPT ![b] = host][b] = host
           /\ \A k \in mappings : HasFile(k) =>
                [hosts EXCEPT ![b] = host][k.fileBytes] = hosts[k.fileBytes]
  <1>1. HostsType(hosts)
    BY DEF IInv
  <1>2. HostsType([hosts EXCEPT ![b] = host]) /\ [hosts EXCEPT ![b] = host][b] = host
    BY <1>1 DEF HostsType
  <1>3. ASSUME NEW k \in mappings, HasFile(k)
        PROVE  [hosts EXCEPT ![b] = host][k.fileBytes] = hosts[k.fileBytes]
    <2>1. k.fileBytes # b
      BY DEF IsFree
    <2> QED
      BY <2>1, <1>1, <1>3 DEF HostsType
  <1> QED
    BY <1>2, <1>3

\* mapAnonymous keeps the invariant.
LEMMA MapAnonymousKeeps ==
    ASSUME IInv, NEW base \in Address, NEW size \in Address, NEW p \in Permission,
           NEW mx \in Permission, mapAnonymous(base, size, p, mx)
    PROVE  IInv'
  <1> DEFINE plain == PlainMapping(base, size, p, mx, Empty)
             b == CHOOSE b \in Backings : IsFree(b)
             host == [cells |-> [c \in 0 .. size - 1 |-> Zero], transform |-> NoTransform]
             file == FileMapping(base, size, p, mx, b, 0, FALSE)
             h == [hosts EXCEPT ![b] = host]
  <1>1. \/ Rejected
        \/ validateNewMapping(base, size, p, mx) /\ insertMapping(plain, hosts)
        \/ /\ validateNewMapping(base, size, p, mx) /\ (\E x \in Backings : IsFree(x))
           /\ insertMapping(file, h)
    BY DEF mapAnonymous
  <1>2. CASE Rejected
    BY <1>2, UnchangedKeeps DEF Rejected
  <1>3. CASE validateNewMapping(base, size, p, mx) /\ insertMapping(plain, hosts)
    <2>1. GoodMapping(plain, hosts) /\ plain.base = base /\ plain.size = size
      BY <1>3, EmptyVector, PlainGood
    <2> HIDE DEF plain
    <2> QED
      BY <1>3, <2>1, InsertKeeps DEF IInv
  <1>4. CASE /\ validateNewMapping(base, size, p, mx) /\ (\E x \in Backings : IsFree(x))
             /\ insertMapping(file, h)
    <2>1. b \in Backings /\ IsFree(b)
      BY <1>4
    <2>2. HostType(host)
      BY ContentAssumption DEF HostType, NoTransform
    <2>3. DOMAIN host.cells = 0 .. size - 1
      OBVIOUS
    <2> HIDE DEF b, host
    <2>4. /\ HostsType(h) /\ h[b] = host
          /\ \A k \in mappings : HasFile(k) => h[k.fileBytes] = hosts[k.fileBytes]
      BY <2>1, <2>2, FreshHost
    <2>5. /\ MappingType(file) /\ file.base = base /\ file.size = size /\ file.fileBytes = b
          /\ file.fileDataOffset = 0 /\ ~file.lazyFileTransform
      <3>1. MappingType(file)
        BY <2>1, EmptyVector DEF MappingType, PlainMapping, FileMapping
      <3> QED
        BY <3>1 DEF PlainMapping, FileMapping
    <2> HIDE DEF h, file
    <2>6. InBounds(file, h[b])
      BY <2>3, <2>4, <2>5, GeometryAssumption DEF InBounds, Address
    <2>7. GoodMapping(file, h)
      BY <1>4, <2>5, <2>6, NewMappingGood
    <2> QED
      BY <1>4, <2>4, <2>5, <2>7, InsertKeeps
  <1> QED
    BY <1>1, <1>2, <1>3, <1>4

\* A segment's mapping is good.
LEMMA SegmentGood ==
    ASSUME NEW base \in Address, NEW size \in Address, NEW p \in Permission,
           NEW mx \in Permission, validateNewMapping(base, size, p, mx),
           NEW fileSize, NEW h
    PROVE  LET m == SegmentOf(base, size, p, mx, fileSize)
           IN  GoodMapping(m, h) /\ m.base = base /\ m.size = size
  <1> DEFINE bytes == IF mx = None THEN Empty ELSE InitialBytes(size, fileSize)
  <1>1. InitialBytes(size, fileSize) \in [0 .. size - 1 -> Value]
    BY ContentAssumption DEF InitialBytes
  <1>2. bytes \in VectorOf(Value, size)
    BY <1>1 DEF VectorOf
  <1>3. SegmentOf(base, size, p, mx, fileSize) = PlainMapping(base, size, p, mx, bytes)
    BY DEF SegmentOf
  <1> HIDE DEF bytes
  <1> QED
    BY <1>2, <1>3, PlainGood

\* mapSegment keeps the invariant.
LEMMA MapSegmentKeeps ==
    ASSUME IInv, NEW base \in Address, NEW size \in Address, NEW p \in Permission,
           NEW mx \in Permission, NEW fileSize, mapSegment(base, size, p, mx, fileSize)
    PROVE  IInv'
  <1> DEFINE m == SegmentOf(base, size, p, mx, fileSize)
  <1>1. Rejected \/ (validateNewMapping(base, size, p, mx) /\ insertMapping(m, hosts))
    BY DEF mapSegment
  <1>2. CASE Rejected
    BY <1>2, UnchangedKeeps DEF Rejected
  <1>3. CASE validateNewMapping(base, size, p, mx) /\ insertMapping(m, hosts)
    <2>1. GoodMapping(m, hosts) /\ m.base = base /\ m.size = size
      BY <1>3, SegmentGood
    <2> HIDE DEF m
    <2> QED
      BY <1>3, <2>1, InsertKeeps DEF IInv
  <1> QED
    BY <1>1, <1>2, <1>3

\* mapSegments keeps the invariant: the requests are checked against the mappings and against
\* each other, and the table it leaves alone still describes the mappings that were there.
LEMMA MapSegmentsKeeps ==
    ASSUME IInv, NEW requests \in SUBSET SegmentRequests, mapSegments(requests)
    PROVE  IInv'
  <1> DEFINE Seg(r) == SegmentOf(r.base, r.size, r.permissions, r.maximumPermissions, r.fileSize)
             new == {Seg(r) : r \in requests}
             valid(r) == validateNewMapping(r.base, r.size, r.permissions, r.maximumPermissions)
  <1>1. \/ Rejected
        \/ /\ \A r \in requests : valid(r)
           /\ \A r, s \in requests : r # s => (End(r) <= s.base \/ End(s) <= r.base)
           /\ mappings' = mappings \cup new
           /\ BumpVersion(\E r \in requests : isExecutable(r.permissions))
           /\ Finish("success", << >>) /\ lookup' = lookup /\ hosts' = hosts
    BY DEF mapSegments
  <1>2. CASE Rejected
    BY <1>2, UnchangedKeeps DEF Rejected
  <1>3. CASE /\ \A r \in requests : valid(r)
             /\ \A r, s \in requests : r # s => (End(r) <= s.base \/ End(s) <= r.base)
             /\ mappings' = mappings \cup new
             /\ BumpVersion(\E r \in requests : isExecutable(r.permissions))
             /\ Finish("success", << >>) /\ lookup' = lookup /\ hosts' = hosts
    <2>1. \A r \in requests : /\ r.base \in Address /\ r.size \in Address
                              /\ r.permissions \in Permission /\ r.maximumPermissions \in Permission
      BY InputAssumption DEF SegmentRequests
    <2>2. ASSUME NEW r \in requests
          PROVE  GoodMapping(Seg(r), hosts) /\ Seg(r).base = r.base /\ Seg(r).size = r.size
      BY <1>3, <2>1, SegmentGood, SMTT(60)
    <2>3. ASSUME NEW r \in requests, NEW m \in mappings
          PROVE  End(m) <= r.base \/ r.base + r.size <= m.base
      <3>1. r.base \in Nat /\ r.size \in Nat /\ valid(r)
        BY <1>3, <2>1, GeometryAssumption DEF Address
      <3> QED
        BY <3>1, NewMappingApart
    <2> HIDE DEF Seg
    <2>4. GoodMappings(new, hosts)
      <3>1. \A m \in new : GoodMapping(m, hosts)
        BY <2>2
      <3>2. ASSUME NEW m \in new, NEW n \in new, m # n PROVE Apart(m, n)
        <4>1. PICK r \in requests : m = Seg(r)
          OBVIOUS
        <4>2. PICK s \in requests : n = Seg(s)
          OBVIOUS
        <4>3. r # s
          BY <3>2, <4>1, <4>2
        <4> QED
          BY <1>3, <2>2, <4>1, <4>2, <4>3 DEF Apart, End
      <3> QED
        BY <3>1, <3>2 DEF GoodMappings
    <2>5. \A m \in mappings, n \in new : Apart(m, n)
      <3> SUFFICES ASSUME NEW m \in mappings, NEW n \in new PROVE Apart(m, n)
        OBVIOUS
      <3>1. PICK r \in requests : n = Seg(r)
        OBVIOUS
      <3> QED
        BY <2>2, <2>3, <3>1 DEF Apart, End
    <2>6. GoodMappings(mappings', hosts')
      BY <1>3, <2>4, <2>5, UnionGood DEF IInv
    <2>7. CallType' /\ CallProgress' /\ result'.data \in Seq(Value)
      BY <1>3, FinishTyped, EmptyData
    <2>8. executableVersion' \in Nat
      BY <1>3, BumpTyped DEF IInv
    <2>9. LookupType' /\ LookupCoherent' /\ HostsType(hosts)'
      BY <1>3 DEF IInv, LookupType, LookupCoherent, HostsType, HostType, End
    <2> QED
      BY <2>6, <2>7, <2>8, <2>9 DEF IInv, GoodMappings, GoodMapping
  <1> QED
    BY <1>1, <1>2, <1>3

\* mapFileSegment keeps the invariant, with and without a lazy transform.
LEMMA MapFileSegmentKeeps ==
    ASSUME IInv, NEW base \in Address, NEW size \in Address, NEW p \in Permission,
           NEW mx \in Permission, NEW prefix \in Nat, NEW lazyPage \in Nat,
           mapFileSegment(base, size, p, mx, prefix, lazyPage)
    PROVE  IInv'
  <1> DEFINE b == CHOOSE b \in Backings : IsFree(b)
             transform == IF lazyPage = 0 THEN NoTransform
                          ELSE installLazyFilePageTransform(prefix, size, lazyPage)
             host == [cells |-> [c \in 0 .. prefix + size - 1 |-> FileByte],
                      transform |-> transform]
             file == FileMapping(base, size, p, mx, b, prefix, lazyPage # 0)
             h == [hosts EXCEPT ![b] = host]
  <1>1. \/ Rejected
        \/ /\ validateNewMapping(base, size, p, mx) /\ (\E x \in Backings : IsFree(x))
           /\ insertMapping(file, h)
    BY DEF mapFileSegment
  <1>2. CASE Rejected
    BY <1>2, UnchangedKeeps DEF Rejected
  <1>3. CASE /\ validateNewMapping(base, size, p, mx) /\ (\E x \in Backings : IsFree(x))
             /\ insertMapping(file, h)
    <2>1. b \in Backings /\ IsFree(b)
      BY <1>3
    <2>2. size \in Nat
      BY GeometryAssumption DEF Address
    <2>3. /\ transform \in [dataOffset : Nat, size : Nat, pageSize : Nat \ {0},
                            transformedPages : SUBSET Int]
          /\ lazyPage # 0 => transform.dataOffset = prefix /\ transform.size = size
      BY <2>2 DEF NoTransform, installLazyFilePageTransform
    <2> HIDE DEF transform, b
    <2>4. /\ HostType(host) /\ DOMAIN host.cells = 0 .. prefix + size - 1
          /\ host.transform = transform
      BY <2>3, ContentAssumption DEF HostType
    <2> HIDE DEF host
    <2>5. /\ HostsType(h) /\ h[b] = host
          /\ \A k \in mappings : HasFile(k) => h[k.fileBytes] = hosts[k.fileBytes]
      BY <2>1, <2>4, FreshHost
    <2>6. /\ MappingType(file) /\ file.base = base /\ file.size = size /\ file.fileBytes = b
          /\ file.fileDataOffset = prefix /\ (file.lazyFileTransform => lazyPage # 0)
      <3>1. MappingType(file)
        BY <2>1, EmptyVector DEF MappingType, PlainMapping, FileMapping
      <3> QED
        BY <3>1 DEF PlainMapping, FileMapping
    <2> HIDE DEF h, file
    <2>7. InBounds(file, h[b])
      BY <2>2, <2>3, <2>4, <2>5, <2>6 DEF InBounds
    <2>8. GoodMapping(file, h)
      BY <1>3, <2>6, <2>7, NewMappingGood
    <2> QED
      BY <1>3, <2>5, <2>6, <2>8, InsertKeeps
  <1> QED
    BY <1>1, <1>2, <1>3

\* mapSparseReadOnly, with the population of the new page, keeps the invariant.
LEMMA MapSparseKeeps ==
    ASSUME IInv, NEW base \in Address, NEW size \in Address, NEW dataSize \in Nat, NEW populated,
           mapSparseReadOnly(base, size, dataSize, populated)
    PROVE  IInv'
  <1> DEFINE bytes == InitialBytes(size, dataSize)
             fresh == [PlainMapping(base, size, {"R"}, {"R"}, bytes)
                         EXCEPT !.readableBytes = [i \in 0 .. size - 1 |-> i < dataSize]]
             entry == [base |-> base, end |-> base + size, valid |-> TRUE,
                       index |-> IndexOf(fresh)]
             m == populateSparseReadOnly(fresh, populated)
  <1>1. \/ Rejected
        \/ /\ validateNewMapping(base, size, {"R"}, {"R"})
           /\ mappings' = mappings \cup {m}
           /\ lookup' = [s \in 0 .. LookupSize - 1 |->
                           IF \E i \in populated : SlotOf(base + i) = s THEN entry ELSE NoEntry]
           /\ Finish("success", << >>) /\ hosts' = hosts
           /\ executableVersion' = executableVersion
    BY DEF mapSparseReadOnly
  <1>2. CASE Rejected
    BY <1>2, UnchangedKeeps DEF Rejected
  <1>3. CASE /\ validateNewMapping(base, size, {"R"}, {"R"})
             /\ mappings' = mappings \cup {m}
             /\ lookup' = [s \in 0 .. LookupSize - 1 |->
                             IF \E i \in populated : SlotOf(base + i) = s THEN entry ELSE NoEntry]
             /\ Finish("success", << >>) /\ hosts' = hosts
             /\ executableVersion' = executableVersion
    <2>1. base \in Nat /\ size \in Nat /\ {"R"} \in Permission
      BY GeometryAssumption DEF Address, Permission
    <2>2. bytes \in [0 .. size - 1 -> Value]
      BY ContentAssumption DEF InitialBytes
    <2> HIDE DEF bytes
    <2> DEFINE plain == PlainMapping(base, size, {"R"}, {"R"}, bytes)
               readable == [i \in 0 .. size - 1 |-> i < dataSize]
               Shape == [base : Address, size : Address,
                         permissions : Permission, maximumPermissions : Permission,
                         bytes : VectorOf(Value, size), fileBytes : Backings \cup {NoBacking},
                         fileDataOffset : Nat, lazyFileTransform : BOOLEAN,
                         readableBytes : VectorOf(BOOLEAN, size)]
    <2>3. /\ plain \in Shape /\ plain.bytes = bytes
          /\ plain.base = base /\ plain.size = size /\ plain.fileBytes = NoBacking
      BY <2>1, <2>2, EmptyVector DEF PlainMapping, VectorOf
    <2>21. readable \in [0 .. size - 1 -> BOOLEAN] /\ readable \in VectorOf(BOOLEAN, size)
      BY <2>1 DEF VectorOf
    <2>22. fresh = [plain EXCEPT !.readableBytes = readable]
      OBVIOUS
    <2> HIDE DEF plain, readable, fresh
    <2>4. /\ fresh \in Shape /\ fresh.bytes = bytes /\ fresh.readableBytes = readable
          /\ fresh.base = base /\ fresh.size = size /\ fresh.fileBytes = NoBacking
      BY <2>3, <2>21, <2>22
    <2> DEFINE filled == [i \in 0 .. size - 1 |-> IF i \in populated THEN FileByte ELSE bytes[i]]
               shown == [i \in 0 .. size - 1 |-> i \in populated \/ readable[i]]
    <2>5. m = [fresh EXCEPT !.bytes = filled, !.readableBytes = shown]
      <3>1. DOMAIN fresh.bytes = 0 .. size - 1 /\ DOMAIN fresh.readableBytes = 0 .. size - 1
        BY <2>2, <2>4, <2>21
      <3> QED
        BY <3>1, <2>4 DEF populateSparseReadOnly
    <2>6. filled \in VectorOf(Value, size) /\ shown \in VectorOf(BOOLEAN, size)
      BY <2>2, <2>21, ContentAssumption DEF VectorOf
    <2> HIDE DEF m, filled, shown
    <2>7. m \in Shape /\ m.base = base /\ m.size = size /\ m.fileBytes = NoBacking
      BY <2>4, <2>5, <2>6
    <2>8. MappingType(m)
      BY <2>7 DEF MappingType
    <2>9. GoodMapping(m, hosts)
      BY <1>3, <2>1, <2>7, <2>8, NewMappingGood DEF HasFile
    <2>10. \A k \in mappings : Apart(k, m)
      BY <1>3, <2>1, <2>7, NewMappingApart DEF Apart, End
    <2>11. GoodMappings({m}, hosts)
      BY <2>9 DEF GoodMappings
    <2>12. GoodMappings(mappings', hosts')
      BY <1>3, <2>10, <2>11, UnionGood DEF IInv
    <2>13. base + size \in Address
      BY <1>3, <2>1, GeometryAssumption DEF validateNewMapping, Address
    <2>14. IndexOf(fresh) \in Nat
      <3>1. IsFiniteSet(mappings)
        BY IInvImplies DEF TypeOK
      <3>2. IsFiniteSet({x \in mappings : x.base < fresh.base})
        BY <3>1, FS_Subset
      <3> QED
        BY <3>2, FS_CardinalityType DEF IndexOf
    <2>15. entry \in [base : Address, end : Address, index : Nat, valid : BOOLEAN]
      BY <2>13, <2>14
    <2>16. NoEntry \in [base : Address, end : Address, index : Nat, valid : BOOLEAN]
           /\ ~NoEntry.valid
      BY GeometryAssumption DEF NoEntry, Address
    <2>17. entry.base = m.base /\ entry.end = End(m)
      BY <2>7 DEF End
    <2> HIDE DEF entry
    <2>18. LookupType'
      BY <1>3, <2>15, <2>16 DEF LookupType
    <2>19. LookupCoherent'
      BY <1>3, <2>16, <2>17 DEF LookupCoherent
    <2>20. CallType' /\ CallProgress' /\ result'.data \in Seq(Value)
      BY <1>3, FinishTyped, EmptyData
    <2>23. executableVersion' \in Nat /\ HostsType(hosts)'
      BY <1>3 DEF IInv, HostsType, HostType
    <2> QED
      BY <2>12, <2>18, <2>19, <2>20, <2>23 DEF IInv, GoodMappings, GoodMapping
  <1> QED
    BY <1>1, <1>2, <1>3

-----------------------------------------------------------------------------
(* Changing and removing mappings.                                         *)

\* The range protect and deallocate act on is whole pages.
LEMMA ChangedRange ==
    ASSUME NEW address \in Address, NEW size \in Address
    PROVE  LET start == PageFloor(address)
               end == PageCeiling(address + size)
           IN  /\ start \in Nat /\ end \in Nat
               /\ start % PageSize = 0 /\ end % PageSize = 0
               /\ start <= end /\ (size # 0 => start < end)
  <1>1. address \in Nat /\ size \in Nat /\ address + size \in Nat
    BY GeometryAssumption DEF Address
  <1>2. /\ PageFloor(address) \in Nat /\ PageFloor(address) % PageSize = 0
        /\ PageFloor(address) <= address
    BY <1>1, RoundingIsAligned
  <1>3. /\ PageCeiling(address + size) \in Nat /\ PageCeiling(address + size) % PageSize = 0
        /\ address + size <= PageCeiling(address + size)
    BY <1>1, RoundingIsAligned
  <1> QED
    BY <1>1, <1>2, <1>3

\* Mappings start and end on page boundaries.
LEMMA AlignedEnds ==
    ASSUME NEW m, NEW h, GoodMapping(m, h)
    PROVE  /\ m.base \in Nat /\ End(m) \in Nat /\ m.base < End(m)
           /\ m.base % PageSize = 0 /\ End(m) % PageSize = 0
           /\ m.permissions \in Permission /\ m.maximumPermissions \in Permission
  <1>1. m.base \in Nat /\ m.size \in Nat /\ m.size # 0
        /\ m.base % PageSize = 0 /\ m.size % PageSize = 0
    BY GeometryAssumption DEF GoodMapping, MappingType, WellPlaced, Address
  <1>2. (m.base + m.size) % PageSize = 0
    BY <1>1, AlignedDistance
  <1>3. m.permissions \in Permission /\ m.maximumPermissions \in Permission
    BY DEF GoodMapping, MappingType
  <1> QED
    BY <1>1, <1>2, <1>3 DEF End

\* The pieces protect makes of a mapping lie in it and keep apart.
LEMMA ProtectPiecesGood ==
    ASSUME NEW m, NEW h, GoodMapping(m, h), NatTransforms(h),
           NEW start \in Nat, NEW end \in Nat, start % PageSize = 0, end % PageSize = 0,
           start < end, Touches(m, start, end), NEW p \in Permission, NEW copy
    PROVE  LET F == ProtectPieces(m, start, end, p, copy)
           IN  /\ \A k \in F : GoodMapping(k, h) /\ m.base <= k.base /\ End(k) <= End(m)
               /\ \A j, k \in F : j # k => Apart(j, k)
  <1> DEFINE from == IF m.base > start THEN m.base ELSE start
             to == IF End(m) < end THEN End(m) ELSE end
             mx == IF copy THEN p ELSE m.maximumPermissions
             before == slice(m, m.base, start, m.permissions, m.maximumPermissions)
             inside == slice(m, from, to, p, mx)
             after == slice(m, to, End(m), m.permissions, m.maximumPermissions)
  <1>1. /\ m.base \in Nat /\ End(m) \in Nat /\ m.base < End(m)
        /\ m.base % PageSize = 0 /\ End(m) % PageSize = 0
        /\ m.permissions \in Permission /\ m.maximumPermissions \in Permission
    BY AlignedEnds
  <1>2. ~(End(m) <= start) /\ ~(m.base >= end)
    BY DEF Touches
  <1>3. /\ from \in Nat /\ to \in Nat /\ from % PageSize = 0 /\ to % PageSize = 0
        /\ m.base <= from /\ from < to /\ to <= End(m) /\ start <= from
        /\ (m.base < start => from = start)
    BY <1>1, <1>2
  <1>4. mx \in Permission
    BY <1>1
  <1> HIDE DEF from, to, mx
  <1>5. GoodMapping(inside, h) /\ inside.base = from /\ End(inside) = to
    BY <1>1, <1>3, <1>4, SliceGood
  <1>6. ASSUME m.base < start
        PROVE  GoodMapping(before, h) /\ before.base = m.base /\ End(before) = start
    <2>1. start <= End(m)
      BY <1>1, <1>2
    <2> QED
      BY <1>1, <1>6, <2>1, SliceGood
  <1>7. ASSUME to < End(m)
        PROVE  GoodMapping(after, h) /\ after.base = to /\ End(after) = End(m)
    BY <1>1, <1>3, <1>7, SliceGood
  <1>8. ProtectPieces(m, start, end, p, copy)
          = {inside} \cup {x \in {before} : m.base < start} \cup {x \in {after} : to < End(m)}
    BY DEF ProtectPieces, from, to, mx
  <1> HIDE DEF inside, before, after
  <1>9. \A k \in ProtectPieces(m, start, end, p, copy) :
          \/ k = inside
          \/ k = before /\ m.base < start
          \/ k = after /\ to < End(m)
    BY <1>8
  <1>10. \A k \in ProtectPieces(m, start, end, p, copy) :
           GoodMapping(k, h) /\ m.base <= k.base /\ End(k) <= End(m)
    BY <1>1, <1>2, <1>3, <1>5, <1>6, <1>7, <1>9
  <1>11. \A j, k \in ProtectPieces(m, start, end, p, copy) : j # k => Apart(j, k)
    BY <1>1, <1>3, <1>5, <1>6, <1>7, <1>9 DEF Apart
  <1> QED
    BY <1>10, <1>11

\* So do the pieces deallocate leaves.
LEMMA DeallocatePiecesGood ==
    ASSUME NEW m, NEW h, GoodMapping(m, h), NatTransforms(h),
           NEW start \in Nat, NEW end \in Nat, start % PageSize = 0, end % PageSize = 0,
           start < end, Touches(m, start, end)
    PROVE  LET F == DeallocatePieces(m, start, end)
           IN  /\ \A k \in F : /\ GoodMapping(k, h) /\ m.base <= k.base /\ End(k) <= End(m)
                               /\ k.fileBytes = m.fileBytes
               /\ \A j, k \in F : j # k => Apart(j, k)
  <1> DEFINE before == slice(m, m.base, start, m.permissions, m.maximumPermissions)
             after == slice(m, end, End(m), m.permissions, m.maximumPermissions)
  <1>1. /\ m.base \in Nat /\ End(m) \in Nat /\ m.base < End(m)
        /\ m.base % PageSize = 0 /\ End(m) % PageSize = 0
        /\ m.permissions \in Permission /\ m.maximumPermissions \in Permission
    BY AlignedEnds
  <1>2. start < End(m) /\ m.base < end
    BY <1>1 DEF Touches
  <1>3. ASSUME m.base < start
        PROVE  /\ GoodMapping(before, h) /\ before.base = m.base /\ End(before) = start
               /\ before.fileBytes = m.fileBytes
    <2>1. m.base <= m.base /\ start <= End(m)
      BY <1>1, <1>2
    <2> QED
      BY <1>1, <1>3, <2>1, SliceGood
  <1>4. ASSUME end < End(m)
        PROVE  /\ GoodMapping(after, h) /\ after.base = end /\ End(after) = End(m)
               /\ after.fileBytes = m.fileBytes
    <2>1. m.base <= end /\ End(m) <= End(m)
      BY <1>1, <1>2
    <2> QED
      BY <1>1, <1>4, <2>1, SliceGood
  <1>5. DeallocatePieces(m, start, end)
          = {x \in {before} : m.base < start} \cup {x \in {after} : end < End(m)}
    BY DEF DeallocatePieces
  <1> HIDE DEF before, after
  <1>6. \A k \in DeallocatePieces(m, start, end) :
          (k = before /\ m.base < start) \/ (k = after /\ end < End(m))
    BY <1>5
  <1>7. \A k \in DeallocatePieces(m, start, end) :
          /\ GoodMapping(k, h) /\ m.base <= k.base /\ End(k) <= End(m)
          /\ k.fileBytes = m.fileBytes
    BY <1>1, <1>2, <1>3, <1>4, <1>6
  <1>8. \A j, k \in DeallocatePieces(m, start, end) : j # k => Apart(j, k)
    BY <1>3, <1>4, <1>6 DEF Apart
  <1> QED
    BY <1>7, <1>8

\* protect keeps the invariant.
LEMMA ProtectKeeps ==
    ASSUME IInv, NEW address \in Address, NEW size \in Address, NEW p \in Permission, NEW copy,
           protect(address, size, p, copy)
    PROVE  IInv'
  <1> DEFINE start == PageFloor(address)
             end == PageCeiling(address + size)
             F == [m \in mappings |-> IF Touches(m, start, end)
                                      THEN ProtectPieces(m, start, end, p, copy) ELSE {m}]
             bumped == \/ isExecutable(p)
                       \/ \E m \in mappings : Touches(m, start, end) /\ isExecutable(m.permissions)
  <1>1. \/ \E status : Unchanged(status)
        \/ /\ size # 0
           /\ mappings' = UNION {IF Touches(m, start, end)
                                 THEN ProtectPieces(m, start, end, p, copy)
                                 ELSE {m} : m \in mappings}
           /\ lookup' = invalidateMappingLookup
           /\ BumpVersion(bumped) /\ Finish("success", << >>) /\ hosts' = hosts
    BY DEF protect
  <1>2. CASE \E status : Unchanged(status)
    BY <1>2, UnchangedKeeps
  <1>3. CASE /\ size # 0
             /\ mappings' = UNION {IF Touches(m, start, end)
                                   THEN ProtectPieces(m, start, end, p, copy)
                                   ELSE {m} : m \in mappings}
             /\ lookup' = invalidateMappingLookup
             /\ BumpVersion(bumped) /\ Finish("success", << >>) /\ hosts' = hosts
    <2>1. /\ start \in Nat /\ end \in Nat /\ start % PageSize = 0 /\ end % PageSize = 0
          /\ start < end
      BY <1>3, ChangedRange
    <2> HIDE DEF start, end, bumped
    <2>2. \A k \in mappings' : \E m \in mappings : k \in F[m]
      BY <1>3
    <2>3. GoodMappings(mappings, hosts) /\ NatTransforms(hosts)
      BY NatTransformsType DEF IInv
    <2>4. ASSUME NEW m \in mappings
          PROVE  /\ \A k \in F[m] : GoodMapping(k, hosts) /\ m.base <= k.base /\ End(k) <= End(m)
                 /\ \A j, k \in F[m] : j # k => Apart(j, k)
      <3>1. GoodMapping(m, hosts)
        BY <2>3 DEF GoodMappings
      <3>2. CASE Touches(m, start, end)
        <4>1. F[m] = ProtectPieces(m, start, end, p, copy)
          BY <3>2
        <4> QED
          BY <2>1, <2>3, <3>1, <3>2, <4>1, ProtectPiecesGood
      <3>3. CASE ~Touches(m, start, end)
        <4>1. F[m] = {m}
          BY <3>3
        <4>2. m.base \in Nat /\ End(m) \in Nat
          BY <3>1, AlignedEnds
        <4> HIDE DEF F
        <4> QED
          BY <3>1, <4>1, <4>2
      <3> QED
        BY <3>2, <3>3
    <2> HIDE DEF F
    <2>5. GoodMappings(mappings', hosts)
      BY <2>2, <2>3, <2>4, PiecesGood
    <2>6. CallType' /\ CallProgress' /\ result'.data \in Seq(Value)
      BY <1>3, FinishTyped, EmptyData
    <2>7. LookupType' /\ LookupCoherent'
      BY <1>3, InvalidatedLookup
    <2>8. executableVersion' \in Nat /\ HostsType(hosts)'
      BY <1>3, BumpTyped DEF IInv, HostsType, HostType
    <2> QED
      BY <1>3, <2>5, <2>6, <2>7, <2>8 DEF IInv, GoodMappings, GoodMapping
  <1> QED
    BY <1>1, <1>2, <1>3

\* Releasing the host mappings nothing uses any more leaves the ones in use as they are.
LEMMA OwnedKeeps ==
    ASSUME NEW S, NEW h, HostsType(h), GoodMappings(S, h)
    PROVE  HostsType(Owned(S, h)) /\ GoodMappings(S, Owned(S, h))
  <1>1. HostType(Released)
    BY ReleasedType
  <1>2. HostsType(Owned(S, h))
    BY <1>1 DEF HostsType, Owned
  <1>3. ASSUME NEW m \in S, HasFile(m) PROVE Owned(S, h)[m.fileBytes] = h[m.fileBytes]
    <2>1. m.fileBytes \in Backings
      BY <1>3 DEF GoodMappings, GoodMapping, MappingType, HasFile
    <2> QED
      BY <2>1 DEF Owned
  <1>4. GoodMappings(S, Owned(S, h))
    BY <1>3 DEF GoodMappings, GoodMapping
  <1> QED
    BY <1>2, <1>4

\* deallocate keeps the invariant.
LEMMA DeallocateKeeps ==
    ASSUME IInv, NEW address \in Address, NEW size \in Address, deallocate(address, size)
    PROVE  IInv'
  <1> DEFINE start == PageFloor(address)
             end == PageCeiling(address + size)
             F == [m \in mappings |-> IF Touches(m, start, end)
                                      THEN DeallocatePieces(m, start, end) ELSE {m}]
             bumped == \E m \in mappings : Touches(m, start, end) /\ isExecutable(m.permissions)
  <1>1. \/ \E status : Unchanged(status)
        \/ /\ size # 0
           /\ mappings' = UNION {IF Touches(m, start, end)
                                 THEN DeallocatePieces(m, start, end)
                                 ELSE {m} : m \in mappings}
           /\ lookup' = invalidateMappingLookup /\ hosts' = Owned(mappings', hosts)
           /\ BumpVersion(bumped) /\ Finish("success", << >>)
    BY DEF deallocate
  <1>2. CASE \E status : Unchanged(status)
    BY <1>2, UnchangedKeeps
  <1>3. CASE /\ size # 0
             /\ mappings' = UNION {IF Touches(m, start, end)
                                   THEN DeallocatePieces(m, start, end)
                                   ELSE {m} : m \in mappings}
             /\ lookup' = invalidateMappingLookup /\ hosts' = Owned(mappings', hosts)
             /\ BumpVersion(bumped) /\ Finish("success", << >>)
    <2>1. /\ start \in Nat /\ end \in Nat /\ start % PageSize = 0 /\ end % PageSize = 0
          /\ start < end
      BY <1>3, ChangedRange
    <2> HIDE DEF start, end, bumped
    <2>2. \A k \in mappings' : \E m \in mappings : k \in F[m]
      BY <1>3
    <2>3. GoodMappings(mappings, hosts) /\ NatTransforms(hosts) /\ HostsType(hosts)
      BY NatTransformsType DEF IInv
    <2>4. ASSUME NEW m \in mappings
          PROVE  /\ \A k \in F[m] : GoodMapping(k, hosts) /\ m.base <= k.base /\ End(k) <= End(m)
                 /\ \A j, k \in F[m] : j # k => Apart(j, k)
      <3>1. GoodMapping(m, hosts)
        BY <2>3 DEF GoodMappings
      <3>2. CASE Touches(m, start, end)
        <4>1. F[m] = DeallocatePieces(m, start, end)
          BY <3>2
        <4> QED
          BY <2>1, <2>3, <3>1, <3>2, <4>1, DeallocatePiecesGood
      <3>3. CASE ~Touches(m, start, end)
        <4>1. F[m] = {m}
          BY <3>3
        <4>2. m.base \in Nat /\ End(m) \in Nat
          BY <3>1, AlignedEnds
        <4> HIDE DEF F
        <4> QED
          BY <3>1, <4>1, <4>2
      <3> QED
        BY <3>2, <3>3
    <2> HIDE DEF F
    <2>5. GoodMappings(mappings', hosts)
      BY <2>2, <2>3, <2>4, PiecesGood
    <2>6. HostsType(hosts') /\ GoodMappings(mappings', hosts')
      BY <1>3, <2>3, <2>5, OwnedKeeps
    <2>7. CallType' /\ CallProgress' /\ result'.data \in Seq(Value)
      BY <1>3, FinishTyped, EmptyData
    <2>8. LookupType' /\ LookupCoherent'
      BY <1>3, InvalidatedLookup
    <2>9. executableVersion' \in Nat
      BY <1>3, BumpTyped DEF IInv
    <2> QED
      BY <2>6, <2>7, <2>8, <2>9 DEF IInv, GoodMappings, GoodMapping, HostsType, HostType
  <1> QED
    BY <1>1, <1>2, <1>3

-----------------------------------------------------------------------------
(* Accesses.                                                               *)

Active == call.op \in {"read", "write", "validate", "fetch", "direct"}

\* What find() returned for the cursor holds the whole chunk.
LEMMA FoundFacts ==
    ASSUME IInv, Active, NEW m \in mappings, Found(m)
    PROVE  /\ Cursor \in Nat /\ Remaining \in Nat \ {0}
           /\ Offset(m) \in Nat /\ Chunk(m) \in Nat \ {0}
           /\ Offset(m) + Chunk(m) <= m.size /\ Chunk(m) <= Remaining
           /\ m.size - Offset(m) \in Nat \ {0}
           /\ call.done \in Nat /\ call.size \in Nat /\ call.data \in Seq(Value)
           /\ call.done + Remaining = call.size
  <1>1. /\ call.address \in Nat /\ call.size \in Nat /\ call.done \in Nat
        /\ call.done < call.size /\ call.data \in Seq(Value)
    BY GeometryAssumption DEF IInv, CallType, CallProgress, Active, Address
  <1>2. Cursor \in Nat /\ Remaining \in Nat \ {0} /\ call.done + Remaining = call.size
    BY <1>1 DEF Cursor, Remaining
  <1>3. m \in Resolved(Cursor, 1)
    BY DEF Found, find
  <1>4. m.base <= Cursor /\ Cursor < End(m)
    BY <1>2, <1>3, ResolvedExact
  <1>5. m.base \in Nat /\ m.size \in Nat /\ End(m) = m.base + m.size
    BY MappingFacts
  <1>6. Offset(m) \in Nat /\ m.size - Offset(m) \in Nat \ {0}
    BY <1>2, <1>4, <1>5 DEF Offset
  <1> QED
    BY <1>1, <1>2, <1>5, <1>6 DEF Chunk

\* What a step of an access has to leave behind.
LEMMA StepKeeps ==
    ASSUME IInv, NEW m \in mappings, Cursor \in Nat, lookup' = LookupAfter(m, Cursor, 1),
           GoodMappings(mappings', hosts'), HostsType(hosts'),
           \A k \in mappings : \E j \in mappings' : j.base = k.base /\ End(j) = End(k),
           executableVersion' \in Nat, CallType', CallProgress', result'.data \in Seq(Value)
    PROVE  IInv'
  <1>1. /\ LookupType'
        /\ \A s \in 0 .. LookupSize - 1 : lookup'[s].valid =>
             \E j \in mappings' : j.base = lookup'[s].base /\ End(j) = lookup'[s].end
    BY LookupAfterCoherent
  <1> QED
    BY <1>1 DEF IInv, LookupCoherent, GoodMappings, GoodMapping, HostsType, HostType

\* A crash ends the process in a well-typed state.
LEMMA CrashTyped ==
    ASSUME IInv, NEW m, Crash(m)
    PROVE  /\ CallType' /\ CallProgress' /\ result'.data \in Seq(Value)
           /\ mappings' = mappings /\ hosts' = hosts /\ executableVersion' = executableVersion
  <1>1. call' = [NoCall EXCEPT !.op = "crashed"] /\ result'.data = << >>
    BY DEF Crash, Returned
  <1>2. CallType' /\ CallProgress'
    <2>1. NoCall \in [op : {"none", "read", "write", "validate", "fetch", "direct", "crashed"},
              address : Address, size : Nat, required : Permission, data : Seq(Value),
              phase : {"none", "first", "validate", "copy"}, done : Nat, exec : BOOLEAN]
      BY GeometryAssumption DEF NoCall, Address, Permission, None
    <2>2. [NoCall EXCEPT !.op = "crashed"].op = "crashed"
      BY DEF NoCall
    <2> QED
      BY <1>1, <2>1, <2>2 DEF CallType, CallProgress
  <1> QED
    BY <1>1, <1>2, EmptyData DEF Crash

\* Steps that leave the mappings and the backing alone.
LEMMA QuietStepKeeps ==
    ASSUME IInv, NEW m \in mappings, Cursor \in Nat, lookup' = LookupAfter(m, Cursor, 1),
           mappings' = mappings, hosts' = hosts, executableVersion' = executableVersion,
           CallType', CallProgress', result'.data \in Seq(Value)
    PROVE  IInv'
  <1>1. GoodMappings(mappings', hosts') /\ HostsType(hosts') /\ executableVersion' \in Nat
    BY DEF IInv
  <1>2. \A k \in mappings : \E j \in mappings' : j.base = k.base /\ End(j) = End(k)
    OBVIOUS
  <1> QED
    BY <1>1, <1>2, StepKeeps

\* Transforming pages changes no extent and keeps cells in Value.
LEMMA MaterializeHost ==
    ASSUME NEW host, HostType(host), NEW first \in Nat, NEW size \in Nat
    PROVE  LET after == materialize(host, first, size)
           IN  /\ HostType(after) /\ DOMAIN after.cells = DOMAIN host.cells
               /\ after.transform.dataOffset = host.transform.dataOffset
               /\ after.transform.size = host.transform.size
  <1> DEFINE t == host.transform
             pages == {TransformPage(t, c) : c \in first .. first + size - 1} \ t.transformedPages
             cells == [c \in DOMAIN host.cells |->
                         IF InTransform(t, c) /\ TransformPage(t, c) \in pages
                         THEN Slid(host.cells[c]) ELSE host.cells[c]]
             marked == [t EXCEPT !.transformedPages = @ \cup pages]
  <1>1. /\ t \in [dataOffset : Nat, size : Nat, pageSize : Nat \ {0},
                  transformedPages : SUBSET Int]
        /\ DOMAIN host.cells \subseteq Int /\ host.cells \in [DOMAIN host.cells -> Value]
    BY DEF HostType
  <1>2. \A c \in first .. first + size - 1 : TransformPage(t, c) \in Int
    BY <1>1 DEF TransformPage
  <1>3. pages \subseteq Int
    BY <1>2
  <1>4. materialize(host, first, size) = [cells |-> cells, transform |-> marked]
    BY DEF materialize
  <1> HIDE DEF pages, t
  <1>5. /\ marked \in [dataOffset : Nat, size : Nat, pageSize : Nat \ {0},
                       transformedPages : SUBSET Int]
        /\ marked.dataOffset = t.dataOffset /\ marked.size = t.size
    BY <1>1, <1>3
  <1>6. cells \in [DOMAIN host.cells -> Value]
    BY <1>1, ContentAssumption
  <1>7. DOMAIN cells = DOMAIN host.cells
    OBVIOUS
  <1> HIDE DEF cells, marked
  <1> QED
    BY <1>1, <1>4, <1>5, <1>6, <1>7 DEF HostType, t

\* Mappings stay good when the extents of the host mappings stay the same.
LEMMA SameExtents ==
    ASSUME NEW S, NEW h, NEW g, GoodMappings(S, h), NEW b \in Backings, NEW host,
           HostsType(h), HostType(host), g = [h EXCEPT ![b] = host],
           DOMAIN host.cells = DOMAIN h[b].cells,
           host.transform.dataOffset = h[b].transform.dataOffset,
           host.transform.size = h[b].transform.size
    PROVE  GoodMappings(S, g) /\ HostsType(g)
  <1>1. HostsType(g) /\ g[b] = host /\ \A c \in Backings : c # b => g[c] = h[c]
    BY DEF HostsType
  <1>2. ASSUME NEW m \in S, HasFile(m) PROVE InBounds(m, g[m.fileBytes])
    <2>1. m.fileBytes \in Backings /\ InBounds(m, h[m.fileBytes])
      BY <1>2 DEF GoodMappings, GoodMapping, MappingType, HasFile
    <2> QED
      BY <1>1, <2>1 DEF InBounds
  <1> QED
    BY <1>1, <1>2 DEF GoodMappings, GoodMapping

\* materializeFileBytes keeps the mappings good.
LEMMA MaterializeKeeps ==
    ASSUME IInv, NEW m \in mappings, NEW offset \in Nat, NEW size \in Nat
    PROVE  LET h == materializeFileBytes(m, offset, size)
           IN  GoodMappings(mappings, h) /\ HostsType(h)
  <1>1. GoodMappings(mappings, hosts) /\ HostsType(hosts)
    BY DEF IInv
  <1>2. CASE ~(HasFile(m) /\ m.lazyFileTransform)
    BY <1>1, <1>2 DEF materializeFileBytes
  <1>3. CASE HasFile(m) /\ m.lazyFileTransform
    <2> DEFINE host == materialize(hosts[m.fileBytes], m.fileDataOffset + offset, size)
    <2>1. m.fileBytes \in Backings /\ m.fileDataOffset \in Nat
      BY <1>1, <1>3 DEF GoodMappings, GoodMapping, MappingType, HasFile
    <2>2. HostType(hosts[m.fileBytes]) /\ m.fileDataOffset + offset \in Nat
      BY <1>1, <2>1 DEF HostsType
    <2>3. /\ HostType(host) /\ DOMAIN host.cells = DOMAIN hosts[m.fileBytes].cells
          /\ host.transform.dataOffset = hosts[m.fileBytes].transform.dataOffset
          /\ host.transform.size = hosts[m.fileBytes].transform.size
      BY <2>2, MaterializeHost
    <2>4. materializeFileBytes(m, offset, size) = [hosts EXCEPT ![m.fileBytes] = host]
      BY <1>3, <1>1 DEF materializeFileBytes, HostsType
    <2> HIDE DEF host
    <2> QED
      BY <1>1, <2>1, <2>3, <2>4, SameExtents
  <1> QED
    BY <1>2, <1>3

\* Cells read from a mapping's backing are cell values.
LEMMA CellsType ==
    ASSUME NEW m, NEW h, GoodMapping(m, h), HostsType(h), HasBacking(m),
           NEW offset \in Nat, NEW size \in Nat, offset + size <= m.size
    PROVE  Cells(m, h, offset, size) \in Seq(Value)
  <1>1. m.size \in Nat /\ m.fileDataOffset \in Nat
    BY GeometryAssumption DEF GoodMapping, MappingType, Address
  <1>2. ASSUME NEW i \in 1 .. size PROVE Stored(m, h, offset + i - 1) \in Value
    <2>1. offset + i - 1 \in 0 .. m.size - 1
      BY <1>1
    <2>2. CASE HasFile(m)
      <3>1. m.fileBytes \in Backings
        BY <2>2 DEF GoodMapping, MappingType, HasFile
      <3>2. h[m.fileBytes].cells \in [DOMAIN h[m.fileBytes].cells -> Value]
        BY <3>1 DEF HostsType, HostType
      <3>3. m.fileDataOffset + (offset + i - 1) \in DOMAIN h[m.fileBytes].cells
        <4>1. m.fileDataOffset .. m.fileDataOffset + m.size - 1 \subseteq DOMAIN h[m.fileBytes].cells
          BY <2>2 DEF GoodMapping, InBounds
        <4>2. m.fileDataOffset + (offset + i - 1)
                \in m.fileDataOffset .. m.fileDataOffset + m.size - 1
          BY <1>1, <2>1
        <4> QED
          BY <4>1, <4>2
      <3>4. h[m.fileBytes].cells[m.fileDataOffset + (offset + i - 1)] \in Value
        BY <3>2, <3>3
      <3> QED
        BY <2>2, <3>4 DEF Stored
    <2>3. CASE ~HasFile(m)
      <3>1. m.bytes \in [0 .. m.size - 1 -> Value]
        BY <2>3 DEF GoodMapping, MappingType, HasBacking, VectorOf
      <3> QED
        BY <2>1, <2>3, <3>1 DEF Stored
    <2> QED
      BY <2>2, <2>3
  <1> DEFINE cells == [i \in 1 .. size |-> Stored(m, h, offset + i - 1)]
  <1>3. cells \in [1 .. size -> Value]
    BY <1>2
  <1> HIDE DEF cells
  <1>4. cells \in Seq(Value)
    BY <1>3, SeqDef
  <1> QED
    BY <1>4 DEF Cells, cells

\* Overwriting part of a vector keeps its domain and its type.
LEMMA OverwriteType ==
    ASSUME NEW D \in SUBSET Int, NEW f \in [D -> Value], NEW at \in Int, NEW data \in Seq(Value)
    PROVE  Overwrite(f, at, data) \in [D -> Value] /\ DOMAIN Overwrite(f, at, data) = D
  <1>1. ASSUME NEW c \in D, at <= c, c < at + Len(data) PROVE data[c - at + 1] \in Value
    <2>1. c \in Int /\ Len(data) \in Nat
      OBVIOUS
    <2>2. c - at + 1 \in 1 .. Len(data)
      BY <1>1, <2>1
    <2> QED
      BY <2>2
  <1>2. Overwrite(f, at, data) =
          [c \in D |-> IF at <= c /\ c < at + Len(data) THEN data[c - at + 1] ELSE f[c]]
    BY DEF Overwrite
  <1> QED
    BY <1>1, <1>2

\* Storing a chunk keeps the mappings good and their extents the same.
LEMMA StoreKeeps ==
    ASSUME IInv, NEW m \in mappings, HasBacking(m), NEW h, NEW size \in Nat,
           GoodMappings(mappings, h), HostsType(h), Offset(m) \in Nat,
           call.done \in Nat, call.data \in Seq(Value), call.done + size <= Len(call.data),
           StoreChunk(m, h, size)
    PROVE  /\ GoodMappings(mappings', hosts') /\ HostsType(hosts')
           /\ \A k \in mappings : \E j \in mappings' : j.base = k.base /\ End(j) = End(k)
  <1> DEFINE data == SubSeq(call.data, call.done + 1, call.done + size)
  <1>1. data \in Seq(Value)
    BY SubSeqProperties
  <1>2. GoodMapping(m, h) /\ m.size \in Nat /\ m.fileDataOffset \in Nat
    BY GeometryAssumption DEF GoodMappings, GoodMapping, MappingType, Address
  <1> HIDE DEF data
  <1>3. CASE HasFile(m)
    <2> DEFINE host == h[m.fileBytes]
               cells == Overwrite(host.cells, m.fileDataOffset + Offset(m), data)
               after == [host EXCEPT !.cells = cells]
    <2>1. m.fileBytes \in Backings
      BY <1>2, <1>3 DEF GoodMapping, MappingType, HasFile
    <2>2. HostType(host)
      BY <2>1 DEF HostsType
    <2>3. cells \in [DOMAIN host.cells -> Value] /\ DOMAIN cells = DOMAIN host.cells
      <3>1. DOMAIN host.cells \in SUBSET Int /\ host.cells \in [DOMAIN host.cells -> Value]
        BY <2>2 DEF HostType
      <3>2. m.fileDataOffset + Offset(m) \in Int
        BY <1>2
      <3> QED
        BY <1>1, <3>1, <3>2, OverwriteType, SMTT(60)
    <2>4. hosts' = [h EXCEPT ![m.fileBytes].cells = cells] /\ mappings' = mappings
      BY <1>3 DEF StoreChunk, data
    <2>5. [h EXCEPT ![m.fileBytes].cells = cells] = [h EXCEPT ![m.fileBytes] = after]
      BY <2>1 DEF HostsType
    <2> HIDE DEF cells, host
    <2>6. /\ HostType(after) /\ after.transform = host.transform
          /\ DOMAIN after.cells = DOMAIN host.cells
      BY <2>2, <2>3, SMTT(60) DEF HostType
    <2> HIDE DEF after
    <2>7. GoodMappings(mappings, hosts') /\ HostsType(hosts')
      <3> DEFINE g == [h EXCEPT ![m.fileBytes] = after]
      <3>1. /\ DOMAIN after.cells = DOMAIN h[m.fileBytes].cells
            /\ after.transform.dataOffset = h[m.fileBytes].transform.dataOffset
            /\ after.transform.size = h[m.fileBytes].transform.size
        BY <2>6 DEF host
      <3>2. g = [h EXCEPT ![m.fileBytes] = after]
        OBVIOUS
      <3> HIDE DEF g
      <3>3. HostType(after)
        BY <2>6
      <3>4. GoodMappings(mappings, g) /\ HostsType(g)
        BY <2>1, <3>1, <3>2, <3>3, SameExtents, ZenonT(120)
      <3> QED
        BY <2>4, <2>5, <3>2, <3>4
    <2> QED
      BY <2>4, <2>7
  <1>4. CASE ~HasFile(m)
    <2> DEFINE bytes == Overwrite(m.bytes, Offset(m), data)
               k == [m EXCEPT !.bytes = bytes]
    <2>1. m.bytes \in [0 .. m.size - 1 -> Value]
      BY <1>2, <1>4 DEF GoodMapping, MappingType, HasBacking, VectorOf
    <2>2. bytes \in [0 .. m.size - 1 -> Value]
      <3>1. 0 .. m.size - 1 \in SUBSET Int /\ Offset(m) \in Int
        OBVIOUS
      <3> QED
        BY <1>1, <2>1, <3>1, OverwriteType
    <2>3. mappings' = (mappings \ {m}) \cup {k} /\ hosts' = h
      BY <1>4 DEF StoreChunk, data
    <2> HIDE DEF bytes
    <2>4. MappingType(m)
      BY <1>2 DEF GoodMapping
    <2>5. /\ k.base = m.base /\ k.size = m.size /\ k.fileBytes = m.fileBytes
      BY <2>4 DEF MappingType
    <2>6. MappingType(k)
      BY <2>2, <2>4 DEF MappingType, VectorOf
    <2> HIDE DEF k
    <2>7. GoodMapping(k, h) /\ End(k) = End(m)
      BY <1>2, <1>4, <2>5, <2>6 DEF GoodMapping, WellPlaced, HasFile, End
    <2>8. GoodMappings(mappings \ {m}, h) /\ GoodMappings({k}, h)
      BY <2>7 DEF GoodMappings
    <2>9. \A n \in mappings \ {m} : Apart(n, k)
      BY <2>5, <2>7 DEF GoodMappings, Apart
    <2>10. GoodMappings(mappings', hosts')
      <3>1. GoodMappings((mappings \ {m}) \cup {k}, h)
        BY <2>8, <2>9, UnionGood
      <3> QED
        BY <2>3, <3>1
    <2> QED
      BY <2>3, <2>5, <2>7, <2>10
  <1> QED
    BY <1>3, <1>4

\* readInto keeps the invariant.
LEMMA ReadKeeps ==
    ASSUME IInv, readInto
    PROVE  IInv'
  <1>1. CASE Fault
    BY <1>1, UnchangedKeeps DEF Fault
  <1>2. ASSUME NEW m \in mappings, Found(m), lookup' = LookupAfter(m, Cursor, 1),
               \/ /\ Finish("fault", << >>)
                  /\ UNCHANGED <<mappings, hosts, executableVersion>>
               \/ Crash(m)
               \/ /\ HasBacking(m)
                  /\ hosts' = materializeFileBytes(m, Offset(m), Chunk(m))
                  /\ LET read == call.data \o Cells(m, hosts', Offset(m), Chunk(m))
                     IN  \/ Finish("success", read)
                         \/ /\ Chunk(m) < Remaining
                            /\ call' = [call EXCEPT !.done = @ + Chunk(m), !.data = read]
                            /\ UNCHANGED result
                  /\ UNCHANGED <<mappings, executableVersion>>
        PROVE  IInv'
    <2>1. Active /\ call.op = "read"
      BY DEF readInto, Active
    <2>2. /\ Cursor \in Nat /\ Remaining \in Nat /\ Offset(m) \in Nat /\ Chunk(m) \in Nat
          /\ Offset(m) + Chunk(m) <= m.size
          /\ call.done \in Nat /\ call.size \in Nat /\ call.data \in Seq(Value)
          /\ call.done + Remaining = call.size
      BY <1>2, <2>1, FoundFacts
    <2>3. CASE Finish("fault", << >>) /\ UNCHANGED <<mappings, hosts, executableVersion>>
      <3>1. CallType' /\ CallProgress' /\ result'.data \in Seq(Value)
        BY <2>3, FinishTyped, EmptyData
      <3> QED
        BY <1>2, <2>2, <2>3, <3>1, QuietStepKeeps
    <2>4. CASE Crash(m)
      <3>1. /\ CallType' /\ CallProgress' /\ result'.data \in Seq(Value)
            /\ mappings' = mappings /\ hosts' = hosts /\ executableVersion' = executableVersion
        BY <2>4, CrashTyped
      <3> QED
        BY <1>2, <2>2, <3>1, QuietStepKeeps
    <2> DEFINE read == call.data \o Cells(m, hosts', Offset(m), Chunk(m))
    <2>5. CASE /\ HasBacking(m)
               /\ hosts' = materializeFileBytes(m, Offset(m), Chunk(m))
               /\ \/ Finish("success", read)
                  \/ /\ Chunk(m) < Remaining
                     /\ call' = [call EXCEPT !.done = @ + Chunk(m), !.data = read]
                     /\ UNCHANGED result
               /\ UNCHANGED <<mappings, executableVersion>>
      <3>1. GoodMappings(mappings, hosts') /\ HostsType(hosts')
        BY <2>2, <2>5, MaterializeKeeps
      <3>2. GoodMapping(m, hosts')
        BY <3>1 DEF GoodMappings
      <3>3. Cells(m, hosts', Offset(m), Chunk(m)) \in Seq(Value)
        BY <2>2, <2>5, <3>1, <3>2, CellsType
      <3>4. read \in Seq(Value)
        BY <2>2, <3>3
      <3> HIDE DEF read
      <3>5. CallType' /\ CallProgress' /\ result'.data \in Seq(Value)
        <4>1. CASE Finish("success", read)
          BY <4>1, <3>4, FinishTyped
        <4>2. CASE /\ Chunk(m) < Remaining
                   /\ call' = [call EXCEPT !.done = @ + Chunk(m), !.data = read]
                   /\ UNCHANGED result
          <5>1. call.done + Chunk(m) \in Nat /\ call.done + Chunk(m) < call.size
            BY <4>2, <2>2
          <5>2. CallType
            BY DEF IInv
          <5>3. CallType'
            BY <4>2, <5>1, <5>2, <3>4 DEF CallType
          <5>4. call'.done < call'.size /\ call'.op = "read"
            BY <4>2, <5>1, <5>2, <2>1 DEF CallType
          <5> QED
            BY <5>3, <5>4, <4>2 DEF IInv, CallProgress
        <4> QED
          BY <2>5, <4>1, <4>2
      <3>6. executableVersion' \in Nat
        BY <2>5 DEF IInv
      <3>7. mappings' = mappings /\ GoodMappings(mappings', hosts')
            /\ \A k \in mappings : \E j \in mappings' : j.base = k.base /\ End(j) = End(k)
        BY <2>5, <3>1
      <3> QED
        BY <1>2, <2>2, <3>1, <3>5, <3>6, <3>7, StepKeeps
    <2> QED
      BY <1>2, <2>3, <2>4, <2>5
  <1> QED
    BY <1>1, <1>2 DEF readInto, MaterializeFault

\* validateAccess keeps the invariant.
LEMMA ValidateKeeps ==
    ASSUME IInv, validateAccess
    PROVE  IInv'
  <1>1. CASE Fault
    BY <1>1, UnchangedKeeps DEF Fault
  <1>2. ASSUME NEW m \in mappings, Found(m), lookup' = LookupAfter(m, Cursor, 1),
               \/ Finish("success", << >>)
               \/ /\ Chunk(m) < Remaining
                  /\ call' = [call EXCEPT !.done = @ + Chunk(m)]
                  /\ UNCHANGED result,
               UNCHANGED <<mappings, hosts, executableVersion>>
        PROVE  IInv'
    <2>1. Active /\ call.op = "validate"
      BY DEF validateAccess, Active
    <2>2. /\ Cursor \in Nat /\ Remaining \in Nat /\ Chunk(m) \in Nat
          /\ call.done \in Nat /\ call.size \in Nat /\ call.done + Remaining = call.size
      BY <1>2, <2>1, FoundFacts
    <2>3. CallType' /\ CallProgress' /\ result'.data \in Seq(Value)
      <3>1. CASE Finish("success", << >>)
        BY <3>1, FinishTyped, EmptyData
      <3>2. CASE /\ Chunk(m) < Remaining
                 /\ call' = [call EXCEPT !.done = @ + Chunk(m)]
                 /\ UNCHANGED result
        <4>1. CallType' /\ call'.done < call'.size /\ call'.op = "validate"
          BY <3>2, <2>1, <2>2, SMTT(60) DEF IInv, CallType
        <4> QED
          BY <4>1, <3>2 DEF IInv, CallProgress
      <3> QED
        BY <1>2, <3>1, <3>2
    <2> QED
      BY <1>2, <2>2, <2>3, QuietStepKeeps
  <1> QED
    BY <1>1, <1>2 DEF validateAccess

\* executableBytes keeps the invariant.
LEMMA FetchKeeps ==
    ASSUME IInv, executableBytes
    PROVE  IInv'
  <1>1. CASE Fault
    BY <1>1, UnchangedKeeps DEF Fault
  <1>2. ASSUME NEW m \in mappings, Found(m), lookup' = LookupAfter(m, Cursor, 1),
               \/ /\ Finish("fault", << >>)
                  /\ UNCHANGED <<mappings, hosts, executableVersion>>
               \/ Crash(m)
               \/ /\ HasBacking(m)
                  /\ hosts' = materializeFileBytes(m, Offset(m), m.size - Offset(m))
                  /\ Finish("success", Cells(m, hosts', Offset(m), m.size - Offset(m)))
                  /\ UNCHANGED <<mappings, executableVersion>>
        PROVE  IInv'
    <2>1. Active
      BY DEF executableBytes, Active
    <2>2. /\ Cursor \in Nat /\ Offset(m) \in Nat /\ m.size - Offset(m) \in Nat
      BY <1>2, <2>1, FoundFacts
    <2>3. CASE Finish("fault", << >>) /\ UNCHANGED <<mappings, hosts, executableVersion>>
      <3>1. CallType' /\ CallProgress' /\ result'.data \in Seq(Value)
        BY <2>3, FinishTyped, EmptyData
      <3> QED
        BY <1>2, <2>2, <2>3, <3>1, QuietStepKeeps
    <2>4. CASE Crash(m)
      <3>1. /\ CallType' /\ CallProgress' /\ result'.data \in Seq(Value)
            /\ mappings' = mappings /\ hosts' = hosts /\ executableVersion' = executableVersion
        BY <2>4, CrashTyped
      <3> QED
        BY <1>2, <2>2, <3>1, QuietStepKeeps
    <2>5. CASE /\ HasBacking(m)
               /\ hosts' = materializeFileBytes(m, Offset(m), m.size - Offset(m))
               /\ Finish("success", Cells(m, hosts', Offset(m), m.size - Offset(m)))
               /\ UNCHANGED <<mappings, executableVersion>>
      <3>1. GoodMappings(mappings, hosts') /\ HostsType(hosts')
        BY <2>2, <2>5, MaterializeKeeps
      <3>2. GoodMapping(m, hosts') /\ m.size \in Nat
        BY <3>1, MappingFacts DEF GoodMappings
      <3>3. Cells(m, hosts', Offset(m), m.size - Offset(m)) \in Seq(Value)
        <4>1. Offset(m) + (m.size - Offset(m)) <= m.size
          BY <2>2, <3>2
        <4> QED
          BY <2>2, <2>5, <3>1, <3>2, <4>1, CellsType
      <3>4. CallType' /\ CallProgress' /\ result'.data \in Seq(Value)
        BY <2>5, <3>3, FinishTyped
      <3>5. executableVersion' \in Nat
        BY <2>5 DEF IInv
      <3>6. mappings' = mappings /\ GoodMappings(mappings', hosts')
            /\ \A k \in mappings : \E j \in mappings' : j.base = k.base /\ End(j) = End(k)
        BY <2>5, <3>1
      <3> QED
        BY <1>2, <2>2, <3>1, <3>4, <3>5, <3>6, StepKeeps
    <2> QED
      BY <1>2, <2>3, <2>4, <2>5
  <1> QED
    BY <1>1, <1>2 DEF executableBytes, MaterializeFault

\* A store that completes, or goes on to the next chunk, keeps the invariant.
LEMMA StoredKeeps ==
    ASSUME IInv, NEW m \in mappings, HasBacking(m), NEW h, NEW size \in Nat,
           GoodMappings(mappings, h), HostsType(h), Offset(m) \in Nat, Cursor \in Nat,
           call.done \in Nat, call.data \in Seq(Value), call.done + size <= Len(call.data),
           StoreChunk(m, h, size), lookup' = LookupAfter(m, Cursor, 1),
           executableVersion' \in Nat, CallType', CallProgress', result'.data \in Seq(Value)
    PROVE  IInv'
  <1>1. /\ GoodMappings(mappings', hosts') /\ HostsType(hosts')
        /\ \A k \in mappings : \E j \in mappings' : j.base = k.base /\ End(j) = End(k)
    BY StoreKeeps
  <1> QED
    BY <1>1, StepKeeps

\* The first step of writeBytes keeps the invariant.
LEMMA WriteFirstKeeps ==
    ASSUME IInv, writeFirst
    PROVE  IInv'
  <1>1. CASE Fault
    BY <1>1, UnchangedKeeps DEF Fault
  <1>2. ASSUME NEW m \in mappings, Found(m), lookup' = LookupAfter(m, Cursor, 1),
               \/ Crash(m)
               \/ /\ Finish("fault", << >>)
                  /\ UNCHANGED <<mappings, hosts, executableVersion>>
               \/ /\ HasBacking(m)
                  /\ StoreChunk(m, materializeFileBytes(m, Offset(m), Remaining), Remaining)
                  /\ BumpVersion(isExecutable(m.permissions))
                  /\ Finish("success", << >>)
               \/ /\ call' = [call EXCEPT !.phase = "validate"]
                  /\ UNCHANGED <<mappings, hosts, executableVersion, result>>
        PROVE  IInv'
    <2>1. Active /\ call.op = "write"
      BY DEF writeFirst, Active
    <2>2. /\ Cursor \in Nat /\ Remaining \in Nat /\ Offset(m) \in Nat
          /\ call.done \in Nat /\ call.size \in Nat /\ call.data \in Seq(Value)
          /\ call.done + Remaining = call.size
      BY <1>2, <2>1, FoundFacts
    <2>3. Len(call.data) = call.size /\ CallType
      BY <2>1 DEF IInv, CallProgress
    <2>4. CASE Crash(m)
      <3>1. /\ CallType' /\ CallProgress' /\ result'.data \in Seq(Value)
            /\ mappings' = mappings /\ hosts' = hosts /\ executableVersion' = executableVersion
        BY <2>4, CrashTyped
      <3> QED
        BY <1>2, <2>2, <3>1, QuietStepKeeps
    <2>5. CASE Finish("fault", << >>) /\ UNCHANGED <<mappings, hosts, executableVersion>>
      <3>1. CallType' /\ CallProgress' /\ result'.data \in Seq(Value)
        BY <2>5, FinishTyped, EmptyData
      <3> QED
        BY <1>2, <2>2, <2>5, <3>1, QuietStepKeeps
    <2>6. CASE /\ HasBacking(m)
               /\ StoreChunk(m, materializeFileBytes(m, Offset(m), Remaining), Remaining)
               /\ BumpVersion(isExecutable(m.permissions))
               /\ Finish("success", << >>)
      <3> DEFINE h == materializeFileBytes(m, Offset(m), Remaining)
      <3>1. GoodMappings(mappings, h) /\ HostsType(h)
        BY <2>2, MaterializeKeeps
      <3>2. CallType' /\ CallProgress' /\ result'.data \in Seq(Value)
        BY <2>6, FinishTyped, EmptyData
      <3>3. executableVersion' \in Nat
        BY <2>6, BumpTyped DEF IInv
      <3>4. call.done + Remaining <= Len(call.data)
        BY <2>2, <2>3
      <3>5. StoreChunk(m, h, Remaining)
        BY <2>6
      <3> HIDE DEF h
      <3> QED
        BY <1>2, <2>2, <2>6, <3>1, <3>2, <3>3, <3>4, <3>5, StoredKeeps
    <2>7. CASE /\ call' = [call EXCEPT !.phase = "validate"]
               /\ UNCHANGED <<mappings, hosts, executableVersion, result>>
      <3>1. CallType'
        BY <2>7, <2>3 DEF CallType
      <3>2. call'.done = call.done /\ call'.size = call.size /\ call'.op = call.op
            /\ call'.data = call.data /\ call'.required = call.required
        BY <2>7, <2>3 DEF CallType
      <3>3. CallProgress' /\ result'.data \in Seq(Value)
        BY <2>7, <3>2 DEF IInv, CallProgress
      <3> QED
        BY <1>2, <2>2, <2>7, <3>1, <3>3, QuietStepKeeps
    <2> QED
      BY <1>2, <2>4, <2>5, <2>6, <2>7
  <1> QED
    BY <1>1, <1>2 DEF writeFirst, MaterializeFault

\* The validation loop of writeBytes keeps the invariant.
LEMMA WriteValidateKeeps ==
    ASSUME IInv, writeValidate
    PROVE  IInv'
  <1> DEFINE checked(m) == [call EXCEPT !.done = @ + Chunk(m),
                                        !.exec = @ \/ isExecutable(m.permissions)]
             next(m) == IF Chunk(m) = Remaining THEN StartCopy(checked(m)) ELSE checked(m)
  <1>1. CASE Fault
    BY <1>1, UnchangedKeeps DEF Fault
  <1>2. ASSUME NEW m \in mappings, Found(m), lookup' = LookupAfter(m, Cursor, 1),
               \/ /\ Finish("fault", << >>)
                  /\ UNCHANGED <<mappings, hosts, executableVersion>>
               \/ /\ hosts' = materializeFileBytes(m, Offset(m), Chunk(m))
                  /\ call' = next(m)
                  /\ UNCHANGED <<mappings, executableVersion, result>>
        PROVE  IInv'
    <2>1. Active /\ call.op = "write"
      BY DEF writeValidate, ValidateChunk, Active
    <2>2. /\ Cursor \in Nat /\ Remaining \in Nat \ {0} /\ Offset(m) \in Nat /\ Chunk(m) \in Nat
          /\ Chunk(m) <= Remaining
          /\ call.done \in Nat /\ call.size \in Nat /\ call.data \in Seq(Value)
          /\ call.done + Remaining = call.size
      BY <1>2, <2>1, FoundFacts
    <2>3. Len(call.data) = call.size /\ CallType
      BY <2>1 DEF IInv, CallProgress
    <2>4. CASE Finish("fault", << >>) /\ UNCHANGED <<mappings, hosts, executableVersion>>
      <3>1. CallType' /\ CallProgress' /\ result'.data \in Seq(Value)
        BY <2>4, FinishTyped, EmptyData
      <3> QED
        BY <1>2, <2>2, <2>4, <3>1, QuietStepKeeps
    <2>5. CASE /\ hosts' = materializeFileBytes(m, Offset(m), Chunk(m))
               /\ call' = next(m)
               /\ UNCHANGED <<mappings, executableVersion, result>>
      <3>1. GoodMappings(mappings, hosts') /\ HostsType(hosts')
        BY <2>2, <2>5, MaterializeKeeps
      <3> DEFINE done == call.done + Chunk(m)
                 exec == call.exec \/ isExecutable(m.permissions)
      <3>2. done \in Nat /\ exec \in BOOLEAN /\ (Chunk(m) # Remaining => done < call.size)
        BY <2>2
      <3>3. checked(m) = [call EXCEPT !.done = done, !.exec = exec]
        BY <2>3 DEF CallType
      <3> HIDE DEF done, exec
      <3> DEFINE c == checked(m)
      <3>4. /\ c \in [op : {"none", "read", "write", "validate", "fetch", "direct", "crashed"},
                      address : Address, size : Nat, required : Permission, data : Seq(Value),
                      phase : {"none", "first", "validate", "copy"}, done : Nat, exec : BOOLEAN]
            /\ c.done = done /\ c.size = call.size /\ c.op = "write" /\ c.data = call.data
        BY <2>1, <2>3, <3>2, <3>3 DEF CallType
      <3>5. call' = IF Chunk(m) = Remaining THEN StartCopy(c) ELSE c
        BY <2>5
      <3> HIDE DEF c
      <3>6. CallType' /\ call'.size = call.size /\ call'.op = "write" /\ call'.data = call.data
        BY <3>4, <3>5 DEF CallType, StartCopy
      <3>7. call'.done < call'.size
        <4>1. CASE Chunk(m) = Remaining
          <5>1. call'.done = 0
            BY <3>4, <3>5, <4>1 DEF StartCopy
          <5> QED
            BY <5>1, <3>6, <2>2
        <4>2. CASE Chunk(m) # Remaining
          BY <3>2, <3>4, <3>5, <4>2
        <4> QED
          BY <4>1, <4>2
      <3>8. CallProgress' /\ result'.data \in Seq(Value)
        BY <2>3, <2>5, <3>6, <3>7 DEF IInv, CallProgress
      <3>9. executableVersion' \in Nat
        BY <2>5 DEF IInv
      <3>10. mappings' = mappings /\ GoodMappings(mappings', hosts')
             /\ \A k \in mappings : \E j \in mappings' : j.base = k.base /\ End(j) = End(k)
        BY <2>5, <3>1
      <3> QED
        BY <1>2, <2>2, <3>1, <3>6, <3>8, <3>9, <3>10, StepKeeps
    <2> QED
      BY <1>2, <2>4, <2>5
  <1> QED
    BY <1>1, <1>2 DEF writeValidate, ValidateChunk, MaterializeFault

\* The copy loop of writeBytes keeps the invariant.
LEMMA WriteCopyKeeps ==
    ASSUME IInv, writeCopy
    PROVE  IInv'
  <1>1. CASE Fault
    BY <1>1, UnchangedKeeps DEF Fault
  <1>2. ASSUME NEW m \in mappings, Found(m), lookup' = LookupAfter(m, Cursor, 1),
               \/ Crash(m)
               \/ /\ HasBacking(m)
                  /\ StoreChunk(m, hosts, Chunk(m))
                  /\ \/ BumpVersion(call.exec) /\ Finish("success", << >>)
                     \/ /\ Chunk(m) < Remaining
                        /\ call' = [call EXCEPT !.done = @ + Chunk(m)]
                        /\ UNCHANGED <<executableVersion, result>>
        PROVE  IInv'
    <2>1. Active /\ call.op = "write"
      BY DEF writeCopy, Active
    <2>2. /\ Cursor \in Nat /\ Remaining \in Nat /\ Offset(m) \in Nat /\ Chunk(m) \in Nat
          /\ Chunk(m) <= Remaining
          /\ call.done \in Nat /\ call.size \in Nat /\ call.data \in Seq(Value)
          /\ call.done + Remaining = call.size
      BY <1>2, <2>1, FoundFacts
    <2>3. Len(call.data) = call.size /\ CallType
      BY <2>1 DEF IInv, CallProgress
    <2>4. CASE Crash(m)
      <3>1. /\ CallType' /\ CallProgress' /\ result'.data \in Seq(Value)
            /\ mappings' = mappings /\ hosts' = hosts /\ executableVersion' = executableVersion
        BY <2>4, CrashTyped
      <3> QED
        BY <1>2, <2>2, <3>1, QuietStepKeeps
    <2>5. CASE /\ HasBacking(m)
               /\ StoreChunk(m, hosts, Chunk(m))
               /\ \/ BumpVersion(call.exec) /\ Finish("success", << >>)
                  \/ /\ Chunk(m) < Remaining
                     /\ call' = [call EXCEPT !.done = @ + Chunk(m)]
                     /\ UNCHANGED <<executableVersion, result>>
      <3>1. GoodMappings(mappings, hosts) /\ HostsType(hosts)
        BY DEF IInv
      <3>2. call.done + Chunk(m) <= Len(call.data)
        BY <2>2, <2>3
      <3>3. CallType' /\ CallProgress' /\ result'.data \in Seq(Value) /\ executableVersion' \in Nat
        <4>1. CASE BumpVersion(call.exec) /\ Finish("success", << >>)
          BY <4>1, FinishTyped, EmptyData, BumpTyped DEF IInv
        <4>2. CASE /\ Chunk(m) < Remaining
                   /\ call' = [call EXCEPT !.done = @ + Chunk(m)]
                   /\ UNCHANGED <<executableVersion, result>>
          <5>1. CallType' /\ call'.done < call'.size /\ call'.op = "write"
                /\ call'.size = call.size /\ call'.data = call.data
            BY <4>2, <2>1, <2>2, <2>3, SMTT(60) DEF CallType
          <5> QED
            BY <5>1, <4>2, <2>3 DEF IInv, CallProgress
        <4> QED
          BY <2>5, <4>1, <4>2
      <3> QED
        BY <1>2, <2>2, <2>5, <3>1, <3>2, <3>3, StoredKeeps
    <2> QED
      BY <1>2, <2>4, <2>5
  <1> QED
    BY <1>1, <1>2 DEF writeCopy

\* A direct byte access keeps the invariant.
LEMMA DirectKeeps ==
    ASSUME IInv, directAccess
    PROVE  IInv'
  <1>1. CASE Fault
    BY <1>1, UnchangedKeeps DEF Fault
  <1>2. ASSUME NEW m \in mappings, Found(m), lookup' = LookupAfter(m, Cursor, 1),
               UNCHANGED executableVersion,
               \/ /\ call' = [call EXCEPT !.op = IF "W" \in call.required THEN "write" ELSE "read"]
                  /\ UNCHANGED <<mappings, hosts, result>>
               \/ /\ directMemoryView(m, call.required)
                  /\ "W" \in call.required
                  /\ StoreChunk(m, hosts, 1)
                  /\ Finish("success", << >>)
               \/ /\ directMemoryView(m, call.required)
                  /\ Finish("success", Cells(m, hosts, Offset(m), 1))
                  /\ UNCHANGED <<mappings, hosts>>
        PROVE  IInv'
    <2>1. Active /\ call.op = "direct"
      BY DEF directAccess, Active
    <2>2. /\ Cursor \in Nat /\ Remaining \in Nat \ {0} /\ Offset(m) \in Nat /\ m.size \in Nat
          /\ Chunk(m) \in Nat \ {0} /\ Offset(m) + Chunk(m) <= m.size
          /\ call.done \in Nat /\ call.size \in Nat /\ call.data \in Seq(Value)
          /\ call.done + Remaining = call.size
      BY <1>2, <2>1, FoundFacts, MappingFacts
    <2>3. CallType /\ GoodMappings(mappings, hosts) /\ HostsType(hosts)
          /\ executableVersion' \in Nat
      BY <1>2 DEF IInv
    <2>4. CASE /\ call' = [call EXCEPT !.op = IF "W" \in call.required THEN "write" ELSE "read"]
               /\ UNCHANGED <<mappings, hosts, result>>
      <3>1. CallType' /\ call'.done = call.done /\ call'.size = call.size
            /\ call'.data = call.data /\ call'.op = IF "W" \in call.required THEN "write" ELSE "read"
        BY <2>3, <2>4 DEF CallType
      <3>2. CallProgress' /\ result'.data \in Seq(Value)
        BY <2>1, <2>4, <3>1 DEF IInv, CallProgress
      <3> QED
        BY <1>2, <2>2, <2>4, <3>1, <3>2, QuietStepKeeps
    <2>5. CASE /\ directMemoryView(m, call.required)
               /\ "W" \in call.required
               /\ StoreChunk(m, hosts, 1)
               /\ Finish("success", << >>)
      <3>1. HasBacking(m)
        BY <2>5 DEF directMemoryView, HasBacking
      <3>2. call.done + 1 <= Len(call.data)
        BY <2>1, <2>2, <2>5 DEF IInv, CallProgress
      <3>3. CallType' /\ CallProgress' /\ result'.data \in Seq(Value)
        BY <2>5, FinishTyped, EmptyData
      <3>4. 1 \in Nat
        OBVIOUS
      <3> QED
        BY <1>2, <2>2, <2>3, <2>5, <3>1, <3>2, <3>3, <3>4, StoredKeeps
    <2>6. CASE /\ directMemoryView(m, call.required)
               /\ Finish("success", Cells(m, hosts, Offset(m), 1))
               /\ UNCHANGED <<mappings, hosts>>
      <3>1. HasBacking(m) /\ GoodMapping(m, hosts)
        BY <2>3, <2>6 DEF directMemoryView, HasBacking, GoodMappings
      <3>2. Offset(m) + 1 <= m.size /\ 1 \in Nat
        BY <2>2
      <3>3. Cells(m, hosts, Offset(m), 1) \in Seq(Value)
        BY <2>2, <2>3, <3>1, <3>2, CellsType
      <3>4. CallType' /\ CallProgress' /\ result'.data \in Seq(Value)
        BY <2>6, <3>3, FinishTyped
      <3> QED
        BY <1>2, <2>2, <2>6, <3>4, QuietStepKeeps
    <2> QED
      BY <1>2, <2>4, <2>5, <2>6
  <1> QED
    BY <1>1, <1>2 DEF directAccess

\* Starting an access keeps the invariant.
LEMMA BeginKeeps ==
    ASSUME IInv, NEW op \in {"read", "write", "validate", "fetch", "direct"},
           NEW address \in Address, NEW size \in Nat \ {0}, NEW required \in Permission,
           NEW data \in Seq(Value),
           op = "write" \/ (op = "direct" /\ "W" \in required) => Len(data) = size,
           begin(op, address, size, required, data)
    PROVE  IInv'
  <1>1. /\ call' = [NoCall EXCEPT !.op = op, !.address = address, !.size = size,
                                  !.required = required, !.data = data, !.phase = "first"]
        /\ result'.data = << >>
        /\ UNCHANGED <<mappings, lookup, hosts, executableVersion>>
    BY DEF begin, Returned
  <1>2. call' = [op |-> op, address |-> address, size |-> size, required |-> required,
                 data |-> data, phase |-> "first", done |-> 0, exec |-> FALSE]
    BY <1>1 DEF NoCall
  <1>3. CallType'
    BY <1>2 DEF CallType
  <1>4. CallProgress'
    BY <1>2 DEF CallProgress
  <1> QED
    BY <1>1, <1>3, <1>4, EmptyData
       DEF IInv, GoodMappings, GoodMapping, HostsType, HostType, LookupType, LookupCoherent

-----------------------------------------------------------------------------
(* The theorems.                                                           *)

\* Every step keeps the inductive invariant.
LEMMA NextKeeps == IInv /\ [Next]_vars => IInv'
  <1> SUFFICES ASSUME IInv, [Next]_vars PROVE IInv'
    OBVIOUS
  <1> USE InputAssumption
  <1>1. CASE MapNext
    <2>1. ASSUME NEW requests \in SegmentBatches, mapSegments(requests)
          PROVE  IInv'
      <3>1. requests \in SUBSET SegmentRequests
        BY DEF SegmentBatches
      <3> QED
        BY <2>1, <3>1, MapSegmentsKeeps
    <2>2. ASSUME NEW base \in MapBases, NEW size \in MapSizes, NEW n \in AccessSizes,
                 NEW i \in 0 .. PageSize - 1, mapSparseReadOnly(base, size, n, {i})
          PROVE  IInv'
      <3>1. base \in Address /\ size \in Address /\ n \in Nat
        OBVIOUS
      <3> QED
        BY <2>2, <3>1, MapSparseKeeps
    <2>3. ASSUME NEW base \in MapBases, NEW size \in MapSizes,
                 NEW p \in Protections, NEW mx \in Maxima,
                 \/ mapAnonymous(base, size, p, mx)
                 \/ \E n \in AccessSizes : mapSegment(base, size, p, mx, n)
                 \/ \E prefix \in Prefixes, lazyPage \in LazyPages \cup {0} :
                      mapFileSegment(base, size, p, mx, prefix, lazyPage)
          PROVE  IInv'
      <3>1. base \in Address /\ size \in Address /\ p \in Permission /\ mx \in Permission
        OBVIOUS
      <3>2. CASE mapAnonymous(base, size, p, mx)
        BY <3>1, <3>2, MapAnonymousKeeps
      <3>3. CASE \E n \in AccessSizes : mapSegment(base, size, p, mx, n)
        BY <3>1, <3>3, MapSegmentKeeps
      <3>4. ASSUME NEW prefix \in Prefixes, NEW lazyPage \in LazyPages \cup {0},
                   mapFileSegment(base, size, p, mx, prefix, lazyPage)
            PROVE  IInv'
        <4>1. prefix \in Nat /\ lazyPage \in Nat
          OBVIOUS
        <4> QED
          BY <3>1, <3>4, <4>1, MapFileSegmentKeeps
      <3> QED
        BY <2>3, <3>2, <3>3, <3>4
    <2> QED
      BY <1>1, <2>1, <2>2, <2>3 DEF MapNext
  <1>2. CASE ChangeNext
    <2>1. ASSUME NEW address \in Address, NEW size \in ChangeSizes, deallocate(address, size)
          PROVE  IInv'
      BY <2>1, DeallocateKeeps
    <2>2. ASSUME NEW address \in Address, NEW size \in ChangeSizes, NEW p \in Protections,
                 NEW copy \in Copies, protect(address, size, p, copy)
          PROVE  IInv'
      <3>1. size \in Address /\ p \in Permission
        OBVIOUS
      <3> QED
        BY <2>2, <3>1, ProtectKeeps
    <2> QED
      BY <1>2, <2>1, <2>2 DEF ChangeNext
  <1>3. CASE BeginNext
    <2> USE DEF Permission
    <2>1. ASSUME NEW address \in Address, NEW n \in AccessSizes,
                 begin("read", address, n, {"R"}, << >>)
          PROVE  IInv'
      BY <2>1, BeginKeeps, EmptyData
    <2>2. ASSUME NEW address \in Address, NEW n \in AccessSizes, NEW r \in {"R", "W"},
                 begin("validate", address, n, {r}, << >>)
          PROVE  IInv'
      BY <2>2, BeginKeeps, EmptyData
    <2>3. ASSUME NEW address \in Address, NEW data \in Payloads,
                 begin("write", address, Len(data), {"W"}, data)
          PROVE  IInv'
      <3>1. data \in Seq(Value) /\ Len(data) \in Nat \ {0}
        BY EmptySeq
      <3> QED
        BY <2>3, <3>1, BeginKeeps
    <2>4. ASSUME NEW address \in Address, begin("fetch", address, 1, {"X"}, << >>)
          PROVE  IInv'
      <3>1. PICK n \in Nat \ {0} : n = 1
        OBVIOUS
      <3>2. begin("fetch", address, n, {"X"}, << >>)
        BY <2>4, <3>1
      <3> QED
        BY <3>2, BeginKeeps, EmptyData
    <2>5. ASSUME NEW address \in Address, begin("direct", address, 1, {"R"}, << >>)
          PROVE  IInv'
      <3>1. PICK n \in Nat \ {0} : n = 1
        OBVIOUS
      <3>2. begin("direct", address, n, {"R"}, << >>)
        BY <2>5, <3>1
      <3> QED
        BY <3>2, BeginKeeps, EmptyData
    <2>6. ASSUME NEW address \in Address, NEW d \in Payloads,
                 begin("direct", address, 1, {"W"}, <<d[1]>>)
          PROVE  IInv'
      <3>1. d \in Seq(Value) /\ Len(d) \in Nat \ {0}
        BY EmptySeq
      <3>2. <<d[1]>> \in Seq(Value) /\ Len(<<d[1]>>) = 1
        BY <3>1
      <3>3. PICK n \in Nat \ {0} : n = 1
        OBVIOUS
      <3>4. begin("direct", address, n, {"W"}, <<d[1]>>) /\ Len(<<d[1]>>) = n
        BY <2>6, <3>2, <3>3
      <3> QED
        BY <3>2, <3>4, BeginKeeps
    <2> QED
      BY <1>3, <2>1, <2>2, <2>3, <2>4, <2>5, <2>6 DEF BeginNext
  <1>4. CASE StepNext
    BY <1>4, ReadKeeps, ValidateKeeps, WriteFirstKeeps, WriteValidateKeeps, WriteCopyKeeps,
       FetchKeeps, DirectKeeps DEF StepNext
  <1>5. CASE UNCHANGED vars
    BY <1>5 DEF vars, IInv, GoodMappings, GoodMapping, HostsType, HostType, LookupType,
                LookupCoherent, CallType, CallProgress
  <1> QED
    BY <1>1, <1>2, <1>3, <1>4, <1>5 DEF Next

\* The inductive invariant holds in every reachable state.
THEOREM Invariance == Spec => []IInv
  BY InitIInv, NextKeeps, PTL DEF Spec

\* The type invariant, for every instance: no sequence of maps, splits, writes and lazily
\* transformed reads leaves a vector, a host mapping or a read result with a foreign cell.
THEOREM TypeCorrect == Spec => []TypeOK
  BY Invariance, IInvImplies, PTL

\* Mappings are whole pages and never overlap, so the vector can be binary searched.
THEOREM DisjointMappings == Spec => []MappingsDisjoint
  BY Invariance, IInvImplies, PTL

\* The lookup table only describes mappings that exist.
THEOREM CoherentLookup == Spec => []LookupCoherent
  BY Invariance, IInvImplies, PTL

\* The offsets of a mapping in its host mapping survive every split, and a lazy transform
\* covers them: materialize never throws and no access leaves the host mapping.
THEOREM BackingBounds == Spec => []BackingInBounds
  BY Invariance, IInvImplies, PTL

\* find() returns what a fresh binary search would, whatever the table holds.
THEOREM ExactFind == Spec => []FindExact
  <1>1. IInv => FindExact
    <2> SUFFICES ASSUME IInv, NEW address \in Address, NEW size \in AccessSizes
                 PROVE  Resolved(address, size) = SearchHit(address, size)
      BY DEF FindExact
    <2>1. address \in Nat /\ size \in Nat \ {0}
      BY GeometryAssumption, InputAssumption DEF Address
    <2> QED
      BY <2>1, ResolvedExact
  <1> QED
    BY <1>1, Invariance, PTL

-----------------------------------------------------------------------------
(***************************************************************************)
(* Proofs about the accesses that span several mappings.  AInv, on top of  *)
(* the inductive invariant IInv, says what an access in progress has       *)
(* already checked: every cell up to its cursor lies in a                  *)
(* mapping that allows the access; a write has transformed the lazy pages  *)
(* of those cells and knows whether one of them is code; a read holds the  *)
(* contents of those cells.  For this the pieces of a split mapping must   *)
(* not meet in the host mapping they share, which is AInv's first part.    *)
(***************************************************************************)

Holds(m, a) == m.base <= a /\ a < End(m)

ApartInHost(m, n) ==
    \/ m.fileDataOffset + m.size <= n.fileDataOffset
    \/ n.fileDataOffset + n.size <= m.fileDataOffset

\* Only host mappings are transformed lazily.  Mappings of one host mapping use different cells
\* of it, and all of them lazily or none.
Unshared(S) ==
    /\ \A m \in S : m.lazyFileTransform => HasFile(m)
    /\ \A m, n \in S : HasFile(m) /\ m.fileBytes = n.fileBytes /\ m # n =>
         ApartInHost(m, n) /\ m.lazyFileTransform = n.lazyFileTransform

\* The cell is stored as a program sees it: no lazy transform is outstanding.
Settled(m, h, i) ==
    HasFile(m) /\ m.lazyFileTransform => ~Pending(h[m.fileBytes].transform, m.fileDataOffset + i)

\* What a program sees in cell i of a mapping.
Seen(m, h, i) ==
    IF ~HasBacking(m) THEN Zero
    ELSE IF Settled(m, h, i) THEN Stored(m, h, i) ELSE Slid(Stored(m, h, i))

ReadableAt(m, i) == IsSparse(m) => m.readableBytes[i]

\* What call c knows of cell a once it has gone past it.
Checked(c, m, h, a) ==
    /\ Holds(m, a)
    /\ hasPermission(m.permissions, c.required)
    /\ c.op = "write" => /\ Settled(m, h, a - m.base)
                         /\ isExecutable(m.permissions) => c.exec
    /\ c.op = "read" => /\ HasBacking(m)
                        /\ ReadableAt(m, a - m.base)
                        /\ c.data[a - c.address + 1] = Seen(m, h, a - m.base)

CheckedTo(c) == IF c.phase = "copy" THEN c.address + c.size ELSE c.address + c.done
RangeChecked(c, S, h) == \A a \in c.address .. CheckedTo(c) - 1 : \E m \in S : Checked(c, m, h, a)

CallShape(c) ==
    /\ c.op = "none" => c = NoCall
    /\ c.op = "read" => c.required = {"R"} /\ c.phase = "first" /\ Len(c.data) = c.done
    /\ c.op = "write" => /\ c.required = {"W"}
                         /\ c.phase = "first" => c.done = 0 /\ c.exec = FALSE
    /\ c.op = "validate" => c.required # {} /\ c.phase = "first"
    /\ c.op = "fetch" => c.required = {"X"} /\ c.phase = "first" /\ c.done = 0 /\ c.size = 1
    /\ c.op = "direct" => /\ c.required \in {{"R"}, {"W"}} /\ c.phase = "first"
                          /\ c.done = 0 /\ c.size = 1 /\ c.exec = FALSE
                          /\ "W" \notin c.required => c.data = << >>

AInv ==
    /\ Unshared(mappings)
    /\ CallShape(call)
    /\ Active => RangeChecked(call, mappings, hosts)

-----------------------------------------------------------------------------
(* Lazy pages.                                                             *)

\* Transforming pages changes no cell as a program sees it, and settles the cells asked for.
LEMMA MaterializeCell ==
    ASSUME NEW host, HostType(host), NEW first \in Nat, NEW size \in Nat,
           NEW c \in DOMAIN host.cells
    PROVE  LET after == materialize(host, first, size)
           IN  /\ (IF Pending(after.transform, c) THEN Slid(after.cells[c]) ELSE after.cells[c])
                    = (IF Pending(host.transform, c) THEN Slid(host.cells[c]) ELSE host.cells[c])
               /\ ~Pending(host.transform, c) => ~Pending(after.transform, c)
               /\ c \in first .. first + size - 1 => ~Pending(after.transform, c)
  <1> DEFINE t == host.transform
             asked == {TransformPage(t, x) : x \in first .. first + size - 1}
             pages == asked \ t.transformedPages
             cells == [x \in DOMAIN host.cells |->
                         IF InTransform(t, x) /\ TransformPage(t, x) \in pages
                         THEN Slid(host.cells[x]) ELSE host.cells[x]]
             marked == [t EXCEPT !.transformedPages = @ \cup pages]
  <1>1. materialize(host, first, size) = [cells |-> cells, transform |-> marked]
    BY DEF materialize
  <1>2. t \in [dataOffset : Nat, size : Nat, pageSize : Nat \ {0}, transformedPages : SUBSET Int]
    BY DEF HostType
  <1>3. /\ marked.dataOffset = t.dataOffset /\ marked.size = t.size
        /\ marked.pageSize = t.pageSize
        /\ marked.transformedPages = t.transformedPages \cup pages
    BY <1>2
  <1> HIDE DEF marked
  <1>4. TransformPage(marked, c) = TransformPage(t, c) /\ InTransform(marked, c) = InTransform(t, c)
    BY <1>3 DEF TransformPage, InTransform
  <1>5. c \in first .. first + size - 1 => TransformPage(t, c) \in asked
    OBVIOUS
  <1>6. Pending(marked, c) <=> Pending(t, c) /\ TransformPage(t, c) \notin asked
    <2> HIDE DEF t, asked
    <2> QED
      BY <1>3, <1>4 DEF Pending
  <1>7. cells[c] = IF Pending(t, c) /\ TransformPage(t, c) \in asked
                   THEN Slid(host.cells[c]) ELSE host.cells[c]
    BY DEF Pending
  <1> HIDE DEF cells, t, asked
  <1> QED
    BY <1>1, <1>5, <1>6, <1>7 DEF t

\* The same for the cells of every mapping, whichever mapping's pages are transformed.
LEMMA MaterializeSeen ==
    ASSUME IInv, Unshared(mappings), NEW m \in mappings, NEW offset \in Nat, NEW size \in Nat,
           NEW n \in mappings, NEW i \in 0 .. n.size - 1
    PROVE  LET g == materializeFileBytes(m, offset, size)
           IN  /\ Seen(n, g, i) = Seen(n, hosts, i)
               /\ Settled(n, hosts, i) => Settled(n, g, i)
               /\ n = m /\ offset <= i /\ i < offset + size => Settled(n, g, i)
  <1> DEFINE g == materializeFileBytes(m, offset, size)
  <1>1. /\ GoodMapping(m, hosts) /\ GoodMapping(n, hosts) /\ HostsType(hosts)
        /\ n.size \in Nat /\ n.fileDataOffset \in Nat /\ m.fileDataOffset \in Nat
    BY GeometryAssumption DEF IInv, GoodMappings, GoodMapping, MappingType, Address
  <1>2. CASE ~(HasFile(m) /\ m.lazyFileTransform)
    <2>1. g = hosts
      BY <1>2 DEF materializeFileBytes
    <2> QED
      BY <1>2, <2>1 DEF Settled
  <1>3. CASE HasFile(m) /\ m.lazyFileTransform
    <2> DEFINE b == m.fileBytes
               after == materialize(hosts[b], m.fileDataOffset + offset, size)
    <2>1. b \in Backings /\ HostType(hosts[b])
      BY <1>1, <1>3 DEF GoodMapping, MappingType, HasFile, HostsType
    <2>2. g = [hosts EXCEPT ![b] = after]
      BY <1>3 DEF materializeFileBytes
    <2> HIDE DEF after, g
    <2>3. g[b] = after /\ \A x \in Backings : x # b => g[x] = hosts[x]
      BY <1>1, <2>1, <2>2 DEF HostsType
    <2>4. CASE n.fileBytes = b
      <3> DEFINE c == n.fileDataOffset + i
      <3>1. HasFile(n) /\ n.lazyFileTransform /\ HasBacking(n)
        BY <1>3, <2>4 DEF Unshared, HasFile, HasBacking
      <3>2. c \in DOMAIN hosts[b].cells
        <4>1. n.fileDataOffset .. n.fileDataOffset + n.size - 1 \subseteq DOMAIN hosts[b].cells
          BY <1>1, <2>4, <3>1 DEF GoodMapping, InBounds
        <4>2. c \in n.fileDataOffset .. n.fileDataOffset + n.size - 1
          BY <1>1
        <4> QED
          BY <4>1, <4>2
      <3>3. m.fileDataOffset + offset \in Nat
        BY <1>1
      <3>4. /\ (IF Pending(after.transform, c) THEN Slid(after.cells[c]) ELSE after.cells[c])
               = (IF Pending(hosts[b].transform, c) THEN Slid(hosts[b].cells[c])
                                                    ELSE hosts[b].cells[c])
            /\ ~Pending(hosts[b].transform, c) => ~Pending(after.transform, c)
            /\ c \in m.fileDataOffset + offset .. m.fileDataOffset + offset + size - 1
                 => ~Pending(after.transform, c)
        BY <2>1, <3>2, <3>3, MaterializeCell DEF after
      <3>5. n = m /\ offset <= i /\ i < offset + size =>
              c \in m.fileDataOffset + offset .. m.fileDataOffset + offset + size - 1
        BY <1>1
      <3>6. \A h : /\ Settled(n, h, i) <=> ~Pending(h[b].transform, c)
                   /\ Stored(n, h, i) = h[b].cells[c]
        BY <2>4, <3>1 DEF Settled, Stored
      <3> HIDE DEF c, b
      <3>7. Seen(n, g, i) = Seen(n, hosts, i)
        BY <2>3, <3>1, <3>4, <3>6 DEF Seen
      <3>8. /\ Settled(n, hosts, i) => Settled(n, g, i)
            /\ n = m /\ offset <= i /\ i < offset + size => Settled(n, g, i)
        BY <2>3, <3>4, <3>5, <3>6
      <3> QED
        BY <3>7, <3>8 DEF g
    <2>5. CASE n.fileBytes # b
      <3>1. HasFile(n) => g[n.fileBytes] = hosts[n.fileBytes]
        BY <1>1, <2>3, <2>5 DEF GoodMapping, MappingType, HasFile
      <3>2. Settled(n, g, i) <=> Settled(n, hosts, i)
        BY <3>1 DEF Settled
      <3>3. Stored(n, g, i) = Stored(n, hosts, i)
        BY <3>1 DEF Stored
      <3> QED
        BY <2>5, <3>2, <3>3 DEF Seen, g
    <2> QED
      BY <2>4, <2>5
  <1> QED
    BY <1>2, <1>3

-----------------------------------------------------------------------------
(* Stores.                                                                 *)

\* The mapping is the same but for its own cells.
SameButCells(k, m) ==
    /\ k.base = m.base /\ k.size = m.size /\ End(k) = End(m)
    /\ k.permissions = m.permissions /\ k.maximumPermissions = m.maximumPermissions
    /\ k.fileBytes = m.fileBytes /\ k.fileDataOffset = m.fileDataOffset
    /\ k.lazyFileTransform = m.lazyFileTransform /\ k.readableBytes = m.readableBytes
    /\ HasBacking(k) = HasBacking(m) /\ HasFile(k) = HasFile(m)

\* k takes the place of m, and the payload is in the cells of the chunk and nowhere else.
Stores(m, k, h, size) ==
    /\ mappings' = (mappings \ {m}) \cup {k}
    /\ SameButCells(k, m)
    /\ \A i \in 0 .. m.size - 1 :
         /\ Settled(k, hosts', i) <=> Settled(m, h, i)
         /\ Stored(k, hosts', i) = IF Offset(m) <= i /\ i < Offset(m) + size
                                   THEN call.data[call.done + (i - Offset(m)) + 1]
                                   ELSE Stored(m, h, i)
    /\ \A n \in mappings \ {m} : \A i \in 0 .. n.size - 1 :
         Seen(n, hosts', i) = Seen(n, h, i) /\ (Settled(n, hosts', i) <=> Settled(n, h, i))

\* The part of a payload that goes into one chunk.
LEMMA SubSeqCells ==
    ASSUME NEW V, NEW s \in Seq(V), NEW d \in Nat, NEW n \in Nat, d + n <= Len(s)
    PROVE  /\ Len(SubSeq(s, d + 1, d + n)) = n
           /\ \A j \in 1 .. n : SubSeq(s, d + 1, d + n)[j] = s[d + j]
  <1>1. d + 1 \in Int /\ d + n \in Int
    OBVIOUS
  <1>2. \A j \in d + 1 .. d + n : s[j] \in V
    OBVIOUS
  <1> DEFINE from == d + 1
             to == d + n
             r == SubSeq(s, from, to)
  <1>3. /\ from \in Int /\ to \in Int
        /\ \A j \in from .. to : s[j] \in V
    BY <1>1, <1>2
  <1>4. to - from + 1 = n /\ \A j \in 1 .. n : from + j - 1 = d + j
    OBVIOUS
  <1>5. n = 0 \/ from <= to
    OBVIOUS
  <1>6. n = 0 => ~(from <= to)
    OBVIOUS
  <1> HIDE DEF from, to
  <1>7. /\ Len(r) = IF from <= to THEN to - from + 1 ELSE 0
        /\ \A j \in 1 .. to - from + 1 : r[j] = s[from + j - 1]
    BY <1>3, SubSeqProperties
  <1> HIDE DEF r
  <1>8. Len(r) = n /\ \A j \in 1 .. n : r[j] = s[d + j]
    BY <1>4, <1>5, <1>6, <1>7
  <1> QED
    BY <1>8 DEF r, from, to

\* What StoreChunk does to the cells of every mapping.
LEMMA StoreSeen ==
    ASSUME IInv, Unshared(mappings), NEW m \in mappings, HasBacking(m), NEW h, NEW size \in Nat,
           GoodMappings(mappings, h), HostsType(h), Offset(m) \in Nat, Offset(m) + size <= m.size,
           call.done \in Nat, call.data \in Seq(Value), call.done + size <= Len(call.data),
           StoreChunk(m, h, size)
    PROVE  \E k \in mappings' : Stores(m, k, h, size)
  <1> DEFINE data == SubSeq(call.data, call.done + 1, call.done + size)
  <1>1. /\ Len(data) = size
        /\ \A j \in 1 .. size : data[j] = call.data[call.done + j]
    BY SubSeqCells
  <1>2. /\ GoodMapping(m, h) /\ m.size \in Nat \ {0} /\ m.fileDataOffset \in Nat
    BY GeometryAssumption DEF GoodMappings, GoodMapping, MappingType, WellPlaced, Address
  <1>3. \A n \in mappings : n.size \in Nat /\ n.fileDataOffset \in Nat /\ GoodMapping(n, h)
    BY GeometryAssumption DEF GoodMappings, GoodMapping, MappingType, Address
  <1> HIDE DEF data
  <1>4. CASE HasFile(m)
    <2> DEFINE b == m.fileBytes
               at == m.fileDataOffset + Offset(m)
               cells == Overwrite(h[b].cells, at, data)
               after == [h[b] EXCEPT !.cells = cells]
    <2>1. b \in Backings /\ HostType(h[b])
      BY <1>2, <1>4 DEF GoodMapping, MappingType, HasFile, HostsType
    <2>2. hosts' = [h EXCEPT ![b].cells = cells] /\ mappings' = mappings
      BY <1>4 DEF StoreChunk, data
    <2>3. [h EXCEPT ![b].cells = cells] = [h EXCEPT ![b] = after]
      BY <2>1 DEF HostsType
    <2>4. \A c \in DOMAIN h[b].cells :
            cells[c] = IF at <= c /\ c < at + size THEN data[c - at + 1] ELSE h[b].cells[c]
      BY <1>1 DEF Overwrite
    <2> HIDE DEF cells
    <2>5. after.cells = cells /\ after.transform = h[b].transform
      BY <2>1 DEF HostType
    <2> HIDE DEF after
    <2>6. hosts'[b] = after /\ \A x \in Backings : x # b => hosts'[x] = h[x]
      BY <2>1, <2>2, <2>3 DEF HostsType
    <2>7. ASSUME NEW n \in mappings, n.fileBytes = b, NEW i \in 0 .. n.size - 1
          PROVE  /\ HasFile(n) /\ HasBacking(n)
                 /\ n.fileDataOffset + i \in DOMAIN h[b].cells
                 /\ Settled(n, hosts', i) <=> Settled(n, h, i)
                 /\ Stored(n, hosts', i) = cells[n.fileDataOffset + i]
                 /\ Stored(n, h, i) = h[b].cells[n.fileDataOffset + i]
      <3>1. HasFile(n) /\ HasBacking(n)
        BY <1>4, <2>7 DEF HasFile, HasBacking
      <3>2. n.fileDataOffset .. n.fileDataOffset + n.size - 1 \subseteq DOMAIN h[b].cells
        BY <1>3, <2>7, <3>1 DEF GoodMapping, InBounds
      <3>3. n.fileDataOffset + i \in n.fileDataOffset .. n.fileDataOffset + n.size - 1
        BY <1>3
      <3>4. /\ Stored(n, hosts', i) = cells[n.fileDataOffset + i]
            /\ Stored(n, h, i) = h[b].cells[n.fileDataOffset + i]
        BY <2>5, <2>6, <2>7, <3>1 DEF Stored
      <3>5. Settled(n, hosts', i) <=> Settled(n, h, i)
        BY <2>5, <2>6, <2>7 DEF Settled
      <3> QED
        BY <3>1, <3>2, <3>3, <3>4, <3>5
    <2>8. ASSUME NEW i \in 0 .. m.size - 1
          PROVE  /\ Settled(m, hosts', i) <=> Settled(m, h, i)
                 /\ Stored(m, hosts', i) = IF Offset(m) <= i /\ i < Offset(m) + size
                                           THEN call.data[call.done + (i - Offset(m)) + 1]
                                           ELSE Stored(m, h, i)
      <3> DEFINE c == m.fileDataOffset + i
      <3>1. /\ c \in DOMAIN h[b].cells
            /\ Settled(m, hosts', i) <=> Settled(m, h, i)
            /\ Stored(m, hosts', i) = cells[c]
            /\ Stored(m, h, i) = h[b].cells[c]
        BY <2>7
      <3>2. /\ at <= c <=> Offset(m) <= i
            /\ c < at + size <=> i < Offset(m) + size
            /\ c - at + 1 = i - Offset(m) + 1
        BY <1>2, SMTT(60)
      <3>3. Offset(m) <= i /\ i < Offset(m) + size =>
              data[i - Offset(m) + 1] = call.data[call.done + (i - Offset(m)) + 1]
        <4>1. Offset(m) <= i /\ i < Offset(m) + size => i - Offset(m) + 1 \in 1 .. size
          BY <1>2
        <4>2. call.done + (i - Offset(m) + 1) = call.done + (i - Offset(m)) + 1
          BY <1>2
        <4> QED
          BY <1>1, <4>1, <4>2
      <3> HIDE DEF at, b, c
      <3>4. cells[c] = IF at <= c /\ c < at + size THEN data[c - at + 1] ELSE h[b].cells[c]
        BY <2>4, <3>1
      <3> QED
        BY <3>1, <3>2, <3>3, <3>4
    <2>9. ASSUME NEW n \in mappings \ {m}, NEW i \in 0 .. n.size - 1
          PROVE  /\ Seen(n, hosts', i) = Seen(n, h, i)
                 /\ Settled(n, hosts', i) <=> Settled(n, h, i)
      <3>1. CASE n.fileBytes = b
        <4>1. /\ n.fileDataOffset + i \in DOMAIN h[b].cells
              /\ Settled(n, hosts', i) <=> Settled(n, h, i)
              /\ Stored(n, hosts', i) = cells[n.fileDataOffset + i]
              /\ Stored(n, h, i) = h[b].cells[n.fileDataOffset + i]
          BY <2>7, <3>1
        <4>2. ApartInHost(m, n)
          BY <1>4, <3>1 DEF Unshared
        <4>3. ~(at <= n.fileDataOffset + i /\ n.fileDataOffset + i < at + size)
          <5>1. n.size \in Nat /\ n.fileDataOffset \in Nat
            BY <1>3
          <5>2. \A x, y, o, ms, ns, j, sz \in Nat :
                  /\ x + ms <= y \/ y + ns <= x
                  /\ o + sz <= ms /\ j < ns
                  => ~(x + o <= y + j /\ y + j < x + o + sz)
            OBVIOUS
          <5>3. i \in Nat /\ i < n.size
            BY <5>1
          <5> QED
            BY <1>2, <4>2, <5>1, <5>2, <5>3 DEF ApartInHost
        <4> HIDE DEF at, b
        <4> QED
          BY <2>4, <4>1, <4>3 DEF Seen
      <3>2. CASE n.fileBytes # b
        <4>1. HasFile(n) => hosts'[n.fileBytes] = h[n.fileBytes]
          BY <1>3, <2>6, <3>2 DEF GoodMapping, MappingType, HasFile
        <4> QED
          BY <4>1 DEF Seen, Settled, Stored
      <3> QED
        BY <3>1, <3>2
    <2>10. mappings' = (mappings \ {m}) \cup {m} /\ SameButCells(m, m)
      BY <2>2 DEF SameButCells
    <2> QED
      BY <2>2, <2>8, <2>9, <2>10 DEF Stores
  <1>5. CASE ~HasFile(m)
    <2> DEFINE bytes == Overwrite(m.bytes, Offset(m), data)
               k == [m EXCEPT !.bytes = bytes]
    <2>1. m.bytes \in [0 .. m.size - 1 -> Value] /\ MappingType(m)
      BY <1>2, <1>5 DEF GoodMapping, MappingType, HasBacking, VectorOf
    <2>2. mappings' = (mappings \ {m}) \cup {k} /\ hosts' = h
      BY <1>5 DEF StoreChunk, data
    <2>3. /\ DOMAIN bytes = 0 .. m.size - 1
          /\ \A i \in 0 .. m.size - 1 :
               bytes[i] = IF Offset(m) <= i /\ i < Offset(m) + size
                          THEN data[i - Offset(m) + 1] ELSE m.bytes[i]
      BY <1>1, <2>1 DEF Overwrite
    <2>4. bytes # Empty
      <3>1. 0 \in DOMAIN bytes
        BY <1>2, <2>3
      <3> QED
        BY <3>1 DEF Empty
    <2> HIDE DEF bytes
    <2>5. /\ k.base = m.base /\ k.size = m.size
          /\ k.permissions = m.permissions /\ k.maximumPermissions = m.maximumPermissions
          /\ k.fileBytes = m.fileBytes /\ k.fileDataOffset = m.fileDataOffset
          /\ k.lazyFileTransform = m.lazyFileTransform /\ k.readableBytes = m.readableBytes
          /\ k.bytes = bytes
      BY <2>1 DEF MappingType
    <2> HIDE DEF k
    <2>6. ~HasFile(k) /\ HasBacking(k) /\ SameButCells(k, m)
      BY <1>5, <2>4, <2>5 DEF HasFile, HasBacking, SameButCells, End
    <2>7. ASSUME NEW i \in 0 .. m.size - 1
          PROVE  /\ Settled(k, hosts', i) <=> Settled(m, h, i)
                 /\ Stored(k, hosts', i) = IF Offset(m) <= i /\ i < Offset(m) + size
                                           THEN call.data[call.done + (i - Offset(m)) + 1]
                                           ELSE Stored(m, h, i)
      <3>1. Stored(k, hosts', i) = bytes[i] /\ Stored(m, h, i) = m.bytes[i]
        BY <1>5, <2>5, <2>6 DEF Stored
      <3>2. Offset(m) <= i /\ i < Offset(m) + size =>
              data[i - Offset(m) + 1] = call.data[call.done + (i - Offset(m)) + 1]
        <4>1. Offset(m) <= i /\ i < Offset(m) + size => i - Offset(m) + 1 \in 1 .. size
          BY <1>2
        <4>2. call.done + (i - Offset(m) + 1) = call.done + (i - Offset(m)) + 1
          BY <1>2
        <4> QED
          BY <1>1, <4>1, <4>2
      <3>3. Settled(k, hosts', i) <=> Settled(m, h, i)
        BY <1>5, <2>6 DEF Settled
      <3> QED
        BY <2>3, <3>1, <3>2, <3>3
    <2>8. \A n \in mappings \ {m} : \A i \in 0 .. n.size - 1 :
            Seen(n, hosts', i) = Seen(n, h, i) /\ (Settled(n, hosts', i) <=> Settled(n, h, i))
      BY <2>2
    <2>9. k \in mappings'
      BY <2>2
    <2> QED
      BY <2>2, <2>6, <2>7, <2>8, <2>9 DEF Stores
  <1> QED
    BY <1>4, <1>5

\* A store does not move a mapping in its host mapping.
LEMMA StoreUnshared ==
    ASSUME Unshared(mappings), NEW m \in mappings, NEW k, NEW h, NEW size, Stores(m, k, h, size)
    PROVE  Unshared(mappings')
  <1> DEFINE old(x) == IF x \in mappings \ {m} THEN x ELSE m
  <1>1. \A x \in mappings' : /\ old(x) \in mappings
                             /\ x.fileBytes = old(x).fileBytes
                             /\ x.fileDataOffset = old(x).fileDataOffset
                             /\ x.size = old(x).size
                             /\ x.lazyFileTransform = old(x).lazyFileTransform
    BY DEF Stores, SameButCells
  <1>2. \A x, y \in mappings' : x # y => old(x) # old(y)
    BY DEF Stores
  <1> HIDE DEF old
  <1> QED
    BY <1>1, <1>2 DEF Unshared, ApartInHost, HasFile

-----------------------------------------------------------------------------
(* What the map calls add.                                                 *)

\* A map call added the mappings of T, and touched neither the others nor their cells.
Adds(T) ==
    /\ mappings' = mappings \cup T
    /\ \A k \in T : k.permissions \subseteq k.maximumPermissions
    /\ \A k \in T : HasFile(k) => IsFree(k.fileBytes) /\ T = {k}
    /\ \A k \in T : k.lazyFileTransform => HasFile(k)
    /\ \A m \in mappings : HasFile(m) => hosts'[m.fileBytes] = hosts[m.fileBytes]
    /\ executableVersion' >= executableVersion
    /\ (\E k \in T : isExecutable(k.permissions)) => executableVersion' > executableVersion
    /\ Idle
    /\ Finish("success", << >>)

\* The version moves by one, or not at all.
LEMMA BumpGrows ==
    ASSUME IInv, NEW changed, BumpVersion(changed)
    PROVE  /\ executableVersion' >= executableVersion
           /\ changed => executableVersion' > executableVersion
  BY DEF BumpVersion, IInv

LEMMA InsertAdds ==
    ASSUME IInv, Idle, NEW m, NEW h, m.permissions \subseteq m.maximumPermissions,
           HasFile(m) => IsFree(m.fileBytes), m.lazyFileTransform => HasFile(m),
           \A k \in mappings : HasFile(k) => h[k.fileBytes] = hosts[k.fileBytes],
           insertMapping(m, h)
    PROVE  Adds({m})
  <1>1. /\ mappings' = mappings \cup {m} /\ hosts' = h /\ Finish("success", << >>)
        /\ BumpVersion(isExecutable(m.permissions))
    BY DEF insertMapping
  <1>2. /\ executableVersion' >= executableVersion
        /\ isExecutable(m.permissions) => executableVersion' > executableVersion
    BY <1>1, BumpGrows
  <1> QED
    BY <1>1, <1>2 DEF Adds

\* A host mapping no mapping uses may be filled: nobody sees it.
LEMMA OtherHosts ==
    ASSUME IInv, NEW b \in Backings, IsFree(b), NEW host, NEW h, h = [hosts EXCEPT ![b] = host]
    PROVE  \A k \in mappings : HasFile(k) => h[k.fileBytes] = hosts[k.fileBytes]
  <1> SUFFICES ASSUME NEW k \in mappings, HasFile(k)
               PROVE  h[k.fileBytes] = hosts[k.fileBytes]
    OBVIOUS
  <1>1. k.fileBytes \in Backings /\ k.fileBytes # b
    BY DEF IInv, GoodMappings, GoodMapping, MappingType, HasFile, IsFree
  <1>2. HostsType(hosts)
    BY DEF IInv
  <1> QED
    BY <1>1, <1>2 DEF HostsType

LEMMA MapAnonymousAdds ==
    ASSUME IInv, NEW base, NEW size, NEW p, NEW mx, mapAnonymous(base, size, p, mx)
    PROVE  (Idle /\ Rejected) \/ \E T : Adds(T)
  <1>1. CASE Rejected
    BY <1>1 DEF mapAnonymous
  <1>2. CASE /\ validateNewMapping(base, size, p, mx)
             /\ insertMapping(PlainMapping(base, size, p, mx, Empty), hosts)
    <2> DEFINE m == PlainMapping(base, size, p, mx, Empty)
    <2>1. m.permissions = p /\ m.maximumPermissions = mx /\ ~HasFile(m)
          /\ ~m.lazyFileTransform
      BY DEF PlainMapping, HasFile
    <2>2. p \subseteq mx /\ Idle
      BY <1>2 DEF validateNewMapping, hasPermission, mapAnonymous
    <2> HIDE DEF m
    <2>3. Adds({m})
      BY <1>2, <2>1, <2>2, InsertAdds DEF m
    <2> QED
      BY <2>3
  <1>3. CASE /\ validateNewMapping(base, size, p, mx)
             /\ \E b \in Backings : IsFree(b)
             /\ LET b == CHOOSE b \in Backings : IsFree(b)
                IN  insertMapping(FileMapping(base, size, p, mx, b, 0, FALSE),
                                  [hosts EXCEPT ![b] = [cells |-> [c \in 0 .. size - 1 |-> Zero],
                                                        transform |-> NoTransform]])
    <2> DEFINE b == CHOOSE b \in Backings : IsFree(b)
               m == FileMapping(base, size, p, mx, b, 0, FALSE)
               host == [cells |-> [c \in 0 .. size - 1 |-> Zero], transform |-> NoTransform]
               h == [hosts EXCEPT ![b] = host]
    <2>1. b \in Backings /\ IsFree(b)
      BY <1>3
    <2>2. insertMapping(m, h)
      BY <1>3
    <2> HIDE DEF b, host
    <2>h. h = [hosts EXCEPT ![b] = host]
      OBVIOUS
    <2> HIDE DEF h
    <2>3. m.permissions = p /\ m.maximumPermissions = mx /\ m.fileBytes = b
      BY DEF FileMapping, PlainMapping
    <2>f. HasFile(m)
      BY <2>1, <2>3, ContentAssumption DEF HasFile
    <2>4. p \subseteq mx /\ Idle
      BY <1>3 DEF validateNewMapping, hasPermission, mapAnonymous
    <2>5. \A k \in mappings : HasFile(k) => h[k.fileBytes] = hosts[k.fileBytes]
      BY <2>1, <2>h, OtherHosts
    <2> HIDE DEF m
    <2>6. Adds({m})
      BY <2>1, <2>2, <2>3, <2>f, <2>4, <2>5, InsertAdds
    <2> QED
      BY <2>6
  <1> QED
    BY <1>1, <1>2, <1>3 DEF mapAnonymous

LEMMA MapFileSegmentAdds ==
    ASSUME IInv, NEW base, NEW size, NEW p, NEW mx, NEW prefix, NEW lazyPage,
           mapFileSegment(base, size, p, mx, prefix, lazyPage)
    PROVE  (Idle /\ Rejected) \/ \E T : Adds(T)
  <1> DEFINE b == CHOOSE b \in Backings : IsFree(b)
             t == IF lazyPage = 0 THEN NoTransform
                  ELSE installLazyFilePageTransform(prefix, size, lazyPage)
             host == [cells |-> [c \in 0 .. prefix + size - 1 |-> FileByte], transform |-> t]
             m == FileMapping(base, size, p, mx, b, prefix, lazyPage # 0)
             h == [hosts EXCEPT ![b] = host]
  <1>1. CASE Rejected
    BY <1>1 DEF mapFileSegment
  <1>2. CASE ~Rejected
    <2>1. /\ validateNewMapping(base, size, p, mx) /\ Idle
          /\ \E x \in Backings : IsFree(x)
          /\ insertMapping(m, h)
      BY <1>2 DEF mapFileSegment
    <2>2. b \in Backings /\ IsFree(b)
      BY <2>1
    <2> HIDE DEF b, host
    <2>h. h = [hosts EXCEPT ![b] = host]
      OBVIOUS
    <2> HIDE DEF h
    <2>3. m.permissions = p /\ m.maximumPermissions = mx /\ m.fileBytes = b
      BY DEF FileMapping, PlainMapping
    <2>f. HasFile(m)
      BY <2>2, <2>3, ContentAssumption DEF HasFile
    <2>4. p \subseteq mx
      BY <2>1 DEF validateNewMapping, hasPermission
    <2>5. \A k \in mappings : HasFile(k) => h[k.fileBytes] = hosts[k.fileBytes]
      BY <2>2, <2>h, OtherHosts
    <2> HIDE DEF m
    <2>6. Adds({m})
      BY <2>1, <2>2, <2>3, <2>f, <2>4, <2>5, InsertAdds
    <2> QED
      BY <2>6
  <1> QED
    BY <1>1, <1>2

\* A segment of its own cells has the permissions it was asked for.
LEMMA SegmentFields ==
    ASSUME NEW base, NEW size, NEW p, NEW mx, NEW n
    PROVE  LET m == SegmentOf(base, size, p, mx, n)
           IN  /\ m.permissions = p /\ m.maximumPermissions = mx /\ ~HasFile(m)
               /\ ~m.lazyFileTransform
  BY DEF SegmentOf, PlainMapping, HasFile

LEMMA MapSegmentAdds ==
    ASSUME IInv, NEW base, NEW size, NEW p, NEW mx, NEW n, mapSegment(base, size, p, mx, n)
    PROVE  (Idle /\ Rejected) \/ \E T : Adds(T)
  <1>1. CASE Rejected
    BY <1>1 DEF mapSegment
  <1>2. CASE ~Rejected
    <2> DEFINE m == SegmentOf(base, size, p, mx, n)
    <2>1. Idle /\ p \subseteq mx /\ insertMapping(m, hosts)
      BY <1>2 DEF mapSegment, validateNewMapping, hasPermission
    <2>2. m.permissions = p /\ m.maximumPermissions = mx /\ ~HasFile(m)
          /\ ~m.lazyFileTransform
      BY SegmentFields
    <2> HIDE DEF m
    <2>3. Adds({m})
      BY <2>1, <2>2, InsertAdds
    <2> QED
      BY <2>3
  <1> QED
    BY <1>1, <1>2

LEMMA MapSegmentsAdds ==
    ASSUME IInv, NEW requests, mapSegments(requests)
    PROVE  (Idle /\ Rejected) \/ \E T : Adds(T)
  <1>1. CASE Rejected
    BY <1>1 DEF mapSegments
  <1>2. CASE ~Rejected
    <2> DEFINE new(r) == SegmentOf(r.base, r.size, r.permissions, r.maximumPermissions, r.fileSize)
               T == {new(r) : r \in requests}
               changed == \E r \in requests : isExecutable(r.permissions)
    <2>1. /\ Idle /\ mappings' = mappings \cup T /\ BumpVersion(changed)
          /\ Finish("success", << >>) /\ hosts' = hosts
          /\ \A r \in requests : r.permissions \subseteq r.maximumPermissions
      BY <1>2 DEF mapSegments, validateNewMapping, hasPermission
    <2>2. \A r \in requests : /\ new(r).permissions = r.permissions
                              /\ new(r).maximumPermissions = r.maximumPermissions
                              /\ ~HasFile(new(r)) /\ ~new(r).lazyFileTransform
      BY SegmentFields
    <2> HIDE DEF new
    <2>3. \A k \in T : /\ k.permissions \subseteq k.maximumPermissions /\ ~HasFile(k)
                       /\ ~k.lazyFileTransform
                       /\ isExecutable(k.permissions) => changed
      BY <2>1, <2>2
    <2> HIDE DEF T, changed
    <2>4. /\ executableVersion' >= executableVersion
          /\ changed => executableVersion' > executableVersion
      BY <2>1, BumpGrows
    <2>5. Adds(T)
      BY <2>1, <2>3, <2>4 DEF Adds
    <2> QED
      BY <2>5
  <1> QED
    BY <1>1, <1>2

LEMMA MapSparseAdds ==
    ASSUME IInv, NEW base, NEW size, NEW n, NEW populated,
           mapSparseReadOnly(base, size, n, populated)
    PROVE  (Idle /\ Rejected) \/ \E T : Adds(T)
  <1>1. CASE Rejected
    BY <1>1 DEF mapSparseReadOnly
  <1>2. CASE ~Rejected
    <2> DEFINE plain == PlainMapping(base, size, {"R"}, {"R"}, InitialBytes(size, n))
               fresh == [plain EXCEPT !.readableBytes = [i \in 0 .. size - 1 |-> i < n]]
               m == populateSparseReadOnly(fresh, populated)
    <2>1. /\ Idle /\ mappings' = mappings \cup {m} /\ Finish("success", << >>)
          /\ hosts' = hosts /\ executableVersion' = executableVersion
      BY <1>2 DEF mapSparseReadOnly
    <2>2. plain.permissions = {"R"} /\ plain.maximumPermissions = {"R"}
          /\ plain.fileBytes = NoBacking
      BY DEF PlainMapping
    <2>3. /\ m.permissions = {"R"} /\ m.maximumPermissions = {"R"} /\ m.fileBytes = NoBacking
          /\ ~m.lazyFileTransform
      BY DEF PlainMapping, populateSparseReadOnly
    <2> HIDE DEF m
    <2>4. ~HasFile(m) /\ ~isExecutable(m.permissions)
      BY <2>3 DEF HasFile, isExecutable, hasPermission
    <2>5. executableVersion' >= executableVersion
      BY <2>1 DEF IInv
    <2>6. Adds({m})
      BY <2>1, <2>3, <2>4, <2>5 DEF Adds
    <2> QED
      BY <2>6
  <1> QED
    BY <1>1, <1>2

\* Every map call is rejected without effect or adds mappings.
LEMMA MapEffect ==
    ASSUME IInv, MapNext
    PROVE  (Idle /\ Rejected) \/ \E T : Adds(T)
  <1>1. ASSUME NEW requests \in SegmentBatches, mapSegments(requests)
        PROVE  (Idle /\ Rejected) \/ \E T : Adds(T)
    BY <1>1, MapSegmentsAdds
  <1>2. ASSUME NEW base \in MapBases, NEW size \in MapSizes, NEW n \in AccessSizes,
               NEW i \in 0 .. PageSize - 1, mapSparseReadOnly(base, size, n, {i})
        PROVE  (Idle /\ Rejected) \/ \E T : Adds(T)
    BY <1>2, MapSparseAdds
  <1>3. ASSUME NEW base \in MapBases, NEW size \in MapSizes, NEW p \in Protections,
               NEW mx \in Maxima, mapAnonymous(base, size, p, mx)
        PROVE  (Idle /\ Rejected) \/ \E T : Adds(T)
    BY <1>3, MapAnonymousAdds
  <1>4. ASSUME NEW base \in MapBases, NEW size \in MapSizes, NEW p \in Protections,
               NEW mx \in Maxima, NEW n \in AccessSizes, mapSegment(base, size, p, mx, n)
        PROVE  (Idle /\ Rejected) \/ \E T : Adds(T)
    BY <1>4, MapSegmentAdds
  <1>5. ASSUME NEW base \in MapBases, NEW size \in MapSizes, NEW p \in Protections,
               NEW mx \in Maxima, NEW prefix \in Prefixes, NEW lazyPage \in LazyPages \cup {0},
               mapFileSegment(base, size, p, mx, prefix, lazyPage)
        PROVE  (Idle /\ Rejected) \/ \E T : Adds(T)
    BY <1>5, MapFileSegmentAdds
  <1> QED
    BY <1>1, <1>2, <1>3, <1>4, <1>5, Zenon DEF MapNext

\* New mappings use host mappings of their own.
LEMMA AddsUnshared ==
    ASSUME Unshared(mappings), NEW T, Adds(T)
    PROVE  Unshared(mappings')
  <1> SUFFICES ASSUME NEW m \in mappings', NEW n \in mappings', HasFile(m),
                      m.fileBytes = n.fileBytes, m # n
               PROVE  ApartInHost(m, n) /\ m.lazyFileTransform = n.lazyFileTransform
    BY DEF Unshared, Adds
  <1>1. HasFile(n)
    BY DEF HasFile
  <1>2. m \in mappings \cup T /\ n \in mappings \cup T
    BY DEF Adds
  <1>3. \A k \in T : HasFile(k) => T = {k} /\ \A x \in mappings : x.fileBytes # k.fileBytes
    BY DEF Adds, IsFree
  <1>4. m \in mappings /\ n \in mappings
    BY <1>1, <1>2, <1>3
  <1> QED
    BY <1>4 DEF Unshared

-----------------------------------------------------------------------------
(* What protect and deallocate leave.                                      *)

\* k is a part of m, with the cells m has there.
PieceOf(k, m) ==
    /\ m.base <= k.base /\ End(k) <= End(m)
    /\ k.fileBytes = m.fileBytes
    /\ k.fileDataOffset = m.fileDataOffset + (k.base - m.base)
    /\ k.lazyFileTransform = m.lazyFileTransform
    /\ k.bytes = SubVector(m.bytes, k.base - m.base, k.size)
    /\ k.readableBytes = SubVector(m.readableBytes, k.base - m.base, k.size)

\* A slice is a part of its mapping.
LEMMA SlicePiece ==
    ASSUME NEW m, NEW start \in Nat, NEW end \in Nat, NEW p, NEW mx,
           m.base <= start, start < end, end <= End(m)
    PROVE  LET k == slice(m, start, end, p, mx)
           IN  /\ PieceOf(k, m) /\ k.base = start /\ End(k) = end
               /\ k.permissions = p /\ k.maximumPermissions = mx
  <1> DEFINE k == slice(m, start, end, p, mx)
  <1>1. /\ k.base = start /\ k.size = end - start /\ k.permissions = p
        /\ k.maximumPermissions = mx /\ k.fileBytes = m.fileBytes
        /\ k.fileDataOffset = m.fileDataOffset + (start - m.base)
        /\ k.lazyFileTransform = m.lazyFileTransform
        /\ k.bytes = SubVector(m.bytes, start - m.base, end - start)
        /\ k.readableBytes = SubVector(m.readableBytes, start - m.base, end - start)
    BY DEF slice, SliceAt
  <1> HIDE DEF k
  <1>2. End(k) = end
    BY <1>1 DEF End
  <1> QED
    BY <1>1, <1>2 DEF PieceOf, k

\* The whole of a vector is the vector.
LEMMA WholeVector ==
    ASSUME NEW V, NEW n \in Nat, NEW f \in VectorOf(V, n)
    PROVE  SubVector(f, 0, n) = f
  <1>1. CASE f = Empty
    BY <1>1 DEF SubVector
  <1>2. CASE f # Empty
    <2>1. f \in [0 .. n - 1 -> V]
      BY <1>2 DEF VectorOf
    <2>2. \A i \in 0 .. n - 1 : 0 + i = i
      OBVIOUS
    <2>3. [i \in 0 .. n - 1 |-> f[0 + i]] = f
      BY <2>1, <2>2
    <2> QED
      BY <1>2, <2>3 DEF SubVector
  <1> QED
    BY <1>1, <1>2

\* A mapping is a part of itself.
LEMMA SelfPiece ==
    ASSUME NEW m, MappingType(m)
    PROVE  PieceOf(m, m)
  <1>1. m.base \in Nat /\ m.size \in Nat /\ m.fileDataOffset \in Nat
        /\ m.bytes \in VectorOf(Value, m.size) /\ m.readableBytes \in VectorOf(BOOLEAN, m.size)
    BY GeometryAssumption DEF MappingType, Address
  <1>2. SubVector(m.bytes, 0, m.size) = m.bytes
    BY <1>1, WholeVector
  <1>3. SubVector(m.readableBytes, 0, m.size) = m.readableBytes
    BY <1>1, WholeVector
  <1>4. m.base - m.base = 0 /\ m.fileDataOffset + 0 = m.fileDataOffset
        /\ End(m) <= End(m) /\ m.base <= m.base
    BY <1>1 DEF End
  <1> QED
    BY <1>2, <1>3, <1>4 DEF PieceOf

\* What protect makes of one mapping: parts inside the range with the new permissions, parts
\* outside it with the old ones, and no cell lost.
LEMMA ProtectPieceFacts ==
    ASSUME NEW m, NEW h, GoodMapping(m, h), NEW start \in Nat, NEW end \in Nat,
           start < end, Touches(m, start, end), NEW p, NEW copy
    PROVE  LET F == ProtectPieces(m, start, end, p, copy)
           IN  /\ \A k \in F :
                    /\ PieceOf(k, m)
                    /\ \/ /\ start <= k.base /\ End(k) <= end /\ k.permissions = p
                          /\ k.maximumPermissions = IF copy THEN p ELSE m.maximumPermissions
                       \/ /\ End(k) <= start \/ end <= k.base
                          /\ k.permissions = m.permissions
                          /\ k.maximumPermissions = m.maximumPermissions
               /\ \A a \in Nat : Holds(m, a) => \E k \in F : Holds(k, a)
  <1> DEFINE from == IF m.base > start THEN m.base ELSE start
             to == IF End(m) < end THEN End(m) ELSE end
             mx == IF copy THEN p ELSE m.maximumPermissions
             before == slice(m, m.base, start, m.permissions, m.maximumPermissions)
             inside == slice(m, from, to, p, mx)
             after == slice(m, to, End(m), m.permissions, m.maximumPermissions)
             F == ProtectPieces(m, start, end, p, copy)
  <1>1. m.base \in Nat /\ End(m) \in Nat /\ m.base < End(m)
    BY AlignedEnds
  <1>2. ~(End(m) <= start) /\ ~(m.base >= end)
    BY DEF Touches
  <1>3. /\ from \in Nat /\ to \in Nat
        /\ m.base <= from /\ from < to /\ to <= End(m) /\ start <= from /\ to <= end
        /\ (m.base < start => from = start) /\ (~(m.base < start) => from = m.base)
        /\ (to < End(m) => to = end)
    BY <1>1, <1>2
  <1>4. F = {inside} \cup {x \in {before} : m.base < start} \cup {x \in {after} : to < End(m)}
    BY DEF ProtectPieces
  <1> HIDE DEF from, to, mx
  <1>5. /\ PieceOf(inside, m) /\ inside.base = from /\ End(inside) = to
        /\ inside.permissions = p /\ inside.maximumPermissions = mx
    BY <1>1, <1>3, SlicePiece
  <1>6. ASSUME m.base < start
        PROVE  /\ PieceOf(before, m) /\ before.base = m.base /\ End(before) = start
               /\ before.permissions = m.permissions
               /\ before.maximumPermissions = m.maximumPermissions
    <2>1. start <= End(m) /\ m.base <= m.base
      BY <1>1, <1>2
    <2> QED
      BY <1>1, <1>6, <2>1, SlicePiece
  <1>7. ASSUME to < End(m)
        PROVE  /\ PieceOf(after, m) /\ after.base = to /\ End(after) = End(m)
               /\ after.permissions = m.permissions
               /\ after.maximumPermissions = m.maximumPermissions
    <2>1. m.base <= to /\ End(m) <= End(m)
      BY <1>1, <1>3
    <2> QED
      BY <1>1, <1>3, <1>7, <2>1, SlicePiece
  <1> HIDE DEF inside, before, after, F
  <1>8. /\ inside \in F /\ (m.base < start => before \in F) /\ (to < End(m) => after \in F)
        /\ \A k \in F : \/ k = inside
                        \/ k = before /\ m.base < start
                        \/ k = after /\ to < End(m)
    BY <1>4
  <1>9. \A k \in F :
          /\ PieceOf(k, m)
          /\ \/ /\ start <= k.base /\ End(k) <= end /\ k.permissions = p
                /\ k.maximumPermissions = mx
             \/ /\ End(k) <= start \/ end <= k.base
                /\ k.permissions = m.permissions
                /\ k.maximumPermissions = m.maximumPermissions
    BY <1>3, <1>5, <1>6, <1>7, <1>8
  <1>10. ASSUME NEW a \in Nat, Holds(m, a) PROVE \E k \in F : Holds(k, a)
    <2>1. m.base <= a /\ a < End(m)
      BY <1>10 DEF Holds
    <2>2. CASE a < from
      <3>1. m.base < start /\ a < start
        BY <1>3, <2>1, <2>2
      <3>2. Holds(before, a) /\ before \in F
        BY <1>6, <1>8, <2>1, <3>1 DEF Holds
      <3> QED
        BY <3>2
    <2>3. CASE from <= a /\ a < to
      <3>1. Holds(inside, a)
        BY <1>5, <2>3 DEF Holds
      <3> QED
        BY <1>8, <3>1
    <2>4. CASE to <= a
      <3>1. to < End(m)
        BY <1>1, <1>3, <2>1, <2>4
      <3>2. Holds(after, a) /\ after \in F
        BY <1>7, <1>8, <2>1, <2>4, <3>1 DEF Holds
      <3> QED
        BY <3>2
    <2> QED
      BY <1>3, <2>2, <2>3, <2>4
  <1> QED
    BY <1>9, <1>10 DEF F, mx

\* What deallocate leaves of one mapping: the parts outside the range, as they were.
LEMMA DeallocatePieceFacts ==
    ASSUME NEW m, NEW h, GoodMapping(m, h), NEW start \in Nat, NEW end \in Nat,
           start < end, Touches(m, start, end)
    PROVE  LET F == DeallocatePieces(m, start, end)
           IN  /\ \A k \in F :
                    /\ PieceOf(k, m)
                    /\ End(k) <= start \/ end <= k.base
                    /\ k.permissions = m.permissions
                    /\ k.maximumPermissions = m.maximumPermissions
               /\ \A a \in Nat : Holds(m, a) /\ ~(start <= a /\ a < end) =>
                    \E k \in F : Holds(k, a)
  <1> DEFINE before == slice(m, m.base, start, m.permissions, m.maximumPermissions)
             after == slice(m, end, End(m), m.permissions, m.maximumPermissions)
             F == DeallocatePieces(m, start, end)
  <1>1. m.base \in Nat /\ End(m) \in Nat /\ m.base < End(m)
    BY AlignedEnds
  <1>2. start < End(m) /\ m.base < end
    BY <1>1 DEF Touches
  <1>3. F = {x \in {before} : m.base < start} \cup {x \in {after} : end < End(m)}
    BY DEF DeallocatePieces
  <1>4. ASSUME m.base < start
        PROVE  /\ PieceOf(before, m) /\ before.base = m.base /\ End(before) = start
               /\ before.permissions = m.permissions
               /\ before.maximumPermissions = m.maximumPermissions
    <2>1. start <= End(m) /\ m.base <= m.base
      BY <1>1, <1>2
    <2> QED
      BY <1>1, <1>4, <2>1, SlicePiece
  <1>5. ASSUME end < End(m)
        PROVE  /\ PieceOf(after, m) /\ after.base = end /\ End(after) = End(m)
               /\ after.permissions = m.permissions
               /\ after.maximumPermissions = m.maximumPermissions
    <2>1. m.base <= end /\ End(m) <= End(m)
      BY <1>1, <1>2
    <2> QED
      BY <1>1, <1>5, <2>1, SlicePiece
  <1> HIDE DEF before, after, F
  <1>6. /\ (m.base < start => before \in F) /\ (end < End(m) => after \in F)
        /\ \A k \in F : (k = before /\ m.base < start) \/ (k = after /\ end < End(m))
    BY <1>3
  <1>7. \A k \in F : /\ PieceOf(k, m)
                     /\ End(k) <= start \/ end <= k.base
                     /\ k.permissions = m.permissions
                     /\ k.maximumPermissions = m.maximumPermissions
    BY <1>4, <1>5, <1>6
  <1>8. ASSUME NEW a \in Nat, Holds(m, a), ~(start <= a /\ a < end)
        PROVE  \E k \in F : Holds(k, a)
    <2>1. m.base <= a /\ a < End(m)
      BY <1>8 DEF Holds
    <2>2. CASE a < start
      <3>1. m.base < start
        BY <1>1, <2>1, <2>2
      <3>2. Holds(before, a) /\ before \in F
        BY <1>4, <1>6, <2>1, <2>2, <3>1 DEF Holds
      <3> QED
        BY <3>2
    <2>3. CASE end <= a
      <3>1. end < End(m)
        BY <1>1, <2>1, <2>3
      <3>2. Holds(after, a) /\ after \in F
        BY <1>5, <1>6, <2>1, <2>3, <3>1 DEF Holds
      <3> QED
        BY <3>2
    <2> QED
      BY <1>8, <2>2, <2>3
  <1> QED
    BY <1>7, <1>8 DEF F

\* The parts of split mappings keep apart in the host mapping, as the mappings did.
LEMMA PiecesUnshared ==
    ASSUME NEW S, NEW T, NEW g, NEW h, GoodMappings(S, g), GoodMappings(T, h), Unshared(S),
           \A k \in T : \E m \in S : PieceOf(k, m)
    PROVE  Unshared(T)
  <1>p. \A k \in T : k.lazyFileTransform => HasFile(k)
    BY DEF Unshared, PieceOf, HasFile
  <1> SUFFICES ASSUME NEW j \in T, NEW k \in T, HasFile(j), j.fileBytes = k.fileBytes, j # k
               PROVE  ApartInHost(j, k) /\ j.lazyFileTransform = k.lazyFileTransform
    BY <1>p DEF Unshared
  <1>1. PICK m \in S : PieceOf(j, m)
    OBVIOUS
  <1>2. PICK n \in S : PieceOf(k, n)
    OBVIOUS
  <1>3. \A x, f : GoodMapping(x, f) => x.base \in Nat /\ x.size \in Nat /\ x.fileDataOffset \in Nat
    BY GeometryAssumption DEF GoodMapping, MappingType, Address
  <1>4. /\ j.base \in Nat /\ j.size \in Nat /\ k.base \in Nat /\ k.size \in Nat
        /\ m.base \in Nat /\ m.size \in Nat /\ m.fileDataOffset \in Nat
        /\ n.base \in Nat /\ n.size \in Nat /\ n.fileDataOffset \in Nat
    BY <1>3 DEF GoodMappings
  <1>5. /\ m.base <= j.base /\ j.base + j.size <= m.base + m.size
        /\ j.fileDataOffset = m.fileDataOffset + (j.base - m.base)
        /\ n.base <= k.base /\ k.base + k.size <= n.base + n.size
        /\ k.fileDataOffset = n.fileDataOffset + (k.base - n.base)
        /\ j.lazyFileTransform = m.lazyFileTransform /\ j.fileBytes = m.fileBytes
        /\ k.lazyFileTransform = n.lazyFileTransform /\ k.fileBytes = n.fileBytes
    BY <1>1, <1>2 DEF PieceOf, End
  <1>6. CASE m = n
    <2>1. j.base + j.size <= k.base \/ k.base + k.size <= j.base
      BY DEF GoodMappings, Apart, End
    <2>2. ApartInHost(j, k)
      BY <1>4, <1>5, <1>6, <2>1 DEF ApartInHost
    <2> QED
      BY <1>5, <1>6, <2>2
  <1>7. CASE m # n
    <2>1. HasFile(m) /\ m.fileBytes = n.fileBytes
      BY <1>5 DEF HasFile
    <2>2. ApartInHost(m, n) /\ m.lazyFileTransform = n.lazyFileTransform
      BY <1>7, <2>1 DEF Unshared
    <2>3. ApartInHost(j, k)
      BY <1>4, <1>5, <2>2 DEF ApartInHost
    <2> QED
      BY <1>5, <2>2, <2>3
  <1> QED
    BY <1>6, <1>7

\* The pages from start to end, all of them mapped, got permissions p.
Protects(start, end, p, copy) ==
    /\ start \in Nat /\ end \in Nat /\ start % PageSize = 0 /\ end % PageSize = 0
    /\ start < end /\ end <= Limit
    /\ \A k \in mappings' : \E m \in mappings :
         /\ PieceOf(k, m)
         /\ \/ /\ start <= k.base /\ End(k) <= end /\ k.permissions = p
               /\ k.maximumPermissions = IF copy THEN p ELSE m.maximumPermissions
            \/ /\ End(k) <= start \/ end <= k.base
               /\ k.permissions = m.permissions
               /\ k.maximumPermissions = m.maximumPermissions
    /\ \A m \in mappings : \A a \in Nat : Holds(m, a) => \E k \in mappings' : Holds(k, a)
    /\ \A a \in start .. end - 1 : \E m \in mappings :
         Holds(m, a) /\ (copy \/ p \subseteq m.maximumPermissions)
    /\ hosts' = hosts
    /\ executableVersion' >= executableVersion
    /\ \/ isExecutable(p)
       \/ \E m \in mappings, a \in start .. end - 1 : Holds(m, a) /\ isExecutable(m.permissions)
       => executableVersion' > executableVersion
    /\ Idle
    /\ Finish("success", << >>)

\* The pages from start to end are gone and the others are as they were.
Deallocates(start, end) ==
    /\ start \in Nat /\ end \in Nat /\ start % PageSize = 0 /\ end % PageSize = 0
    /\ start < end /\ end <= Limit
    /\ \A k \in mappings' : \E m \in mappings :
         /\ PieceOf(k, m)
         /\ End(k) <= start \/ end <= k.base
         /\ k.permissions = m.permissions
         /\ k.maximumPermissions = m.maximumPermissions
    /\ \A m \in mappings : \A a \in Nat : Holds(m, a) /\ ~(start <= a /\ a < end) =>
         \E k \in mappings' : Holds(k, a)
    /\ \A k \in mappings' : HasFile(k) => hosts'[k.fileBytes] = hosts[k.fileBytes]
    /\ executableVersion' >= executableVersion
    /\ (\E m \in mappings, a \in start .. end - 1 : Holds(m, a) /\ isExecutable(m.permissions))
       => executableVersion' > executableVersion
    /\ Idle
    /\ Finish("success", << >>)

\* A range that does not overflow ends below the last address.
LEMMA ChangedEnd ==
    ASSUME NEW address \in Address, NEW size \in Address, ~RangeOverflows(address, size)
    PROVE  PageCeiling(address + size) <= Limit
  <1> DEFINE x == address + size + PageSize - 1
  <1>1. address \in Nat /\ size \in Nat /\ x \in Nat /\ x <= Limit
    BY GeometryAssumption DEF Address, RangeOverflows
  <1>2. PageCeiling(address + size) = PageFloor(x)
    BY DEF PageCeiling
  <1> HIDE DEF x
  <1>3. PageFloor(x) \in Nat /\ PageFloor(x) <= x
    BY <1>1, RoundingIsAligned
  <1> QED
    BY <1>1, <1>2, <1>3, GeometryAssumption

\* A mapping that holds a cell of the range is touched.
LEMMA HeldIsTouched ==
    ASSUME IInv, NEW m \in mappings, NEW start \in Nat, NEW end \in Nat,
           NEW a \in start .. end - 1, Holds(m, a)
    PROVE  Touches(m, start, end)
  BY MappingFacts DEF Holds, Touches

\* Why protect may leave the mappings as they are.
WhyUnchanged(address, size, p, copy, status) ==
    /\ status = "success" => size = 0
    /\ status = "invalidArgument" => RangeOverflows(address, size)
    /\ status \in {"invalidAddress", "protectionFailure"} =>
         Stops(PageFloor(address), PageCeiling(address + size), p, copy) # {}

LEMMA ProtectEffect ==
    ASSUME IInv, NEW address \in Address, NEW size \in Address, NEW p \in Permission,
           NEW copy \in BOOLEAN, protect(address, size, p, copy)
    PROVE  \/ Idle /\ \E status \in {"success", "invalidArgument", "invalidAddress",
                                     "protectionFailure"} :
                 Unchanged(status) /\ WhyUnchanged(address, size, p, copy, status)
           \/ /\ Protects(PageFloor(address), PageCeiling(address + size), p, copy)
              /\ ~RangeOverflows(address, size)
  <1> DEFINE start == PageFloor(address)
             end == PageCeiling(address + size)
             F == [m \in mappings |-> IF Touches(m, start, end)
                                      THEN ProtectPieces(m, start, end, p, copy) ELSE {m}]
             bumped == \/ isExecutable(p)
                       \/ \E m \in mappings : Touches(m, start, end) /\ isExecutable(m.permissions)
             same == Idle /\ \E status \in {"success", "invalidArgument", "invalidAddress",
                                            "protectionFailure"} :
                                 Unchanged(status) /\ WhyUnchanged(address, size, p, copy, status)
  <1>1. \/ same
        \/ /\ size # 0 /\ ~RangeOverflows(address, size) /\ Stops(start, end, p, copy) = {}
           /\ mappings' = UNION {IF Touches(m, start, end)
                                 THEN ProtectPieces(m, start, end, p, copy)
                                 ELSE {m} : m \in mappings}
           /\ BumpVersion(bumped) /\ Finish("success", << >>) /\ hosts' = hosts /\ Idle
    BY DEF protect, WhyUnchanged
  <1>2. ASSUME ~same PROVE Protects(start, end, p, copy) /\ ~RangeOverflows(address, size)
    <2>1. /\ size # 0 /\ ~RangeOverflows(address, size) /\ Stops(start, end, p, copy) = {}
          /\ mappings' = UNION {IF Touches(m, start, end)
                                THEN ProtectPieces(m, start, end, p, copy)
                                ELSE {m} : m \in mappings}
          /\ BumpVersion(bumped) /\ Finish("success", << >>) /\ hosts' = hosts /\ Idle
      BY <1>1, <1>2
    <2>2. /\ start \in Nat /\ end \in Nat /\ start % PageSize = 0 /\ end % PageSize = 0
          /\ start < end /\ end <= Limit
      BY <2>1, ChangedRange, ChangedEnd
    <2> HIDE DEF start, end, bumped, same
    <2>3. /\ \A k \in mappings' : \E m \in mappings : k \in F[m]
          /\ \A m \in mappings : \A k \in F[m] : k \in mappings'
      BY <2>1
    <2>4. ASSUME NEW m \in mappings
          PROVE  /\ \A k \in F[m] :
                      /\ PieceOf(k, m)
                      /\ \/ /\ start <= k.base /\ End(k) <= end /\ k.permissions = p
                            /\ k.maximumPermissions = IF copy THEN p ELSE m.maximumPermissions
                         \/ /\ End(k) <= start \/ end <= k.base
                            /\ k.permissions = m.permissions
                            /\ k.maximumPermissions = m.maximumPermissions
                 /\ \A a \in Nat : Holds(m, a) => \E k \in F[m] : Holds(k, a)
      <3>1. GoodMapping(m, hosts) /\ MappingType(m)
        BY DEF IInv, GoodMappings, GoodMapping
      <3>2. CASE Touches(m, start, end)
        <4>1. F[m] = ProtectPieces(m, start, end, p, copy)
          BY <3>2
        <4> HIDE DEF F
        <4> QED
          BY <2>2, <3>1, <3>2, <4>1, ProtectPieceFacts
      <3>3. CASE ~Touches(m, start, end)
        <4>1. F[m] = {m}
          BY <3>3
        <4>2. PieceOf(m, m)
          BY <3>1, SelfPiece
        <4>3. End(m) <= start \/ end <= m.base
          BY <2>2, <3>3, MappingFacts DEF Touches
        <4> HIDE DEF F
        <4> QED
          BY <4>1, <4>2, <4>3
      <3> QED
        BY <3>2, <3>3
    <2> HIDE DEF F
    <2>5. \A k \in mappings' : \E m \in mappings :
            /\ PieceOf(k, m)
            /\ \/ /\ start <= k.base /\ End(k) <= end /\ k.permissions = p
                  /\ k.maximumPermissions = IF copy THEN p ELSE m.maximumPermissions
               \/ /\ End(k) <= start \/ end <= k.base
                  /\ k.permissions = m.permissions
                  /\ k.maximumPermissions = m.maximumPermissions
      BY <2>3, <2>4
    <2>6. \A m \in mappings : \A a \in Nat : Holds(m, a) => \E k \in mappings' : Holds(k, a)
      BY <2>3, <2>4
    <2>7. ASSUME NEW a \in start .. end - 1
          PROVE  \E m \in mappings : Holds(m, a) /\ (copy \/ p \subseteq m.maximumPermissions)
      <3>1. mappingContaining(a) # {}
        BY <2>1 DEF Stops, Holes
      <3>2. PICK m \in mappings : m \in mappingContaining(a)
        BY <3>1 DEF mappingContaining
      <3>3. rangeContains(m.base, m.size, a, 1)
        BY <3>2 DEF mappingContaining
      <3>4. Holds(m, a)
        BY <2>2, <3>3, MappingFacts DEF Holds, rangeContains
      <3>5. copy \/ p \subseteq m.maximumPermissions
        BY <2>1, <3>2 DEF Stops, Denials, hasPermission
      <3> QED
        BY <3>4, <3>5
    <2>8. /\ executableVersion' >= executableVersion
          /\ bumped => executableVersion' > executableVersion
      BY <2>1, BumpGrows
    <2>9. \/ isExecutable(p)
          \/ \E m \in mappings, a \in start .. end - 1 : Holds(m, a) /\ isExecutable(m.permissions)
          => bumped
      BY <2>2, HeldIsTouched DEF bumped
    <2> QED
      BY <2>1, <2>2, <2>5, <2>6, <2>7, <2>8, <2>9 DEF Protects
  <1> QED
    BY <1>2

LEMMA DeallocateEffect ==
    ASSUME IInv, NEW address \in Address, NEW size \in Address, deallocate(address, size)
    PROVE  \/ Idle /\ \E status \in {"success", "invalidArgument"} : Unchanged(status)
           \/ \E start, end : Deallocates(start, end)
  <1> DEFINE start == PageFloor(address)
             end == PageCeiling(address + size)
             F == [m \in mappings |-> IF Touches(m, start, end)
                                      THEN DeallocatePieces(m, start, end) ELSE {m}]
             bumped == \E m \in mappings : Touches(m, start, end) /\ isExecutable(m.permissions)
             same == Idle /\ \E status \in {"success", "invalidArgument"} : Unchanged(status)
  <1>1. \/ same
        \/ /\ size # 0 /\ ~RangeOverflows(address, size)
           /\ mappings' = UNION {IF Touches(m, start, end)
                                 THEN DeallocatePieces(m, start, end)
                                 ELSE {m} : m \in mappings}
           /\ hosts' = Owned(mappings', hosts)
           /\ BumpVersion(bumped) /\ Finish("success", << >>) /\ Idle
    BY DEF deallocate
  <1>2. ASSUME ~same PROVE Deallocates(start, end)
    <2>1. /\ size # 0 /\ ~RangeOverflows(address, size)
          /\ mappings' = UNION {IF Touches(m, start, end)
                                THEN DeallocatePieces(m, start, end)
                                ELSE {m} : m \in mappings}
          /\ hosts' = Owned(mappings', hosts)
          /\ BumpVersion(bumped) /\ Finish("success", << >>) /\ Idle
      BY <1>1, <1>2
    <2>2. /\ start \in Nat /\ end \in Nat /\ start % PageSize = 0 /\ end % PageSize = 0
          /\ start < end /\ end <= Limit
      BY <2>1, ChangedRange, ChangedEnd
    <2> HIDE DEF start, end, bumped, same
    <2>3. /\ \A k \in mappings' : \E m \in mappings : k \in F[m]
          /\ \A m \in mappings : \A k \in F[m] : k \in mappings'
      BY <2>1
    <2>4. ASSUME NEW m \in mappings
          PROVE  /\ \A k \in F[m] :
                      /\ PieceOf(k, m)
                      /\ End(k) <= start \/ end <= k.base
                      /\ k.permissions = m.permissions
                      /\ k.maximumPermissions = m.maximumPermissions
                 /\ \A a \in Nat : Holds(m, a) /\ ~(start <= a /\ a < end) =>
                      \E k \in F[m] : Holds(k, a)
      <3>1. GoodMapping(m, hosts) /\ MappingType(m)
        BY DEF IInv, GoodMappings, GoodMapping
      <3>2. CASE Touches(m, start, end)
        <4>1. F[m] = DeallocatePieces(m, start, end)
          BY <3>2
        <4> HIDE DEF F
        <4> QED
          BY <2>2, <3>1, <3>2, <4>1, DeallocatePieceFacts
      <3>3. CASE ~Touches(m, start, end)
        <4>1. F[m] = {m}
          BY <3>3
        <4>2. PieceOf(m, m)
          BY <3>1, SelfPiece
        <4>3. End(m) <= start \/ end <= m.base
          BY <2>2, <3>3, MappingFacts DEF Touches
        <4> HIDE DEF F
        <4> QED
          BY <4>1, <4>2, <4>3
      <3> QED
        BY <3>2, <3>3
    <2> HIDE DEF F
    <2>5. \A k \in mappings' : \E m \in mappings :
            /\ PieceOf(k, m)
            /\ End(k) <= start \/ end <= k.base
            /\ k.permissions = m.permissions
            /\ k.maximumPermissions = m.maximumPermissions
      BY <2>3, <2>4
    <2>6. \A m \in mappings : \A a \in Nat : Holds(m, a) /\ ~(start <= a /\ a < end) =>
            \E k \in mappings' : Holds(k, a)
      BY <2>3, <2>4
    <2>7. ASSUME NEW k \in mappings', HasFile(k)
          PROVE  hosts'[k.fileBytes] = hosts[k.fileBytes]
      <3>1. PICK m \in mappings : k.fileBytes = m.fileBytes
        BY <2>5 DEF PieceOf
      <3>2. k.fileBytes \in Backings
        BY <2>7, <3>1 DEF HasFile, IInv, GoodMappings, GoodMapping, MappingType
      <3> QED
        BY <2>1, <3>2 DEF Owned
    <2>8. /\ executableVersion' >= executableVersion
          /\ bumped => executableVersion' > executableVersion
      BY <2>1, BumpGrows
    <2>9. (\E m \in mappings, a \in start .. end - 1 : Holds(m, a) /\ isExecutable(m.permissions))
          => bumped
      BY <2>2, HeldIsTouched DEF bumped
    <2> QED
      BY <2>1, <2>2, <2>5, <2>6, <2>7, <2>8, <2>9 DEF Deallocates
  <1> QED
    BY <1>2

\* Every call that changes mappings fails without effect or acts on whole pages.
LEMMA ChangeEffect ==
    ASSUME IInv, ChangeNext
    PROVE  \/ Idle /\ \E status \in {"success", "invalidArgument", "invalidAddress",
                                     "protectionFailure"} : Unchanged(status)
           \/ \E start, end, p : \E copy \in BOOLEAN : Protects(start, end, p, copy)
           \/ \E start, end : Deallocates(start, end)
  <1>1. ASSUME NEW address \in Address, NEW size \in ChangeSizes, deallocate(address, size)
        PROVE  \/ Idle /\ \E status \in {"success", "invalidArgument"} : Unchanged(status)
               \/ \E start, end : Deallocates(start, end)
    <2>1. size \in Address
      BY InputAssumption
    <2> QED
      BY <1>1, <2>1, DeallocateEffect
  <1>2. ASSUME NEW address \in Address, NEW size \in ChangeSizes, NEW p \in Protections,
               NEW copy \in Copies, protect(address, size, p, copy)
        PROVE  \/ Idle /\ \E status \in {"success", "invalidArgument", "invalidAddress",
                                         "protectionFailure"} : Unchanged(status)
               \/ \E start, end : Protects(start, end, p, copy)
    <2>1. size \in Address /\ p \in Permission /\ copy \in BOOLEAN
      BY InputAssumption
    <2> QED
      BY <1>2, <2>1, ProtectEffect
  <1>3. PICK address \in Address, size \in ChangeSizes :
          \/ deallocate(address, size)
          \/ \E p \in Protections, copy \in Copies : protect(address, size, p, copy)
    BY DEF ChangeNext
  <1>4. CASE deallocate(address, size)
    BY <1>1, <1>4
  <1>5. CASE \E p \in Protections, copy \in Copies : protect(address, size, p, copy)
    <2>1. PICK p \in Protections, copy \in Copies : protect(address, size, p, copy)
      BY <1>5
    <2>2. copy \in BOOLEAN
      BY InputAssumption
    <2> QED
      BY <1>2, <2>1, <2>2
  <1> QED
    BY <1>3, <1>4, <1>5

-----------------------------------------------------------------------------
(* Accesses.                                                               *)

ChunkEnd(m) == Cursor + Chunk(m)

\* The chunk find() resolved the cursor to: its cells lie in the mapping, which allows them.
LEMMA FoundChunk ==
    ASSUME IInv, Active, NEW m \in mappings, Found(m)
    PROVE  /\ hasPermission(m.permissions, call.required)
           /\ call.address \in Nat /\ Cursor = call.address + call.done
           /\ m.base \in Nat /\ m.size \in Nat /\ Cursor = m.base + Offset(m)
           /\ \A a \in Cursor .. ChunkEnd(m) - 1 :
                Holds(m, a) /\ a - m.base = Offset(m) + (a - Cursor) /\ a - m.base \in 0 .. m.size - 1
           /\ Holds(m, Cursor)
           /\ Cursor \in Nat /\ Chunk(m) \in Nat /\ ChunkEnd(m) \in Nat
           /\ ChunkEnd(m) = Cursor + Chunk(m)
  <1>1. /\ Cursor \in Nat /\ Offset(m) \in Nat /\ Chunk(m) \in Nat \ {0}
        /\ Offset(m) + Chunk(m) <= m.size
    BY FoundFacts
  <1>2. call.address \in Nat /\ Cursor = call.address + call.done
    BY GeometryAssumption DEF IInv, CallType, Address, Cursor
  <1>3. m.base \in Nat /\ m.size \in Nat /\ End(m) = m.base + m.size
    BY MappingFacts
  <1>4. Offset(m) = Cursor - m.base
    BY DEF Offset
  <1>5. hasPermission(m.permissions, call.required)
    BY DEF Found, find
  <1> QED
    BY <1>1, <1>2, <1>3, <1>4, <1>5 DEF Holds, ChunkEnd

\* A lazy transform covers the mapping, so materialize does not throw.
LEMMA NeverThrows ==
    ASSUME IInv, Unshared(mappings), NEW m \in mappings, NEW offset \in Nat, NEW size \in Nat,
           offset + size <= m.size
    PROVE  ~materializeThrows(m, offset, size)
  <1> SUFFICES ASSUME m.lazyFileTransform
               PROVE  LET t == hosts[m.fileBytes].transform
                          first == m.fileDataOffset + offset
                      IN  first >= t.dataOffset /\ first + size <= t.dataOffset + t.size
    BY DEF materializeThrows
  <1>1. HasFile(m)
    BY DEF Unshared
  <1>2. InBounds(m, hosts[m.fileBytes]) /\ m.fileDataOffset \in Nat /\ m.size \in Nat
    BY <1>1, GeometryAssumption DEF IInv, GoodMappings, GoodMapping, MappingType, Address
  <1>3. m.fileBytes \in Backings
    BY <1>1 DEF IInv, GoodMappings, GoodMapping, MappingType, HasFile
  <1>4. /\ hosts[m.fileBytes].transform.dataOffset \in Nat
        /\ hosts[m.fileBytes].transform.size \in Nat
    BY <1>3, NatTransformsType DEF IInv, NatTransforms
  <1> QED
    BY <1>2, <1>4 DEF InBounds

\* What a call in progress has checked of a cell.
LEMMA CheckedFacts ==
    ASSUME IInv, AInv, Active, NEW a \in call.address .. CheckedTo(call) - 1
    PROVE  \E n \in mappings : /\ Checked(call, n, hosts, a)
                               /\ a - n.base \in 0 .. n.size - 1
  <1>1. PICK n \in mappings : Checked(call, n, hosts, a)
    BY DEF AInv, RangeChecked
  <1>2. n.base <= a /\ a < End(n)
    BY <1>1 DEF Checked, Holds
  <1>3. call.address \in Nat
    BY GeometryAssumption DEF IInv, CallType, Address
  <1>4. a - n.base \in 0 .. n.size - 1
    BY <1>2, <1>3, MappingFacts
  <1> QED
    BY <1>1, <1>4

\* What a read holds after the chunk of m: the contents of every cell up to there.
HoldsRead(m, h, read) ==
    /\ Len(read) = call.done + Chunk(m)
    /\ \A a \in call.address .. ChunkEnd(m) - 1 : \E n \in mappings :
         /\ Holds(n, a) /\ a - n.base \in 0 .. n.size - 1
         /\ hasPermission(n.permissions, call.required)
         /\ HasBacking(n) /\ ReadableAt(n, a - n.base)
         /\ read[a - call.address + 1] = Seen(n, h, a - n.base)

\* One more chunk is read as the cells show it.
LEMMA ReadCells ==
    ASSUME IInv, AInv, call.op = "read", NEW m \in mappings, Found(m),
           ~UnreadableSparse(m), HasBacking(m),
           NEW h, h = materializeFileBytes(m, Offset(m), Chunk(m)),
           NEW read, read = call.data \o Cells(m, h, Offset(m), Chunk(m))
    PROVE  HoldsRead(m, h, read)
  <1> DEFINE cells == Cells(m, h, Offset(m), Chunk(m))
  <1>1. Active /\ Unshared(mappings)
    BY DEF Active, AInv
  <1>2. /\ Cursor \in Nat /\ Offset(m) \in Nat /\ Chunk(m) \in Nat \ {0}
        /\ Offset(m) + Chunk(m) <= m.size /\ call.done \in Nat /\ call.data \in Seq(Value)
    BY <1>1, FoundFacts
  <1>3. /\ hasPermission(m.permissions, call.required)
        /\ call.address \in Nat /\ Cursor = call.address + call.done
        /\ m.base \in Nat /\ m.size \in Nat
        /\ \A a \in Cursor .. ChunkEnd(m) - 1 :
             Holds(m, a) /\ a - m.base = Offset(m) + (a - Cursor) /\ a - m.base \in 0 .. m.size - 1
        /\ ChunkEnd(m) \in Nat /\ ChunkEnd(m) = Cursor + Chunk(m)
    BY <1>1, FoundChunk
  <1>4. Len(call.data) = call.done /\ call.phase = "first"
    BY DEF AInv, CallShape
  <1>5. GoodMappings(mappings, h) /\ HostsType(h)
    BY <1>2, MaterializeKeeps
  <1>6. cells \in Seq(Value)
    BY <1>2, <1>5, CellsType DEF GoodMappings
  <1>7. Len(cells) = Chunk(m)
    <2>1. cells = [i \in 1 .. Chunk(m) |-> Stored(m, h, Offset(m) + i - 1)]
      BY DEF Cells
    <2>2. DOMAIN cells = 1 .. Chunk(m)
      BY <2>1
    <2>3. Len(cells) \in Nat /\ DOMAIN cells = 1 .. Len(cells)
      BY <1>6
    <2> HIDE DEF cells
    <2> QED
      BY <1>2, <2>2, <2>3
  <1>8. \A i \in 1 .. Chunk(m) : cells[i] = Stored(m, h, Offset(m) + i - 1)
    BY DEF Cells
  <1> HIDE DEF cells
  <1>9. read = call.data \o cells
    BY DEF cells
  <1>10. Len(read) = call.done + Chunk(m)
    <2>1. Len(call.data \o cells) = Len(call.data) + Len(cells)
      BY <1>2, <1>6
    <2> QED
      BY <1>4, <1>7, <1>9, <2>1
  <1>a. call.address \in Nat /\ call.done \in Nat /\ Cursor = call.address + call.done
    BY <1>2, <1>3
  <1>11. ASSUME NEW a \in call.address .. Cursor - 1
         PROVE  \E n \in mappings :
                  /\ Holds(n, a) /\ a - n.base \in 0 .. n.size - 1
                  /\ hasPermission(n.permissions, call.required)
                  /\ HasBacking(n) /\ ReadableAt(n, a - n.base)
                  /\ read[a - call.address + 1] = Seen(n, h, a - n.base)
    <2>1. CheckedTo(call) = Cursor
      BY <1>3, <1>4 DEF CheckedTo
    <2>2. PICK n \in mappings : Checked(call, n, hosts, a) /\ a - n.base \in 0 .. n.size - 1
      BY <1>1, <2>1, CheckedFacts
    <2>3. /\ Holds(n, a) /\ hasPermission(n.permissions, call.required)
          /\ HasBacking(n) /\ ReadableAt(n, a - n.base)
          /\ call.data[a - call.address + 1] = Seen(n, hosts, a - n.base)
      BY <2>2 DEF Checked
    <2>4. Seen(n, h, a - n.base) = Seen(n, hosts, a - n.base)
      BY <1>1, <1>2, <2>2, MaterializeSeen
    <2>5. a - call.address + 1 \in 1 .. Len(call.data)
      <3>1. a - call.address + 1 \in 1 .. call.done
        BY <1>a
      <3> QED
        BY <1>4, <3>1
    <2>6. read[a - call.address + 1] = call.data[a - call.address + 1]
      BY <1>2, <1>6, <1>9, <2>5
    <2> QED
      BY <2>2, <2>3, <2>4, <2>6
  <1>12. ASSUME NEW a \in Cursor .. ChunkEnd(m) - 1
         PROVE  /\ Holds(m, a) /\ a - m.base \in 0 .. m.size - 1
                /\ hasPermission(m.permissions, call.required)
                /\ HasBacking(m) /\ ReadableAt(m, a - m.base)
                /\ read[a - call.address + 1] = Seen(m, h, a - m.base)
    <2> DEFINE i == a - m.base
               j == a - Cursor + 1
    <2>1. Holds(m, a) /\ i = Offset(m) + (a - Cursor) /\ i \in 0 .. m.size - 1
      BY <1>3
    <2>2. /\ Offset(m) <= i /\ i < Offset(m) + Chunk(m) /\ j \in 1 .. Chunk(m)
          /\ Offset(m) + j - 1 = i /\ a - call.address + 1 = call.done + j
      <3>1. a \in Int /\ Cursor <= a /\ a <= Cursor + Chunk(m) - 1
        BY <1>2, <1>3
      <3>2. j \in 1 .. Chunk(m)
        BY <1>2, <3>1
      <3>3. Offset(m) <= i /\ i < Offset(m) + Chunk(m) /\ Offset(m) + j - 1 = i
        <4> HIDE DEF i
        <4> QED
          BY <1>2, <2>1, <3>1
      <3>4. a - call.address + 1 = call.done + j
        BY <1>a, <3>1
      <3> QED
        BY <3>2, <3>3, <3>4
    <2>3. Settled(m, h, i)
      BY <1>1, <1>2, <2>1, <2>2, MaterializeSeen
    <2>4. ReadableAt(m, i)
      <3>1. i \in Offset(m) .. Offset(m) + Chunk(m) - 1
        BY <1>2, <2>1, <2>2
      <3> HIDE DEF i
      <3> QED
        BY <3>1 DEF UnreadableSparse, ReadableAt
    <2>5. read[a - call.address + 1] = cells[j]
      <3>1. Len(call.data) + j \in Len(call.data) + 1 .. Len(call.data) + Len(cells)
        BY <1>2, <1>4, <1>7, <2>2
      <3> HIDE DEF j
      <3>2. read[Len(call.data) + j] = cells[j]
        BY <1>2, <1>6, <1>7, <1>9, <2>2
      <3> QED
        BY <1>4, <2>2, <3>2
    <2>6. cells[j] = Stored(m, h, i)
      BY <1>8, <2>2
    <2> HIDE DEF i, j
    <2>7. read[a - call.address + 1] = Seen(m, h, i)
      BY <2>3, <2>5, <2>6 DEF Seen
    <2> QED
      BY <1>3, <2>1, <2>4, <2>7 DEF i
  <1>13. ASSUME NEW a \in call.address .. ChunkEnd(m) - 1
         PROVE  a \in call.address .. Cursor - 1 \/ a \in Cursor .. ChunkEnd(m) - 1
    BY <1>2, <1>3
  <1> QED
    BY <1>10, <1>11, <1>12, <1>13 DEF HoldsRead

-----------------------------------------------------------------------------
(* AInv is kept.                                                           *)

\* Between calls there is nothing to remember.
LEMMA EndedKeeps ==
    ASSUME Unshared(mappings'), call' = NoCall \/ call' = [NoCall EXCEPT !.op = "crashed"]
    PROVE  AInv'
  <1>1. call'.op \in {"none", "crashed"} /\ (call'.op = "none" => call' = NoCall)
    BY DEF NoCall
  <1> QED
    BY <1>1 DEF AInv, CallShape, Active

\* A call that has not gone past any cell.
LEMMA FreshKeeps ==
    ASSUME Unshared(mappings'), CallShape(call'), call'.address \in Nat, call'.done = 0,
           call'.phase # "copy"
    PROVE  AInv'
  <1>1. CheckedTo(call') = call'.address
    BY DEF CheckedTo
  <1>2. \A a \in call'.address .. call'.address - 1 : FALSE
    OBVIOUS
  <1>3. RangeChecked(call', mappings', hosts')
    BY <1>1, <1>2 DEF RangeChecked
  <1> QED
    BY <1>3 DEF AInv

\* A call that fails or returns leaves the mappings alone.
LEMMA UnchangedAInv ==
    ASSUME AInv, NEW status, Unchanged(status)
    PROVE  AInv'
  BY EndedKeeps DEF AInv, Unchanged, Finish

LEMMA ReadAInv ==
    ASSUME IInv, AInv, readInto
    PROVE  AInv'
  <1>1. CASE Fault
    BY <1>1, UnchangedAInv DEF Fault
  <1>2. ASSUME NEW m \in mappings, Found(m),
               \/ Finish("fault", << >>) /\ mappings' = mappings
               \/ Crash(m)
               \/ MaterializeFault(m, Chunk(m))
        PROVE  AInv'
    BY <1>2, EndedKeeps DEF AInv, Finish, Crash, MaterializeFault
  <1>3. ASSUME NEW m \in mappings, Found(m), ~UnreadableSparse(m), HasBacking(m),
               hosts' = materializeFileBytes(m, Offset(m), Chunk(m)), mappings' = mappings,
               LET read == call.data \o Cells(m, hosts', Offset(m), Chunk(m))
               IN  \/ Chunk(m) = Remaining /\ Finish("success", read)
                   \/ /\ Chunk(m) < Remaining
                      /\ call' = [call EXCEPT !.done = @ + Chunk(m), !.data = read]
                      /\ UNCHANGED result
        PROVE  AInv'
    <2> DEFINE read == call.data \o Cells(m, hosts', Offset(m), Chunk(m))
    <2>1. CASE Finish("success", read)
      BY <1>3, <2>1, EndedKeeps DEF AInv, Finish
    <2>2. CASE call' = [call EXCEPT !.done = @ + Chunk(m), !.data = read]
      <3>1. call.op = "read" /\ Active /\ CallType
        BY DEF readInto, Active, IInv
      <3>2. HoldsRead(m, hosts', read)
        <4>1. read = call.data \o Cells(m, hosts', Offset(m), Chunk(m))
          OBVIOUS
        <4>2. /\ Found(m) /\ ~UnreadableSparse(m) /\ HasBacking(m) /\ call.op = "read"
              /\ hosts' = materializeFileBytes(m, Offset(m), Chunk(m))
          BY <1>3, <3>1
        <4> HIDE DEF read
        <4> QED
          BY <4>1, <4>2, ReadCells
      <3> HIDE DEF read
      <3>3. /\ call'.op = "read" /\ call'.address = call.address /\ call'.size = call.size
            /\ call'.required = call.required /\ call'.data = read /\ call'.phase = call.phase
            /\ call'.done = call.done + Chunk(m) /\ call'.exec = call.exec
        BY <2>2, <3>1 DEF CallType
      <3>4. CallShape(call')
        BY <3>1, <3>2, <3>3 DEF AInv, CallShape, HoldsRead
      <3>5. CheckedTo(call') = ChunkEnd(m)
        <4>1. call.phase # "copy"
          BY <3>1 DEF AInv, CallShape
        <4>2. /\ call.address \in Nat /\ Cursor = call.address + call.done
              /\ call.done \in Nat /\ Chunk(m) \in Nat /\ ChunkEnd(m) = Cursor + Chunk(m)
          BY <1>3, <3>1, FoundFacts, FoundChunk
        <4> QED
          BY <3>3, <4>1, <4>2 DEF CheckedTo
      <3>6. RangeChecked(call', mappings', hosts')
        <4>1. ASSUME NEW a \in call.address .. ChunkEnd(m) - 1
              PROVE  \E n \in mappings : Checked(call', n, hosts', a)
          BY <3>2, <3>3 DEF Checked, HoldsRead
        <4>2. call'.address .. CheckedTo(call') - 1 = call.address .. ChunkEnd(m) - 1
          BY <3>3, <3>5
        <4>3. \A a \in call'.address .. CheckedTo(call') - 1 :
                \E n \in mappings' : Checked(call', n, hosts', a)
          BY <1>3, <4>1, <4>2
        <4> QED
          BY <4>3, Zenon DEF RangeChecked
      <3> QED
        BY <1>3, <3>4, <3>6 DEF AInv
    <2> QED
      BY <1>3, <2>1, <2>2
  <1> QED
    BY <1>1, <1>2, <1>3 DEF readInto

LEMMA ValidateAInv ==
    ASSUME IInv, AInv, validateAccess
    PROVE  AInv'
  <1>1. CASE Fault
    BY <1>1, UnchangedAInv DEF Fault
  <1>2. ASSUME NEW m \in mappings, Found(m), mappings' = mappings, hosts' = hosts,
               \/ Finish("success", << >>)
               \/ call' = [call EXCEPT !.done = @ + Chunk(m)]
        PROVE  AInv'
    <2>1. CASE Finish("success", << >>)
      BY <1>2, <2>1, EndedKeeps DEF AInv, Finish
    <2>2. CASE call' = [call EXCEPT !.done = @ + Chunk(m)]
      <3>1. call.op = "validate" /\ Active /\ CallType
        BY DEF validateAccess, Active, IInv
      <3>2. /\ call'.op = "validate" /\ call'.address = call.address
            /\ call'.required = call.required /\ call'.phase = call.phase
            /\ call'.done = call.done + Chunk(m)
        BY <2>2, <3>1 DEF CallType
      <3>3. CallShape(call') /\ call.phase # "copy"
        BY <3>1, <3>2 DEF AInv, CallShape
      <3>4. /\ call.address \in Nat /\ Cursor = call.address + call.done
            /\ call.done \in Nat /\ Chunk(m) \in Nat /\ ChunkEnd(m) = Cursor + Chunk(m)
        BY <1>2, <3>1, FoundFacts, FoundChunk
      <3>5. CheckedTo(call') = ChunkEnd(m) /\ CheckedTo(call) = Cursor
        BY <3>2, <3>3, <3>4 DEF CheckedTo
      <3>6. ASSUME NEW a \in call.address .. ChunkEnd(m) - 1
            PROVE  \E n \in mappings : Checked(call', n, hosts', a)
        <4>1. CASE a < Cursor
          <5>1. a \in call.address .. CheckedTo(call) - 1
            BY <3>4, <3>5, <4>1
          <5>2. PICK n \in mappings : Checked(call, n, hosts, a)
            BY <3>1, <5>1, CheckedFacts
          <5> QED
            BY <3>1, <3>2, <5>2 DEF Checked
        <4>2. CASE ~(a < Cursor)
          <5>1. a \in Cursor .. ChunkEnd(m) - 1
            BY <3>4, <4>2
          <5>2. Holds(m, a) /\ hasPermission(m.permissions, call.required)
            BY <1>2, <3>1, <5>1, FoundChunk
          <5> QED
            BY <3>2, <5>2 DEF Checked
        <4> QED
          BY <4>1, <4>2
      <3>7. RangeChecked(call', mappings', hosts')
        <4>1. call'.address .. CheckedTo(call') - 1 = call.address .. ChunkEnd(m) - 1
          BY <3>2, <3>5
        <4>2. \A a \in call'.address .. CheckedTo(call') - 1 :
                \E n \in mappings' : Checked(call', n, hosts', a)
          BY <1>2, <3>6, <4>1
        <4> QED
          BY <4>2, Zenon DEF RangeChecked
      <3> QED
        BY <1>2, <3>3, <3>7 DEF AInv
    <2> QED
      BY <1>2, <2>1, <2>2
  <1> QED
    BY <1>1, <1>2 DEF validateAccess

\* What StoreChunk needs, in any of the writes.
LEMMA WriteStores ==
    ASSUME IInv, AInv, Active, NEW m \in mappings, Found(m), HasBacking(m),
           NEW h, GoodMappings(mappings, h), HostsType(h), NEW size \in Nat, size <= Chunk(m),
           Len(call.data) = call.size, StoreChunk(m, h, size)
    PROVE  \E k \in mappings' : Stores(m, k, h, size) /\ Unshared(mappings')
  <1>1. /\ Offset(m) \in Nat /\ Chunk(m) \in Nat /\ Remaining \in Nat
        /\ Offset(m) + Chunk(m) <= m.size /\ Chunk(m) <= Remaining
        /\ call.done \in Nat /\ call.data \in Seq(Value) /\ call.done + Remaining = call.size
    BY FoundFacts
  <1>2. m.size \in Nat
    BY MappingFacts
  <1>3. Offset(m) + size <= m.size /\ call.done + size <= Len(call.data)
    BY <1>1, <1>2
  <1>4. Unshared(mappings)
    BY DEF AInv
  <1>5. PICK k \in mappings' : Stores(m, k, h, size)
    BY <1>1, <1>3, <1>4, StoreSeen
  <1>6. Unshared(mappings')
    BY <1>4, <1>5, StoreUnshared
  <1> QED
    BY <1>5, <1>6

LEMMA WriteFirstAInv ==
    ASSUME IInv, AInv, IInv', writeFirst
    PROVE  AInv'
  <1>1. call.op = "write" /\ call.phase = "first" /\ Active /\ CallType
    BY DEF writeFirst, Active, IInv
  <1>2. CASE Fault
    BY <1>2, UnchangedAInv DEF Fault
  <1>3. ASSUME NEW m \in mappings, Found(m), Crash(m) \/ MaterializeFault(m, Remaining)
        PROVE  AInv'
    BY <1>3, EndedKeeps DEF AInv, Finish, Crash, MaterializeFault
  <1>4. ASSUME NEW m \in mappings, Found(m), Chunk(m) = Remaining, HasBacking(m),
               StoreChunk(m, materializeFileBytes(m, Offset(m), Remaining), Remaining),
               Finish("success", << >>)
        PROVE  AInv'
    <2> DEFINE h == materializeFileBytes(m, Offset(m), Remaining)
    <2>1. Offset(m) \in Nat /\ Remaining \in Nat /\ Chunk(m) \in Nat
      BY <1>1, <1>4, FoundFacts
    <2>2. GoodMappings(mappings, h) /\ HostsType(h)
      BY <2>1, MaterializeKeeps
    <2>3. Len(call.data) = call.size
      BY <1>1 DEF IInv, CallProgress
    <2>4. Remaining <= Chunk(m) /\ StoreChunk(m, h, Remaining)
      BY <1>4, <2>1
    <2> HIDE DEF h
    <2>5. Unshared(mappings')
      BY <1>1, <1>4, <2>1, <2>2, <2>3, <2>4, WriteStores
    <2> QED
      BY <1>4, <2>5, EndedKeeps DEF Finish
  <1>5. ASSUME call' = [call EXCEPT !.phase = "validate"], mappings' = mappings
        PROVE  AInv'
    <2>1. /\ call'.op = "write" /\ call'.required = call.required /\ call'.done = call.done
          /\ call'.phase = "validate" /\ call'.address = call.address
      BY <1>1, <1>5 DEF CallType
    <2>2. call.done = 0 /\ call.required = {"W"}
      BY <1>1 DEF AInv, CallShape
    <2>3. CallShape(call')
      BY <2>1, <2>2 DEF CallShape
    <2>4. call'.address \in Nat
      BY <1>1, <2>1, GeometryAssumption DEF CallType, Address
    <2> QED
      BY <1>5, <2>1, <2>2, <2>3, <2>4, FreshKeeps DEF AInv
  <1> QED
    BY <1>2, <1>3, <1>4, <1>5 DEF writeFirst

\* One more chunk is checked, and its lazy pages are transformed: c is the call after that, with
\* the flag for executable cells accumulated.
LEMMA ValidatedChunk ==
    ASSUME IInv, AInv, call.op = "write", call.phase = "validate",
           NEW m \in mappings, Found(m), NEW h, h = materializeFileBytes(m, Offset(m), Chunk(m)),
           NEW c, c.op = "write", c.required = call.required,
           c.exec = (call.exec \/ isExecutable(m.permissions)),
           NEW a \in call.address .. ChunkEnd(m) - 1
    PROVE  \E n \in mappings : Checked(c, n, h, a)
  <1>1. Active /\ Unshared(mappings)
    BY DEF Active, AInv
  <1>2. Offset(m) \in Nat /\ Chunk(m) \in Nat
    BY <1>1, FoundFacts
  <1>3. /\ hasPermission(m.permissions, call.required)
        /\ call.address \in Nat /\ Cursor = call.address + call.done
        /\ \A x \in Cursor .. ChunkEnd(m) - 1 :
             Holds(m, x) /\ x - m.base = Offset(m) + (x - Cursor) /\ x - m.base \in 0 .. m.size - 1
        /\ ChunkEnd(m) \in Nat /\ ChunkEnd(m) = Cursor + Chunk(m) /\ Cursor \in Nat
    BY <1>1, FoundChunk
  <1>4. CASE a < Cursor
    <2>1. CheckedTo(call) = Cursor
      BY <1>3 DEF CheckedTo
    <2>2. a \in call.address .. CheckedTo(call) - 1
      BY <1>3, <1>4, <2>1
    <2>3. PICK n \in mappings : Checked(call, n, hosts, a) /\ a - n.base \in 0 .. n.size - 1
      BY <1>1, <2>2, CheckedFacts
    <2>4. Settled(n, hosts, a - n.base) => Settled(n, h, a - n.base)
      BY <1>1, <1>2, <2>3, MaterializeSeen
    <2> QED
      BY <2>3, <2>4 DEF Checked
  <1>5. CASE ~(a < Cursor)
    <2>1. a \in Cursor .. ChunkEnd(m) - 1
      BY <1>3, <1>5
    <2>2. Holds(m, a) /\ a - m.base = Offset(m) + (a - Cursor) /\ a - m.base \in 0 .. m.size - 1
      BY <1>3, <2>1
    <2> DEFINE i == a - m.base
    <2>3. i \in 0 .. m.size - 1 /\ i = Offset(m) + (a - Cursor)
      BY <2>2
    <2> HIDE DEF i
    <2>4. Offset(m) <= i /\ i < Offset(m) + Chunk(m)
      BY <1>2, <1>3, <2>1, <2>3
    <2>5. Settled(m, h, i)
      BY <1>1, <1>2, <2>3, <2>4, MaterializeSeen
    <2> QED
      BY <1>3, <2>2, <2>5 DEF Checked, i
  <1> QED
    BY <1>4, <1>5

LEMMA WriteValidateAInv ==
    ASSUME IInv, AInv, writeValidate
    PROVE  AInv'
  <1>1. call.op = "write" /\ call.phase = "validate" /\ Active /\ CallType
    BY DEF writeValidate, ValidateChunk, Active, IInv
  <1>2. CASE Fault
    BY <1>2, UnchangedAInv DEF Fault
  <1>3. ASSUME NEW m \in mappings, MaterializeFault(m, Chunk(m))
        PROVE  AInv'
    BY <1>3, EndedKeeps DEF AInv, Finish, MaterializeFault
  <1>4. ASSUME NEW m \in mappings, Found(m), mappings' = mappings,
               hosts' = materializeFileBytes(m, Offset(m), Chunk(m)),
               call' = LET checked == [call EXCEPT !.done = @ + Chunk(m),
                                                   !.exec = @ \/ isExecutable(m.permissions)]
                       IN  IF Chunk(m) = Remaining THEN StartCopy(checked) ELSE checked
        PROVE  AInv'
    <2> DEFINE exec == call.exec \/ isExecutable(m.permissions)
               done == call.done + Chunk(m)
               checked == [call EXCEPT !.done = @ + Chunk(m),
                                       !.exec = @ \/ isExecutable(m.permissions)]
    <2>1. exec \in BOOLEAN /\ checked = [call EXCEPT !.done = done, !.exec = exec]
      BY <1>1 DEF CallType
    <2>2. done \in Nat
      BY <1>1, <1>4, FoundFacts
    <2> HIDE DEF done, exec
    <2> DEFINE c == checked
    <2>3. /\ c \in [op : {"none", "read", "write", "validate", "fetch", "direct", "crashed"},
                    address : Address, size : Nat, required : Permission, data : Seq(Value),
                    phase : {"none", "first", "validate", "copy"}, done : Nat, exec : BOOLEAN]
          /\ c.op = "write" /\ c.required = call.required /\ c.exec = exec
          /\ c.address = call.address /\ c.size = call.size
          /\ c.phase = call.phase /\ c.done = done
      BY <1>1, <2>1, <2>2 DEF CallType
    <2>a. call' = IF Chunk(m) = Remaining THEN StartCopy(c) ELSE c
      BY <1>4
    <2> HIDE DEF c
    <2>4. /\ call'.op = "write" /\ call'.required = call.required /\ call'.exec = exec
          /\ call'.address = call.address /\ call'.size = call.size
          /\ call'.phase = IF Chunk(m) = Remaining THEN "copy" ELSE call.phase
          /\ call'.done = IF Chunk(m) = Remaining THEN 0 ELSE call.done + Chunk(m)
      BY <2>3, <2>a DEF StartCopy, done
    <2>5. /\ call.address \in Nat /\ Cursor = call.address + call.done /\ ChunkEnd(m) \in Nat
          /\ ChunkEnd(m) = Cursor + Chunk(m)
          /\ Chunk(m) \in Nat /\ call.done \in Nat /\ call.done + Remaining = call.size
          /\ Remaining \in Nat
      BY <1>1, <1>4, FoundFacts, FoundChunk
    <2>6. CheckedTo(call') = ChunkEnd(m)
      BY <1>1, <2>4, <2>5 DEF CheckedTo
    <2>7. ASSUME NEW a \in call.address .. ChunkEnd(m) - 1
          PROVE  \E n \in mappings : Checked(call', n, hosts', a)
      BY <1>1, <1>4, <2>4, ValidatedChunk DEF exec
    <2>8. RangeChecked(call', mappings', hosts')
      <3>1. call'.address .. CheckedTo(call') - 1 = call.address .. ChunkEnd(m) - 1
        BY <2>4, <2>6
      <3>2. \A a \in call'.address .. CheckedTo(call') - 1 :
              \E n \in mappings' : Checked(call', n, hosts', a)
        BY <1>4, <2>7, <3>1
      <3> QED
        BY <3>2, Zenon DEF RangeChecked
    <2>9. CallShape(call')
      BY <1>1, <2>4 DEF AInv, CallShape
    <2> QED
      BY <1>4, <2>8, <2>9 DEF AInv
  <1> QED
    BY <1>2, <1>3, <1>4 DEF writeValidate, ValidateChunk

LEMMA WriteCopyAInv ==
    ASSUME IInv, AInv, writeCopy
    PROVE  AInv'
  <1>1. call.op = "write" /\ call.phase = "copy" /\ Active /\ CallType
    BY DEF writeCopy, Active, IInv
  <1>2. CASE Fault
    BY <1>2, UnchangedAInv DEF Fault
  <1>3. ASSUME NEW m \in mappings, Crash(m)
        PROVE  AInv'
    BY <1>3, EndedKeeps DEF AInv, Crash
  <1>4. ASSUME NEW m \in mappings, Found(m), HasBacking(m), StoreChunk(m, hosts, Chunk(m)),
               \/ Finish("success", << >>)
               \/ call' = [call EXCEPT !.done = @ + Chunk(m)]
        PROVE  AInv'
    <2>1. Chunk(m) \in Nat /\ Chunk(m) <= Chunk(m)
      BY <1>1, <1>4, FoundFacts
    <2>2. GoodMappings(mappings, hosts) /\ HostsType(hosts) /\ Len(call.data) = call.size
      BY <1>1 DEF IInv, CallProgress
    <2>3. PICK k \in mappings' : Stores(m, k, hosts, Chunk(m)) /\ Unshared(mappings')
      BY <1>1, <1>4, <2>1, <2>2, WriteStores
    <2>4. CASE Finish("success", << >>)
      BY <2>3, <2>4, EndedKeeps DEF Finish
    <2>5. CASE call' = [call EXCEPT !.done = @ + Chunk(m)]
      <3>1. /\ call'.op = "write" /\ call'.required = call.required /\ call'.exec = call.exec
            /\ call'.address = call.address /\ call'.size = call.size /\ call'.phase = "copy"
        BY <1>1, <2>5 DEF CallType
      <3>2. CallShape(call')
        BY <1>1, <3>1 DEF AInv, CallShape
      <3>3. CheckedTo(call') = CheckedTo(call)
        BY <1>1, <3>1 DEF CheckedTo
      <3>4. ASSUME NEW a \in call.address .. CheckedTo(call) - 1
            PROVE  \E n \in mappings' : Checked(call', n, hosts', a)
        <4>1. PICK n \in mappings : Checked(call, n, hosts, a) /\ a - n.base \in 0 .. n.size - 1
          BY <1>1, CheckedFacts
        <4>2. CASE n = m
          <5>1. /\ SameButCells(k, m)
                /\ Settled(k, hosts', a - m.base) <=> Settled(m, hosts, a - m.base)
            BY <2>3, <4>1, <4>2 DEF Stores
          <5>2. Checked(call', k, hosts', a)
            BY <1>1, <3>1, <4>1, <4>2, <5>1 DEF Checked, SameButCells, Holds
          <5> QED
            BY <5>2
        <4>3. CASE n # m
          <5>1. /\ n \in mappings'
                /\ Settled(n, hosts', a - n.base) <=> Settled(n, hosts, a - n.base)
            BY <2>3, <4>1, <4>3 DEF Stores
          <5>2. Checked(call', n, hosts', a)
            BY <1>1, <3>1, <4>1, <5>1 DEF Checked
          <5> QED
            BY <5>1, <5>2
        <4> QED
          BY <4>2, <4>3
      <3>5. RangeChecked(call', mappings', hosts')
        <4>1. call'.address .. CheckedTo(call') - 1 = call.address .. CheckedTo(call) - 1
          BY <3>1, <3>3
        <4>2. \A a \in call'.address .. CheckedTo(call') - 1 :
                \E n \in mappings' : Checked(call', n, hosts', a)
          BY <3>4, <4>1
        <4> QED
          BY <4>2, Zenon DEF RangeChecked
      <3> QED
        BY <2>3, <3>2, <3>5 DEF AInv
    <2> QED
      BY <1>4, <2>4, <2>5
  <1> QED
    BY <1>2, <1>3, <1>4 DEF writeCopy

LEMMA FetchAInv ==
    ASSUME IInv, AInv, executableBytes
    PROVE  AInv'
  <1>1. CASE Fault
    BY <1>1, UnchangedAInv DEF Fault
  <1>2. ASSUME NEW m \in mappings, NEW rest,
               \/ Crash(m)
               \/ MaterializeFault(m, rest)
               \/ mappings' = mappings /\ call' = NoCall
        PROVE  AInv'
    BY <1>2, EndedKeeps DEF AInv, Crash, MaterializeFault, Finish
  <1> QED
    BY <1>1, <1>2 DEF executableBytes, Finish

LEMMA DirectAInv ==
    ASSUME IInv, AInv, directAccess
    PROVE  AInv'
  <1>1. call.op = "direct" /\ Active /\ CallType
    BY DEF directAccess, Active, IInv
  <1>2. CASE Fault
    BY <1>2, UnchangedAInv DEF Fault
  <1>3. ASSUME mappings' = mappings,
               call' = [call EXCEPT !.op = IF "W" \in call.required THEN "write" ELSE "read"]
        PROVE  AInv'
    <2>1. /\ call'.op = IF "W" \in call.required THEN "write" ELSE "read"
          /\ call'.address = call.address /\ call'.required = call.required
          /\ call'.data = call.data /\ call'.phase = call.phase /\ call'.done = call.done
          /\ call'.exec = call.exec
      BY <1>1, <1>3 DEF CallType
    <2>2. /\ call.required \in {{"R"}, {"W"}} /\ call.phase = "first" /\ call.done = 0
          /\ call.exec = FALSE /\ ("W" \notin call.required => call.data = << >>)
      BY <1>1 DEF AInv, CallShape
    <2>3. CallShape(call')
      BY <2>1, <2>2 DEF CallShape
    <2>4. call'.address \in Nat
      BY <1>1, <2>1, GeometryAssumption DEF CallType, Address
    <2> QED
      BY <1>3, <2>1, <2>2, <2>3, <2>4, FreshKeeps DEF AInv
  <1>4. ASSUME NEW m \in mappings, Found(m), directMemoryView(m, call.required),
               "W" \in call.required, StoreChunk(m, hosts, 1), Finish("success", << >>)
        PROVE  AInv'
    <2>1. HasBacking(m)
      BY <1>4 DEF directMemoryView, HasBacking
    <2>2. 1 \in Nat /\ 1 <= Chunk(m)
      BY <1>1, <1>4, FoundFacts
    <2>3. GoodMappings(mappings, hosts) /\ HostsType(hosts) /\ Len(call.data) = call.size
      BY <1>1, <1>4 DEF IInv, CallProgress
    <2>4. PICK one \in Nat : one = 1
      OBVIOUS
    <2>5. one <= Chunk(m) /\ StoreChunk(m, hosts, one)
      BY <1>4, <2>2, <2>4
    <2>6. Unshared(mappings')
      BY <1>1, <1>4, <2>1, <2>3, <2>5, WriteStores
    <2> QED
      BY <1>4, <2>6, EndedKeeps DEF Finish
  <1>5. ASSUME NEW m \in mappings, NEW data, Finish("success", data), mappings' = mappings
        PROVE  AInv'
    BY <1>5, EndedKeeps DEF AInv, Finish
  <1> QED
    BY <1>2, <1>3, <1>4, <1>5 DEF directAccess

LEMMA BeginAInv ==
    ASSUME IInv, AInv, BeginNext
    PROVE  AInv'
  <1>1. ASSUME NEW op, NEW address \in Address, NEW size, NEW required, NEW data,
               begin(op, address, size, required, data),
               CallShape([op |-> op, address |-> address, size |-> size, required |-> required,
                          data |-> data, phase |-> "first", done |-> 0, exec |-> FALSE])
        PROVE  AInv'
    <2> DEFINE c == [op |-> op, address |-> address, size |-> size, required |-> required,
                     data |-> data, phase |-> "first", done |-> 0, exec |-> FALSE]
    <2>1. call' = c /\ mappings' = mappings
      BY <1>1 DEF begin, NoCall
    <2>2. c.address \in Nat /\ c.done = 0 /\ c.phase # "copy"
      BY GeometryAssumption DEF Address
    <2>3. CallShape(c)
      BY <1>1
    <2> HIDE DEF c
    <2> QED
      BY <2>1, <2>2, <2>3, FreshKeeps DEF AInv
  <1> DEFINE Shaped(op, address, size, required, data) ==
               CallShape([op |-> op, address |-> address, size |-> size, required |-> required,
                          data |-> data, phase |-> "first", done |-> 0, exec |-> FALSE])
  <1>2. \A address, n : Shaped("read", address, n, {"R"}, << >>)
    BY DEF CallShape
  <1>3. \A address, n, r : Shaped("validate", address, n, {r}, << >>)
    BY DEF CallShape
  <1>4. \A address, n, d : Shaped("write", address, n, {"W"}, d)
    BY DEF CallShape
  <1>5. \A address : Shaped("fetch", address, 1, {"X"}, << >>)
    BY DEF CallShape
  <1>6. \A address : Shaped("direct", address, 1, {"R"}, << >>)
    BY DEF CallShape
  <1>7. \A address, d : Shaped("direct", address, 1, {"W"}, d)
    BY DEF CallShape
  <1>8. ASSUME NEW op, NEW address \in Address, NEW size, NEW required, NEW data,
               begin(op, address, size, required, data), Shaped(op, address, size, required, data)
        PROVE  AInv'
    BY <1>1, <1>8
  <1> HIDE DEF Shaped
  <1> QED
    BY <1>2, <1>3, <1>4, <1>5, <1>6, <1>7, <1>8, Zenon DEF BeginNext

\* Calls that change mappings run between accesses and keep the cells of a host mapping unshared.
LEMMA ChangeAInv ==
    ASSUME IInv, AInv, IInv', ChangeNext
    PROVE  AInv'
  <1>1. ASSUME NEW status, Unchanged(status) PROVE AInv'
    BY <1>1, UnchangedAInv
  <1>2. ASSUME \A k \in mappings' : \E m \in mappings : PieceOf(k, m), Finish("success", << >>)
        PROVE  AInv'
    <2>1. GoodMappings(mappings, hosts) /\ GoodMappings(mappings', hosts') /\ Unshared(mappings)
      BY DEF IInv, AInv, GoodMappings, GoodMapping
    <2>2. \A m \in mappings : m.base \in Nat /\ m.size \in Nat /\ m.fileDataOffset \in Nat
      BY GeometryAssumption DEF IInv, GoodMappings, GoodMapping, MappingType, Address
    <2>3. Unshared(mappings')
      BY <1>2, <2>1, <2>2, PiecesUnshared
    <2> QED
      BY <1>2, <2>3, EndedKeeps DEF Finish
  <1>3. ASSUME NEW start, NEW end, NEW p, NEW copy, Protects(start, end, p, copy) PROVE AInv'
    BY <1>2, <1>3 DEF Protects
  <1>4. ASSUME NEW start, NEW end, Deallocates(start, end) PROVE AInv'
    BY <1>2, <1>4 DEF Deallocates
  <1> QED
    BY <1>1, <1>3, <1>4, ChangeEffect

\* Every step keeps AInv.
LEMMA NextAInv == IInv /\ AInv /\ [Next]_vars => AInv'
  <1> SUFFICES ASSUME IInv, AInv, [Next]_vars PROVE AInv'
    OBVIOUS
  <1>1. IInv'
    BY NextKeeps
  <1>2. CASE MapNext
    <2>1. ASSUME NEW T, Adds(T) PROVE AInv'
      <3>1. Unshared(mappings') /\ call' = NoCall
        BY <2>1, AddsUnshared DEF AInv, Adds, Finish
      <3> QED
        BY <3>1, EndedKeeps
    <2>2. CASE Rejected
      BY <2>2, UnchangedAInv DEF Rejected
    <2> QED
      BY <1>2, <2>1, <2>2, MapEffect
  <1>3. CASE ChangeNext
    BY <1>1, <1>3, ChangeAInv
  <1>4. CASE BeginNext
    BY <1>4, BeginAInv
  <1>5. CASE StepNext
    BY <1>1, <1>5, ReadAInv, ValidateAInv, WriteFirstAInv, WriteValidateAInv, WriteCopyAInv,
       FetchAInv, DirectAInv DEF StepNext
  <1>6. CASE UNCHANGED vars
    <2>1. mappings' = mappings /\ hosts' = hosts /\ call' = call
      BY <1>6 DEF vars
    <2> QED
      BY <2>1 DEF AInv, Active
  <1> QED
    BY <1>2, <1>3, <1>4, <1>5, <1>6 DEF Next

-----------------------------------------------------------------------------
(* The theorems.                                                           *)

\* AInv holds in every reachable state.
THEOREM AccessInvariance == Spec => []AInv
  <1>1. Init => AInv
    <2> SUFFICES ASSUME Init PROVE AInv
      OBVIOUS
    <2>1. mappings = {} /\ call = NoCall /\ call.op = "none"
      BY DEF Init, NoCall
    <2> QED
      BY <2>1 DEF AInv, Unshared, CallShape, Active
  <1> QED
    BY <1>1, NextAInv, Invariance, PTL DEF Spec

\* No two mappings use the same host cells, whatever splits, protections and removals made them:
\* a write through one mapping never shows in another.
THEOREM UnsharedBacking == Spec => []BackingUnshared
  <1>1. AInv => BackingUnshared
    BY DEF AInv, Unshared, ApartInHost, BackingUnshared
  <1> QED
    BY <1>1, AccessInvariance, PTL

\* The copy loop finds the mappings the validation loop found.
LEMMA CopyFinds == IInv /\ AInv => CopyNeverFaults
  <1> SUFFICES ASSUME IInv, AInv, call.op = "write", call.phase = "copy"
               PROVE  \E m \in mappings : Found(m)
    BY DEF CopyNeverFaults
  <1>1. /\ Active /\ call.address \in Nat /\ call.size \in Nat /\ call.done \in Nat
        /\ call.done < call.size
    BY GeometryAssumption DEF IInv, CallType, CallProgress, Active, Address
  <1>2. Cursor \in Nat /\ Cursor \in call.address .. CheckedTo(call) - 1
    BY <1>1 DEF Cursor, CheckedTo
  <1>3. PICK m \in mappings : Checked(call, m, hosts, Cursor)
    BY <1>1, <1>2, CheckedFacts
  <1>4. /\ m.base <= Cursor /\ Cursor < End(m) /\ End(m) \in Nat
        /\ hasPermission(m.permissions, call.required)
    BY <1>3, MappingFacts DEF Checked, Holds
  <1>5. 1 \in Nat \ {0} /\ 1 <= End(m) - Cursor
    BY <1>2, <1>4
  <1>6. m \in SearchHit(Cursor, 1)
    BY <1>2, <1>4, <1>5, InsideIsSearchHit
  <1>7. m \in Resolved(Cursor, 1)
    BY <1>2, <1>5, <1>6, ResolvedExact
  <1> QED
    BY <1>4, <1>7 DEF Found, find

\* The copy loop of writeBytes finds every mapping its validation loop found, for any number of
\* mappings and any payload: a write that faults has stored nothing.
THEOREM CopiesNeverFault == Spec => []CopyNeverFaults
  BY CopyFinds, Invariance, AccessInvariance, PTL

-----------------------------------------------------------------------------
(***************************************************************************)
(* AddressSpace implements FlatMemory, for every page size, address range, *)
(* lookup table size, cell contents and set of inputs.  The proof reads    *)
(* every cell of the flat memory as the view of the one mapping that holds *)
(* it, and shows for each step of the address space which step of the flat *)
(* memory it is.                                                           *)
(***************************************************************************)

-----------------------------------------------------------------------------
(* A cell as a program sees it.                                            *)

\* The copy loop of write c has not reached cell a yet.
ShowsPayload(c, a) ==
    /\ c.op = "write" /\ c.phase = "copy"
    /\ c.address + c.done <= a /\ a < c.address + c.size

ValueSeen(m, h, c, a) ==
    IF ShowsPayload(c, a) THEN c.data[a - c.address + 1] ELSE Seen(m, h, a - m.base)

ReadableFlag(m, a) == IF IsSparse(m) THEN m.readableBytes[a - m.base] ELSE TRUE

View(m, h, c, a) ==
    [mapped |-> TRUE, permissions |-> m.permissions, maximum |-> m.maximumPermissions,
     backed |-> HasBacking(m), value |-> ValueSeen(m, h, c, a), readable |-> ReadableFlag(m, a)]

Nowhere == [mapped |-> FALSE]

\* Every cell of the flat memory is the view of the mapping that holds it.
CellsViewed ==
    /\ Memory = [a \in Address |-> Memory[a]]
    /\ \A a \in Address : \A m \in mappings : Holds(m, a) => Memory[a] = View(m, hosts, call, a)
    /\ \A a \in Address : (\A m \in mappings : ~Holds(m, a)) => Memory[a] = Nowhere

\* The fields of a view.
LEMMA ViewFields ==
    ASSUME NEW m, NEW h, NEW c, NEW a, NEW v, v = View(m, h, c, a)
    PROVE  /\ v.mapped
           /\ v.permissions = m.permissions
           /\ v.maximum = m.maximumPermissions
           /\ v.backed <=> HasBacking(m)
           /\ v.value = ValueSeen(m, h, c, a)
           /\ v.readable = ReadableFlag(m, a)
  BY DEF View

\* The contents of a mapping are what a program sees in it.
LEMMA ContentsSeen ==
    ASSUME NEW m, NEW i
    PROVE  Contents(m, i) = Seen(m, hosts, i)
  BY DEF Contents, Seen, Settled, Stored, HasBacking

LEMMA CellOfView ==
    ASSUME NEW m, NEW a
    PROVE  CellOf(m, a) = View(m, hosts, call, a)
  <1>1. ValueAt(m, a) = ValueSeen(m, hosts, call, a)
    BY ContentsSeen DEF ValueAt, ValueSeen, Unwritten, Committed, ShowsPayload, Cursor
  <1> QED
    BY <1>1, Zenon DEF CellOf, View, ReadableFlag

LEMMA Viewed == IInv => CellsViewed
  <1> SUFFICES ASSUME IInv PROVE CellsViewed
    OBVIOUS
  <1>1. \A a \in Address : Memory[a] = CellAt(a)
    BY DEF Memory
  <1>2. \A a \in Address : a \in Nat
    BY GeometryAssumption DEF Address
  <1>3. \A a \in Address : \A m \in mappingContaining(a) : m \in mappings /\ Holds(m, a)
    BY <1>2, MappingFacts DEF mappingContaining, rangeContains, Holds
  <1>4. ASSUME NEW a \in Address, NEW m \in mappings, Holds(m, a)
        PROVE  Memory[a] = View(m, hosts, call, a)
    <2>1. a \in Nat /\ m.base <= a /\ a < End(m) /\ 1 <= End(m) - a
      BY <1>2, <1>4, MappingFacts DEF Holds
    <2>2. m \in mappingContaining(a)
      BY <2>1, InsideIsSearchHit DEF SearchHit, mappingContaining
    <2>3. \A n \in mappingContaining(a) : n = m
      BY <1>3, <1>4, <2>1, OneMappingPerAddress DEF Holds
    <2>4. mappingContaining(a) = {m}
      BY <2>2, <2>3
    <2>5. {CellOf(n, a) : n \in mappingContaining(a)} = {CellOf(m, a)}
      BY <2>4, Zenon
    <2>6. CellAt(a) = CellOf(m, a)
      BY <2>5 DEF CellAt
    <2> QED
      BY <1>1, <2>6, CellOfView
  <1>5. ASSUME NEW a \in Address, \A m \in mappings : ~Holds(m, a)
        PROVE  Memory[a] = Nowhere
    <2>1. {CellOf(n, a) : n \in mappingContaining(a)} = {}
      BY <1>3, <1>5
    <2> QED
      BY <1>1, <2>1 DEF CellAt, Nowhere
  <1>6. Memory = [a \in Address |-> Memory[a]]
    BY DEF Memory
  <1> QED
    BY <1>4, <1>5, <1>6 DEF CellsViewed

LEMMA ViewedNext == IInv' => CellsViewed'
  BY Viewed, PTL

-----------------------------------------------------------------------------
(* Steps that change no cell.                                              *)

SeenSame == \A n \in mappings : \A i \in 0 .. n.size - 1 : Seen(n, hosts', i) = Seen(n, hosts, i)

\* No mapping, no contents and no version changed, and no write is being copied.
Quiet ==
    /\ mappings' = mappings
    /\ SeenSame
    /\ executableVersion' = executableVersion
    /\ ~Committed /\ ~Committed'

\* Flat memories that agree on every cell are the same.
LEMMA SameMemory ==
    ASSUME IInv, IInv', \A a \in Address : Memory'[a] = Memory[a]
    PROVE  Memory' = Memory
  <1>1. CellsViewed /\ CellsViewed'
    BY Viewed, ViewedNext
  <1>2. Memory = [a \in Address |-> Memory[a]] /\ Memory' = [a \in Address |-> Memory'[a]]
    BY <1>1 DEF CellsViewed
  <1> QED
    BY <1>2

\* Outside the copy loop a view shows what is seen.
LEMMA NoPayload ==
    ASSUME ~Committed, NEW m, NEW h, NEW a
    PROVE  ValueSeen(m, h, call, a) = Seen(m, h, a - m.base)
  BY DEF ValueSeen, ShowsPayload, Committed

LEMMA NoPayloadNext ==
    ASSUME ~Committed', NEW m, NEW h, NEW a
    PROVE  ValueSeen(m, h, call', a) = Seen(m, h, a - m.base)
  BY DEF ValueSeen, ShowsPayload, Committed

LEMMA QuietMemory ==
    ASSUME IInv, IInv', Quiet
    PROVE  Memory' = Memory /\ VisibleVersion' = VisibleVersion
  <1>1. CellsViewed /\ CellsViewed'
    BY Viewed, ViewedNext
  <1>2. ASSUME NEW a \in Address, NEW m \in mappings, Holds(m, a)
        PROVE  Memory'[a] = Memory[a]
    <2>1. a - m.base \in 0 .. m.size - 1
      BY <1>2, MappingFacts, GeometryAssumption DEF Holds, Address
    <2>2. ValueSeen(m, hosts', call', a) = ValueSeen(m, hosts, call, a)
      BY <2>1, NoPayload, NoPayloadNext DEF Quiet, SeenSame
    <2>3. View(m, hosts', call', a) = View(m, hosts, call, a)
      BY <2>2, Zenon DEF View
    <2>4. m \in mappings'
      BY DEF Quiet
    <2> QED
      BY <1>1, <1>2, <2>3, <2>4 DEF CellsViewed
  <1>3. ASSUME NEW a \in Address, \A m \in mappings : ~Holds(m, a)
        PROVE  Memory'[a] = Memory[a]
    BY <1>1, <1>3 DEF CellsViewed, Quiet
  <1>4. Memory' = Memory
    BY <1>2, <1>3, SameMemory
  <1>5. VisibleVersion' = VisibleVersion
    BY DEF VisibleVersion, Quiet
  <1> QED
    BY <1>4, <1>5

-----------------------------------------------------------------------------
(* Requests and answers.                                                   *)

\* A call that returns has no request left.
LEMMA Answered ==
    ASSUME NEW status, NEW data, Finish(status, data)
    PROVE  ~Committed' /\ Flat!Answer(status, data)
  <1>1. call' = NoCall /\ result' = [status |-> status, data |-> data]
    BY DEF Finish, Returned
  <1>2. ~Committed' /\ RequestedOp' = "none"
    BY <1>1 DEF Committed, RequestedOp, NoCall
  <1>3. Request' = Flat!NoRequest
    BY <1>1, <1>2 DEF Request, NoCall, Flat!NoRequest, None
  <1> QED
    BY <1>1, <1>2, <1>3 DEF Flat!Answer, VisibleResult

\* Between calls there is no request.
LEMMA IdleRequest ==
    ASSUME Idle
    PROVE  ~Committed /\ Request = Flat!NoRequest
  <1>1. call = NoCall
    BY DEF Idle
  <1>2. ~Committed /\ RequestedOp = "none"
    BY <1>1 DEF Committed, RequestedOp, NoCall
  <1> QED
    BY <1>1, <1>2 DEF Request, NoCall, Flat!NoRequest, None

\* The request of a call in progress.
LEMMA RequestFields ==
    ASSUME IInv, Active, ~Committed
    PROVE  /\ Request.op = RequestedOp
           /\ Request.address = call.address /\ Request.size = call.size
           /\ Request.required = call.required
           /\ RequestedOp # "read" => Request.data = call.data
           /\ call.address \in Nat /\ call.size \in Nat /\ call.done \in Nat
           /\ call.done < call.size /\ Cursor = call.address + call.done
           /\ RequestedOp \in {"read", "write", "validate", "fetch"}
  <1>1. /\ Request.op = RequestedOp
        /\ Request.address = call.address /\ Request.size = call.size
        /\ Request.required = call.required
        /\ RequestedOp # "read" => Request.data = call.data
    BY DEF Request
  <1>2. /\ call.address \in Nat /\ call.size \in Nat /\ call.done \in Nat
        /\ call.done < call.size /\ Cursor = call.address + call.done
    BY GeometryAssumption DEF IInv, CallType, CallProgress, Active, Address, Cursor
  <1>3. RequestedOp \in {"read", "write", "validate", "fetch"}
    BY DEF RequestedOp, Active
  <1> QED
    BY <1>1, <1>2, <1>3

\* The cells a call asks for.
LEMMA AskedCells ==
    ASSUME IInv, Active, ~Committed
    PROVE  Flat!Asked = {a \in Address : call.address <= a /\ a < call.address + call.size}
  BY RequestFields DEF Flat!Asked, Flat!Range, Flat!Addresses, Address

\* When find() throws, the cell at the cursor forbids the access.
LEMMA NotPermitted ==
    ASSUME IInv, Active, ~Committed, FindThrows(Cursor, 1, call.required)
    PROVE  ~Flat!Permitted
  <1> SUFFICES ASSUME Flat!Permitted PROVE FALSE
    OBVIOUS
  <1>1. /\ call.address \in Nat /\ call.size \in Nat /\ call.done \in Nat
        /\ call.done < call.size /\ Cursor = call.address + call.done
        /\ Request.address = call.address /\ Request.size = call.size
        /\ Request.required = call.required
    BY RequestFields
  <1>2. call.address + call.size <= Limit + 1
    BY <1>1 DEF Flat!Permitted
  <1>3. Cursor \in Address /\ Cursor \in Nat
    BY <1>1, <1>2, GeometryAssumption DEF Address
  <1>4. Cursor \in Flat!Asked
    BY <1>1, <1>3, AskedCells
  <1>5. Memory[Cursor].mapped /\ call.required \subseteq Memory[Cursor].permissions
    BY <1>1, <1>4 DEF Flat!Permitted, Flat!Allows, Flat!IsMapped
  <1>6. CellsViewed
    BY Viewed
  <1>7. PICK m \in mappings : Holds(m, Cursor)
    BY <1>3, <1>5, <1>6 DEF CellsViewed, Nowhere
  <1>v. Memory[Cursor] = View(m, hosts, call, Cursor)
    BY <1>3, <1>6, <1>7 DEF CellsViewed
  <1>8. hasPermission(m.permissions, call.required)
    BY <1>5, <1>v, ViewFields DEF hasPermission
  <1>9. m.base <= Cursor /\ Cursor < End(m) /\ 1 <= End(m) - Cursor
    BY <1>3, <1>7, MappingFacts DEF Holds
  <1>10. m \in Resolved(Cursor, 1)
    BY <1>3, <1>9, InsideIsSearchHit, ResolvedExact
  <1> QED
    BY <1>8, <1>10 DEF FindThrows, find

\* A call whose cells all lie in mappings that allow it is permitted.
LEMMA PermittedBy ==
    ASSUME IInv, Active, ~Committed,
           \A a \in call.address .. call.address + call.size - 1 :
             \E m \in mappings : Holds(m, a) /\ hasPermission(m.permissions, call.required)
    PROVE  Flat!Permitted
  <1>1. /\ call.address \in Nat /\ call.size \in Nat /\ call.done \in Nat
        /\ call.done < call.size
        /\ Request.address = call.address /\ Request.size = call.size
        /\ Request.required = call.required
    BY RequestFields
  <1>2. call.address + call.size <= Limit + 1
    <2> DEFINE a == call.address + call.size - 1
    <2>1. a \in call.address .. call.address + call.size - 1
      BY <1>1
    <2>2. PICK m \in mappings : Holds(m, a)
      BY <2>1
    <2> QED
      BY <1>1, <2>2, MappingFacts, GeometryAssumption DEF Holds
  <1>3. CellsViewed
    BY Viewed
  <1>4. ASSUME NEW a \in Flat!Asked PROVE Flat!Allows(a, Request.required)
    <2>1. a \in Address /\ call.address <= a /\ a < call.address + call.size
      BY AskedCells
    <2>2. a \in call.address .. call.address + call.size - 1
      BY <1>1, <2>1, GeometryAssumption DEF Address
    <2>3. PICK m \in mappings : Holds(m, a) /\ hasPermission(m.permissions, call.required)
      BY <2>2
    <2>4. Memory[a] = View(m, hosts, call, a)
      BY <1>3, <2>1, <2>3 DEF CellsViewed
    <2>5. Memory[a].mapped /\ Memory[a].permissions = m.permissions
      BY <2>4, ViewFields
    <2> QED
      BY <1>1, <2>3, <2>5 DEF Flat!Allows, Flat!IsMapped, hasPermission
  <1> QED
    BY <1>1, <1>2, <1>4 DEF Flat!Permitted

-----------------------------------------------------------------------------
(* Steps of the calls that end without an effect on memory.                *)

\* The access faults before it has an effect.
LEMMA FaultFlat ==
    ASSUME IInv, AInv, IInv', Active, ~Committed, Fault
    PROVE  Flat!FNext
  <1>1. ~Committed' /\ Flat!Answer("fault", << >>)
    BY Answered DEF Fault, Unchanged
  <1>2. Quiet
    BY <1>1 DEF Quiet, SeenSame, Fault, Unchanged
  <1>3. Memory' = Memory /\ VisibleVersion' = VisibleVersion
    BY <1>2, QuietMemory
  <1>4. ~Flat!Permitted
    BY NotPermitted DEF Fault
  <1>5. Request.op \in {"read", "write", "validate", "fetch"}
    BY RequestFields
  <1>6. CASE Request.op = "read"
    BY <1>1, <1>3, <1>4, <1>6 DEF Flat!Read, Flat!FNext
  <1>7. CASE Request.op = "write"
    BY <1>1, <1>3, <1>4, <1>7 DEF Flat!Write, Flat!FNext
  <1>8. CASE Request.op = "validate"
    BY <1>1, <1>3, <1>4, <1>8 DEF Flat!Validate, Flat!FNext
  <1>9. CASE Request.op = "fetch"
    BY <1>1, <1>3, <1>4, <1>9 DEF Flat!Fetch, Flat!FNext
  <1> QED
    BY <1>5, <1>6, <1>7, <1>8, <1>9

\* An access through a mapping without storage ends the process.
LEMMA CrashFlat ==
    ASSUME IInv, AInv, Active, NEW m \in mappings, Found(m), Crash(m)
    PROVE  Flat!Abort
  <1>1. call.required # {}
    BY DEF AInv, CallShape, Active
  <1>2. Holds(m, Cursor) /\ hasPermission(m.permissions, call.required) /\ Cursor \in Nat
    BY FoundChunk
  <1>3. Cursor \in Address
    BY <1>2, MappingFacts, GeometryAssumption DEF Holds, Address
  <1>4. CellsViewed
    BY Viewed
  <1>5. Memory[Cursor] = View(m, hosts, call, Cursor)
    BY <1>2, <1>3, <1>4 DEF CellsViewed
  <1>6. /\ Memory[Cursor].mapped /\ Memory[Cursor].permissions = m.permissions
        /\ (Memory[Cursor].backed <=> HasBacking(m))
    BY <1>5, ViewFields
  <1>7. ~HasBacking(m) /\ m.permissions # {}
    BY <1>1, <1>2 DEF Crash, hasPermission
  <1>8. \E a \in Flat!Addresses : /\ Flat!IsMapped(a) /\ ~Memory[a].backed
                                  /\ Memory[a].permissions # {}
    BY <1>3, <1>6, <1>7 DEF Flat!IsMapped, Flat!Addresses, Address
  <1>9. call' = [NoCall EXCEPT !.op = "crashed"] /\ result' = [status |-> "crash", data |-> << >>]
    BY DEF Crash, Returned
  <1>a. /\ call'.op = "crashed" /\ call'.address = 0 /\ call'.size = 0
        /\ call'.required = {} /\ call'.data = << >>
    BY <1>9 DEF NoCall, None
  <1>10. ~Committed' /\ RequestedOp' = "crashed"
    BY <1>a DEF Committed, RequestedOp
  <1>b. Request' = [op |-> "crashed", address |-> 0, size |-> 0, required |-> {}, data |-> << >>]
    BY <1>a, <1>10 DEF Request
  <1>11. Request' = [Flat!NoRequest EXCEPT !.op = "crashed"]
    <2> DEFINE r == Flat!NoRequest
    <2>1. /\ r = [op |-> r.op, address |-> r.address, size |-> r.size,
                  required |-> r.required, data |-> r.data]
          /\ r.address = 0 /\ r.size = 0 /\ r.required = {} /\ r.data = << >>
      BY DEF Flat!NoRequest
    <2> HIDE DEF r
    <2>2. [r EXCEPT !.op = "crashed"] = [op |-> "crashed", address |-> r.address, size |-> r.size,
                                         required |-> r.required, data |-> r.data]
      BY <2>1, SMTT(60)
    <2> QED
      BY <1>b, <2>1, <2>2 DEF r
  <1> QED
    BY <1>8, <1>9, <1>10, <1>11 DEF Flat!Abort, VisibleResult

\* A call that is refused, or has nothing to do.
LEMMA RefuseFlat ==
    ASSUME IInv, IInv', Idle,
           NEW status \in {"rejected", "success", "invalidArgument", "invalidAddress",
                           "protectionFailure"},
           Unchanged(status)
    PROVE  Flat!Refuse /\ Memory' = Memory
  <1>1. ~Committed' /\ Flat!Answer(status, << >>)
    BY Answered DEF Unchanged
  <1>2. ~Committed /\ Request = Flat!NoRequest
    BY IdleRequest
  <1>3. Quiet
    BY <1>1, <1>2 DEF Quiet, SeenSame, Unchanged
  <1>4. Memory' = Memory /\ VisibleVersion' = VisibleVersion
    BY <1>3, QuietMemory
  <1> QED
    BY <1>1, <1>2, <1>4 DEF Flat!Refuse

\* The entry of an access.
LEMMA BeginFlat ==
    ASSUME IInv, IInv', NEW op, NEW address, NEW size, NEW required, NEW data,
           begin(op, address, size, required, data), op # "none"
    PROVE  Flat!Begin
  <1>1. ~Committed /\ Request = Flat!NoRequest
    BY IdleRequest DEF begin
  <1>2. call' = [NoCall EXCEPT !.op = op, !.address = address, !.size = size,
                               !.required = required, !.data = data, !.phase = "first"]
    BY DEF begin
  <1>3. call'.op = op /\ call'.phase = "first"
    BY <1>2 DEF NoCall
  <1>4. ~Committed' /\ RequestedOp' # "none"
    BY <1>3 DEF Committed, RequestedOp
  <1>5. Request'.op = RequestedOp'
    BY <1>4 DEF Request
  <1>6. Request' # Flat!NoRequest
    BY <1>4, <1>5 DEF Flat!NoRequest
  <1>7. Quiet
    BY <1>1, <1>4 DEF Quiet, SeenSame, begin
  <1>8. Memory' = Memory /\ VisibleVersion' = VisibleVersion
    BY <1>7, QuietMemory
  <1>9. VisibleResult' = [status |-> "none", data |-> << >>]
    BY <1>4 DEF VisibleResult, begin, Returned
  <1> QED
    BY <1>1, <1>6, <1>8, <1>9 DEF Flat!Begin

-----------------------------------------------------------------------------
(* Reads, validated accesses and fetches.                                  *)

\* What the flat memory shows of a cell a mapping holds.
LEMMA CellFacts ==
    ASSUME IInv, ~Committed, NEW a \in Address, NEW m \in mappings, Holds(m, a)
    PROVE  /\ Memory[a].mapped
           /\ Memory[a].permissions = m.permissions
           /\ Memory[a].maximum = m.maximumPermissions
           /\ Memory[a].value = Seen(m, hosts, a - m.base)
           /\ Memory[a].readable <=> ReadableAt(m, a - m.base)
  <1>1. CellsViewed
    BY Viewed
  <1>2. Memory[a] = View(m, hosts, call, a)
    BY <1>1 DEF CellsViewed
  <1>3. /\ Memory[a].mapped
        /\ Memory[a].permissions = m.permissions
        /\ Memory[a].maximum = m.maximumPermissions
        /\ Memory[a].value = ValueSeen(m, hosts, call, a)
        /\ Memory[a].readable = ReadableFlag(m, a)
    BY <1>2, ViewFields
  <1>4. Memory[a].readable <=> ReadableAt(m, a - m.base)
    BY <1>3 DEF ReadableFlag, ReadableAt
  <1> QED
    BY <1>3, <1>4, NoPayload

\* Transforming lazy pages changes nothing a program sees.
LEMMA MaterializedSame ==
    ASSUME IInv, AInv, NEW m \in mappings, NEW offset \in Nat, NEW size \in Nat,
           hosts' = materializeFileBytes(m, offset, size)
    PROVE  SeenSame
  <1>1. Unshared(mappings)
    BY DEF AInv
  <1> QED
    BY <1>1, MaterializeSeen DEF SeenSame

\* A step that leaves memory, request and result alone.
LEMMA QuietStutter ==
    ASSUME IInv, IInv', Quiet, Request' = Request, result' = result
    PROVE  UNCHANGED Flat!fvars
  <1>1. Memory' = Memory /\ VisibleVersion' = VisibleVersion
    BY QuietMemory
  <1>2. VisibleResult' = VisibleResult
    BY DEF VisibleResult, Quiet
  <1> QED
    BY <1>1, <1>2 DEF Flat!fvars

\* A permitted and readable range answers with its contents.
LEMMA ReadAnswer ==
    ASSUME IInv, IInv', Active, Quiet, RequestedOp = "read", NEW read \in Seq(Value),
           Len(read) = call.size, Finish("success", read),
           \A a \in call.address .. call.address + call.size - 1 : \E n \in mappings :
             /\ Holds(n, a) /\ hasPermission(n.permissions, call.required)
             /\ ReadableAt(n, a - n.base)
             /\ read[a - call.address + 1] = Seen(n, hosts, a - n.base)
    PROVE  Flat!FNext
  <1>1. ~Committed /\ Memory' = Memory /\ VisibleVersion' = VisibleVersion
    BY QuietMemory DEF Quiet
  <1>2. /\ Request.op = "read" /\ Request.address = call.address /\ Request.size = call.size
        /\ call.address \in Nat /\ call.size \in Nat
    BY <1>1, RequestFields
  <1>3. Flat!Permitted
    BY <1>1, PermittedBy
  <1>4. call.address + call.size <= Limit + 1
    BY <1>2, <1>3 DEF Flat!Permitted
  <1>5. ASSUME NEW a \in call.address .. call.address + call.size - 1
        PROVE  /\ a \in Address /\ Memory[a].readable
               /\ read[a - call.address + 1] = Memory[a].value
    <2>1. a \in Address
      BY <1>2, <1>4, GeometryAssumption DEF Address
    <2>2. PICK n \in mappings : /\ Holds(n, a) /\ ReadableAt(n, a - n.base)
                                /\ read[a - call.address + 1] = Seen(n, hosts, a - n.base)
      OBVIOUS
    <2> QED
      BY <1>1, <2>1, <2>2, CellFacts
  <1>6. \A a \in Flat!Asked : Memory[a].readable
    <2> SUFFICES ASSUME NEW a \in Flat!Asked PROVE Memory[a].readable
      OBVIOUS
    <2>1. a \in Address /\ call.address <= a /\ a < call.address + call.size
      BY <1>1, AskedCells
    <2>2. a \in call.address .. call.address + call.size - 1
      BY <1>2, <2>1, GeometryAssumption DEF Address
    <2> QED
      BY <1>5, <2>2
  <1>7. ASSUME NEW i \in 1 .. call.size PROVE read[i] = Memory[call.address + i - 1].value
    <2> DEFINE a == call.address + i - 1
    <2>1. a \in call.address .. call.address + call.size - 1 /\ a - call.address + 1 = i
      BY <1>2
    <2> HIDE DEF a
    <2>2. read[a - call.address + 1] = Memory[a].value
      BY <1>5, <2>1
    <2> QED
      BY <2>1, <2>2 DEF a
  <1>8. read = [i \in 1 .. Request.size |-> Memory[Request.address + i - 1].value]
    <2>1. read = [i \in 1 .. call.size |-> read[i]]
      OBVIOUS
    <2> QED
      BY <1>2, <1>7, <2>1
  <1>9. Flat!Answer("success", read)
    BY Answered
  <1>10. Flat!Answer("success", [i \in 1 .. Request.size |-> Memory[Request.address + i - 1].value])
    BY <1>8, <1>9
  <1> QED
    BY <1>1, <1>2, <1>3, <1>6, <1>10 DEF Flat!Read, Flat!FNext

LEMMA ReadFlat ==
    ASSUME IInv, AInv, IInv', readInto
    PROVE  [Flat!FNext]_(Flat!fvars)
  <1>1. call.op = "read" /\ Active /\ ~Committed /\ RequestedOp = "read" /\ Unshared(mappings)
    BY DEF readInto, Active, Committed, RequestedOp, AInv
  <1>2. CASE Fault
    BY <1>1, <1>2, FaultFlat
  <1>3. ASSUME NEW m \in mappings, Found(m), UnreadableSparse(m), Finish("fault", << >>),
               UNCHANGED <<mappings, hosts, executableVersion>>
        PROVE  Flat!FNext
    <2>1. ~Committed' /\ Flat!Answer("fault", << >>)
      BY <1>3, Answered
    <2>2. Quiet
      BY <1>1, <1>3, <2>1 DEF Quiet, SeenSame
    <2>3. Memory' = Memory /\ VisibleVersion' = VisibleVersion
      BY <2>2, QuietMemory
    <2>4. PICK i \in Offset(m) .. Offset(m) + Chunk(m) - 1 : IsSparse(m) /\ ~m.readableBytes[i]
      BY <1>3 DEF UnreadableSparse
    <2> DEFINE a == m.base + i
    <2>5. /\ Offset(m) \in Nat /\ Chunk(m) \in Nat /\ Offset(m) + Chunk(m) <= m.size
          /\ Chunk(m) <= Remaining /\ call.done \in Nat /\ call.done + Remaining = call.size
          /\ Remaining \in Nat
      BY <1>1, <1>3, FoundFacts
    <2>6. m.base \in Nat /\ Cursor = m.base + Offset(m) /\ Cursor = call.address + call.done
          /\ call.address \in Nat /\ m.size \in Nat
      BY <1>1, <1>3, FoundChunk
    <2>7. /\ a \in Nat /\ call.address <= a /\ a < call.address + call.size
          /\ m.base <= a /\ a < m.base + m.size /\ a - m.base = i
      BY <2>4, <2>5, <2>6
    <2>8. Holds(m, a) /\ a <= Limit
      BY <2>7, MappingFacts, GeometryAssumption DEF Holds
    <2>9. a \in Address /\ a \in Flat!Asked
      BY <1>1, <2>7, <2>8, AskedCells DEF Address
    <2> HIDE DEF a
    <2>10. ~ReadableAt(m, a - m.base)
      BY <2>4, <2>7 DEF ReadableAt
    <2>11. Memory[a].mapped /\ ~Memory[a].readable
      BY <1>1, <2>8, <2>9, <2>10, CellFacts
    <2>12. Request.op = "read"
      BY <1>1, RequestFields
    <2> QED
      BY <2>1, <2>3, <2>9, <2>11, <2>12 DEF Flat!Read, Flat!IsMapped, Flat!FNext
  <1>4. ASSUME NEW m \in mappings, Found(m), Crash(m)
        PROVE  Flat!FNext
    BY <1>1, <1>4, CrashFlat DEF Flat!FNext
  <1>5. ASSUME NEW m \in mappings, Found(m), MaterializeFault(m, Chunk(m))
        PROVE  FALSE
    <2>1. Offset(m) \in Nat /\ Chunk(m) \in Nat /\ Offset(m) + Chunk(m) <= m.size
      BY <1>1, <1>5, FoundFacts
    <2> QED
      BY <1>1, <1>5, <2>1, NeverThrows DEF MaterializeFault
  <1>6. ASSUME NEW m \in mappings, Found(m), ~UnreadableSparse(m), HasBacking(m),
               hosts' = materializeFileBytes(m, Offset(m), Chunk(m)),
               NEW read, read = call.data \o Cells(m, hosts', Offset(m), Chunk(m)),
               UNCHANGED <<mappings, executableVersion>>
        PROVE  /\ Chunk(m) = Remaining /\ Finish("success", read) => Flat!FNext
               /\ call' = [call EXCEPT !.done = @ + Chunk(m), !.data = read] /\ result' = result
                    => UNCHANGED Flat!fvars
    <2>1. /\ Offset(m) \in Nat /\ Chunk(m) \in Nat /\ Remaining \in Nat
          /\ call.done \in Nat /\ call.done + Remaining = call.size
      BY <1>1, <1>6, FoundFacts
    <2>2. SeenSame
      BY <1>6, <2>1, MaterializedSame
    <2>3. ASSUME Chunk(m) = Remaining, Finish("success", read)
          PROVE  Flat!FNext
      <3>1. HoldsRead(m, hosts', read)
        BY <1>1, <1>6, ReadCells
      <3>2. Quiet
        BY <1>1, <1>6, <2>2, <2>3, Answered DEF Quiet
      <3>3. read \in Seq(Value)
        BY <2>3 DEF IInv, Finish, Returned
      <3>4. Cursor = call.address + call.done /\ call.address \in Nat
            /\ ChunkEnd(m) = Cursor + Chunk(m)
        BY <1>1, <1>6, FoundChunk
      <3>5. Len(read) = call.size /\ ChunkEnd(m) = call.address + call.size
        BY <2>1, <2>3, <3>1, <3>4 DEF HoldsRead
      <3>6. \A a \in call.address .. ChunkEnd(m) - 1 : \E n \in mappings :
              /\ Holds(n, a) /\ hasPermission(n.permissions, call.required)
              /\ ReadableAt(n, a - n.base)
              /\ read[a - call.address + 1] = Seen(n, hosts, a - n.base)
        BY <2>2, <3>1 DEF HoldsRead, SeenSame
      <3>7. \A a \in call.address .. call.address + call.size - 1 : \E n \in mappings :
              /\ Holds(n, a) /\ hasPermission(n.permissions, call.required)
              /\ ReadableAt(n, a - n.base)
              /\ read[a - call.address + 1] = Seen(n, hosts, a - n.base)
        <4>1. call.address \in Nat /\ call.size \in Nat /\ ChunkEnd(m) = call.address + call.size
          BY <2>1, <3>4, <3>5
        <4>2. ChunkEnd(m) - 1 = call.address + call.size - 1
          BY <4>1
        <4> QED
          BY <3>6, <4>2, Zenon
      <3> QED
        BY <1>1, <2>3, <3>2, <3>3, <3>5, <3>7, ReadAnswer
    <2>4. ASSUME call' = [call EXCEPT !.done = @ + Chunk(m), !.data = read], result' = result
          PROVE  UNCHANGED Flat!fvars
      <3>1. /\ call'.op = call.op /\ call'.address = call.address /\ call'.size = call.size
            /\ call'.required = call.required
        BY <2>4 DEF IInv, CallType
      <3>2. ~Committed' /\ RequestedOp' = "read"
        BY <1>1, <3>1 DEF Committed, RequestedOp
      <3>3. Request' = Request
        BY <1>1, <3>1, <3>2 DEF Request
      <3>4. Quiet
        BY <1>1, <1>6, <2>2, <3>2 DEF Quiet
      <3> QED
        BY <2>4, <3>3, <3>4, QuietStutter
    <2> QED
      BY <2>3, <2>4
  <1> QED
    BY <1>2, <1>3, <1>4, <1>5, <1>6 DEF readInto

\* A validated access ends where the walk over its mappings ends.
LEMMA ValidateFlat ==
    ASSUME IInv, AInv, IInv', validateAccess
    PROVE  [Flat!FNext]_(Flat!fvars)
  <1>1. /\ call.op = "validate" /\ Active /\ ~Committed /\ RequestedOp = "validate"
        /\ call.phase = "first"
    BY DEF validateAccess, Active, Committed, RequestedOp, AInv, CallShape
  <1>2. CASE Fault
    BY <1>1, <1>2, FaultFlat
  <1>3. ASSUME NEW m \in mappings, Found(m), UNCHANGED <<mappings, hosts, executableVersion>>,
               Chunk(m) = Remaining, Finish("success", << >>)
        PROVE  Flat!FNext
    <2>1. ~Committed' /\ Flat!Answer("success", << >>)
      BY <1>3, Answered
    <2>2. Quiet
      BY <1>1, <1>3, <2>1 DEF Quiet, SeenSame
    <2>3. Memory' = Memory /\ VisibleVersion' = VisibleVersion
      BY <2>2, QuietMemory
    <2>4. /\ Remaining \in Nat /\ call.done \in Nat /\ call.done + Remaining = call.size
      BY <1>1, <1>3, FoundFacts
    <2>5. /\ hasPermission(m.permissions, call.required)
          /\ Cursor = call.address + call.done /\ call.address \in Nat
          /\ ChunkEnd(m) = Cursor + Chunk(m)
          /\ \A a \in Cursor .. ChunkEnd(m) - 1 : Holds(m, a)
      BY <1>1, <1>3, FoundChunk
    <2>6. CheckedTo(call) = Cursor
      BY <1>1, <2>5 DEF CheckedTo
    <2>7. \A a \in call.address .. Cursor - 1 :
            \E n \in mappings : Holds(n, a) /\ hasPermission(n.permissions, call.required)
      BY <1>1, <2>6 DEF AInv, RangeChecked, Checked
    <2>8. \A a \in call.address .. call.address + call.size - 1 :
            \E n \in mappings : Holds(n, a) /\ hasPermission(n.permissions, call.required)
      <3> SUFFICES ASSUME NEW a \in call.address .. call.address + call.size - 1
                   PROVE  \E n \in mappings : Holds(n, a) /\ hasPermission(n.permissions, call.required)
        OBVIOUS
      <3>1. a \in call.address .. Cursor - 1 \/ a \in Cursor .. ChunkEnd(m) - 1
        BY <1>3, <2>4, <2>5, SMTT(60)
      <3> QED
        BY <2>5, <2>7, <3>1
    <2>9. Flat!Permitted
      BY <1>1, <2>8, PermittedBy
    <2>10. Request.op = "validate"
      BY <1>1, RequestFields
    <2> QED
      BY <2>1, <2>3, <2>9, <2>10 DEF Flat!Validate, Flat!FNext
  <1>4. ASSUME NEW m \in mappings, UNCHANGED <<mappings, hosts, executableVersion>>,
               call' = [call EXCEPT !.done = @ + Chunk(m)], result' = result
        PROVE  UNCHANGED Flat!fvars
    <2>1. /\ call'.op = call.op /\ call'.address = call.address /\ call'.size = call.size
          /\ call'.required = call.required /\ call'.data = call.data
      BY <1>4 DEF IInv, CallType
    <2>2. ~Committed' /\ RequestedOp' = "validate"
      BY <1>1, <2>1 DEF Committed, RequestedOp
    <2>3. Request' = Request
      BY <1>1, <2>1, <2>2 DEF Request
    <2>4. Quiet
      BY <1>1, <1>4, <2>2 DEF Quiet, SeenSame
    <2> QED
      BY <1>4, <2>3, <2>4, QuietStutter
  <1> QED
    BY <1>2, <1>3, <1>4 DEF validateAccess

\* What is read of a mapping at once: the cells from the cursor, as they are seen.
LEMMA CellsSeen ==
    ASSUME IInv, NEW m \in mappings, NEW h, NEW offset \in Nat, NEW size \in Nat,
           offset + size <= m.size, HasBacking(m),
           \A i \in 0 .. m.size - 1 : offset <= i /\ i < offset + size => Settled(m, h, i),
           NEW j \in 1 .. size
    PROVE  /\ offset + j - 1 \in 0 .. m.size - 1
           /\ Cells(m, h, offset, size)[j] = Seen(m, h, offset + j - 1)
  <1>1. m.size \in Nat
    BY MappingFacts
  <1> DEFINE i == offset + j - 1
  <1>2. i \in 0 .. m.size - 1 /\ offset <= i /\ i < offset + size
    BY <1>1
  <1>3. Cells(m, h, offset, size)[j] = Stored(m, h, i)
    BY DEF Cells
  <1> HIDE DEF i
  <1>4. Seen(m, h, i) = Stored(m, h, i)
    BY <1>2 DEF Seen
  <1> QED
    BY <1>2, <1>3, <1>4 DEF i

\* A fetch returns the run of executable cells to the end of the mapping.
LEMMA FetchFlat ==
    ASSUME IInv, AInv, IInv', executableBytes
    PROVE  [Flat!FNext]_(Flat!fvars)
  <1>1. /\ call.op = "fetch" /\ Active /\ ~Committed /\ RequestedOp = "fetch"
        /\ call.required = {"X"} /\ call.done = 0 /\ call.size = 1 /\ Unshared(mappings)
    BY DEF executableBytes, Active, Committed, RequestedOp, AInv, CallShape
  <1>2. CASE Fault
    BY <1>1, <1>2, FaultFlat
  <1>3. ASSUME NEW m \in mappings, Found(m), Crash(m)
        PROVE  Flat!FNext
    BY <1>1, <1>3, CrashFlat DEF Flat!FNext
  <1>4. ASSUME NEW m \in mappings, Found(m)
        PROVE  /\ m.base \in Nat /\ Cursor = m.base + Offset(m) /\ Cursor = call.address
               /\ Offset(m) \in Nat /\ m.size - Offset(m) \in Nat \ {0} /\ m.size \in Nat
               /\ Holds(m, Cursor) /\ hasPermission(m.permissions, call.required)
               /\ End(m) = m.base + m.size /\ End(m) <= Limit /\ call.address \in Nat
    <2>1. /\ Offset(m) \in Nat /\ m.size - Offset(m) \in Nat \ {0}
      BY <1>1, <1>4, FoundFacts
    <2>2. /\ m.base \in Nat /\ m.size \in Nat /\ Cursor = m.base + Offset(m)
          /\ Cursor = call.address + call.done /\ call.address \in Nat
          /\ Holds(m, Cursor) /\ hasPermission(m.permissions, call.required)
      BY <1>1, <1>4, FoundChunk
    <2>3. End(m) = m.base + m.size /\ End(m) <= Limit
      BY MappingFacts
    <2> QED
      BY <1>1, <2>1, <2>2, <2>3
  <1>5. ASSUME NEW m \in mappings, Found(m), MaterializeFault(m, m.size - Offset(m))
        PROVE  FALSE
    <2> DEFINE rest == m.size - Offset(m)
    <2>1. Offset(m) \in Nat /\ rest \in Nat /\ Offset(m) + rest <= m.size
      BY <1>4, <1>5
    <2>2. materializeThrows(m, Offset(m), rest)
      BY <1>5 DEF MaterializeFault
    <2> HIDE DEF rest
    <2> QED
      BY <1>1, <2>1, <2>2, NeverThrows
  <1>6. ASSUME NEW m \in mappings, Found(m), HasBacking(m), NEW rest, rest = m.size - Offset(m),
               hosts' = materializeFileBytes(m, Offset(m), rest),
               Finish("success", Cells(m, hosts', Offset(m), rest)),
               UNCHANGED <<mappings, executableVersion>>
        PROVE  Flat!FNext
    <2>1. /\ m.base \in Nat /\ Cursor = m.base + Offset(m) /\ Cursor = call.address
          /\ Offset(m) \in Nat /\ rest \in Nat \ {0} /\ m.size \in Nat
          /\ Holds(m, Cursor) /\ hasPermission(m.permissions, call.required)
          /\ End(m) = m.base + m.size /\ End(m) <= Limit /\ call.address \in Nat
          /\ End(m) = call.address + rest /\ Offset(m) + rest <= m.size
      BY <1>4, <1>6
    <2> DEFINE data == Cells(m, hosts', Offset(m), rest)
    <2>2. ~Committed' /\ Flat!Answer("success", data)
      BY <1>6, Answered
    <2>3. SeenSame
      BY <1>6, <2>1, MaterializedSame
    <2>4. Quiet
      BY <1>1, <1>6, <2>2, <2>3 DEF Quiet
    <2>5. Memory' = Memory /\ VisibleVersion' = VisibleVersion
      BY <2>4, QuietMemory
    <2>6. Flat!Permitted
      <3>1. \A a \in call.address .. call.address + call.size - 1 : a = Cursor
        BY <1>1, <2>1
      <3> QED
        BY <1>1, <2>1, <3>1, PermittedBy
    <2>7. /\ Request.op = "fetch" /\ Request.address = call.address
      BY <1>1, RequestFields
    <2>8. End(m) \in Flat!Addresses /\ End(m) > Request.address /\ End(m) - Request.address = rest
      BY <2>1, <2>7, GeometryAssumption DEF Flat!Addresses
    <2>9. ASSUME NEW a \in Flat!Range(Request.address, End(m))
          PROVE  Flat!Allows(a, {"X"})
      <3>1. a \in Address /\ call.address <= a /\ a < End(m)
        BY <2>7 DEF Flat!Range, Flat!Addresses, Address
      <3>2. Holds(m, a)
        BY <2>1, <3>1, GeometryAssumption DEF Holds, Address
      <3>3. Memory[a].mapped /\ Memory[a].permissions = m.permissions
        BY <1>1, <3>1, <3>2, CellFacts
      <3> QED
        BY <1>1, <2>1, <3>3 DEF Flat!Allows, Flat!IsMapped, hasPermission
    <2>10. ASSUME NEW j \in 1 .. rest
           PROVE  data[j] = Memory[Request.address + j - 1].value
      <3>1. \A i \in 0 .. m.size - 1 : Offset(m) <= i /\ i < Offset(m) + rest => Settled(m, hosts', i)
        BY <1>1, <1>6, <2>1, MaterializeSeen
      <3>2. /\ Offset(m) + j - 1 \in 0 .. m.size - 1
            /\ data[j] = Seen(m, hosts', Offset(m) + j - 1)
        BY <1>6, <2>1, <3>1, CellsSeen
      <3> DEFINE a == call.address + j - 1
      <3>3. a \in Address /\ Holds(m, a) /\ a - m.base = Offset(m) + j - 1
        BY <2>1, GeometryAssumption DEF Holds, Address
      <3> HIDE DEF a, data
      <3>4. Memory[a].value = Seen(m, hosts, a - m.base)
        BY <1>1, <3>3, CellFacts
      <3>5. data[j] = Memory[a].value
        BY <2>3, <3>2, <3>3, <3>4 DEF SeenSame
      <3> QED
        BY <2>7, <3>5 DEF a
    <2>11. data = [j \in 1 .. End(m) - Request.address |-> Memory[Request.address + j - 1].value]
      <3>1. data = [j \in 1 .. rest |-> data[j]]
        BY DEF Cells
      <3> HIDE DEF data
      <3> QED
        BY <2>8, <2>10, <3>1
    <2> HIDE DEF data
    <2>12. \E to \in Flat!Addresses :
             /\ to > Request.address
             /\ \A a \in Flat!Range(Request.address, to) : Flat!Allows(a, {"X"})
             /\ Flat!Answer("success", [i \in 1 .. to - Request.address |->
                                          Memory[Request.address + i - 1].value])
      BY <2>2, <2>8, <2>9, <2>11
    <2> QED
      BY <2>5, <2>6, <2>7, <2>12 DEF Flat!Fetch, Flat!FNext
  <1> QED
    BY <1>2, <1>3, <1>5, <1>6 DEF executableBytes

-----------------------------------------------------------------------------
(* Writes.                                                                 *)

Executable(c) == c.mapped /\ "X" \in c.permissions

\* The code is the same when the executable cells and their contents are.
LEMMA SameCode ==
    ASSUME IInv, IInv',
           \A a \in Address :
             /\ Executable(Memory'[a]) <=> Executable(Memory[a])
             /\ Executable(Memory[a]) => Memory'[a].value = Memory[a].value
    PROVE  Flat!Code(Memory') = Flat!Code(Memory)
  <1>1. CellsViewed /\ CellsViewed'
    BY Viewed, ViewedNext
  <1>2. DOMAIN Memory = Address /\ DOMAIN Memory' = Address
    BY <1>1 DEF CellsViewed
  <1> DEFINE D == {x \in Address : Executable(Memory[x])}
  <1>3. {x \in DOMAIN Memory : Memory[x].mapped /\ "X" \in Memory[x].permissions} = D
    BY <1>2 DEF Executable
  <1>4. {x \in DOMAIN Memory' : Memory'[x].mapped /\ "X" \in Memory'[x].permissions} = D
    BY <1>2 DEF Executable
  <1>5. Flat!Code(Memory) = [a \in D |-> Memory[a].value]
    BY <1>3, Zenon DEF Flat!Code
  <1>6. Flat!Code(Memory') = [a \in D |-> Memory'[a].value]
    BY <1>4, Zenon DEF Flat!Code
  <1> QED
    BY <1>5, <1>6

\* Replacing the value of a record of the shape of a view.
LEMMA RecordStore ==
    ASSUME NEW t, NEW p, NEW q, NEW b, NEW x, NEW y, NEW r, NEW v,
           v = [mapped |-> t, permissions |-> p, maximum |-> q, backed |-> b, value |-> x,
                readable |-> r]
    PROVE  [v EXCEPT !.value = y]
             = [mapped |-> t, permissions |-> p, maximum |-> q, backed |-> b, value |-> y,
                readable |-> r]
  OBVIOUS

\* A mapping that differs in its cells only shows the same but for the value.
LEMMA ViewStore ==
    ASSUME NEW m, NEW k, SameButCells(k, m), NEW h, NEW g, NEW c, NEW d, NEW a
    PROVE  View(k, g, d, a) = [View(m, h, c, a) EXCEPT !.value = ValueSeen(k, g, d, a)]
  <1>1. /\ k.permissions = m.permissions /\ k.maximumPermissions = m.maximumPermissions
        /\ HasBacking(k) = HasBacking(m) /\ k.base = m.base /\ k.readableBytes = m.readableBytes
    BY DEF SameButCells
  <1>2. ReadableFlag(k, a) = ReadableFlag(m, a)
    BY <1>1 DEF ReadableFlag, IsSparse
  <1>3. View(k, g, d, a) = [mapped |-> TRUE, permissions |-> m.permissions,
                            maximum |-> m.maximumPermissions, backed |-> HasBacking(m),
                            value |-> ValueSeen(k, g, d, a), readable |-> ReadableFlag(m, a)]
    BY <1>1, <1>2, Zenon DEF View
  <1> DEFINE v == View(m, h, c, a)
             t == TRUE
  <1>4. v = [mapped |-> t, permissions |-> m.permissions, maximum |-> m.maximumPermissions,
             backed |-> HasBacking(m), value |-> ValueSeen(m, h, c, a),
             readable |-> ReadableFlag(m, a)]
    BY Zenon DEF View
  <1>5. View(k, g, d, a) = [mapped |-> t, permissions |-> m.permissions,
                            maximum |-> m.maximumPermissions, backed |-> HasBacking(m),
                            value |-> ValueSeen(k, g, d, a), readable |-> ReadableFlag(m, a)]
    BY <1>3, Zenon
  <1> DEFINE b == HasBacking(m)
             y == ValueSeen(k, g, d, a)
             x == ValueSeen(m, h, c, a)
             r == ReadableFlag(m, a)
  <1> HIDE DEF v, t, b, x, y, r
  <1>6. v = [mapped |-> t, permissions |-> m.permissions, maximum |-> m.maximumPermissions,
             backed |-> b, value |-> x, readable |-> r]
    BY <1>4, Zenon DEF b, x, r
  <1>7. View(k, g, d, a) = [mapped |-> t, permissions |-> m.permissions,
                            maximum |-> m.maximumPermissions, backed |-> b, value |-> y,
                            readable |-> r]
    BY <1>5, Zenon DEF b, y, r
  <1>8. [v EXCEPT !.value = y] = View(k, g, d, a)
    BY <1>6, <1>7, RecordStore
  <1> QED
    BY <1>8, Zenon DEF v, y

\* What the flat memory takes for a write: the payload in the cells asked for, nothing else, and
\* a new version if one of them is executable.
LEMMA WriteAnswer ==
    ASSUME IInv, IInv', Active, ~Committed, RequestedOp = "write", Flat!Permitted,
           \A a \in Address :
             IF call.address <= a /\ a < call.address + call.size
             THEN Memory'[a] = [Memory[a] EXCEPT !.value = call.data[a - call.address + 1]]
             ELSE Memory'[a] = Memory[a],
           VisibleVersion' >= VisibleVersion,
           \A a \in Address : call.address <= a /\ a < call.address + call.size
             /\ Executable(Memory[a]) => VisibleVersion' > VisibleVersion,
           Flat!Answer("success", << >>)
    PROVE  Flat!FNext
  <1>1. CellsViewed /\ CellsViewed'
    BY Viewed, ViewedNext
  <1>2. /\ Request.op = "write" /\ Request.address = call.address /\ Request.size = call.size
        /\ Request.data = call.data
    BY RequestFields
  <1>3. Flat!Asked = {a \in Address : call.address <= a /\ a < call.address + call.size}
    BY AskedCells
  <1> DEFINE f == [a \in Flat!Asked |->
                     [Memory[a] EXCEPT !.value = Request.data[a - Request.address + 1]]]
  <1>4. Memory' = [a \in Address |-> IF a \in Flat!Asked THEN f[a] ELSE Memory[a]]
    <2>1. Memory' = [a \in Address |-> Memory'[a]]
      BY <1>1 DEF CellsViewed
    <2>2. ASSUME NEW a \in Address
          PROVE  Memory'[a] = IF a \in Flat!Asked THEN f[a] ELSE Memory[a]
      BY <1>2, <1>3
    <2> HIDE DEF f
    <2> QED
      BY <2>1, <2>2
  <1>5. Flat!ChangeCells(Flat!Asked, f)
    BY <1>4, Zenon DEF Flat!ChangeCells, Flat!Addresses, Address
  <1>6. Flat!Versioned
    <2> SUFFICES ASSUME Flat!Code(Memory') # Flat!Code(Memory)
                 PROVE  VisibleVersion' > VisibleVersion
      BY DEF Flat!Versioned
    <2> SUFFICES ASSUME \A a \in Address : call.address <= a /\ a < call.address + call.size
                                           => ~Executable(Memory[a])
                 PROVE  FALSE
      OBVIOUS
    <2>1. ASSUME NEW a \in Address
          PROVE  /\ Executable(Memory'[a]) <=> Executable(Memory[a])
                 /\ Executable(Memory[a]) => Memory'[a].value = Memory[a].value
      <3>1. CASE ~(call.address <= a /\ a < call.address + call.size)
        BY <3>1
      <3>2. CASE call.address <= a /\ a < call.address + call.size
        <4>1. Memory'[a] = [Memory[a] EXCEPT !.value = call.data[a - call.address + 1]]
          BY <3>2
        <4>2. CASE \E m \in mappings : Holds(m, a)
          <5>1. PICK m \in mappings : Memory[a] = View(m, hosts, call, a)
            BY <1>1, <4>2 DEF CellsViewed
          <5>2. Memory'[a].mapped = Memory[a].mapped
                /\ Memory'[a].permissions = Memory[a].permissions
            BY <4>1, <5>1 DEF View
          <5> QED
            BY <3>2, <5>2 DEF Executable
        <4>3. CASE ~ \E m \in mappings : Holds(m, a)
          <5>1. Memory[a] = Nowhere
            BY <1>1, <4>3 DEF CellsViewed
          <5>2. ~Memory[a].mapped /\ ~Memory'[a].mapped
            BY <4>1, <5>1 DEF Nowhere
          <5> QED
            BY <5>2 DEF Executable
        <4> QED
          BY <4>2, <4>3
      <3> QED
        BY <3>1, <3>2
    <2> QED
      BY <2>1, SameCode
  <1> QED
    BY <1>2, <1>5, <1>6 DEF Flat!Write, Flat!FNext

\* What a program sees after the store of size cells at the cursor: k is m after it.
StoreEffect(m, k, size) ==
    /\ k \in mappings' /\ SameButCells(k, m)
    /\ \A x \in mappings' : x = k \/ x \in mappings
    /\ \A n \in mappings : n # m => n \in mappings'
    /\ \A n \in mappings : \A a \in Address : n # m /\ Holds(n, a) =>
         Seen(n, hosts', a - n.base) = Seen(n, hosts, a - n.base)
    /\ \A a \in Address : Holds(m, a) =>
         Seen(k, hosts', a - k.base) = IF Cursor <= a /\ a < Cursor + size
                                       THEN call.data[a - call.address + 1]
                                       ELSE Seen(m, hosts, a - m.base)

LEMMA StoreIsEffect ==
    ASSUME IInv, Active, NEW m \in mappings, Found(m), HasBacking(m), NEW h,
           \A n \in mappings : \A i \in 0 .. n.size - 1 : Seen(n, h, i) = Seen(n, hosts, i),
           NEW size \in Nat, size <= Chunk(m),
           \A i \in 0 .. m.size - 1 : Offset(m) <= i /\ i < Offset(m) + size => Settled(m, h, i),
           NEW k \in mappings', Stores(m, k, h, size)
    PROVE  StoreEffect(m, k, size)
  <1>1. /\ mappings' = (mappings \ {m}) \cup {k}
        /\ SameButCells(k, m) /\ k.base = m.base /\ HasBacking(k)
    BY DEF Stores, SameButCells
  <1>2. /\ Cursor \in Nat /\ Offset(m) \in Nat /\ m.base \in Nat /\ m.size \in Nat
        /\ Cursor = m.base + Offset(m) /\ call.address \in Nat
        /\ Cursor = call.address + call.done /\ call.done \in Nat
    BY FoundFacts, FoundChunk
  <1>3. ASSUME NEW n \in mappings, NEW a \in Address, Holds(n, a)
        PROVE  a - n.base \in 0 .. n.size - 1
    BY <1>3, MappingFacts, GeometryAssumption DEF Holds, Address
  <1>4. ASSUME NEW n \in mappings, NEW a \in Address, n # m, Holds(n, a)
        PROVE  Seen(n, hosts', a - n.base) = Seen(n, hosts, a - n.base)
    <2> DEFINE i == a - n.base
    <2>1. i \in 0 .. n.size - 1
      BY <1>3, <1>4
    <2> HIDE DEF i
    <2>2. Seen(n, hosts', i) = Seen(n, h, i) /\ Seen(n, h, i) = Seen(n, hosts, i)
      BY <1>4, <2>1 DEF Stores
    <2> QED
      BY <2>2 DEF i
  <1>5. ASSUME NEW a \in Address, Holds(m, a)
        PROVE  Seen(k, hosts', a - m.base) = IF Cursor <= a /\ a < Cursor + size
                                             THEN call.data[a - call.address + 1]
                                             ELSE Seen(m, hosts, a - m.base)
    <2> DEFINE i == a - m.base
    <2>1. i \in 0 .. m.size - 1
      BY <1>3, <1>5
    <2>2. /\ Offset(m) <= i <=> Cursor <= a
          /\ i < Offset(m) + size <=> a < Cursor + size
          /\ call.done + (i - Offset(m)) + 1 = a - call.address + 1
      BY <1>2, GeometryAssumption DEF Address
    <2> HIDE DEF i
    <2>3. /\ Settled(k, hosts', i) <=> Settled(m, h, i)
          /\ Stored(k, hosts', i) = IF Offset(m) <= i /\ i < Offset(m) + size
                                    THEN call.data[call.done + (i - Offset(m)) + 1]
                                    ELSE Stored(m, h, i)
      BY <2>1 DEF Stores
    <2>4. CASE Offset(m) <= i /\ i < Offset(m) + size
      <3>1. Settled(k, hosts', i)
        BY <2>1, <2>3, <2>4
      <3>2. Seen(k, hosts', i) = call.data[call.done + (i - Offset(m)) + 1]
        BY <1>1, <2>3, <2>4, <3>1 DEF Seen
      <3> QED
        BY <2>2, <2>4, <3>2 DEF i
    <2>5. CASE ~(Offset(m) <= i /\ i < Offset(m) + size)
      <3>1. Seen(k, hosts', i) = Seen(m, h, i)
        BY <1>1, <2>3, <2>5 DEF Seen
      <3>2. Seen(m, h, i) = Seen(m, hosts, i)
        BY <2>1
      <3> QED
        BY <2>2, <2>5, <3>1, <3>2 DEF i
    <2> QED
      BY <2>4, <2>5
  <1> QED
    BY <1>1, <1>4, <1>5 DEF StoreEffect

\* The cells of the flat memory after a store that belongs to no copy loop.
LEMMA StoredMemory ==
    ASSUME IInv, IInv', ~Committed, ~Committed', NEW m \in mappings, NEW k, NEW size \in Nat,
           StoreEffect(m, k, size), NEW a \in Address,
           Cursor <= a /\ a < Cursor + size => Holds(m, a)
    PROVE  IF Cursor <= a /\ a < Cursor + size
           THEN Memory'[a] = [Memory[a] EXCEPT !.value = call.data[a - call.address + 1]]
           ELSE Memory'[a] = Memory[a]
  <1>1. CellsViewed /\ CellsViewed'
    BY Viewed, ViewedNext
  <1>2. SameButCells(k, m) /\ k \in mappings' /\ k.base = m.base /\ End(k) = End(m)
    BY DEF StoreEffect, SameButCells
  <1>3. a \in Nat
    BY GeometryAssumption DEF Address
  <1>4. CASE Holds(m, a)
    <2>1. Holds(k, a)
      BY <1>2, <1>4 DEF Holds
    <2>2. Memory[a] = View(m, hosts, call, a) /\ Memory'[a] = View(k, hosts', call', a)
      BY <1>1, <1>2, <1>4, <2>1 DEF CellsViewed
    <2>3. Memory'[a] = [Memory[a] EXCEPT !.value = ValueSeen(k, hosts', call', a)]
      BY <1>2, <2>2, ViewStore
    <2>4. ValueSeen(k, hosts', call', a) = Seen(k, hosts', a - k.base)
          /\ ValueSeen(m, hosts, call, a) = Seen(m, hosts, a - m.base)
      BY NoPayload, NoPayloadNext
    <2>5. Seen(k, hosts', a - k.base) = IF Cursor <= a /\ a < Cursor + size
                                        THEN call.data[a - call.address + 1]
                                        ELSE Seen(m, hosts, a - m.base)
      BY <1>4 DEF StoreEffect
    <2>6. CASE Cursor <= a /\ a < Cursor + size
      BY <2>3, <2>4, <2>5, <2>6
    <2>7. CASE ~(Cursor <= a /\ a < Cursor + size)
      <3>1. ValueSeen(k, hosts', call', a) = ValueSeen(m, hosts, call, a)
        BY <2>4, <2>5, <2>7
      <3>2. View(m, hosts, call, a)
              = [View(m, hosts, call, a) EXCEPT !.value = ValueSeen(m, hosts, call, a)]
        BY ViewStore DEF SameButCells
      <3> QED
        BY <2>2, <2>3, <2>7, <3>1, <3>2
    <2> QED
      BY <2>6, <2>7
  <1>5. CASE ~Holds(m, a) /\ \E n \in mappings : Holds(n, a)
    <2>1. PICK n \in mappings : n # m /\ Holds(n, a)
      BY <1>5
    <2>2. n \in mappings' /\ Seen(n, hosts', a - n.base) = Seen(n, hosts, a - n.base)
      BY <2>1 DEF StoreEffect
    <2>3. ValueSeen(n, hosts', call', a) = ValueSeen(n, hosts, call, a)
      BY <2>2, NoPayload, NoPayloadNext
    <2>4. View(n, hosts', call', a) = View(n, hosts, call, a)
      BY <2>3, Zenon DEF View
    <2>5. Memory'[a] = Memory[a]
      BY <1>1, <2>1, <2>2, <2>4 DEF CellsViewed
    <2> QED
      BY <1>5, <2>5
  <1>6. CASE \A n \in mappings : ~Holds(n, a)
    <2>1. \A x \in mappings' : ~Holds(x, a)
      <3> SUFFICES ASSUME NEW x \in mappings', Holds(x, a) PROVE FALSE
        OBVIOUS
      <3>1. x = k \/ x \in mappings
        BY DEF StoreEffect
      <3> QED
        BY <1>2, <1>6, <3>1 DEF Holds
    <2>2. Memory'[a] = Memory[a]
      BY <1>1, <1>6, <2>1 DEF CellsViewed
    <2> QED
      BY <1>6, <2>2
  <1> QED
    BY <1>4, <1>5, <1>6

\* Outside the copy loop callers see the version as it is.
LEMMA PlainVersion ==
    ASSUME IInv, IInv'
    PROVE  /\ ~Committed => VisibleVersion = executableVersion
           /\ ~Committed' => VisibleVersion' = executableVersion'
           /\ executableVersion \in Nat /\ executableVersion' \in Nat
  <1>1. executableVersion \in Nat /\ executableVersion' \in Nat
    BY DEF IInv
  <1>2. ~Committed => VisibleVersion = executableVersion
    BY <1>1 DEF VisibleVersion
  <1>a. VisibleVersion' = executableVersion' + (IF Committed' /\ call'.exec THEN 1 ELSE 0)
    BY DEF VisibleVersion
  <1>3. ~Committed' => VisibleVersion' = executableVersion'
    <2> SUFFICES ASSUME ~Committed' PROVE VisibleVersion' = executableVersion'
      OBVIOUS
    <2> DEFINE extra == IF Committed' /\ call'.exec THEN 1 ELSE 0
    <2>1. extra = 0 /\ VisibleVersion' = executableVersion' + extra
      BY <1>a
    <2> HIDE DEF extra
    <2>2. VisibleVersion' = executableVersion' + 0
      BY <2>1
    <2>3. executableVersion' + 0 = executableVersion'
      <3>1. \A n \in Nat : n + 0 = n
        OBVIOUS
      <3> QED
        BY <1>1, <3>1, Zenon
    <2> QED
      BY <2>2, <2>3
  <1> QED
    BY <1>1, <1>2, <1>3

\* A write that fits in one mapping is done in one step.
LEMMA StoreFlat ==
    ASSUME IInv, IInv', Active, RequestedOp = "write", call.phase = "first", call.done = 0,
           NEW m \in mappings, Found(m), Chunk(m) = Remaining, NEW k,
           StoreEffect(m, k, call.size), executableVersion' >= executableVersion,
           isExecutable(m.permissions) => executableVersion' > executableVersion,
           Finish("success", << >>)
    PROVE  Flat!FNext
  <1>1. ~Committed /\ ~Committed' /\ Flat!Answer("success", << >>)
    BY Answered DEF Committed
  <1>2. /\ Cursor = call.address + call.done /\ call.address \in Nat
        /\ ChunkEnd(m) = Cursor + Chunk(m) /\ hasPermission(m.permissions, call.required)
        /\ \A a \in Cursor .. ChunkEnd(m) - 1 : Holds(m, a)
    BY FoundChunk
  <1>3. call.size \in Nat /\ call.done + Remaining = call.size /\ Remaining \in Nat
    BY FoundFacts
  <1>4. Cursor = call.address /\ ChunkEnd(m) = call.address + call.size
    BY <1>2, <1>3
  <1>5. \A a \in call.address .. call.address + call.size - 1 : Holds(m, a)
    BY <1>2, <1>3, <1>4
  <1>6. Flat!Permitted
    BY <1>1, <1>2, <1>5, PermittedBy
  <1>7. ASSUME NEW a \in Address, call.address <= a, a < call.address + call.size
        PROVE  Holds(m, a) /\ Memory[a].permissions = m.permissions
    <2>1. Holds(m, a)
      BY <1>3, <1>2, <1>5, <1>7, GeometryAssumption DEF Address
    <2> QED
      BY <1>1, <2>1, CellFacts
  <1>8. ASSUME NEW a \in Address
        PROVE  IF call.address <= a /\ a < call.address + call.size
               THEN Memory'[a] = [Memory[a] EXCEPT !.value = call.data[a - call.address + 1]]
               ELSE Memory'[a] = Memory[a]
    BY <1>1, <1>3, <1>4, <1>7, StoredMemory
  <1>9. VisibleVersion = executableVersion /\ VisibleVersion' = executableVersion'
    BY <1>1, PlainVersion
  <1>10. \A a \in Address : call.address <= a /\ a < call.address + call.size
           /\ Executable(Memory[a]) => VisibleVersion' > VisibleVersion
    BY <1>7, <1>9 DEF Executable, isExecutable, hasPermission
  <1> QED
    BY <1>1, <1>6, <1>8, <1>9, <1>10, WriteAnswer

LEMMA WriteFirstFlat ==
    ASSUME IInv, AInv, IInv', writeFirst
    PROVE  [Flat!FNext]_(Flat!fvars)
  <1>1. /\ call.op = "write" /\ call.phase = "first" /\ Active /\ ~Committed
        /\ RequestedOp = "write" /\ call.done = 0 /\ Unshared(mappings)
        /\ Len(call.data) = call.size
    BY DEF writeFirst, Active, Committed, RequestedOp, AInv, CallShape, IInv, CallProgress
  <1>2. CASE Fault
    BY <1>1, <1>2, FaultFlat
  <1>3. ASSUME NEW m \in mappings, Found(m), Crash(m)
        PROVE  Flat!FNext
    BY <1>1, <1>3, CrashFlat DEF Flat!FNext
  <1>4. ASSUME NEW m \in mappings, Found(m), Chunk(m) = Remaining
        PROVE  /\ Offset(m) \in Nat /\ Remaining \in Nat /\ Offset(m) + Remaining <= m.size
               /\ Remaining = call.size /\ call.size \in Nat
    BY <1>1, <1>4, FoundFacts
  <1>5. ASSUME NEW m \in mappings, Found(m), Chunk(m) = Remaining, MaterializeFault(m, Remaining)
        PROVE  FALSE
    <2>1. Offset(m) \in Nat /\ Remaining \in Nat /\ Offset(m) + Remaining <= m.size
      BY <1>4, <1>5
    <2> QED
      BY <1>1, <1>5, <2>1, NeverThrows DEF MaterializeFault
  <1>6. ASSUME NEW m \in mappings, Found(m), Chunk(m) = Remaining, HasBacking(m),
               StoreChunk(m, materializeFileBytes(m, Offset(m), Remaining), Remaining),
               BumpVersion(isExecutable(m.permissions)), Finish("success", << >>)
        PROVE  Flat!FNext
    <2>1. /\ Offset(m) \in Nat /\ Remaining \in Nat /\ Offset(m) + Remaining <= m.size
          /\ Remaining = call.size
      BY <1>4, <1>6
    <2> DEFINE h == materializeFileBytes(m, Offset(m), Remaining)
    <2>2. GoodMappings(mappings, h) /\ HostsType(h)
      BY <2>1, MaterializeKeeps
    <2>3. /\ \A n \in mappings : \A i \in 0 .. n.size - 1 : Seen(n, h, i) = Seen(n, hosts, i)
          /\ \A i \in 0 .. m.size - 1 :
               Offset(m) <= i /\ i < Offset(m) + Remaining => Settled(m, h, i)
      BY <1>1, <2>1, MaterializeSeen
    <2>4. StoreChunk(m, h, Remaining)
      BY <1>6
    <2> HIDE DEF h
    <2>5. PICK k \in mappings' : Stores(m, k, h, Remaining)
      BY <1>1, <1>6, <2>1, <2>2, <2>4, WriteStores
    <2>6. StoreEffect(m, k, Remaining)
      BY <1>1, <1>6, <2>1, <2>3, <2>5, StoreIsEffect
    <2>7. /\ executableVersion' >= executableVersion
          /\ isExecutable(m.permissions) => executableVersion' > executableVersion
      BY <1>6, BumpGrows
    <2> QED
      BY <1>1, <1>6, <2>1, <2>6, <2>7, StoreFlat
  <1>7. ASSUME NEW m \in mappings, call' = [call EXCEPT !.phase = "validate"],
               UNCHANGED <<mappings, hosts, executableVersion, result>>
        PROVE  UNCHANGED Flat!fvars
    <2>1. /\ call'.op = call.op /\ call'.address = call.address /\ call'.size = call.size
          /\ call'.required = call.required /\ call'.data = call.data /\ call'.phase = "validate"
      BY <1>7 DEF IInv, CallType
    <2>2. ~Committed' /\ RequestedOp' = "write"
      BY <1>1, <2>1 DEF Committed, RequestedOp
    <2>3. Request' = Request
      BY <1>1, <2>1, <2>2 DEF Request
    <2>4. Quiet
      BY <1>1, <1>7, <2>2 DEF Quiet, SeenSame
    <2> QED
      BY <1>7, <2>3, <2>4, QuietStutter
  <1> QED
    BY <1>2, <1>3, <1>5, <1>6, <1>7 DEF writeFirst

\* Once the validation loop ends, the write has happened: the cells asked for show the payload.
LEMMA CommitFlat ==
    ASSUME IInv, AInv, IInv', AInv', call.op = "write", call.phase = "validate",
           mappings' = mappings, SeenSame, executableVersion' = executableVersion,
           Committed', call'.address = call.address, call'.size = call.size,
           call'.data = call.data, call'.required = call.required, call'.done = 0
    PROVE  Flat!FNext
  <1>1. ~Committed /\ Active /\ Active' /\ RequestedOp = "write"
    BY DEF Committed, Active, RequestedOp
  <1>2. CellsViewed /\ CellsViewed'
    BY Viewed, ViewedNext
  <1>3. call.address \in Nat /\ call.size \in Nat
    BY <1>1, RequestFields
  <1>4. /\ RangeChecked(call', mappings', hosts')
        /\ CheckedTo(call') = call.address + call.size
    BY <1>1 DEF AInv, Committed, CheckedTo
  <1>5. ASSUME NEW a \in call.address .. call.address + call.size - 1
        PROVE  \E m \in mappings : /\ Holds(m, a) /\ hasPermission(m.permissions, call.required)
                                   /\ isExecutable(m.permissions) => call'.exec
    <2>1. a \in call'.address .. CheckedTo(call') - 1
      BY <1>3, <1>4
    <2>2. PICK m \in mappings : Checked(call', m, hosts', a)
      BY <1>4, <2>1 DEF RangeChecked
    <2> QED
      BY <2>2 DEF Checked, Committed
  <1>6. Flat!Permitted
    BY <1>1, <1>5, PermittedBy
  <1>7. ASSUME NEW a \in Address
        PROVE  /\ ShowsPayload(call', a) <=> (call.address <= a /\ a < call.address + call.size)
               /\ call'.data[a - call'.address + 1] = call.data[a - call.address + 1]
    BY <1>3 DEF ShowsPayload, Committed
  <1>8. ASSUME NEW a \in Address, NEW m \in mappings, Holds(m, a)
        PROVE  IF call.address <= a /\ a < call.address + call.size
               THEN Memory'[a] = [Memory[a] EXCEPT !.value = call.data[a - call.address + 1]]
               ELSE Memory'[a] = Memory[a]
    <2>1. Memory[a] = View(m, hosts, call, a) /\ Memory'[a] = View(m, hosts', call', a)
      BY <1>2, <1>8 DEF CellsViewed
    <2>2. a - m.base \in 0 .. m.size - 1
      BY <1>8, MappingFacts, GeometryAssumption DEF Holds, Address
    <2>3. Seen(m, hosts', a - m.base) = Seen(m, hosts, a - m.base)
      BY <2>2 DEF SeenSame
    <2>4. CASE call.address <= a /\ a < call.address + call.size
      <3>1. ValueSeen(m, hosts', call', a) = call.data[a - call.address + 1]
        BY <1>7, <2>4 DEF ValueSeen
      <3>2. View(m, hosts', call', a)
              = [View(m, hosts, call, a) EXCEPT !.value = ValueSeen(m, hosts', call', a)]
        BY ViewStore DEF SameButCells
      <3> QED
        BY <2>1, <2>4, <3>1, <3>2
    <2>5. CASE ~(call.address <= a /\ a < call.address + call.size)
      <3>1. ValueSeen(m, hosts', call', a) = Seen(m, hosts', a - m.base)
        BY <1>7, <2>5 DEF ValueSeen
      <3>2. ValueSeen(m, hosts', call', a) = ValueSeen(m, hosts, call, a)
        BY <1>1, <2>3, <3>1, NoPayload
      <3>3. View(m, hosts', call', a) = View(m, hosts, call, a)
        BY <3>2, Zenon DEF View
      <3> QED
        BY <2>1, <2>5, <3>3
    <2> QED
      BY <2>4, <2>5
  <1>9. ASSUME NEW a \in Address, \A m \in mappings : ~Holds(m, a)
        PROVE  /\ ~(call.address <= a /\ a < call.address + call.size)
               /\ Memory'[a] = Memory[a]
    <2>1. Memory'[a] = Memory[a]
      BY <1>2, <1>9 DEF CellsViewed
    <2>2. a \notin call.address .. call.address + call.size - 1
      BY <1>5, <1>9
    <2> QED
      BY <1>3, <2>1, <2>2, GeometryAssumption DEF Address
  <1>10. \A a \in Address :
           IF call.address <= a /\ a < call.address + call.size
           THEN Memory'[a] = [Memory[a] EXCEPT !.value = call.data[a - call.address + 1]]
           ELSE Memory'[a] = Memory[a]
    BY <1>8, <1>9
  <1>11. /\ VisibleVersion = executableVersion
         /\ VisibleVersion' = executableVersion + (IF call'.exec THEN 1 ELSE 0)
         /\ executableVersion \in Nat
    <2>1. executableVersion \in Nat
      BY DEF IInv
    <2> QED
      BY <1>1, <2>1 DEF VisibleVersion
  <1>12. ASSUME NEW a \in Address, call.address <= a, a < call.address + call.size,
                Executable(Memory[a])
         PROVE  VisibleVersion' > VisibleVersion
    <2>1. a \in call.address .. call.address + call.size - 1
      BY <1>3, <1>12, GeometryAssumption DEF Address
    <2>2. PICK m \in mappings : Holds(m, a) /\ (isExecutable(m.permissions) => call'.exec)
      BY <1>5, <2>1
    <2>3. Memory[a].permissions = m.permissions
      BY <1>1, <2>2, CellFacts
    <2>4. call'.exec
      BY <1>12, <2>2, <2>3 DEF Executable, isExecutable, hasPermission
    <2> QED
      BY <1>11, <2>4
  <1>13. VisibleVersion' >= VisibleVersion
    BY <1>11
  <1>14. Flat!Answer("success", << >>)
    <2>1. VisibleResult' = [status |-> "success", data |-> << >>]
      BY DEF VisibleResult, Returned
    <2>2. Request' = Flat!NoRequest
      BY DEF Request, Flat!NoRequest
    <2> QED
      BY <2>1, <2>2 DEF Flat!Answer
  <1> QED
    BY <1>1, <1>6, <1>10, <1>12, <1>13, <1>14, WriteAnswer

LEMMA WriteValidateFlat ==
    ASSUME IInv, AInv, IInv', AInv', writeValidate
    PROVE  [Flat!FNext]_(Flat!fvars)
  <1>1. /\ call.op = "write" /\ call.phase = "validate" /\ Active /\ ~Committed
        /\ RequestedOp = "write" /\ Unshared(mappings) /\ CallType
    BY DEF writeValidate, ValidateChunk, Active, Committed, RequestedOp, AInv, IInv
  <1>2. CASE Fault
    BY <1>1, <1>2, FaultFlat
  <1>3. ASSUME NEW m \in mappings, Found(m), MaterializeFault(m, Chunk(m))
        PROVE  FALSE
    <2>1. Offset(m) \in Nat /\ Chunk(m) \in Nat /\ Offset(m) + Chunk(m) <= m.size
      BY <1>1, <1>3, FoundFacts
    <2> QED
      BY <1>1, <1>3, <2>1, NeverThrows DEF MaterializeFault
  <1>4. ASSUME NEW m \in mappings, Found(m), mappings' = mappings, result' = result,
               executableVersion' = executableVersion,
               hosts' = materializeFileBytes(m, Offset(m), Chunk(m)),
               call' = LET checked == [call EXCEPT !.done = @ + Chunk(m),
                                                   !.exec = @ \/ isExecutable(m.permissions)]
                       IN  IF Chunk(m) = Remaining THEN StartCopy(checked) ELSE checked
        PROVE  [Flat!FNext]_(Flat!fvars)
    <2>1. Offset(m) \in Nat /\ Chunk(m) \in Nat /\ call.done \in Nat
      BY <1>1, <1>4, FoundFacts
    <2>2. SeenSame
      BY <1>4, <2>1, MaterializedSame
    <2> DEFINE exec == call.exec \/ isExecutable(m.permissions)
               done == call.done + Chunk(m)
               checked == [call EXCEPT !.done = @ + Chunk(m),
                                       !.exec = @ \/ isExecutable(m.permissions)]
    <2>3. exec \in BOOLEAN /\ checked = [call EXCEPT !.done = done, !.exec = exec]
      BY <1>1 DEF CallType
    <2>4. done \in Nat
      BY <2>1
    <2> HIDE DEF done, exec
    <2> DEFINE c == checked
    <2>5. /\ c \in [op : {"none", "read", "write", "validate", "fetch", "direct", "crashed"},
                    address : Address, size : Nat, required : Permission, data : Seq(Value),
                    phase : {"none", "first", "validate", "copy"}, done : Nat, exec : BOOLEAN]
          /\ c.op = "write" /\ c.required = call.required /\ c.address = call.address
          /\ c.size = call.size /\ c.phase = call.phase /\ c.data = call.data
      BY <1>1, <2>3, <2>4 DEF CallType
    <2>6. call' = IF Chunk(m) = Remaining THEN StartCopy(c) ELSE c
      BY <1>4
    <2> HIDE DEF c
    <2>7. CASE Chunk(m) = Remaining
      <3>1. /\ call'.op = "write" /\ call'.phase = "copy" /\ call'.done = 0
            /\ call'.required = call.required /\ call'.address = call.address
            /\ call'.size = call.size /\ call'.data = call.data
        BY <2>5, <2>6, <2>7 DEF StartCopy
      <3>2. Committed'
        BY <3>1 DEF Committed
      <3> QED
        BY <1>1, <1>4, <2>2, <3>1, <3>2, CommitFlat
    <2>8. CASE Chunk(m) # Remaining
      <3>1. /\ call'.op = "write" /\ call'.phase = "validate"
            /\ call'.required = call.required /\ call'.address = call.address
            /\ call'.size = call.size /\ call'.data = call.data
        BY <1>1, <2>5, <2>6, <2>8
      <3>2. ~Committed' /\ RequestedOp' = "write"
        BY <3>1 DEF Committed, RequestedOp
      <3>3. Request' = Request
        BY <1>1, <3>1, <3>2 DEF Request
      <3>4. Quiet
        BY <1>1, <1>4, <2>2, <3>2 DEF Quiet
      <3> QED
        BY <1>4, <3>3, <3>4, QuietStutter
    <2> QED
      BY <2>7, <2>8
  <1> QED
    BY <1>2, <1>3, <1>4 DEF writeValidate, ValidateChunk

\* A store of the copy loop shows what its cells showed since the validation loop ended.
LEMMA CopiedMemory ==
    ASSUME IInv, IInv', Committed, NEW m \in mappings, NEW k, StoreEffect(m, k, Chunk(m)),
           \A a \in Cursor .. ChunkEnd(m) - 1 : Holds(m, a), ChunkEnd(m) = Cursor + Chunk(m),
           Cursor \in Nat, Chunk(m) \in Nat, Cursor = call.address + call.done,
           ChunkEnd(m) <= call.address + call.size, call.address \in Nat, call.size \in Nat,
           \A a \in Address :
             /\ ShowsPayload(call', a) <=> ShowsPayload(call, a) /\ ~(Cursor <= a /\ a < ChunkEnd(m))
             /\ ShowsPayload(call', a)
                  => call'.data[a - call'.address + 1] = call.data[a - call.address + 1]
    PROVE  Memory' = Memory
  <1>1. CellsViewed /\ CellsViewed'
    BY Viewed, ViewedNext
  <1>2. SameButCells(k, m) /\ k \in mappings' /\ k.base = m.base /\ End(k) = End(m)
    BY DEF StoreEffect, SameButCells
  <1>3. ASSUME NEW a \in Address, Cursor <= a, a < ChunkEnd(m)
        PROVE  ShowsPayload(call, a) /\ Holds(m, a)
    <2>1. a \in Cursor .. ChunkEnd(m) - 1
      BY <1>3, GeometryAssumption DEF Address
    <2>2. ShowsPayload(call, a)
      BY <1>3, GeometryAssumption DEF ShowsPayload, Committed, Address
    <2> QED
      BY <2>1, <2>2
  <1>4. ASSUME NEW a \in Address, Holds(m, a)
        PROVE  Memory'[a] = Memory[a]
    <2>1. Holds(k, a)
      BY <1>2, <1>4 DEF Holds
    <2>2. Memory[a] = View(m, hosts, call, a) /\ Memory'[a] = View(k, hosts', call', a)
      BY <1>1, <1>2, <1>4, <2>1 DEF CellsViewed
    <2>3. Seen(k, hosts', a - k.base) = IF Cursor <= a /\ a < ChunkEnd(m)
                                        THEN call.data[a - call.address + 1]
                                        ELSE Seen(m, hosts, a - m.base)
      BY <1>4 DEF StoreEffect
    <2>4. ValueSeen(k, hosts', call', a) = ValueSeen(m, hosts, call, a)
      <3>1. CASE Cursor <= a /\ a < ChunkEnd(m)
        BY <1>3, <2>3, <3>1 DEF ValueSeen
      <3>2. CASE ~(Cursor <= a /\ a < ChunkEnd(m))
        BY <2>3, <3>2 DEF ValueSeen
      <3> QED
        BY <3>1, <3>2
    <2>5. /\ k.permissions = m.permissions /\ k.maximumPermissions = m.maximumPermissions
          /\ HasBacking(k) = HasBacking(m) /\ ReadableFlag(k, a) = ReadableFlag(m, a)
      BY <1>2 DEF SameButCells, ReadableFlag, IsSparse
    <2> QED
      BY <2>2, <2>4, <2>5, Zenon DEF View
  <1>5. ASSUME NEW a \in Address, ~Holds(m, a), NEW n \in mappings, Holds(n, a)
        PROVE  Memory'[a] = Memory[a]
    <2>1. n \in mappings' /\ Seen(n, hosts', a - n.base) = Seen(n, hosts, a - n.base)
      BY <1>5 DEF StoreEffect
    <2>2. ~(Cursor <= a /\ a < ChunkEnd(m))
      BY <1>3, <1>5
    <2>3. ValueSeen(n, hosts', call', a) = ValueSeen(n, hosts, call, a)
      BY <2>1, <2>2 DEF ValueSeen
    <2>4. View(n, hosts', call', a) = View(n, hosts, call, a)
      BY <2>3, Zenon DEF View
    <2> QED
      BY <1>1, <1>5, <2>1, <2>4 DEF CellsViewed
  <1>6. ASSUME NEW a \in Address, \A n \in mappings : ~Holds(n, a)
        PROVE  Memory'[a] = Memory[a]
    <2>1. \A x \in mappings' : ~Holds(x, a)
      <3> SUFFICES ASSUME NEW x \in mappings', Holds(x, a) PROVE FALSE
        OBVIOUS
      <3>1. x = k \/ x \in mappings
        BY DEF StoreEffect
      <3> QED
        BY <1>2, <1>6, <3>1 DEF Holds
    <2> QED
      BY <1>1, <1>6, <2>1 DEF CellsViewed
  <1>7. \A a \in Address : Memory'[a] = Memory[a]
    BY <1>4, <1>5, <1>6
  <1> QED
    BY <1>7, SameMemory

LEMMA WriteCopyFlat ==
    ASSUME IInv, AInv, IInv', writeCopy
    PROVE  UNCHANGED Flat!fvars \/ Flat!Abort
  <1>1. /\ call.op = "write" /\ call.phase = "copy" /\ Active /\ Committed /\ CallType
        /\ Unshared(mappings) /\ Len(call.data) = call.size
    BY DEF writeCopy, Active, Committed, AInv, IInv, CallProgress
  <1>2. CASE Fault
    BY <1>1, <1>2, CopyFinds DEF Fault, FindThrows, Found, CopyNeverFaults
  <1>3. ASSUME NEW m \in mappings, Found(m), Crash(m)
        PROVE  Flat!Abort
    BY <1>1, <1>3, CrashFlat
  <1>4. ASSUME NEW m \in mappings, Found(m), HasBacking(m), StoreChunk(m, hosts, Chunk(m)),
               \/ /\ Chunk(m) = Remaining
                  /\ BumpVersion(call.exec)
                  /\ Finish("success", << >>)
               \/ /\ Chunk(m) < Remaining
                  /\ call' = [call EXCEPT !.done = @ + Chunk(m)]
                  /\ UNCHANGED <<executableVersion, result>>
        PROVE  UNCHANGED Flat!fvars
    <2>1. /\ Offset(m) \in Nat /\ Chunk(m) \in Nat /\ Remaining \in Nat /\ Chunk(m) <= Remaining
          /\ call.done \in Nat /\ call.size \in Nat /\ call.done + Remaining = call.size
      BY <1>1, <1>4, FoundFacts
    <2>2. /\ Cursor = call.address + call.done /\ call.address \in Nat /\ Cursor \in Nat
          /\ ChunkEnd(m) = Cursor + Chunk(m) /\ m.size \in Nat /\ m.base \in Nat
          /\ Cursor = m.base + Offset(m)
          /\ \A a \in Cursor .. ChunkEnd(m) - 1 : Holds(m, a)
      BY <1>1, <1>4, FoundChunk
    <2>3. ASSUME NEW i \in 0 .. m.size - 1, Offset(m) <= i, i < Offset(m) + Chunk(m)
          PROVE  Settled(m, hosts, i)
      <3> DEFINE a == m.base + i
      <3>1. /\ a \in Nat /\ a \in Cursor .. ChunkEnd(m) - 1 /\ a - m.base = i
            /\ a \in call.address .. call.address + call.size - 1
        BY <2>1, <2>2, <2>3
      <3> HIDE DEF a
      <3>2. CheckedTo(call) = call.address + call.size
        BY <1>1 DEF CheckedTo
      <3>a. a \in call.address .. CheckedTo(call) - 1
        BY <2>1, <2>2, <3>1, <3>2
      <3>3. PICK n \in mappings : Checked(call, n, hosts, a)
        BY <1>1, <3>a DEF AInv, RangeChecked
      <3>4. n = m
        BY <2>2, <3>1, <3>3, OneMappingPerAddress DEF Checked, Holds
      <3> QED
        BY <1>1, <3>1, <3>3, <3>4 DEF Checked
    <2>4. GoodMappings(mappings, hosts) /\ HostsType(hosts)
      BY DEF IInv
    <2>5. PICK k \in mappings' : Stores(m, k, hosts, Chunk(m))
      BY <1>1, <1>4, <2>1, <2>4, WriteStores
    <2>6. StoreEffect(m, k, Chunk(m))
      BY <1>1, <1>4, <2>1, <2>3, <2>5, StoreIsEffect
    <2>7. ChunkEnd(m) <= call.address + call.size
      BY <2>1, <2>2
    <2>8. Request = Flat!NoRequest /\ VisibleResult = [status |-> "success", data |-> << >>]
      BY <1>1 DEF Request, Flat!NoRequest, VisibleResult, Returned
    <2>9. executableVersion \in Nat /\ call.exec \in BOOLEAN
      BY <1>1 DEF IInv, CallType
    <2>10. CASE /\ Chunk(m) = Remaining
                /\ BumpVersion(call.exec)
                /\ Finish("success", << >>)
      <3>1. ~Committed' /\ Flat!Answer("success", << >>)
        BY <2>10, Answered
      <3>2. \A a \in Address : ~ShowsPayload(call', a)
        BY <3>1 DEF ShowsPayload, Committed
      <3>3. \A a \in Address : ~(ShowsPayload(call, a) /\ ~(Cursor <= a /\ a < ChunkEnd(m)))
        BY <2>1, <2>2, <2>10 DEF ShowsPayload
      <3>4. Memory' = Memory
        BY <1>1, <2>1, <2>2, <2>6, <2>7, <3>2, <3>3, CopiedMemory
      <3>5. VisibleVersion' = VisibleVersion
        <4>1. executableVersion' = executableVersion + (IF call.exec THEN 1 ELSE 0)
          BY <2>10 DEF BumpVersion
        <4>2. VisibleVersion = executableVersion + (IF call.exec THEN 1 ELSE 0)
          BY <1>1, <2>9 DEF VisibleVersion
        <4> QED
          BY <3>1, <4>1, <4>2, PlainVersion
      <3> QED
        BY <2>8, <3>1, <3>4, <3>5 DEF Flat!fvars, Flat!Answer
    <2>11. CASE /\ Chunk(m) < Remaining
                /\ call' = [call EXCEPT !.done = @ + Chunk(m)]
                /\ UNCHANGED <<executableVersion, result>>
      <3>1. /\ call'.op = call.op /\ call'.phase = call.phase /\ call'.address = call.address
            /\ call'.size = call.size /\ call'.data = call.data /\ call'.exec = call.exec
            /\ call'.done = call.done + Chunk(m)
        BY <1>1, <2>11 DEF CallType
      <3>2. Committed'
        BY <1>1, <3>1 DEF Committed
      <3>3. \A a \in Address :
             /\ ShowsPayload(call', a) <=> ShowsPayload(call, a) /\ ~(Cursor <= a /\ a < ChunkEnd(m))
             /\ ShowsPayload(call', a)
                  => call'.data[a - call'.address + 1] = call.data[a - call.address + 1]
        <4> SUFFICES ASSUME NEW a \in Address
                     PROVE  ShowsPayload(call', a) <=> ShowsPayload(call, a)
                                                       /\ ~(Cursor <= a /\ a < ChunkEnd(m))
          BY <3>1
        <4>1. call'.address + call'.done = ChunkEnd(m)
          BY <2>1, <2>2, <3>1
        <4>2. a \in Nat
          BY GeometryAssumption DEF Address
        <4>3. /\ call'.op = "write" /\ call'.phase = "copy"
              /\ call'.address + call'.size = call.address + call.size
          BY <1>1, <3>1
        <4>4. /\ call.address + call.done = Cursor /\ Cursor \in Nat /\ ChunkEnd(m) \in Nat
              /\ Cursor <= ChunkEnd(m)
          BY <2>1, <2>2
        <4>5. ShowsPayload(call', a) <=> ChunkEnd(m) <= a /\ a < call.address + call.size
          BY <4>1, <4>3 DEF ShowsPayload
        <4>6. ShowsPayload(call, a) <=> Cursor <= a /\ a < call.address + call.size
          BY <1>1, <4>4 DEF ShowsPayload
        <4> HIDE DEF ShowsPayload
        <4> QED
          BY <4>2, <4>4, <4>5, <4>6
      <3>4. Memory' = Memory
        BY <1>1, <2>1, <2>2, <2>6, <2>7, <3>3, CopiedMemory
      <3>5. VisibleVersion' = VisibleVersion
        BY <1>1, <2>11, <3>1, <3>2 DEF VisibleVersion
      <3>6. Request' = Flat!NoRequest /\ VisibleResult' = [status |-> "success", data |-> << >>]
        BY <3>2 DEF Request, Flat!NoRequest, VisibleResult, Returned
      <3> QED
        BY <2>8, <3>4, <3>5, <3>6 DEF Flat!fvars
    <2> QED
      BY <1>4, <2>10, <2>11
  <1> QED
    BY <1>2, <1>3, <1>4 DEF writeCopy

\* A direct byte access is a read or a write of one cell, or becomes one.
LEMMA DirectFlat ==
    ASSUME IInv, AInv, IInv', directAccess
    PROVE  [Flat!FNext]_(Flat!fvars)
  <1>1. /\ call.op = "direct" /\ Active /\ ~Committed /\ CallType /\ Unshared(mappings)
        /\ call.phase = "first" /\ call.done = 0 /\ call.size = 1
        /\ RequestedOp = IF "W" \in call.required THEN "write" ELSE "read"
        /\ "W" \notin call.required => call.data = << >>
        /\ "W" \in call.required => Len(call.data) = call.size
    BY DEF directAccess, Active, Committed, RequestedOp, AInv, CallShape, IInv, CallProgress
  <1>2. CASE Fault
    BY <1>1, <1>2, FaultFlat
  <1>3. ASSUME NEW m \in mappings, Found(m),
               call' = [call EXCEPT !.op = IF "W" \in call.required THEN "write" ELSE "read"],
               UNCHANGED <<mappings, hosts, result, executableVersion>>
        PROVE  UNCHANGED Flat!fvars
    <2>1. /\ call'.op = (IF "W" \in call.required THEN "write" ELSE "read")
          /\ call'.phase = "first" /\ call'.address = call.address /\ call'.size = call.size
          /\ call'.required = call.required /\ call'.data = call.data
      BY <1>1, <1>3 DEF CallType
    <2>2. ~Committed' /\ RequestedOp' = RequestedOp
      BY <1>1, <2>1 DEF Committed, RequestedOp
    <2>3. Request' = Request
      BY <1>1, <2>1, <2>2 DEF Request
    <2>4. Quiet
      BY <1>1, <1>3, <2>2 DEF Quiet, SeenSame
    <2> QED
      BY <1>3, <2>3, <2>4, QuietStutter
  <1>4. ASSUME NEW m \in mappings, Found(m)
        PROVE  /\ Offset(m) \in Nat /\ Chunk(m) = 1 /\ Remaining = 1 /\ Offset(m) + 1 <= m.size
               /\ call.address \in Nat /\ m.base \in Nat /\ m.size \in Nat
               /\ Cursor = call.address /\ Cursor = m.base + Offset(m) /\ Holds(m, Cursor)
               /\ hasPermission(m.permissions, call.required)
    <2>1. /\ Offset(m) \in Nat /\ Chunk(m) \in Nat \ {0} /\ Remaining \in Nat
          /\ Offset(m) + Chunk(m) <= m.size /\ Chunk(m) <= Remaining
          /\ call.done + Remaining = call.size
      BY <1>1, <1>4, FoundFacts
    <2>2. /\ call.address \in Nat /\ Cursor = call.address + call.done /\ m.base \in Nat
          /\ m.size \in Nat /\ Cursor = m.base + Offset(m) /\ Holds(m, Cursor)
          /\ hasPermission(m.permissions, call.required)
      BY <1>1, <1>4, FoundChunk
    <2> QED
      BY <1>1, <2>1, <2>2
  <1>5. ASSUME NEW m, directMemoryView(m, call.required)
        PROVE  /\ HasBacking(m) /\ ~IsSparse(m) /\ \A h, i : Settled(m, h, i)
               /\ "W" \in call.required => ~isExecutable(m.permissions)
    BY <1>5 DEF directMemoryView, HasBacking, Settled
  <1>6. ASSUME NEW m \in mappings, Found(m), directMemoryView(m, call.required),
               "W" \in call.required, StoreChunk(m, hosts, 1), Finish("success", << >>),
               executableVersion' = executableVersion
        PROVE  Flat!FNext
    <2>1. GoodMappings(mappings, hosts) /\ HostsType(hosts) /\ executableVersion \in Nat
      BY DEF IInv
    <2>2. Chunk(m) = 1 /\ Remaining = 1 /\ 1 <= Chunk(m) /\ 1 \in Nat /\ call.size = 1
      BY <1>1, <1>4, <1>6
    <2>3. PICK k \in mappings' : Stores(m, k, hosts, 1)
      BY <1>1, <1>5, <1>6, <2>1, <2>2, WriteStores
    <2>4. StoreEffect(m, k, call.size)
      BY <1>1, <1>5, <1>6, <2>2, <2>3, StoreIsEffect
    <2> QED
      BY <1>1, <1>5, <1>6, <2>1, <2>2, <2>4, StoreFlat
  <1>7. ASSUME NEW m \in mappings, Found(m), directMemoryView(m, call.required),
               "W" \notin call.required, Finish("success", Cells(m, hosts, Offset(m), 1)),
               UNCHANGED <<mappings, hosts, executableVersion>>
        PROVE  Flat!FNext
    <2> DEFINE read == Cells(m, hosts, Offset(m), 1)
    <2>1. /\ Offset(m) \in Nat /\ Offset(m) + 1 <= m.size /\ Cursor = call.address
          /\ Cursor = m.base + Offset(m) /\ Holds(m, Cursor) /\ call.address \in Nat
          /\ hasPermission(m.permissions, call.required) /\ m.base \in Nat
      BY <1>4, <1>7
    <2>2. Quiet
      BY <1>1, <1>7, Answered DEF Quiet, SeenSame
    <2>3. read \in Seq(Value)
      BY <1>7 DEF IInv, Finish, Returned
    <2>4. read[1] = Seen(m, hosts, Offset(m))
      <3>1. Cells(m, hosts, Offset(m), 1)[1] = Seen(m, hosts, Offset(m) + 1 - 1)
        BY <1>5, <1>7, <2>1, CellsSeen
      <3> QED
        BY <2>1, <3>1
    <2>5. Len(read) = call.size
      BY <1>1 DEF Cells
    <2> HIDE DEF read
    <2>6. ASSUME NEW a \in call.address .. call.address + call.size - 1
          PROVE  /\ Holds(m, a) /\ hasPermission(m.permissions, call.required)
                 /\ ReadableAt(m, a - m.base)
                 /\ read[a - call.address + 1] = Seen(m, hosts, a - m.base)
      <3>1. a = Cursor /\ a - m.base = Offset(m) /\ a - call.address + 1 = 1
        BY <1>1, <2>1
      <3> QED
        BY <1>5, <1>7, <2>1, <2>4, <3>1 DEF ReadableAt
    <2>7. Finish("success", read)
      BY <1>7 DEF read
    <2> QED
      BY <1>1, <1>7, <2>2, <2>3, <2>5, <2>6, <2>7, ReadAnswer
  <1> QED
    BY <1>2, <1>3, <1>6, <1>7 DEF directAccess

-----------------------------------------------------------------------------
(* Changes of mappings.                                                    *)

\* Addresses of one page lie in the same mappings.
LEMMA SamePage ==
    ASSUME NEW base \in Nat, NEW end \in Nat, base % PageSize = 0, end % PageSize = 0,
           NEW a \in Nat, NEW b \in Nat, Flat!Page(a) = Flat!Page(b), base <= a, a < end
    PROVE  base <= b /\ b < end
  <1> USE GeometryAssumption
  <1> DEFINE P == PageSize
             q == a \div PageSize
             s == base \div PageSize
             t == end \div PageSize
  <1>1. /\ a = P * q + (a % P) /\ a % P \in 0 .. P - 1 /\ q \in Nat
        /\ base = P * s + (base % P) /\ s \in Nat
        /\ end = P * t + (end % P) /\ t \in Nat
    BY DivMod
  <1>2. b = P * (b \div P) + (b % P) /\ b % P \in 0 .. P - 1
    BY DivMod
  <1>3. b \div P = q
    BY DEF Flat!Page
  <1> DEFINE x == a % P
             y == b % P
  <1>4. /\ a = P * q + x /\ x \in 0 .. P - 1 /\ b = P * q + y /\ y \in 0 .. P - 1
        /\ base = P * s /\ end = P * t /\ q \in Nat /\ s \in Nat /\ t \in Nat /\ P \in Nat \ {0}
    BY <1>1, <1>2, <1>3
  <1> HIDE DEF P, q, s, t, x, y
  <1>5. s <= q
    <2> SUFFICES ASSUME q + 1 <= s PROVE FALSE
      BY <1>4
    <2>1. P * (q + 1) <= P * s
      BY <1>4
    <2>2. P * (q + 1) = P * q + P
      BY <1>4
    <2> QED
      BY <1>4, <2>1, <2>2
  <1>6. q + 1 <= t
    <2> SUFFICES ASSUME t <= q PROVE FALSE
      BY <1>4
    <2>1. P * t <= P * q
      BY <1>4
    <2> QED
      BY <1>4, <2>1
  <1>7. P * s <= P * q
    BY <1>4, <1>5
  <1>8. P * (q + 1) <= P * t /\ P * (q + 1) = P * q + P
    BY <1>4, <1>6
  <1> QED
    BY <1>4, <1>7, <1>8

\* The pages between two boundaries are the cells between them.
LEMMA PagesBetween ==
    ASSUME NEW start \in Nat, NEW end \in Nat, start % PageSize = 0, end % PageSize = 0,
           start < end, end <= Limit
    PROVE  \E first, last \in Flat!Pages :
             /\ Flat!PagesOf(first, last) = {a \in Address : start <= a /\ a < end}
             /\ first * PageSize = start
  <1> USE GeometryAssumption
  <1> DEFINE P == PageSize
             first == start \div PageSize
             e == end - 1
             last == e \div PageSize
             t == end \div PageSize
  <1>1. start = P * first /\ first \in Nat /\ end = P * t /\ t \in Nat
    BY DivMod
  <1>2. e \in Nat /\ P \in Nat \ {0}
    OBVIOUS
  <1>3. e = P * last + (e % P) /\ e % P \in 0 .. P - 1 /\ last \in Nat
    BY <1>2, DivMod
  <1>4. ASSUME NEW a \in Nat
        PROVE  (first <= a \div P /\ a \div P <= last) <=> (start <= a /\ a < end)
    <2> DEFINE q == a \div P
               x == a % P
               y == e % P
    <2>1. a = P * q + x /\ x \in 0 .. P - 1 /\ q \in Nat
      BY <1>2, DivMod
    <2>2. e = P * last + y /\ y \in 0 .. P - 1 /\ last \in Nat /\ e = end - 1
      BY <1>3
    <2> HIDE DEF P, q, x, y, first, last, t, e
    <2>3. first <= q <=> start <= a
      <3>1. ASSUME first <= q PROVE start <= a
        <4>1. P * first <= P * q
          BY <1>1, <1>2, <2>1, <3>1
        <4> QED
          BY <1>1, <1>2, <2>1, <4>1
      <3>2. ASSUME q + 1 <= first PROVE a < start
        <4>1. P * (q + 1) <= P * first /\ P * (q + 1) = P * q + P
          BY <1>1, <1>2, <2>1, <3>2
        <4> QED
          BY <1>1, <1>2, <2>1, <4>1
      <3> QED
        BY <1>1, <2>1, <3>1, <3>2
    <2>4. q <= last <=> a < end
      <3>1. ASSUME q <= last PROVE a < end
        <4>1. last + 1 <= t
          <5> SUFFICES ASSUME t <= last PROVE FALSE
            BY <1>1, <2>2
          <5>1. P * t <= P * last
            BY <1>1, <1>2, <2>2
          <5> QED
            BY <1>1, <1>2, <2>2, <5>1
        <4>2. P * (last + 1) <= P * t /\ P * (last + 1) = P * last + P /\ P * q <= P * last
          BY <1>1, <1>2, <2>1, <2>2, <3>1, <4>1
        <4> QED
          BY <1>1, <1>2, <2>1, <2>2, <4>2
      <3>2. ASSUME last + 1 <= q PROVE end <= a
        <4>1. P * (last + 1) <= P * q /\ P * (last + 1) = P * last + P
          BY <1>2, <2>1, <2>2, <3>2
        <4> QED
          BY <1>1, <1>2, <2>1, <2>2, <4>1
      <3> QED
        BY <1>1, <2>1, <2>2, <3>1, <3>2
    <2> QED
      BY <2>3, <2>4 DEF q
  <1>5. first \in Flat!Pages /\ last \in Flat!Pages
    <2>1. start \in Flat!Addresses /\ e \in Flat!Addresses
      BY <1>2 DEF Flat!Addresses
    <2>2. first = Flat!Page(start) /\ last = Flat!Page(e)
      BY DEF Flat!Page
    <2> HIDE DEF first, last, e
    <2> QED
      BY <2>1, <2>2 DEF Flat!Pages
  <1>6. Flat!PagesOf(first, last) = {a \in Address : start <= a /\ a < end}
    <2>1. \A a \in Address : a \in Nat
      BY DEF Address
    <2> HIDE DEF first, last, e, t
    <2> QED
      BY <1>4, <2>1 DEF Flat!PagesOf, Flat!Addresses, Flat!Page, Address, P
  <1>7. first * PageSize = start
    BY <1>1, <1>2
  <1> QED
    BY <1>5, <1>6, <1>7

\* A part of a mapping shows the cells the mapping shows there.
LEMMA PieceShows ==
    ASSUME NEW m, NEW k, PieceOf(k, m), NEW h, NEW g, NEW a \in Nat, Holds(k, a),
           k.base \in Nat, k.size \in Nat, m.base \in Nat, m.fileDataOffset \in Nat,
           HasFile(k) => g[k.fileBytes] = h[k.fileBytes]
    PROVE  /\ HasBacking(k) = HasBacking(m)
           /\ ReadableFlag(k, a) = ReadableFlag(m, a)
           /\ Seen(k, g, a - k.base) = Seen(m, h, a - m.base)
  <1>1. /\ k.base <= a /\ a < k.base + k.size
        /\ k.fileBytes = m.fileBytes /\ k.fileDataOffset = m.fileDataOffset + (k.base - m.base)
        /\ k.lazyFileTransform = m.lazyFileTransform
        /\ k.bytes = SubVector(m.bytes, k.base - m.base, k.size)
        /\ k.readableBytes = SubVector(m.readableBytes, k.base - m.base, k.size)
    BY DEF PieceOf, Holds, End
  <1> DEFINE i == a - k.base
             j == a - m.base
             o == k.base - m.base
  <1>2. /\ i \in 0 .. k.size - 1 /\ o + i = j
        /\ k.fileDataOffset + i = m.fileDataOffset + j
    BY <1>1
  <1> HIDE DEF i, j, o
  <1>3. ASSUME NEW f
        PROVE  /\ SubVector(f, o, k.size) = Empty <=> f = Empty
               /\ f # Empty => SubVector(f, o, k.size)[i] = f[j]
    <2>1. CASE f = Empty
      BY <2>1 DEF SubVector
    <2>2. CASE f # Empty
      <3> DEFINE v == [x \in 0 .. k.size - 1 |-> f[o + x]]
      <3>1. SubVector(f, o, k.size) = v
        BY <2>2 DEF SubVector
      <3>2. v[i] = f[j] /\ i \in DOMAIN v
        BY <1>2
      <3> HIDE DEF v
      <3>3. v # Empty
        BY <3>2 DEF Empty
      <3> QED
        BY <2>2, <3>1, <3>2, <3>3
    <2> QED
      BY <2>1, <2>2
  <1>4. k.bytes = SubVector(m.bytes, o, k.size)
        /\ k.readableBytes = SubVector(m.readableBytes, o, k.size)
    BY <1>1 DEF o
  <1>5. HasFile(k) <=> HasFile(m)
    BY <1>1 DEF HasFile
  <1>6. HasBacking(k) = HasBacking(m)
    BY <1>3, <1>4, <1>5 DEF HasBacking
  <1>7. IF IsSparse(k) THEN IsSparse(m) /\ k.readableBytes[i] = m.readableBytes[j] ELSE ~IsSparse(m)
    BY <1>3, <1>4 DEF IsSparse
  <1>8. ReadableFlag(k, a) = ReadableFlag(m, a)
    BY <1>7 DEF ReadableFlag, i, j
  <1>9. Settled(k, g, i) <=> Settled(m, h, j)
    BY <1>1, <1>2, <1>5 DEF Settled
  <1>10. HasBacking(m) => Stored(k, g, i) = Stored(m, h, j)
    BY <1>1, <1>2, <1>3, <1>4, <1>5 DEF Stored, HasBacking
  <1>11. Seen(k, g, i) = Seen(m, h, j)
    BY <1>6, <1>9, <1>10 DEF Seen
  <1> QED
    BY <1>6, <1>8, <1>11 DEF i, j

\* The version moves when the executable cells do.
LEMMA VersionedBy ==
    ASSUME IInv, IInv', ~Committed, ~Committed', executableVersion' >= executableVersion,
           \/ executableVersion' > executableVersion
           \/ \A a \in Address : /\ Executable(Memory'[a]) <=> Executable(Memory[a])
                                 /\ Executable(Memory[a]) => Memory'[a].value = Memory[a].value
    PROVE  Flat!Versioned
  <1>1. VisibleVersion = executableVersion /\ VisibleVersion' = executableVersion'
    BY PlainVersion
  <1> QED
    BY <1>1, SameCode DEF Flat!Versioned

\* The facts about one mapping of the next state.
LEMMA NextMappingFacts ==
    ASSUME IInv'
    PROVE  /\ \A m \in mappings' : /\ m.base \in Nat /\ m.size \in Nat \ {0}
                                   /\ End(m) \in Nat /\ m.base < End(m) /\ End(m) <= Limit
                                   /\ End(m) = m.base + m.size
                                   /\ m.base % PageSize = 0 /\ End(m) % PageSize = 0
           /\ \A m, n \in mappings' : m # n => End(m) <= n.base \/ End(n) <= m.base
  <1>1. \A m \in mappings' : /\ m.base \in Nat /\ m.size \in Nat \ {0}
                             /\ End(m) \in Nat /\ m.base < End(m) /\ End(m) <= Limit
                             /\ End(m) = m.base + m.size
                             /\ m.base % PageSize = 0 /\ m.size % PageSize = 0
    BY GeometryAssumption
       DEF IInv, GoodMappings, GoodMapping, MappingType, WellPlaced, Address, End
  <1>2. \A m \in mappings' : End(m) % PageSize = 0
    BY <1>1, AlignedDistance
  <1>3. \A m, n \in mappings' : m # n => End(m) <= n.base \/ End(n) <= m.base
    BY DEF IInv, GoodMappings, Apart
  <1> QED
    BY <1>1, <1>2, <1>3

\* A map call maps whole unmapped pages.
LEMMA MapFlat ==
    ASSUME IInv, IInv', NEW T, Adds(T)
    PROVE  Flat!FNext
  <1>1. ~Committed /\ Request = Flat!NoRequest /\ ~Committed' /\ Flat!Answer("success", << >>)
    BY IdleRequest, Answered DEF Adds
  <1>2. CellsViewed /\ CellsViewed'
    BY Viewed, ViewedNext
  <1>3. \A a \in Address : a \in Nat
    BY GeometryAssumption DEF Address
  <1>4. ASSUME NEW a \in Address, NEW m \in mappings, Holds(m, a)
        PROVE  Memory'[a] = Memory[a]
    <2>1. m \in mappings' /\ (HasFile(m) => hosts'[m.fileBytes] = hosts[m.fileBytes])
      BY DEF Adds
    <2>2. Seen(m, hosts', a - m.base) = Seen(m, hosts, a - m.base)
      BY <2>1 DEF Seen, Settled, Stored
    <2>3. ValueSeen(m, hosts', call', a) = ValueSeen(m, hosts, call, a)
      BY <1>1, <2>2, NoPayload, NoPayloadNext
    <2>4. View(m, hosts', call', a) = View(m, hosts, call, a)
      BY <2>3, Zenon DEF View
    <2> QED
      BY <1>2, <1>4, <2>1, <2>4 DEF CellsViewed
  <1>5. ASSUME NEW a \in Address, \A m \in mappings : ~Holds(m, a), NEW k \in mappings', Holds(k, a)
        PROVE  /\ ~Memory[a].mapped /\ Memory'[a].mapped
               /\ Memory'[a].permissions = k.permissions
               /\ Memory'[a].maximum = k.maximumPermissions
               /\ Memory'[a] # Memory[a]
    <2>1. Memory[a] = Nowhere /\ Memory'[a] = View(k, hosts', call', a)
      BY <1>2, <1>5 DEF CellsViewed
    <2>2. ~Memory[a].mapped
      BY <2>1 DEF Nowhere
    <2>3. /\ Memory'[a].mapped /\ Memory'[a].permissions = k.permissions
          /\ Memory'[a].maximum = k.maximumPermissions
      BY <2>1, ViewFields
    <2> QED
      BY <2>2, <2>3
  <1>6. ASSUME NEW a \in Address, \A k \in mappings' : ~Holds(k, a)
        PROVE  Memory'[a] = Memory[a]
    <2>1. \A m \in mappings : ~Holds(m, a)
      BY <1>6 DEF Adds
    <2> QED
      BY <1>2, <1>6, <2>1 DEF CellsViewed
  <1> DEFINE range == {a \in Flat!Addresses : Memory'[a] # Memory[a]}
  <1>7. ASSUME NEW a \in range
        PROVE  /\ a \in Address /\ \A m \in mappings : ~Holds(m, a)
               /\ \E k \in T : k \in mappings' /\ k \notin mappings /\ Holds(k, a)
    <2>1. a \in Address /\ Memory'[a] # Memory[a]
      BY DEF Flat!Addresses, Address
    <2>2. \A m \in mappings : ~Holds(m, a)
      BY <1>4, <2>1
    <2>3. PICK k \in mappings' : Holds(k, a)
      BY <1>6, <2>1
    <2>4. k \in T /\ k \notin mappings
      BY <2>2, <2>3 DEF Adds
    <2> QED
      BY <2>1, <2>2, <2>3, <2>4
  <1>8. ASSUME NEW a \in range
        PROVE  /\ ~Memory[a].mapped /\ Memory'[a].mapped
               /\ Memory'[a].permissions \subseteq Memory'[a].maximum
    <2>1. PICK k \in T : k \in mappings' /\ Holds(k, a)
      BY <1>7
    <2>2. k.permissions \subseteq k.maximumPermissions
      BY DEF Adds
    <2> QED
      BY <1>5, <1>7, <2>1, <2>2
  <1>9. ASSUME NEW a \in range, NEW b \in Flat!Addresses, Flat!Page(a) = Flat!Page(b)
        PROVE  b \in range
    <2>1. a \in Address /\ b \in Address /\ a \in Nat /\ b \in Nat
      BY <1>3, <1>7 DEF Flat!Addresses, Address
    <2>2. PICK k \in mappings' : k \notin mappings /\ Holds(k, a)
      BY <1>7
    <2>3. /\ k.base \in Nat /\ End(k) \in Nat /\ k.base % PageSize = 0 /\ End(k) % PageSize = 0
      BY NextMappingFacts
    <2>4. k.base <= b /\ b < End(k)
      BY <1>9, <2>1, <2>2, <2>3, SamePage DEF Holds
    <2>5. ASSUME NEW m \in mappings, Holds(m, b) PROVE FALSE
      <3>1. m \in mappings' /\ m # k
        BY <2>2 DEF Adds
      <3>2. /\ End(m) <= k.base \/ End(k) <= m.base
            /\ End(m) \in Nat /\ m.base \in Nat
        BY <3>1, NextMappingFacts
      <3> QED
        BY <2>1, <2>3, <2>4, <2>5, <3>2 DEF Holds
    <2>6. Holds(k, b)
      BY <2>4 DEF Holds
    <2>7. Memory'[b] # Memory[b]
      BY <1>5, <2>1, <2>2, <2>5, <2>6
    <2> QED
      BY <2>7
  <1>10. Flat!Versioned
    <2>1. executableVersion' >= executableVersion
      BY DEF Adds
    <2>2. CASE \E k \in T : isExecutable(k.permissions)
      <3>1. executableVersion' > executableVersion
        BY <2>2 DEF Adds
      <3> QED
        BY <1>1, <2>1, <3>1, VersionedBy
    <2>3. CASE ~ \E k \in T : isExecutable(k.permissions)
      <3>1. ASSUME NEW a \in Address
            PROVE  /\ Executable(Memory'[a]) <=> Executable(Memory[a])
                   /\ Executable(Memory[a]) => Memory'[a].value = Memory[a].value
        <4>1. CASE Memory'[a] = Memory[a]
          BY <4>1
        <4>2. CASE Memory'[a] # Memory[a]
          <5>1. a \in range
            BY <4>2 DEF Flat!Addresses, Address
          <5>2. PICK k \in T : k \in mappings' /\ Holds(k, a)
            BY <1>7, <5>1
          <5>3. ~Memory[a].mapped /\ Memory'[a].permissions = k.permissions
            BY <1>5, <1>7, <5>1, <5>2
          <5>4. "X" \notin k.permissions
            BY <2>3 DEF isExecutable, hasPermission
          <5> QED
            BY <5>3, <5>4 DEF Executable
        <4> QED
          BY <4>1, <4>2
      <3> QED
        BY <1>1, <2>1, <3>1, VersionedBy
    <2> QED
      BY <2>2, <2>3
  <1> QED
    BY <1>1, <1>8, <1>9, <1>10 DEF Flat!Map, Flat!IsMapped, Flat!FNext

-----------------------------------------------------------------------------
(* Protect and deallocate.                                                 *)

\* A cell of a piece shows what it showed, but for the permissions.
LEMMA PieceCell ==
    ASSUME IInv, IInv', ~Committed, ~Committed', NEW m \in mappings, NEW k \in mappings',
           PieceOf(k, m), HasFile(k) => hosts'[k.fileBytes] = hosts[k.fileBytes],
           NEW a \in Address, Holds(k, a)
    PROVE  /\ Holds(m, a)
           /\ Memory[a] = View(m, hosts, call, a)
           /\ Memory'[a] = [mapped |-> TRUE, permissions |-> k.permissions,
                            maximum |-> k.maximumPermissions, backed |-> HasBacking(m),
                            value |-> ValueSeen(m, hosts, call, a),
                            readable |-> ReadableFlag(m, a)]
  <1>1. CellsViewed /\ CellsViewed'
    BY Viewed, ViewedNext
  <1>2. /\ k.base \in Nat /\ k.size \in Nat /\ m.base \in Nat /\ m.fileDataOffset \in Nat
        /\ End(k) \in Nat /\ End(m) \in Nat /\ a \in Nat
    BY MappingFacts, NextMappingFacts, GeometryAssumption, SMTT(60)
       DEF IInv, GoodMappings, GoodMapping, MappingType, Address
  <1>3. Holds(m, a)
    BY <1>2 DEF Holds, PieceOf
  <1>4. /\ HasBacking(k) = HasBacking(m)
        /\ ReadableFlag(k, a) = ReadableFlag(m, a)
        /\ Seen(k, hosts', a - k.base) = Seen(m, hosts, a - m.base)
    <2> DEFINE h == hosts
               g == hosts'
    <2>1. HasFile(k) => g[k.fileBytes] = h[k.fileBytes]
      OBVIOUS
    <2> HIDE DEF g, h
    <2>2. /\ HasBacking(k) = HasBacking(m)
          /\ ReadableFlag(k, a) = ReadableFlag(m, a)
          /\ Seen(k, g, a - k.base) = Seen(m, h, a - m.base)
      BY <1>2, <2>1, PieceShows
    <2> QED
      BY <2>2 DEF g, h
  <1>5. ValueSeen(k, hosts', call', a) = ValueSeen(m, hosts, call, a)
    BY <1>4, NoPayload, NoPayloadNext
  <1>6. Memory[a] = View(m, hosts, call, a) /\ Memory'[a] = View(k, hosts', call', a)
    BY <1>1, <1>3 DEF CellsViewed
  <1> QED
    BY <1>3, <1>4, <1>5, <1>6, Zenon DEF View

\* A piece with the permissions of its mapping shows the same cell.
LEMMA PieceSame ==
    ASSUME IInv, IInv', ~Committed, ~Committed', NEW m \in mappings, NEW k \in mappings',
           PieceOf(k, m), HasFile(k) => hosts'[k.fileBytes] = hosts[k.fileBytes],
           k.permissions = m.permissions, k.maximumPermissions = m.maximumPermissions,
           NEW a \in Address, Holds(k, a)
    PROVE  Memory'[a] = Memory[a]
  BY PieceCell, Zenon DEF View

\* A cell before and after its protection was changed.
Protected(c, d, p, copy) ==
    /\ c.mapped /\ d.mapped /\ d.permissions = p
    /\ copy \/ p \subseteq c.maximum
    /\ d = [c EXCEPT !.permissions = p, !.maximum = IF copy THEN p ELSE @]
    /\ d.value = c.value

\* What protect does to the cells of its range and to the others.
LEMMA ProtectCells ==
    ASSUME IInv, IInv', NEW start, NEW end, NEW p, NEW copy \in BOOLEAN,
           Protects(start, end, p, copy)
    PROVE  /\ \A a \in Address : ~(start <= a /\ a < end) => Memory'[a] = Memory[a]
           /\ \A a \in Address : start <= a /\ a < end =>
               /\ Protected(Memory[a], Memory'[a], p, copy)
               /\ \E m \in mappings : Holds(m, a) /\ Memory[a].permissions = m.permissions
  <1>1. ~Committed /\ Request = Flat!NoRequest /\ ~Committed' /\ Flat!Answer("success", << >>)
    BY IdleRequest, Answered DEF Protects
  <1>2. CellsViewed /\ CellsViewed'
    BY Viewed, ViewedNext
  <1>3. \A a \in Address : a \in Nat
    BY GeometryAssumption DEF Address
  <1>4. /\ start \in Nat /\ end \in Nat /\ start % PageSize = 0 /\ end % PageSize = 0
        /\ start < end /\ end <= Limit /\ hosts' = hosts
    BY DEF Protects
  <1> DEFINE range == {a \in Address : start <= a /\ a < end}
  <1>5. \A a \in range : a \in start .. end - 1 /\ a \in Address
    BY <1>3, <1>4
  <1>6. ASSUME NEW a \in Address, a \notin range
        PROVE  Memory'[a] = Memory[a]
    <2>1. CASE \E k \in mappings' : Holds(k, a)
      <3>1. PICK k \in mappings' : Holds(k, a)
        BY <2>1
      <3>2. ~(start <= k.base /\ End(k) <= end)
        BY <1>3, <1>4, <1>6, <3>1, NextMappingFacts DEF Holds
      <3>3. PICK m \in mappings : /\ PieceOf(k, m) /\ k.permissions = m.permissions
                                  /\ k.maximumPermissions = m.maximumPermissions
        BY <3>2 DEF Protects
      <3> QED
        BY <1>1, <1>4, <3>1, <3>3, PieceSame
    <2>2. CASE \A k \in mappings' : ~Holds(k, a)
      <3>1. \A m \in mappings : ~Holds(m, a)
        BY <1>3, <2>2 DEF Protects
      <3> QED
        BY <1>2, <2>2, <3>1 DEF CellsViewed
    <2> QED
      BY <2>1, <2>2
  <1>7. ASSUME NEW a \in range
        PROVE  /\ Memory[a].mapped /\ Memory'[a].mapped /\ Memory'[a].permissions = p
               /\ copy \/ p \subseteq Memory[a].maximum
               /\ Memory'[a] = [Memory[a] EXCEPT !.permissions = p,
                                                 !.maximum = IF copy THEN p ELSE @]
               /\ Memory'[a].value = Memory[a].value
               /\ \E m \in mappings : Holds(m, a) /\ Memory[a].permissions = m.permissions
    <2>1. a \in Address /\ a \in Nat /\ start <= a /\ a < end
      BY <1>3
    <2>2. PICK n \in mappings : Holds(n, a) /\ (copy \/ p \subseteq n.maximumPermissions)
      BY <1>5 DEF Protects
    <2>3. PICK k \in mappings' : Holds(k, a)
      BY <2>1, <2>2 DEF Protects
    <2>4. ~(End(k) <= start \/ end <= k.base)
      BY <1>4, <2>1, <2>3, NextMappingFacts DEF Holds
    <2>5. PICK m \in mappings :
            /\ PieceOf(k, m) /\ k.permissions = p
            /\ k.maximumPermissions = IF copy THEN p ELSE m.maximumPermissions
      BY <2>4 DEF Protects
    <2> DEFINE t == TRUE
               b == HasBacking(m)
               x == ValueSeen(m, hosts, call, a)
               r == ReadableFlag(m, a)
               q == m.maximumPermissions
               u == k.maximumPermissions
               v == Memory[a]
               w == Memory'[a]
    <2>6. /\ Holds(m, a)
          /\ v = View(m, hosts, call, a)
          /\ w = [mapped |-> t, permissions |-> k.permissions, maximum |-> u, backed |-> b,
                  value |-> x, readable |-> r]
      BY <1>1, <1>4, <2>1, <2>3, <2>5, PieceCell, Zenon
    <2>7. v = [mapped |-> t, permissions |-> m.permissions, maximum |-> q, backed |-> b,
               value |-> x, readable |-> r]
      BY <2>6, Zenon DEF View
    <2>8. m = n
      BY <2>1, <2>2, <2>6, OneMappingPerAddress DEF Holds
    <2>9. u = (IF copy THEN p ELSE q) /\ (copy \/ p \subseteq q) /\ k.permissions = p
      BY <2>2, <2>5, <2>8
    <2>10. t
      OBVIOUS
    <2> HIDE DEF t, b, x, r, q, u, v, w
    <2>11. w = [mapped |-> t, permissions |-> p, maximum |-> u, backed |-> b, value |-> x,
                readable |-> r]
      BY <2>6, <2>9
    <2>12. w = [v EXCEPT !.permissions = p, !.maximum = IF copy THEN p ELSE @]
      <3>1. u = IF copy THEN p ELSE v.maximum
        BY <2>7, <2>9
      <3>2. [v EXCEPT !.permissions = p, !.maximum = IF copy THEN p ELSE @]
              = [v EXCEPT !.permissions = p, !.maximum = u]
        BY <3>1
      <3> DEFINE y == [v EXCEPT !.permissions = p]
      <3>3. y = [mapped |-> t, permissions |-> p, maximum |-> q, backed |-> b, value |-> x,
                 readable |-> r]
        BY <2>7
      <3>4. [v EXCEPT !.permissions = p, !.maximum = u] = [y EXCEPT !.maximum = u]
        OBVIOUS
      <3> HIDE DEF y
      <3>5. [y EXCEPT !.maximum = u] = w
        BY <2>11, <3>3
      <3> QED
        BY <3>2, <3>4, <3>5
    <2>13. /\ v.mapped = t /\ v.permissions = m.permissions /\ v.maximum = q /\ v.value = x
           /\ w.mapped = t /\ w.permissions = p /\ w.value = x
      BY <2>7, <2>11
    <2>14. v.mapped /\ w.mapped
      BY <2>10, <2>13, Zenon
    <2> QED
      BY <2>6, <2>9, <2>12, <2>13, <2>14 DEF v, w
  <1>8. \A a \in range : Protected(Memory[a], Memory'[a], p, copy)
    BY <1>7, Zenon DEF Protected
  <1> QED
    BY <1>6, <1>7, <1>8

LEMMA ProtectFlat ==
    ASSUME IInv, IInv', NEW start, NEW end, NEW p, NEW copy \in BOOLEAN,
           Protects(start, end, p, copy)
    PROVE  Flat!Protect
  <1>1. ~Committed /\ Request = Flat!NoRequest /\ ~Committed' /\ Flat!Answer("success", << >>)
    BY IdleRequest, Answered DEF Protects
  <1>2. CellsViewed /\ CellsViewed'
    BY Viewed, ViewedNext
  <1>3. \A a \in Address : a \in Nat
    BY GeometryAssumption DEF Address
  <1>4. /\ start \in Nat /\ end \in Nat /\ start % PageSize = 0 /\ end % PageSize = 0
        /\ start < end /\ end <= Limit /\ hosts' = hosts
    BY DEF Protects
  <1> DEFINE range == {a \in Address : start <= a /\ a < end}
  <1>5. \A a \in range : a \in start .. end - 1 /\ a \in Address
    BY <1>3, <1>4
  <1>a. /\ \A a \in Address : ~(start <= a /\ a < end) => Memory'[a] = Memory[a]
        /\ \A a \in Address : start <= a /\ a < end =>
             /\ Protected(Memory[a], Memory'[a], p, copy)
             /\ \E m \in mappings : Holds(m, a) /\ Memory[a].permissions = m.permissions
    BY ProtectCells
  <1>6. ASSUME NEW a \in Address, a \notin range
        PROVE  Memory'[a] = Memory[a]
    BY <1>6, <1>a
  <1>7. ASSUME NEW a \in range
        PROVE  /\ Memory[a].mapped /\ Memory'[a].mapped /\ Memory'[a].permissions = p
               /\ copy \/ p \subseteq Memory[a].maximum
               /\ Memory'[a] = [Memory[a] EXCEPT !.permissions = p,
                                                 !.maximum = IF copy THEN p ELSE @]
               /\ Memory'[a].value = Memory[a].value
               /\ \E m \in mappings : Holds(m, a) /\ Memory[a].permissions = m.permissions
    <2>1. a \in Address /\ start <= a /\ a < end
      OBVIOUS
    <2> QED
      BY <1>a, <2>1, Zenon DEF Protected
  <1>8. Flat!Versioned
    <2>1. executableVersion' >= executableVersion
      BY DEF Protects
    <2>2. CASE executableVersion' > executableVersion
      BY <1>1, <2>1, <2>2, VersionedBy
    <2>3. CASE ~(executableVersion' > executableVersion)
      <3>1. /\ "X" \notin p
            /\ \A m \in mappings, a \in start .. end - 1 : Holds(m, a) => "X" \notin m.permissions
        BY <2>3 DEF Protects, isExecutable, hasPermission
      <3>2. ASSUME NEW a \in Address
            PROVE  /\ Executable(Memory'[a]) <=> Executable(Memory[a])
                   /\ Executable(Memory[a]) => Memory'[a].value = Memory[a].value
        <4>1. CASE a \in range
          BY <1>5, <1>7, <3>1, <4>1 DEF Executable
        <4>2. CASE a \notin range
          BY <1>6, <4>2
        <4> QED
          BY <4>1, <4>2
      <3> QED
        BY <1>1, <2>1, <3>2, VersionedBy
    <2> QED
      BY <2>2, <2>3
  <1>9. PICK first, last \in Flat!Pages :
          Flat!PagesOf(first, last) = range /\ first * PageSize = start
    BY <1>4, PagesBetween
  <1>10. start \in range
    BY <1>4, GeometryAssumption DEF Address
  <1>11. Memory'[first * PageSize].permissions = p
    BY <1>7, <1>9, <1>10
  <1> HIDE DEF range
  <1> DEFINE f == [a \in range |-> [Memory[a] EXCEPT !.permissions = p,
                                                    !.maximum = IF copy THEN p ELSE @]]
  <1>12. \A a \in range : f[a] = Memory'[a]
    BY <1>7
  <1> HIDE DEF f
  <1>13. Memory' = [a \in Address |-> IF a \in range THEN f[a] ELSE Memory[a]]
    <2>1. Memory' = [a \in Address |-> Memory'[a]]
      BY <1>2 DEF CellsViewed
    <2>2. \A a \in Address : Memory'[a] = IF a \in range THEN f[a] ELSE Memory[a]
      BY <1>6, <1>12
    <2> QED
      BY <2>1, <2>2
  <1>14. Flat!ChangeCells(range, f)
    BY <1>13 DEF Flat!ChangeCells, Flat!Addresses, Address
  <1>15. /\ range # {}
         /\ \A a \in range : Flat!IsMapped(a) /\ Memory'[a].mapped
         /\ \A a \in range : copy \/ p \subseteq Memory[a].maximum
    BY <1>7, <1>10 DEF Flat!IsMapped
  <1> QED
    BY <1>1, <1>8, <1>9, <1>11, <1>14, <1>15 DEF Flat!Protect, f

LEMMA DeallocateFlat ==
    ASSUME IInv, IInv', NEW start, NEW end, Deallocates(start, end)
    PROVE  Flat!Deallocate
  <1>1. ~Committed /\ Request = Flat!NoRequest /\ ~Committed' /\ Flat!Answer("success", << >>)
    BY IdleRequest, Answered DEF Deallocates
  <1>2. CellsViewed /\ CellsViewed'
    BY Viewed, ViewedNext
  <1>3. \A a \in Address : a \in Nat
    BY GeometryAssumption DEF Address
  <1>4. /\ start \in Nat /\ end \in Nat /\ start % PageSize = 0 /\ end % PageSize = 0
        /\ start < end /\ end <= Limit
    BY DEF Deallocates
  <1> DEFINE range == {a \in Address : start <= a /\ a < end}
  <1>5. ASSUME NEW a \in Address, a \notin range
        PROVE  Memory'[a] = Memory[a]
    <2>1. CASE \E k \in mappings' : Holds(k, a)
      <3>1. PICK k \in mappings' : Holds(k, a)
        BY <2>1
      <3>2. PICK m \in mappings : /\ PieceOf(k, m) /\ k.permissions = m.permissions
                                  /\ k.maximumPermissions = m.maximumPermissions
        BY DEF Deallocates
      <3>3. HasFile(k) => hosts'[k.fileBytes] = hosts[k.fileBytes]
        BY DEF Deallocates
      <3> QED
        BY <1>1, <3>1, <3>2, <3>3, PieceSame
    <2>2. CASE \A k \in mappings' : ~Holds(k, a)
      <3>1. \A m \in mappings : ~Holds(m, a)
        BY <1>3, <1>5, <2>2 DEF Deallocates
      <3> QED
        BY <1>2, <2>2, <3>1 DEF CellsViewed
    <2> QED
      BY <2>1, <2>2
  <1>6. ASSUME NEW a \in range
        PROVE  Memory'[a] = Nowhere
    <2>1. ASSUME NEW k \in mappings', Holds(k, a) PROVE FALSE
      <3>1. End(k) <= start \/ end <= k.base
        BY DEF Deallocates
      <3> QED
        BY <1>3, <1>4, <2>1, <3>1, NextMappingFacts DEF Holds
    <2> QED
      BY <1>2, <2>1 DEF CellsViewed
  <1>7. Flat!Versioned
    <2>1. executableVersion' >= executableVersion
      BY DEF Deallocates
    <2>2. CASE executableVersion' > executableVersion
      BY <1>1, <2>1, <2>2, VersionedBy
    <2>3. CASE ~(executableVersion' > executableVersion)
      <3>1. \A m \in mappings, a \in start .. end - 1 : Holds(m, a) => "X" \notin m.permissions
        BY <2>3 DEF Deallocates, isExecutable, hasPermission
      <3>2. ASSUME NEW a \in Address
            PROVE  /\ Executable(Memory'[a]) <=> Executable(Memory[a])
                   /\ Executable(Memory[a]) => Memory'[a].value = Memory[a].value
        <4>1. CASE a \in range
          <5>1. ~Executable(Memory'[a])
            BY <1>6, <4>1 DEF Executable, Nowhere
          <5>2. a \in start .. end - 1
            BY <1>3, <1>4, <4>1
          <5>3. CASE \E m \in mappings : Holds(m, a)
            <6>1. PICK m \in mappings : Holds(m, a)
              BY <5>3
            <6>2. Memory[a].permissions = m.permissions
              BY <1>1, <6>1, CellFacts
            <6> QED
              BY <3>1, <5>1, <5>2, <6>1, <6>2 DEF Executable
          <5>4. CASE \A m \in mappings : ~Holds(m, a)
            <6>1. Memory[a] = Nowhere
              BY <1>2, <5>4 DEF CellsViewed
            <6> QED
              BY <5>1, <6>1 DEF Executable, Nowhere
          <5> QED
            BY <5>3, <5>4
        <4>2. CASE a \notin range
          BY <1>5, <4>2
        <4> QED
          BY <4>1, <4>2
      <3> QED
        BY <1>1, <2>1, <3>2, VersionedBy
    <2> QED
      BY <2>2, <2>3
  <1>8. PICK first, last \in Flat!Pages : Flat!PagesOf(first, last) = range
    BY <1>4, PagesBetween
  <1> HIDE DEF range
  <1>9. range \subseteq Address
    BY DEF range
  <1> DEFINE f == [a \in Address |-> Nowhere]
  <1>10. Memory' = [a \in Address |-> IF a \in range THEN f[a] ELSE Memory[a]]
    <2>1. Memory' = [a \in Address |-> Memory'[a]]
      BY <1>2 DEF CellsViewed
    <2>2. \A a \in Address : Memory'[a] = IF a \in range THEN f[a] ELSE Memory[a]
      BY <1>5, <1>6
    <2> HIDE DEF f
    <2> QED
      BY <2>1, <2>2
  <1>11. Flat!ChangeCells(Flat!PagesOf(first, last), [a \in Flat!Addresses |-> Flat!Unmapped])
    BY <1>8, <1>10 DEF Flat!ChangeCells, Flat!Addresses, Flat!Unmapped, Address, Nowhere
  <1> QED
    BY <1>1, <1>7, <1>11 DEF Flat!Deallocate

-----------------------------------------------------------------------------
(* The refinement.                                                         *)

LEMMA StutterFlat ==
    ASSUME IInv, IInv', UNCHANGED vars
    PROVE  UNCHANGED Flat!fvars
  <1>1. /\ mappings' = mappings /\ hosts' = hosts /\ call' = call /\ result' = result
        /\ executableVersion' = executableVersion
    BY DEF vars
  <1>2. CellsViewed /\ CellsViewed'
    BY Viewed, ViewedNext
  <1>3. ASSUME NEW a \in Address PROVE Memory'[a] = Memory[a]
    <2>1. CASE \E m \in mappings : Holds(m, a)
      BY <1>1, <1>2, <2>1 DEF CellsViewed
    <2>2. CASE \A m \in mappings : ~Holds(m, a)
      BY <1>1, <1>2, <2>2 DEF CellsViewed
    <2> QED
      BY <2>1, <2>2
  <1>4. Memory' = Memory
    BY <1>3, SameMemory
  <1>5. VisibleVersion' = VisibleVersion /\ Request' = Request /\ VisibleResult' = VisibleResult
    BY <1>1 DEF VisibleVersion, Request, RequestedOp, VisibleResult, Committed
  <1> QED
    BY <1>4, <1>5 DEF Flat!fvars

\* Every step of the address space is a step of the flat memory, or leaves it alone.
LEMMA NextFlat == IInv /\ AInv /\ [Next]_vars => [Flat!FNext]_(Flat!fvars)
  <1> SUFFICES ASSUME IInv, AInv, [Next]_vars PROVE [Flat!FNext]_(Flat!fvars)
    OBVIOUS
  <1>1. IInv' /\ AInv'
    BY NextKeeps, NextAInv
  <1>2. CASE MapNext
    <2>1. ASSUME NEW T, Adds(T) PROVE Flat!FNext
      BY <1>1, <2>1, MapFlat
    <2>2. CASE Idle /\ Rejected
      BY <1>1, <2>2, RefuseFlat DEF Rejected, Flat!FNext
    <2> QED
      BY <1>2, <2>1, <2>2, MapEffect
  <1>3. CASE ChangeNext
    <2>1. ASSUME NEW start, NEW end, NEW p, NEW copy \in BOOLEAN, Protects(start, end, p, copy)
          PROVE  Flat!FNext
      BY <1>1, <2>1, ProtectFlat DEF Flat!FNext
    <2>2. ASSUME NEW start, NEW end, Deallocates(start, end) PROVE Flat!FNext
      BY <1>1, <2>2, DeallocateFlat DEF Flat!FNext
    <2>3. ASSUME Idle, NEW status \in {"success", "invalidArgument", "invalidAddress",
                                       "protectionFailure"}, Unchanged(status)
          PROVE  Flat!FNext
      BY <1>1, <2>3, RefuseFlat DEF Flat!FNext
    <2> QED
      BY <1>3, <2>1, <2>2, <2>3, ChangeEffect
  <1>4. CASE BeginNext
    <2>1. ASSUME NEW op \in {"read", "validate", "write", "fetch", "direct"}, NEW address,
                 NEW size, NEW required, NEW data, begin(op, address, size, required, data)
          PROVE  Flat!FNext
      BY <1>1, <2>1, BeginFlat DEF Flat!FNext
    <2>2. \A address, n : begin("read", address, n, {"R"}, << >>) => Flat!FNext
      BY <2>1
    <2>3. \A address, n, r : begin("validate", address, n, {r}, << >>) => Flat!FNext
      BY <2>1
    <2>4. \A address, n, data : begin("write", address, n, {"W"}, data) => Flat!FNext
      BY <2>1
    <2>5. \A address : begin("fetch", address, 1, {"X"}, << >>) => Flat!FNext
      BY <2>1
    <2>6. \A address : begin("direct", address, 1, {"R"}, << >>) => Flat!FNext
      BY <2>1
    <2>7. \A address, data : begin("direct", address, 1, {"W"}, data) => Flat!FNext
      BY <2>1
    <2> QED
      BY <1>4, <2>2, <2>3, <2>4, <2>5, <2>6, <2>7, Zenon DEF BeginNext
  <1>5. CASE StepNext
    <2>1. CASE writeCopy
      BY <1>1, <2>1, WriteCopyFlat DEF Flat!FNext
    <2>2. CASE ~writeCopy
      BY <1>1, <1>5, <2>2, ReadFlat, ValidateFlat, WriteFirstFlat, WriteValidateFlat, FetchFlat,
         DirectFlat DEF StepNext
    <2> QED
      BY <2>1, <2>2
  <1>6. CASE UNCHANGED vars
    BY <1>1, <1>6, StutterFlat
  <1> QED
    BY <1>2, <1>3, <1>4, <1>5, <1>6 DEF Next

LEMMA InitFlat == Init => Flat!FInit
  <1> SUFFICES ASSUME Init PROVE Flat!FInit
    OBVIOUS
  <1>1. IInv /\ CellsViewed
    BY InitIInv, Viewed
  <1>2. Idle /\ mappings = {} /\ executableVersion = 0 /\ result = [status |-> "none", data |-> << >>]
    BY DEF Init, Idle, Returned
  <1>3. ~Committed /\ Request = Flat!NoRequest
    BY <1>2, IdleRequest
  <1>4. Memory = [a \in Address |-> Nowhere]
    <2>1. \A a \in Address : Memory[a] = Nowhere
      BY <1>1, <1>2 DEF CellsViewed
    <2>2. Memory = [a \in Address |-> Memory[a]]
      BY <1>1 DEF CellsViewed
    <2> QED
      BY <2>1, <2>2
  <1>5. Memory = [a \in Flat!Addresses |-> Flat!Unmapped]
    BY <1>4 DEF Flat!Addresses, Flat!Unmapped, Address, Nowhere
  <1>6. VisibleVersion = 0 /\ VisibleResult = [status |-> "none", data |-> << >>]
    BY <1>2, <1>3 DEF VisibleVersion, VisibleResult
  <1> QED
    BY <1>3, <1>5, <1>6 DEF Flat!FInit

\* Every call on the address space behaves as one step of the flat memory: reads return what the
\* cells hold, a write stores all of its payload or nothing, protect and deallocate change exactly
\* the pages they touch, and the executable version moves whenever code changes.
THEOREM Refinement == Spec => FlatMemoryRefinement
  BY InitFlat, NextFlat, Invariance, AccessInvariance, PTL DEF Spec, FlatMemoryRefinement, Flat!FSpec

-----------------------------------------------------------------------------
(* The version and the code.                                               *)

\* Only an access to a mapping without storage ends the process.
LEMMA CrashStep ==
    ASSUME IInv, Next, call'.op = "crashed"
    PROVE  Active /\ \E m \in mappings : Found(m) /\ Crash(m)
  <1>1. NoCall.op = "none"
    BY DEF NoCall
  <1>2. ~(MapNext \/ ChangeNext)
    <2>1. ASSUME NEW T, Adds(T) PROVE FALSE
      BY <1>1, <2>1 DEF Adds, Finish
    <2>2. ASSUME NEW status, Unchanged(status) PROVE FALSE
      BY <1>1, <2>2 DEF Unchanged, Finish
    <2>3. ASSUME NEW start, NEW end, NEW p, NEW copy, Protects(start, end, p, copy) PROVE FALSE
      BY <1>1, <2>3 DEF Protects, Finish
    <2>4. ASSUME NEW start, NEW end, Deallocates(start, end) PROVE FALSE
      BY <1>1, <2>4 DEF Deallocates, Finish
    <2>5. ~MapNext
      BY <2>1, <2>2, MapEffect DEF Rejected
    <2>6. ~ChangeNext
      BY <2>2, <2>3, <2>4, ChangeEffect
    <2> QED
      BY <2>5, <2>6
  <1>3. ~BeginNext
    <2>1. ASSUME NEW op \in {"read", "validate", "write", "fetch", "direct"}, NEW address,
                 NEW size, NEW required, NEW data, begin(op, address, size, required, data)
          PROVE  FALSE
      BY <2>1 DEF begin, NoCall
    <2>2. \A address, n : ~begin("read", address, n, {"R"}, << >>)
      BY <2>1
    <2>3. \A address, n, r : ~begin("validate", address, n, {r}, << >>)
      BY <2>1
    <2>4. \A address, n, data : ~begin("write", address, n, {"W"}, data)
      BY <2>1
    <2>5. \A address : ~begin("fetch", address, 1, {"X"}, << >>)
      BY <2>1
    <2>6. \A address : ~begin("direct", address, 1, {"R"}, << >>)
      BY <2>1
    <2>7. \A address, data : ~begin("direct", address, 1, {"W"}, data)
      BY <2>1
    <2> QED
      BY <2>2, <2>3, <2>4, <2>5, <2>6, <2>7, Zenon DEF BeginNext
  <1>4. StepNext
    BY <1>2, <1>3 DEF Next
  <1>5. CallType
    BY DEF IInv
  <1>6. \A status, data : ~Finish(status, data)
    BY <1>1 DEF Finish
  <1>7. ~Fault /\ \A m, n : ~MaterializeFault(m, n)
    BY <1>6 DEF Fault, Unchanged, MaterializeFault
  <1>8. Active
    BY <1>4 DEF StepNext, readInto, validateAccess, writeFirst, writeValidate, ValidateChunk,
                writeCopy, executableBytes, directAccess, Active
  <1> DEFINE goal == \E m \in mappings : Found(m) /\ Crash(m)
  <1>9. readInto => goal
    <2>1. \A n, d : call.op = "read" => call' # [call EXCEPT !.done = n, !.data = d]
      BY <1>5 DEF CallType
    <2> QED
      BY <1>6, <1>7, <2>1 DEF readInto
  <1>10. \A n : call.op \in {"write", "validate"} => call' # [call EXCEPT !.done = n]
    BY <1>5 DEF CallType
  <1>11. ~validateAccess
    BY <1>6, <1>7, <1>10 DEF validateAccess
  <1>12. writeFirst => goal
    <2>1. call.op = "write" => call' # [call EXCEPT !.phase = "validate"]
      BY <1>5 DEF CallType
    <2> QED
      BY <1>6, <1>7, <2>1 DEF writeFirst
  <1>13. ~writeValidate
    <2> SUFFICES ASSUME writeValidate PROVE FALSE
      OBVIOUS
    <2> DEFINE checked(m) == [call EXCEPT !.done = @ + Chunk(m),
                                          !.exec = @ \/ isExecutable(m.permissions)]
    <2>1. PICK m \in mappings :
            call' = IF Chunk(m) = Remaining THEN StartCopy(checked(m)) ELSE checked(m)
      BY <1>7 DEF writeValidate, ValidateChunk
    <2>2. checked(m).op = "write"
      BY <1>5 DEF CallType, writeValidate, ValidateChunk
    <2> HIDE DEF checked
    <2>3. StartCopy(checked(m)).op = checked(m).op
      BY DEF StartCopy
    <2> QED
      BY <2>1, <2>2, <2>3
  <1>14. writeCopy => goal
    BY <1>6, <1>7, <1>10 DEF writeCopy
  <1>15. executableBytes => goal
    BY <1>6, <1>7 DEF executableBytes
  <1>16. ~directAccess
    <2>1. \A op \in {"write", "read"} : call.op = "direct" => call' # [call EXCEPT !.op = op]
      BY <1>5 DEF CallType
    <2> QED
      BY <1>6, <1>7, <2>1 DEF directAccess
  <1> QED
    BY <1>4, <1>8, <1>9, <1>11, <1>12, <1>13, <1>14, <1>15, <1>16 DEF StepNext

\* The process may end in the middle of a write; if it had executable cells to write, the version
\* its callers saw is gone with it.
LEMMA CrashCode ==
    ASSUME IInv, AInv, IInv', Active, NEW m \in mappings, Crash(m), VisibleVersion' = VisibleVersion
    PROVE  VisibleCode' = VisibleCode
  <1>1. CellsViewed /\ CellsViewed'
    BY Viewed, ViewedNext
  <1>2. /\ mappings' = mappings /\ hosts' = hosts /\ executableVersion' = executableVersion
        /\ call'.op = "crashed"
    BY DEF Crash, NoCall
  <1>3. ~Committed'
    BY <1>2 DEF Committed
  <1>4. Committed => ~call.exec
    <2>1. VisibleVersion' = executableVersion /\ executableVersion \in Nat
      BY <1>2, <1>3, PlainVersion
    <2>2. Committed /\ call.exec => VisibleVersion = executableVersion + 1
      BY DEF VisibleVersion
    <2> QED
      BY <2>1, <2>2
  <1>5. ASSUME NEW a \in Address
        PROVE  /\ Executable(Memory'[a]) <=> Executable(Memory[a])
               /\ Executable(Memory[a]) => Memory'[a].value = Memory[a].value
    <2>1. CASE \A n \in mappings : ~Holds(n, a)
      BY <1>1, <1>2, <2>1 DEF CellsViewed
    <2>2. CASE \E n \in mappings : Holds(n, a)
      <3>1. PICK n \in mappings : Holds(n, a)
        BY <2>2
      <3>2. Memory[a] = View(n, hosts, call, a) /\ Memory'[a] = View(n, hosts, call', a)
        BY <1>1, <1>2, <3>1 DEF CellsViewed
      <3>3. /\ Memory[a].mapped /\ Memory'[a].mapped
            /\ Memory[a].permissions = n.permissions /\ Memory'[a].permissions = n.permissions
            /\ Memory[a].value = ValueSeen(n, hosts, call, a)
            /\ Memory'[a].value = ValueSeen(n, hosts, call', a)
        BY <3>2, ViewFields
      <3>4. ASSUME "X" \in n.permissions, ShowsPayload(call, a) PROVE FALSE
        <4>1. Committed /\ ~call.exec
          BY <1>4, <3>4 DEF ShowsPayload, Committed
        <4>2. call.address \in Nat /\ call.size \in Nat /\ call.done \in Nat /\ a \in Nat
          BY GeometryAssumption DEF IInv, CallType, CallProgress, Active, Address
        <4>3. a \in call.address .. CheckedTo(call) - 1
          BY <3>4, <4>1, <4>2 DEF CheckedTo, Committed, ShowsPayload
        <4>4. PICK k \in mappings : Checked(call, k, hosts, a)
          BY <4>3, CheckedFacts
        <4>5. Holds(k, a) /\ ~isExecutable(k.permissions)
          BY <4>1, <4>4 DEF Checked, Committed
        <4>6. k = n
          BY <3>1, <4>2, <4>5, OneMappingPerAddress DEF Holds
        <4> QED
          BY <3>4, <4>5, <4>6 DEF isExecutable, hasPermission
      <3>5. "X" \in n.permissions => ValueSeen(n, hosts, call', a) = ValueSeen(n, hosts, call, a)
        BY <1>2, <3>4 DEF ValueSeen, ShowsPayload
      <3> QED
        BY <3>3, <3>5 DEF Executable
    <2> QED
      BY <2>1, <2>2
  <1> QED
    BY <1>5, SameCode DEF VisibleCode

\* A step of the flat memory other than the end of the process moves the version with the code.
LEMMA FlatCode ==
    ASSUME Flat!FNext, ~Flat!Abort, VisibleVersion \in Nat, VisibleVersion' = VisibleVersion
    PROVE  VisibleCode' = VisibleCode
  <1>1. CASE Flat!Versioned
    BY <1>1 DEF Flat!Versioned, VisibleCode
  <1>2. CASE UNCHANGED <<Memory, VisibleVersion>>
    BY <1>2 DEF VisibleCode, Flat!Code
  <1> QED
    BY <1>1, <1>2 DEF Flat!FNext, Flat!Refuse, Flat!Map, Flat!Protect, Flat!Deallocate, Flat!Begin,
                      Flat!Read, Flat!Validate, Flat!Write, Flat!Fetch

\* The contract the block cache relies on: as long as the version is the same, the executable
\* cells and their contents are the same, whatever calls came between.
THEOREM CodeIsVersioned == Spec => CodeVersioned
  <1>1. ASSUME IInv, AInv, [Next]_vars, VisibleVersion' = VisibleVersion
        PROVE  VisibleCode' = VisibleCode
    <2>1. IInv' /\ [Flat!FNext]_(Flat!fvars)
      BY <1>1, NextKeeps, NextFlat
    <2>2. VisibleVersion \in Nat
      BY <1>1 DEF VisibleVersion, IInv
    <2>3. CASE UNCHANGED Flat!fvars
      BY <2>3 DEF Flat!fvars, VisibleCode, Flat!Code
    <2>4. CASE Flat!FNext /\ ~Flat!Abort
      BY <1>1, <2>2, <2>4, FlatCode
    <2>5. CASE UNCHANGED vars
      <3>1. UNCHANGED Flat!fvars
        BY <1>1, <2>1, <2>5, StutterFlat
      <3> QED
        BY <3>1 DEF Flat!fvars, VisibleCode, Flat!Code
    <2>6. CASE Next /\ Flat!Abort
      <3>1. Request'.op = "crashed"
        BY <2>6 DEF Flat!Abort, Flat!NoRequest
      <3>2. RequestedOp' = "crashed"
        BY <3>1 DEF Request
      <3>3. call'.op = "crashed"
        BY <3>2 DEF RequestedOp
      <3> QED
        BY <1>1, <2>1, <2>6, <3>3, CrashStep, CrashCode
    <2> QED
      BY <1>1, <2>1, <2>3, <2>4, <2>5, <2>6
  <1>2. IInv /\ AInv /\ [Next]_vars
          => [VisibleVersion' = VisibleVersion => VisibleCode' = VisibleCode]_vars
    BY <1>1
  <1> QED
    BY <1>2, Invariance, AccessInvariance, PTL DEF Spec, CodeVersioned

=============================================================================
