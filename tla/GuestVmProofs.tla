--------------------------- MODULE GuestVmProofs ----------------------------
(***************************************************************************)
(* Proofs about the memory calls of the Darwin boundary.  VInv adds to the *)
(* invariants of the address space, which the handlers keep because they   *)
(* only pass it addresses, what a handler knows at each of its stages:     *)
(* the candidate of a search starts a page; a chosen address passes every  *)
(* check of validateNewMapping; the pointer a trap validated stays         *)
(* writable until the address is copied out; a region that was opened lies *)
(* inside the address range.                                               *)
(***************************************************************************)
EXTENDS GuestVm, AddressSpaceProofs

Names == {"loading", "none", "stopped", "allocate", "map", "reserve", "mmap", "check", "store",
          "link"}
Stages == {"none", "validate", "hint", "search", "place", "placed", "copyout", "store",
           "list", "blob", "region", "open", "copy", "page", "fix", "fixed", "close"}
RegionType == [address : Address, size : Address, permissions : Permission, chain : Seq(Nat)]
SysType ==
    [name : Names, stage : Stages, pointer : Address, size : Address, permissions : Permission,
     mask : Nat, fixed : BOOLEAN, candidate : Address, address : Address,
     regions : Seq(RegionType), region : Nat, done : Address, link : Nat]

\* The calls that look for an address, and the ones whose pointer was validated.
Placing == {"allocate", "map", "mmap"}
Validating == {"allocate", "reserve"}

\* The pages asked for, an alignment of whole pages, and an address the size can be added to.
Asking(s) ==
    /\ s.address + s.size <= Limit
    /\ s.name \in Placing \cup Validating => s.size # 0
    /\ s.name \in Placing => /\ s.size % PageSize = 0
                             /\ \E k \in 1 .. s.mask + 1 : s.mask + 1 = PageSize * k

Writable(S, a) == \E m \in S : Holds(m, a) /\ "W" \in m.permissions

\* An access of one cell at the pointer.
Accessing(c, op, a) == c.op = op /\ c.address = a /\ c.size = 1 /\ c.phase = "first"

\* What the handler knows while it chooses an address and maps it.
Choosing ==
    /\ sys.stage \in {"search", "place", "placed"} => Idle
    /\ sys.stage = "search" => sys.name \in Placing /\ sys.candidate % PageSize = 0
    /\ sys.stage = "place" =>
         sys.name \in Placing
         /\ validateNewMapping(sys.address, sys.size, sys.permissions, {"R", "W", "X"})
    /\ sys.stage = "hint" =>
         /\ sys.name \in {"allocate", "map"}
         /\ \/ Accessing(call, "read", sys.pointer)
            \/ call.op = "crashed"
            \/ Idle /\ (Succeeded => Len(result.data) = 1)

\* What it knows of the pointer it has validated.
Copying ==
    sys.name \in Validating =>
      /\ sys.stage \in {"hint", "search", "place", "placed"} => Writable(mappings, sys.pointer)
      /\ sys.stage = "validate" =>
           \/ Accessing(call, "validate", sys.pointer) /\ "W" \in call.required
           \/ Idle /\ (Succeeded => Writable(mappings, sys.pointer))
      /\ sys.stage = "copyout" =>
           \/ Accessing(call, "write", sys.pointer) /\ Writable(mappings, sys.pointer)
           \/ call.op = "crashed"
           \/ Idle /\ Succeeded

\* What map_with_linking_np knows of the region it has reached.
Linking(s) ==
    s.name = "link" =>
      /\ s.region \in 1 .. Len(s.regions)
      /\ s.link # 0
      /\ LET r == s.regions[s.region] IN
         /\ s.stage \in {"open", "copy", "page", "fix", "fixed", "close"} =>
              r.size # 0 /\ r.size % PageSize = 0
         /\ s.stage \in {"copy", "page", "fix", "fixed", "close"} =>
              r.address + r.size <= Limit /\ s.done % PageSize = 0 /\ s.done <= r.size
         /\ s.stage \in {"fix", "fixed"} =>
              s.done < r.size /\ s.link <= Len(r.chain) /\ r.chain[s.link] < PageSize

\* A handler that is not running keeps nothing.
Resting(s) == s.name \in {"loading", "none", "stopped"} => s = Away(s.name)

Space == IInv /\ AInv

VInv ==
    /\ Space
    /\ sys \in SysType
    /\ Asking(sys) /\ Linking(sys) /\ Resting(sys)
    /\ Choosing
    /\ Copying

-----------------------------------------------------------------------------
(* The handler's place.                                                    *)

LEMMA AwayType ==
    ASSUME NEW n \in Names
    PROVE  /\ Away(n) \in SysType /\ Away(n).name = n /\ Away(n).stage = "none"
           /\ Away(n).address = 0 /\ Away(n).size = 0 /\ Away(n).regions = << >>
           /\ Away(n).region = 1 /\ Away(n).link = 1 /\ Away(n).done = 0 /\ Away(n).fixed = FALSE
           /\ Away(n).permissions = {} /\ Away(n).pointer = 0
  <1>1. 0 \in Address /\ {} \in Permission /\ << >> \in Seq(RegionType) /\ 0 \in Nat /\ 1 \in Nat
    BY GeometryAssumption DEF Address, Permission
  <1>2. "none" \in Stages /\ FALSE \in BOOLEAN
    BY DEF Stages
  <1> QED
    BY <1>1, <1>2 DEF Away, SysType

\* A handler that has ended knows nothing.
LEMMA AwayKeeps ==
    ASSUME NEW n \in {"loading", "none", "stopped"}, Space', sys' = Away(n)
    PROVE  VInv'
  <1> DEFINE s == Away(n)
  <1>1. /\ s \in SysType /\ s.name = n /\ s.stage = "none" /\ s.address = 0 /\ s.size = 0
        /\ n \in Names
    BY AwayType DEF Names
  <1>2. s = Away(s.name)
    BY <1>1
  <1>3. n \notin Placing /\ n \notin Validating /\ n # "link"
    BY DEF Placing, Validating
  <1> HIDE DEF s
  <1>4. Asking(s) /\ Linking(s) /\ Resting(s)
    BY <1>1, <1>2, <1>3, GeometryAssumption DEF Asking, Linking, Resting
  <1>5. sys' = s
    BY DEF s
  <1>6. Choosing' /\ Copying'
    BY <1>1, <1>3, <1>5 DEF Choosing, Copying
  <1> QED
    BY <1>1, <1>4, <1>5, <1>6 DEF VInv

\* A step that leaves the handler and the address space alone.
LEMMA StillKeeps ==
    ASSUME VInv, UNCHANGED <<vars, sys>>
    PROVE  VInv'
  <1>1. /\ sys' = sys /\ mappings' = mappings /\ lookup' = lookup /\ hosts' = hosts
        /\ executableVersion' = executableVersion /\ call' = call /\ result' = result
    BY DEF vars
  <1>2. IInv'
    BY <1>1, NextKeeps DEF VInv, Space, vars
  <1>3. AInv'
    BY <1>1, NextAInv DEF VInv, Space, vars
  <1>4. Choosing' /\ Copying'
    BY <1>1 DEF VInv, Choosing, Copying, Idle, Succeeded, validateNewMapping, IsCeiling, IsBelow
  <1> QED
    BY <1>1, <1>2, <1>3, <1>4 DEF VInv, Space

LEMMA RefuseKeeps ==
    ASSUME VInv, NEW code, Refuse(code)
    PROVE  VInv'
  BY StillKeeps DEF Refuse

-----------------------------------------------------------------------------
(* The handlers keep the invariants of the address space.                  *)

LEMMA StillSpace ==
    ASSUME Space, UNCHANGED vars
    PROVE  Space'
  BY NextKeeps, NextAInv DEF Space

LEMMA QuitKeeps ==
    ASSUME VInv, NEW code, Quit(code)
    PROVE  VInv'
  BY StillSpace, AwayKeeps DEF VInv, Quit, Return

LEMMA UnsupportedKeeps ==
    ASSUME VInv, Unsupported
    PROVE  VInv'
  BY StillSpace, AwayKeeps DEF VInv, Unsupported, Throw

LEMMA BeginSpace ==
    ASSUME Space, NEW op \in {"read", "write", "validate"}, NEW address \in Address,
           NEW size \in Nat \ {0}, NEW required \in Permission, NEW data \in Seq(Value),
           op = "read" => required = {"R"} /\ data = << >>,
           op = "write" => required = {"W"} /\ Len(data) = size,
           required # {}, begin(op, address, size, required, data)
    PROVE  /\ Space' /\ mappings' = mappings
           /\ call'.op = op /\ call'.address = address /\ call'.size = size
           /\ call'.required = required /\ call'.phase = "first"
  <1> DEFINE c == [op |-> op, address |-> address, size |-> size, required |-> required,
                   data |-> data, phase |-> "first", done |-> 0, exec |-> FALSE]
  <1>1. IInv'
    BY BeginKeeps DEF Space
  <1>2. call' = c /\ mappings' = mappings
    BY DEF begin, NoCall
  <1>3. /\ c.op = op /\ c.address = address /\ c.size = size /\ c.required = required
        /\ c.phase = "first" /\ c.done = 0 /\ c.address \in Nat
    BY GeometryAssumption DEF Address
  <1>4. CallShape(c)
    BY DEF CallShape
  <1> HIDE DEF c
  <1>5. AInv'
    BY <1>2, <1>3, <1>4, FreshKeeps DEF Space, AInv
  <1> QED
    BY <1>1, <1>2, <1>3, <1>5 DEF Space

LEMMA BeginRead ==
    ASSUME Space, NEW address \in Address, begin("read", address, 1, {"R"}, << >>)
    PROVE  Space' /\ mappings' = mappings /\ Accessing(call', "read", address)
  <1>1. /\ "read" \in {"read", "write", "validate"} /\ 1 \in Nat \ {0} /\ {"R"} \in Permission
        /\ << >> \in Seq(Value) /\ {"R"} # {} /\ "read" # "write"
    BY DEF Permission
  <1>2. /\ Space' /\ mappings' = mappings
        /\ call'.op = "read" /\ call'.address = address /\ call'.size = 1 /\ call'.phase = "first"
    BY <1>1, BeginSpace
  <1> QED
    BY <1>2 DEF Accessing

LEMMA BeginWrite ==
    ASSUME Space, NEW address \in Address, NEW size \in Nat \ {0}, NEW data \in Seq(Value),
           Len(data) = size, begin("write", address, size, {"W"}, data)
    PROVE  /\ Space' /\ mappings' = mappings
           /\ size = 1 => Accessing(call', "write", address)
  <1>1. /\ "write" \in {"read", "write", "validate"} /\ {"W"} \in Permission
        /\ {"W"} # {} /\ "read" # "write"
    BY DEF Permission
  <1>2. /\ Space' /\ mappings' = mappings
        /\ call'.op = "write" /\ call'.address = address /\ call'.size = size
        /\ call'.phase = "first"
    BY <1>1, BeginSpace
  <1> QED
    BY <1>2 DEF Accessing

LEMMA BeginValidate ==
    ASSUME Space, NEW address \in Address, NEW size \in Nat \ {0},
           NEW required \in Permission, required # {},
           begin("validate", address, size, required, << >>)
    PROVE  /\ Space' /\ mappings' = mappings
           /\ size = 1 => Accessing(call', "validate", address) /\ call'.required = required
  <1>1. /\ "validate" \in {"read", "write", "validate"} /\ << >> \in Seq(Value)
        /\ "validate" # "write" /\ "validate" # "read"
    OBVIOUS
  <1>2. /\ Space' /\ mappings' = mappings
        /\ call'.op = "validate" /\ call'.address = address /\ call'.size = size
        /\ call'.required = required /\ call'.phase = "first"
    BY <1>1, BeginSpace
  <1> QED
    BY <1>2 DEF Accessing

LEMMA AddsSpace ==
    ASSUME Space, IInv', (Idle /\ Rejected) \/ \E T : Adds(T)
    PROVE  /\ Space' /\ call' = NoCall
           /\ \A m \in mappings : m \in mappings'
  <1>1. CASE Rejected
    <2>1. AInv' /\ call' = NoCall /\ mappings' = mappings
      BY <1>1, UnchangedAInv DEF Space, Rejected, Unchanged, Finish
    <2> QED
      BY <2>1 DEF Space
  <1>2. ASSUME NEW T, Adds(T)
        PROVE  AInv' /\ call' = NoCall /\ \A m \in mappings : m \in mappings'
    <2>1. Unshared(mappings') /\ call' = NoCall /\ mappings' = mappings \cup T
      BY <1>2, AddsUnshared DEF Space, AInv, Adds, Finish
    <2> QED
      BY <2>1, EndedKeeps
  <1> QED
    BY <1>1, <1>2 DEF Space

LEMMA AnonymousSpace ==
    ASSUME Space, NEW base \in Address, NEW size \in Address, NEW p \in Permission,
           NEW mx \in Permission, mapAnonymous(base, size, p, mx)
    PROVE  /\ Space' /\ call' = NoCall
           /\ \A m \in mappings : m \in mappings'
  <1>1. IInv'
    BY MapAnonymousKeeps DEF Space
  <1>2. (Idle /\ Rejected) \/ \E T : Adds(T)
    BY MapAnonymousAdds DEF Space
  <1> QED
    BY <1>1, <1>2, AddsSpace

LEMMA FileSegmentSpace ==
    ASSUME Space, NEW base \in Address, NEW size \in Address, NEW p \in Permission,
           NEW mx \in Permission, mapFileSegment(base, size, p, mx, 0, 0)
    PROVE  Space'
  <1>1. IInv'
    BY MapFileSegmentKeeps DEF Space
  <1>2. (Idle /\ Rejected) \/ \E T : Adds(T)
    BY MapFileSegmentAdds DEF Space
  <1> QED
    BY <1>1, <1>2, AddsSpace

\* Calls that change mappings run between accesses.
LEMMA PiecesSpace ==
    ASSUME Space, IInv', \A k \in mappings' : \E m \in mappings : PieceOf(k, m), call' = NoCall
    PROVE  Space'
  <1>1. GoodMappings(mappings, hosts) /\ GoodMappings(mappings', hosts') /\ Unshared(mappings)
    BY DEF Space, IInv, AInv, GoodMappings, GoodMapping
  <1>2. \A m \in mappings : m.base \in Nat /\ m.size \in Nat /\ m.fileDataOffset \in Nat
    BY <1>1, GeometryAssumption DEF GoodMappings, GoodMapping, MappingType, Address
  <1>3. Unshared(mappings')
    BY <1>1, <1>2, PiecesUnshared
  <1> QED
    BY <1>3, EndedKeeps DEF Space

LEMMA ProtectSpace ==
    ASSUME Space, NEW address \in Address, NEW size \in Address, NEW p \in Permission,
           NEW copy \in BOOLEAN, protect(address, size, p, copy)
    PROVE  /\ Space' /\ call' = NoCall
           /\ result'.status = "success" /\ size # 0 => address + size <= Limit
  <1>1. IInv'
    BY ProtectKeeps DEF Space
  <1>2. \/ Idle /\ \E status \in {"success", "invalidArgument", "invalidAddress",
                                  "protectionFailure"} : Unchanged(status)
        \/ \E from, to : Protects(from, to, p, copy)
    BY ProtectEffect DEF Space
  <1>3. ASSUME NEW status, Unchanged(status) PROVE Space' /\ call' = NoCall
    BY <1>1, <1>3, UnchangedAInv DEF Space, Unchanged, Finish
  <1>4. ASSUME NEW from, NEW to, Protects(from, to, p, copy) PROVE Space' /\ call' = NoCall
    BY <1>1, <1>4, PiecesSpace DEF Protects, Finish
  <1>5. result'.status = "success" /\ size # 0 => ~RangeOverflows(address, size)
    <2>1. size # 0 /\ RangeOverflows(address, size) => Unchanged("invalidArgument")
      BY Zenon DEF protect
    <2>2. Unchanged("invalidArgument") => result'.status = "invalidArgument"
      BY DEF Unchanged, Finish, Returned
    <2> QED
      BY <2>1, <2>2
  <1>6. ~RangeOverflows(address, size) => address + size <= Limit
    BY GeometryAssumption DEF RangeOverflows, Address
  <1> QED
    BY <1>2, <1>3, <1>4, <1>5, <1>6

LEMMA DeallocateSpace ==
    ASSUME Space, NEW address \in Address, NEW size \in Address, deallocate(address, size)
    PROVE  Space'
  <1>1. IInv'
    BY DeallocateKeeps DEF Space
  <1>2. \/ Idle /\ \E status \in {"success", "invalidArgument"} : Unchanged(status)
        \/ \E from, to : Deallocates(from, to)
    BY DeallocateEffect DEF Space
  <1>3. ASSUME NEW status, Unchanged(status) PROVE Space'
    BY <1>1, <1>3, UnchangedAInv DEF Space
  <1>4. ASSUME NEW from, NEW to, Deallocates(from, to) PROVE Space'
    BY <1>1, <1>4, PiecesSpace DEF Deallocates, Finish
  <1> QED
    BY <1>2, <1>3, <1>4

-----------------------------------------------------------------------------
(* Sizes, alignments and the search for a gap.                             *)

LEMMA RoundedSize ==
    ASSUME NEW size \in Address, SizeIsValid(size)
    PROVE  /\ RoundUp(size) \in Address /\ RoundUp(size) # 0 /\ RoundUp(size) % PageSize = 0
           /\ RoundUp(size) <= Limit
  <1>1. size \in Nat /\ size # 0 /\ size <= Limit - (PageSize - 1)
    BY GeometryAssumption DEF SizeIsValid, PageMask, Address
  <1>2. /\ PageCeiling(size) \in Nat /\ PageCeiling(size) % PageSize = 0
        /\ size <= PageCeiling(size) /\ PageCeiling(size) < size + PageSize
    BY <1>1, RoundingIsAligned
  <1> QED
    BY <1>1, <1>2, GeometryAssumption DEF RoundUp, Address

\* A mask of whole pages.
WholePages(mask) == \E k \in 1 .. mask + 1 : mask + 1 = PageSize * k

LEMMA PageMaskWhole == PageMask \in Nat /\ WholePages(PageMask)
  <1>1. PageMask \in Nat /\ PageMask + 1 = PageSize * 1 /\ 1 \in 1 .. PageMask + 1
    BY GeometryAssumption DEF PageMask
  <1> QED
    BY <1>1 DEF WholePages

LEMMA ValidMaskWhole ==
    ASSUME NEW mask, MaskIsValid(mask)
    PROVE  WholePages(mask)
  BY Zenon DEF MaskIsValid, WholePages

\* An aligned address starts a page and is not below what was aligned.
LEMMA AlignedUp ==
    ASSUME NEW value \in Nat, NEW mask \in Nat, WholePages(mask),
           alignUp(value, mask) # NoAddress
    PROVE  /\ alignUp(value, mask) \in Address /\ alignUp(value, mask) % PageSize = 0
           /\ value <= alignUp(value, mask)
  <1> USE GeometryAssumption
  <1>1. PICK k \in 1 .. mask + 1 : mask + 1 = PageSize * k
    BY DEF WholePages
  <1> DEFINE M == mask + 1
             a == value + mask
             q == a \div M
             r == a % M
             w == M * q
  <1>2. M \in Nat \ {0} /\ a \in Nat
    OBVIOUS
  <1>3. a = M * q + r /\ r \in 0 .. M - 1 /\ q \in Nat
    BY <1>2, DivMod
  <1>4. ~(value > Limit - mask) /\ alignUp(value, mask) = q * M
    BY DEF alignUp, NoAddress
  <1> HIDE DEF q, r
  <1>5. w = q * M /\ w \in Nat
    BY <1>2, <1>3
  <1>6. w = PageSize * (k * q) /\ k * q \in Nat
    BY <1>1, <1>3
  <1>7. w % PageSize = 0
    BY <1>6, MultMod
  <1>8. w = a - r
    BY <1>2, <1>3
  <1> HIDE DEF w
  <1>9. w <= Limit /\ value <= w
    BY <1>3, <1>4, <1>8, <1>5
  <1> QED
    BY <1>4, <1>5, <1>7, <1>9 DEF Address

\* A gap that is large enough, below the first mapping that ends above the candidate or above
\* all of them, passes every check of validateNewMapping.
LEMMA GapIsValid ==
    ASSUME IInv, NEW base \in Address, NEW size \in Address, NEW p \in Permission,
           size # 0, base % PageSize = 0, size % PageSize = 0, base + size <= Limit,
           \A m \in mappings : End(m) <= base \/ base + size <= m.base
    PROVE  validateNewMapping(base, size, p, {"R", "W", "X"})
  <1>1. base \in Nat /\ size \in Nat /\ base <= Limit - size
    BY GeometryAssumption DEF Address
  <1>2. hasPermission({"R", "W", "X"}, p)
    BY DEF hasPermission, Permission
  <1>3. \A m \in mappings : m.base \in Nat /\ End(m) \in Nat /\ m.base < End(m)
    BY MappingFacts
  <1>4. \A m \in mappings : IsCeiling(m, base) => base + size <= m.base
    BY <1>1, <1>3 DEF IsCeiling
  <1>5. \A m \in mappings : IsBelow(m, base) => End(m) <= base
    BY <1>1, <1>3 DEF IsBelow
  <1> QED
    BY <1>1, <1>2, <1>4, <1>5 DEF validateNewMapping

-----------------------------------------------------------------------------
(* The steps of a handler.                                                 *)

LEMMA VInvFields ==
    ASSUME VInv
    PROVE  /\ Space /\ IInv /\ AInv /\ sys \in SysType
           /\ sys.name \in Names /\ sys.stage \in Stages
           /\ sys.pointer \in Address /\ sys.size \in Address /\ sys.permissions \in Permission
           /\ sys.mask \in Nat /\ sys.fixed \in BOOLEAN /\ sys.candidate \in Address
           /\ sys.address \in Address /\ sys.regions \in Seq(RegionType) /\ sys.region \in Nat
           /\ sys.done \in Address /\ sys.link \in Nat
  BY DEF VInv, Space, SysType

\* Only the stage, and perhaps one more field, of the place changes.
LEMMA SetStage ==
    ASSUME NEW s \in SysType, NEW x \in Stages, NEW t, t = [s EXCEPT !.stage = x]
    PROVE  /\ t \in SysType /\ t.stage = x /\ t.name = s.name /\ t.pointer = s.pointer
           /\ t.size = s.size /\ t.permissions = s.permissions /\ t.mask = s.mask
           /\ t.fixed = s.fixed /\ t.candidate = s.candidate /\ t.address = s.address
           /\ t.regions = s.regions /\ t.region = s.region /\ t.done = s.done /\ t.link = s.link
  BY DEF SysType

LEMMA StageAsking ==
    ASSUME NEW s, NEW t, Asking(s), t.name = s.name, t.address = s.address, t.size = s.size,
           t.mask = s.mask
    PROVE  Asking(t)
  BY Zenon DEF Asking

\* A stage that no part of the invariant speaks of, for a call that is not a placement.
LEMMA EnteredKeeps ==
    ASSUME Space', NEW t \in SysType, sys' = t, Asking(t), Linking(t),
           t.name \notin {"loading", "none", "stopped"}, Choosing', Copying'
    PROVE  VInv'
  BY DEF VInv, Resting

\* Trap 10 validates the pointer.
LEMMA AllocateKeeps ==
    ASSUME VInv, NEW task, NEW pointer \in Pointers, NEW size \in CallSizes, NEW anywhere,
           machVmAllocate(task, pointer, size, anywhere)
    PROVE  VInv'
  <1> DEFINE s == [Away("allocate") EXCEPT !.pointer = pointer, !.size = RoundUp(size),
                                           !.permissions = {"R", "W"}, !.mask = PageMask]
             t == [s EXCEPT !.stage = "validate"]
  <1>1. pointer \in Address /\ size \in Address
    BY VmAssumption
  <1>2. CASE \E code : Refuse(code)
    BY <1>2, RefuseKeeps
  <1>3. ASSUME SizeIsValid(size), sys' = t,
               begin("validate", pointer, 1, {"R", "W"}, << >>)
        PROVE  VInv'
    <2>1. RoundUp(size) \in Address /\ RoundUp(size) # 0 /\ RoundUp(size) % PageSize = 0
          /\ RoundUp(size) <= Limit
      BY <1>1, <1>3, RoundedSize
    <2> DEFINE rounded == RoundUp(size)
    <2> HIDE DEF rounded
    <2>2. rounded \in Address /\ rounded # 0 /\ rounded % PageSize = 0 /\ rounded <= Limit
          /\ rounded \in Nat
      BY <2>1, GeometryAssumption DEF rounded, Address
    <2>3. s = [Away("allocate") EXCEPT !.pointer = pointer, !.size = rounded,
                                       !.permissions = {"R", "W"}, !.mask = PageMask]
      BY DEF rounded
    <2>4. Away("allocate") \in SysType /\ Away("allocate").address = 0
          /\ Away("allocate").name = "allocate"
      BY AwayType DEF Names
    <2>5. {"R", "W"} \in Permission /\ PageMask \in Nat /\ WholePages(PageMask)
      BY PageMaskWhole DEF Permission
    <2> HIDE DEF s
    <2>6. /\ s \in SysType /\ s.name = "allocate" /\ s.pointer = pointer /\ s.size = rounded
          /\ s.mask = PageMask /\ s.address = 0
      BY <1>1, <2>2, <2>3, <2>4, <2>5 DEF SysType
    <2>7. /\ t \in SysType /\ t.stage = "validate" /\ t.name = "allocate" /\ t.pointer = pointer
          /\ t.size = rounded /\ t.mask = PageMask /\ t.address = 0
      BY <2>6, SetStage DEF Stages
    <2> HIDE DEF t
    <2>8. Space' /\ Accessing(call', "validate", pointer) /\ "W" \in call'.required
      <3>1. {"R", "W"} # {} /\ Space /\ 1 \in Nat \ {0}
        BY DEF VInv
      <3> QED
        BY <1>1, <1>3, <2>5, <3>1, BeginValidate
    <2>9. Asking(t) /\ Linking(t)
      BY <2>2, <2>5, <2>7 DEF Asking, Linking, WholePages
    <2>10. Choosing' /\ Copying'
      BY <1>3, <2>7, <2>8 DEF Choosing, Copying
    <2> QED
      BY <1>3, <2>7, <2>8, <2>9, <2>10, EnteredKeeps
  <1> HIDE DEF s, t
  <1> QED
    BY <1>2, <1>3 DEF machVmAllocate, Enter, Continue, s, t

\* Trap 15 reads the hint.
LEMMA MapKeeps ==
    ASSUME VInv, NEW task, NEW pointer \in Pointers, NEW size \in CallSizes,
           NEW p \in MapProtections, NEW fixed \in BOOLEAN, NEW mask \in Masks \cup {0},
           machVmMap(task, pointer, size, p, fixed, mask)
    PROVE  VInv'
  <1> DEFINE effective == IF mask = 0 THEN PageMask ELSE mask
             s == [Away("map") EXCEPT !.pointer = pointer, !.size = RoundUp(size),
                                      !.permissions = p, !.mask = effective, !.fixed = fixed]
             t == [s EXCEPT !.stage = "hint"]
  <1>1. pointer \in Address /\ size \in Address /\ p \in Permission /\ mask \in Nat
    BY VmAssumption
  <1>2. CASE \E code : Refuse(code)
    BY <1>2, RefuseKeeps
  <1>3. CASE Unsupported
    BY <1>3, UnsupportedKeeps
  <1>4. ASSUME SizeIsValid(size), fixed \/ MaskIsValid(effective), ~(fixed /\ mask # 0), sys' = t,
               begin("read", pointer, 1, {"R"}, << >>)
        PROVE  VInv'
    <2>1. RoundUp(size) \in Address /\ RoundUp(size) # 0 /\ RoundUp(size) % PageSize = 0
          /\ RoundUp(size) <= Limit
      BY <1>1, <1>4, RoundedSize
    <2> DEFINE rounded == RoundUp(size)
    <2> HIDE DEF rounded
    <2>2. rounded \in Address /\ rounded # 0 /\ rounded % PageSize = 0 /\ rounded <= Limit
          /\ rounded \in Nat
      BY <2>1, GeometryAssumption DEF rounded, Address
    <2>3. effective \in Nat /\ WholePages(effective)
      BY <1>1, <1>4, PageMaskWhole, ValidMaskWhole
    <2>4. Away("map") \in SysType /\ Away("map").address = 0 /\ Away("map").name = "map"
      BY AwayType DEF Names
    <2>5. s = [Away("map") EXCEPT !.pointer = pointer, !.size = rounded,
                                  !.permissions = p, !.mask = effective, !.fixed = fixed]
      BY DEF rounded
    <2> HIDE DEF s, effective
    <2>6. /\ s \in SysType /\ s.name = "map" /\ s.pointer = pointer /\ s.size = rounded
          /\ s.mask = effective /\ s.address = 0
      BY <1>1, <2>2, <2>3, <2>4, <2>5 DEF SysType
    <2>7. /\ t \in SysType /\ t.stage = "hint" /\ t.name = "map" /\ t.pointer = pointer
          /\ t.size = rounded /\ t.mask = effective /\ t.address = 0
      BY <2>6, SetStage DEF Stages
    <2> HIDE DEF t
    <2>8. Space' /\ Accessing(call', "read", pointer)
      BY <1>1, <1>4, BeginRead DEF VInv
    <2>9. Asking(t) /\ Linking(t)
      BY <2>2, <2>3, <2>7 DEF Asking, Linking, WholePages
    <2>10. Choosing' /\ Copying'
      BY <1>4, <2>7, <2>8 DEF Choosing, Copying, Validating
    <2> QED
      BY <1>4, <2>7, <2>8, <2>9, <2>10, EnteredKeeps
  <1> HIDE DEF t
  <1>5. \/ \E code : Refuse(code)
        \/ Unsupported
        \/ /\ SizeIsValid(size) /\ (fixed \/ MaskIsValid(effective)) /\ ~(fixed /\ mask # 0)
           /\ begin("read", pointer, 1, {"R"}, << >>) /\ sys' = t
    BY DEF machVmMap, Enter, Continue, t
  <1> HIDE DEF s, effective
  <1> QED
    BY <1>2, <1>3, <1>4, <1>5

\* Trap 10 goes on to read the hint from a pointer that can be written.
LEMMA AllocateHintKeeps ==
    ASSUME VInv, allocateHint
    PROVE  VInv'
  <1> DEFINE t == [sys EXCEPT !.stage = "hint"]
  <1>1. CASE Quit("invalidAddress")
    BY <1>1, QuitKeeps
  <1>2. ASSUME Succeeded, sys' = t, begin("read", sys.pointer, 1, {"R"}, << >>)
        PROVE  VInv'
    <2>1. sys.name = "allocate" /\ sys.stage = "validate" /\ Idle
      BY DEF allocateHint, At
    <2>2. Writable(mappings, sys.pointer)
      <3>1. call.op # "validate"
        BY <2>1 DEF Idle, NoCall
      <3> QED
        BY <1>2, <2>1, <3>1 DEF VInv, Copying, Validating, Accessing
    <2>3. /\ t \in SysType /\ t.stage = "hint" /\ t.name = "allocate" /\ t.pointer = sys.pointer
          /\ t.size = sys.size /\ t.mask = sys.mask /\ t.address = sys.address
      BY <2>1, VInvFields, SetStage DEF Stages
    <2> HIDE DEF t
    <2>4. Space' /\ Accessing(call', "read", sys.pointer) /\ mappings' = mappings
      BY <1>2, VInvFields, BeginRead
    <2>5. Asking(t)
      BY <2>1, <2>3, StageAsking DEF VInv
    <2>6. Choosing' /\ Copying' /\ Linking(t)
      BY <1>2, <2>2, <2>3, <2>4 DEF Choosing, Copying, Linking
    <2> QED
      BY <1>2, <2>3, <2>4, <2>5, <2>6, EnteredKeeps
  <1> QED
    BY <1>1, <1>2 DEF allocateHint, Go, Enter, Continue

\* The search starts at a candidate that begins a page.
LEMMA StartedKeeps ==
    ASSUME VInv, Idle, NEW s \in SysType, NEW first \in Address, first % PageSize = 0,
           s.name \in Placing, Asking(s), StartSearch(s, first),
           s.name \in Validating => Writable(mappings, s.pointer)
    PROVE  VInv'
  <1> DEFINE t == [s EXCEPT !.stage = "search", !.candidate = first]
  <1>1. sys' = t /\ UNCHANGED vars
    BY DEF StartSearch, Continue
  <1>2. /\ t \in SysType /\ t.stage = "search" /\ t.candidate = first /\ t.name = s.name
        /\ t.pointer = s.pointer /\ t.size = s.size /\ t.mask = s.mask /\ t.address = s.address
    BY DEF SysType, Stages
  <1> HIDE DEF t
  <1>3. Space'
    BY <1>1, StillSpace DEF VInv
  <1>4. Asking(t)
    BY <1>2, StageAsking
  <1>5. Linking(t) /\ t.name \notin {"loading", "none", "stopped"}
    BY <1>2 DEF Linking, Placing
  <1>6. Idle' /\ mappings' = mappings
    BY <1>1 DEF vars, Idle
  <1>7. Choosing'
    BY <1>1, <1>2, <1>6 DEF Choosing
  <1>8. Copying'
    BY <1>1, <1>2, <1>6 DEF Copying
  <1> QED
    BY <1>1, <1>2, <1>3, <1>4, <1>5, <1>7, <1>8, EnteredKeeps

\* An address that passes every check is installed next.
LEMMA ChosenKeeps ==
    ASSUME VInv, Idle, NEW base \in Address, sys.name \in Placing,
           validateNewMapping(base, sys.size, sys.permissions, {"R", "W", "X"}),
           sys.name \in Validating => Writable(mappings, sys.pointer),
           Continue([sys EXCEPT !.stage = "place", !.address = base]), UNCHANGED vars
    PROVE  VInv'
  <1> DEFINE t == [sys EXCEPT !.stage = "place", !.address = base]
  <1>1. sys' = t
    BY DEF Continue
  <1>2. sys \in SysType
    BY VInvFields
  <1>3. /\ t \in SysType /\ t.stage = "place" /\ t.address = base /\ t.name = sys.name
        /\ t.pointer = sys.pointer /\ t.size = sys.size /\ t.mask = sys.mask
        /\ t.permissions = sys.permissions
    BY <1>2 DEF SysType, Stages
  <1> HIDE DEF t
  <1>4. Space'
    BY StillSpace DEF VInv
  <1>5. base + sys.size <= Limit
    BY VInvFields, GeometryAssumption DEF validateNewMapping, Address
  <1>6. Asking(t)
    BY <1>3, <1>5, Zenon DEF VInv, Asking
  <1>7. Linking(t) /\ t.name \notin {"loading", "none", "stopped"}
    BY <1>3 DEF Linking, Placing
  <1>8. Idle' /\ mappings' = mappings
    BY DEF vars, Idle
  <1>9. Choosing'
    BY <1>1, <1>3, <1>8 DEF Choosing, validateNewMapping, IsCeiling, IsBelow
  <1>10. Copying'
    BY <1>1, <1>3, <1>8 DEF Copying
  <1> QED
    BY <1>1, <1>3, <1>4, <1>6, <1>7, <1>9, <1>10, EnteredKeeps

\* Every step of the search keeps a candidate that starts a page; the address it ends with lies
\* in a gap.
LEMMA SearchKeeps ==
    ASSUME VInv, search
    PROVE  VInv'
  <1> DEFINE candidate == sys.candidate
             ahead == {m \in mappings : candidate < End(m)}
             Chosen == /\ Continue([sys EXCEPT !.stage = "place", !.address = candidate])
                       /\ UNCHANGED vars
  <1>1. sys.stage = "search" /\ Idle
    BY DEF search
  <1>2. sys.name \in Placing /\ candidate % PageSize = 0
        /\ (sys.name \in Validating => Writable(mappings, sys.pointer))
    BY <1>1 DEF VInv, Choosing, Copying
  <1>3. /\ candidate \in Address /\ candidate \in Nat /\ sys.size \in Address /\ sys.size \in Nat
        /\ sys.permissions \in Permission /\ sys.mask \in Nat /\ IInv /\ sys \in SysType
    BY VInvFields, GeometryAssumption DEF Address
  <1>4. sys.size # 0 /\ sys.size % PageSize = 0 /\ WholePages(sys.mask) /\ Asking(sys)
    BY <1>2 DEF VInv, Asking, WholePages
  <1>5. \A m \in mappings : m.base \in Nat /\ End(m) \in Nat /\ m.base < End(m) /\ End(m) <= Limit
    BY <1>3, MappingFacts
  <1>6. CASE NoSpace
    BY <1>6, QuitKeeps DEF NoSpace
  <1>7. ASSUME Chosen, candidate + sys.size <= Limit,
               \A n \in mappings : End(n) <= candidate \/ candidate + sys.size <= n.base
        PROVE  VInv'
    <2>1. validateNewMapping(candidate, sys.size, sys.permissions, {"R", "W", "X"})
      BY <1>2, <1>3, <1>4, <1>7, GapIsValid
    <2> QED
      BY <1>1, <1>2, <1>3, <1>7, <2>1, ChosenKeeps
  <1>8. ASSUME NEW m \in ahead, \A n \in ahead : m.base <= n.base,
               candidate <= m.base, sys.size <= m.base - candidate, Chosen
        PROVE  VInv'
    <2>1. \A n \in mappings : End(n) <= candidate \/ candidate + sys.size <= n.base
      BY <1>3, <1>5, <1>8
    <2>2. candidate + sys.size <= Limit
      BY <1>3, <1>5, <1>8, GeometryAssumption
    <2> QED
      BY <1>7, <1>8, <2>1, <2>2
  <1>9. ASSUME NEW m \in ahead, walkPast(m, sys.mask) # NoAddress,
               StartSearch(sys, walkPast(m, sys.mask))
        PROVE  VInv'
    <2>1. m \in mappings /\ End(m) \in Nat
      BY <1>5
    <2>2. walkPast(m, sys.mask) \in Address /\ walkPast(m, sys.mask) % PageSize = 0
      BY <1>3, <1>4, <1>9, <2>1, AlignedUp DEF walkPast
    <2> QED
      BY <1>1, <1>2, <1>3, <1>4, <1>9, <2>2, StartedKeeps
  <1>10. ASSUME ahead = {}, candidate <= MaximumUserMapEnd,
                sys.size <= MaximumUserMapEnd - candidate, Chosen
         PROVE  VInv'
    <2>1. \A n \in mappings : End(n) <= candidate \/ candidate + sys.size <= n.base
      BY <1>3, <1>5, <1>10
    <2>2. candidate + sys.size <= Limit
      BY <1>3, <1>10, VmAssumption, GeometryAssumption DEF Address
    <2> QED
      BY <1>7, <1>10, <2>1, <2>2
  <1>11. \/ \E m \in ahead :
             LET fits == candidate <= m.base /\ sys.size <= m.base - candidate
                 next == walkPast(m, sys.mask)
             IN  /\ \A n \in ahead : m.base <= n.base
                 /\ \/ fits /\ Chosen
                    \/ ~fits /\ next = NoAddress /\ NoSpace
                    \/ ~fits /\ next # NoAddress /\ StartSearch(sys, next)
         \/ LET fits == candidate <= MaximumUserMapEnd
                        /\ sys.size <= MaximumUserMapEnd - candidate
            IN  /\ ahead = {}
                /\ IF fits THEN Chosen ELSE NoSpace
    BY DEF search
  <1> HIDE DEF candidate, ahead, Chosen
  <1> QED
    BY <1>6, <1>8, <1>9, <1>10, <1>11

\* The hint that was read is an address.
LEMMA PlaceKeeps ==
    ASSUME VInv, place
    PROVE  VInv'
  <1> DEFINE hint == result.data[1]
             from == IF hint < MinimumMap THEN MinimumMap ELSE hint
             first == alignUp(from, sys.mask)
             base == PageFloor(hint)
  <1>1. sys.name \in {"allocate", "map"} /\ sys.stage = "hint" /\ Idle
    BY DEF place
  <1>2. /\ sys.name \in Placing /\ (sys.name \in Validating => Writable(mappings, sys.pointer))
        /\ sys.name # "mmap"
    BY <1>1 DEF VInv, Copying, Placing
  <1>3. /\ sys.size \in Address /\ sys.size \in Nat /\ sys.permissions \in Permission
        /\ sys.mask \in Nat /\ IInv /\ sys \in SysType
    BY VInvFields, GeometryAssumption DEF Address
  <1>4. sys.size # 0 /\ sys.size % PageSize = 0 /\ WholePages(sys.mask) /\ Asking(sys)
    BY <1>2 DEF VInv, Asking, WholePages
  <1>5. \A m \in mappings : m.base \in Nat /\ End(m) \in Nat /\ m.base < End(m) /\ End(m) <= Limit
    BY <1>3, MappingFacts
  <1>6. CASE \E code : Quit(code)
    BY <1>6, QuitKeeps
  <1>7. ASSUME Succeeded PROVE hint \in Address /\ hint \in Nat
    <2>1. call.op = "none"
      BY <1>1 DEF Idle, NoCall
    <2>2. Len(result.data) = 1
      BY <1>1, <1>7, <2>1 DEF VInv, Choosing, Accessing
    <2>3. result.data \in Seq(Value)
      BY <1>3 DEF IInv
    <2> QED
      BY <2>2, <2>3, VmAssumption, GeometryAssumption DEF Address
  <1>8. ASSUME Succeeded, first # NoAddress, StartSearch(sys, first) PROVE VInv'
    <2>1. from \in Nat
      BY <1>7, <1>8, VmAssumption, GeometryAssumption DEF Address
    <2> HIDE DEF from
    <2>2. first \in Address /\ first % PageSize = 0
      BY <1>3, <1>4, <1>8, <2>1, AlignedUp
    <2> HIDE DEF first
    <2> QED
      BY <1>1, <1>2, <1>3, <1>4, <1>8, <2>2, StartedKeeps
  <1>9. ASSUME Succeeded, ~fixedOverflows(base, sys.size), ~overlaps(base, base + sys.size),
               Continue([sys EXCEPT !.stage = "place", !.address = base]), UNCHANGED vars
        PROVE  VInv'
    <2>1. hint \in Nat /\ hint <= Limit
      BY <1>7, <1>9, GeometryAssumption DEF Address
    <2> HIDE DEF hint
    <2>2. base \in Nat /\ base % PageSize = 0 /\ base <= hint
      BY <2>1, RoundingIsAligned
    <2> HIDE DEF base
    <2>3. base \in Address
      BY <2>1, <2>2, GeometryAssumption DEF Address
    <2>4. base + sys.size <= Limit
      BY <1>3, <1>9, <2>2, GeometryAssumption DEF fixedOverflows
    <2>5. \A m \in mappings : End(m) <= base \/ base + sys.size <= m.base
      BY <1>3, <1>5, <1>9, <2>2 DEF overlaps
    <2>6. validateNewMapping(base, sys.size, sys.permissions, {"R", "W", "X"})
      BY <1>3, <1>4, <2>2, <2>3, <2>4, <2>5, GapIsValid
    <2> QED
      BY <1>1, <1>2, <1>9, <2>3, <2>6, ChosenKeeps
  <1>10. \/ \E code : Quit(code)
         \/ Succeeded /\ first # NoAddress /\ StartSearch(sys, first)
         \/ /\ Succeeded /\ ~fixedOverflows(base, sys.size) /\ ~overlaps(base, base + sys.size)
            /\ Continue([sys EXCEPT !.stage = "place", !.address = base]) /\ UNCHANGED vars
    BY DEF place, NoSpace
  <1> HIDE DEF first, base
  <1> QED
    BY <1>6, <1>8, <1>9, <1>10

\* A rejected map ends the emulation; otherwise the address is copied out next.
LEMMA InstallKeeps ==
    ASSUME VInv, install
    PROVE  VInv'
  <1> DEFINE t == [sys EXCEPT !.stage = "placed"]
  <1>1. /\ sys.name \in {"allocate", "map"} /\ sys.stage = "place"
        /\ mapAnonymous(sys.address, sys.size, sys.permissions, {"R", "W", "X"})
    BY DEF install
  <1>2. {"R", "W", "X"} \in Permission
    BY DEF Permission
  <1>3. Space' /\ call' = NoCall /\ \A m \in mappings : m \in mappings'
    BY <1>1, <1>2, VInvFields, AnonymousSpace
  <1>4. CASE Throw
    BY <1>3, <1>4, AwayKeeps DEF Throw
  <1>5. CASE sys' = t
    <2>1. /\ t \in SysType /\ t.stage = "placed" /\ t.name = sys.name /\ t.pointer = sys.pointer
          /\ t.size = sys.size /\ t.mask = sys.mask /\ t.address = sys.address
      BY VInvFields, SetStage DEF Stages
    <2> HIDE DEF t
    <2>2. Asking(t)
      BY <2>1, StageAsking DEF VInv
    <2>3. Linking(t) /\ t.name \notin {"loading", "none", "stopped"}
      BY <1>1, <2>1 DEF Linking
    <2>4. Choosing'
      BY <1>3, <1>5, <2>1 DEF Choosing, Idle
    <2>5. sys.name \in Validating => Writable(mappings', sys.pointer)
      BY <1>1, <1>3 DEF VInv, Copying, Writable
    <2>6. Copying'
      BY <1>5, <2>1, <2>5 DEF Copying
    <2> QED
      BY <1>3, <1>5, <2>1, <2>2, <2>3, <2>4, <2>6, EnteredKeeps
  <1> QED
    BY <1>4, <1>5 DEF install, Continue

LEMMA CopyoutKeeps ==
    ASSUME VInv, copyout
    PROVE  VInv'
  <1> DEFINE t == [sys EXCEPT !.stage = "copyout"]
  <1>1. /\ sys.stage = "placed" /\ Idle /\ sys' = t
        /\ begin("write", sys.pointer, 1, {"W"}, <<sys.address>>)
    BY DEF copyout, Go, Enter, Continue
  <1>2. /\ t \in SysType /\ t.stage = "copyout" /\ t.name = sys.name /\ t.pointer = sys.pointer
        /\ t.size = sys.size /\ t.mask = sys.mask /\ t.address = sys.address
        /\ t.regions = sys.regions /\ t.region = sys.region /\ t.link = sys.link
    BY VInvFields, SetStage DEF Stages
  <1> HIDE DEF t
  <1>3. Space' /\ mappings' = mappings /\ Accessing(call', "write", sys.pointer)
    <2>1. <<sys.address>> \in Seq(Value) /\ Len(<<sys.address>>) = 1 /\ 1 \in Nat \ {0}
      BY VInvFields, VmAssumption
    <2> QED
      BY <1>1, <2>1, VInvFields, BeginWrite
  <1>4. Asking(t)
    BY <1>2, StageAsking DEF VInv
  <1>5. Linking(t)
    BY <1>2 DEF VInv, Linking
  <1>6. t.name \notin {"loading", "none", "stopped"}
    <2>1. \A n \in Names : Away(n).stage = "none"
      BY AwayType
    <2> QED
      BY <1>1, <1>2, <2>1, VInvFields DEF VInv, Resting
  <1>7. Choosing'
    BY <1>1, <1>2 DEF Choosing
  <1>8. Copying'
    BY <1>1, <1>2, <1>3 DEF VInv, Copying
  <1> QED
    BY <1>1, <1>2, <1>3, <1>4, <1>5, <1>6, <1>7, <1>8, EnteredKeeps

LEMMA PlacedKeeps ==
    ASSUME VInv, placed
    PROVE  VInv'
  BY QuitKeeps, UnsupportedKeeps DEF placed

\* The mach_vm_map message.
LEMMA MessageKeeps ==
    ASSUME VInv, NEW pointer \in Pointers, NEW base \in FixedBases, NEW size \in CallSizes,
           machVmMapMessage(pointer, base, size)
    PROVE  VInv'
  <1> DEFINE s == [Away("reserve") EXCEPT !.pointer = pointer, !.size = size, !.address = base]
             t == [s EXCEPT !.stage = "validate"]
  <1>1. pointer \in Address /\ size \in Address /\ base \in Address
    BY VmAssumption
  <1>2. CASE Unsupported
    BY <1>2, UnsupportedKeeps
  <1>3. ASSUME size # 0, base <= Limit - size, sys' = t,
               begin("validate", pointer, 1, {"W"}, << >>)
        PROVE  VInv'
    <2>1. Away("reserve") \in SysType /\ Away("reserve").name = "reserve"
      BY AwayType DEF Names
    <2>2. /\ s \in SysType /\ s.name = "reserve" /\ s.pointer = pointer /\ s.size = size
          /\ s.address = base
      BY <1>1, <2>1 DEF SysType
    <2> HIDE DEF s
    <2>3. /\ t \in SysType /\ t.stage = "validate" /\ t.name = "reserve" /\ t.pointer = pointer
          /\ t.size = size /\ t.address = base
      BY <2>2, SetStage DEF Stages
    <2> HIDE DEF t
    <2>4. Space' /\ Accessing(call', "validate", pointer) /\ "W" \in call'.required
      <3>1. {"W"} # {} /\ {"W"} \in Permission /\ Space /\ 1 \in Nat \ {0}
        BY DEF VInv, Permission
      <3> QED
        BY <1>1, <1>3, <3>1, BeginValidate
    <2>5. Asking(t) /\ Linking(t)
      BY <1>1, <1>3, <2>3, GeometryAssumption DEF Asking, Linking, Placing, Address
    <2>6. Choosing' /\ Copying'
      BY <1>3, <2>3, <2>4 DEF Choosing, Copying
    <2> QED
      BY <1>3, <2>3, <2>4, <2>5, <2>6, EnteredKeeps
  <1>4. \/ Unsupported
        \/ /\ size # 0 /\ base <= Limit - size /\ sys' = t
           /\ begin("validate", pointer, 1, {"W"}, << >>)
    BY DEF machVmMapMessage, Enter, Continue
  <1> HIDE DEF t
  <1> QED
    BY <1>2, <1>3, <1>4

LEMMA ReserveKeeps ==
    ASSUME VInv, reserve
    PROVE  VInv'
  <1>1. sys.name = "reserve" /\ sys.stage = "validate" /\ Idle
    BY DEF reserve, At
  <1>2. CASE Unsupported
    BY <1>2, UnsupportedKeeps
  <1>3. ASSUME NEW d \in {0, 1}, Succeeded, mapAnonymous(sys.address, sys.size, {}, {}),
               sys' = [sys EXCEPT !.stage = "placed", !.done = d]
        PROVE  VInv'
    <2> DEFINE t == [sys EXCEPT !.stage = "placed", !.done = d]
    <2>1. {} \in Permission /\ d \in Address
      <3>1. sys.size # 0 /\ sys.size <= Limit /\ sys.size \in Nat
        BY <1>1, VInvFields, GeometryAssumption DEF VInv, Asking, Validating, Address
      <3> QED
        BY <3>1, GeometryAssumption DEF Permission, Address
    <2>2. Space' /\ call' = NoCall /\ \A m \in mappings : m \in mappings'
      BY <1>3, <2>1, VInvFields, AnonymousSpace
    <2>3. /\ t \in SysType /\ t.stage = "placed" /\ t.name = sys.name /\ t.pointer = sys.pointer
          /\ t.size = sys.size /\ t.mask = sys.mask /\ t.address = sys.address
      BY <2>1, VInvFields DEF SysType, Stages
    <2> HIDE DEF t
    <2>4. sys' = t
      BY <1>3 DEF t
    <2>5. Asking(t)
      BY <2>3, StageAsking DEF VInv
    <2>6. Linking(t) /\ t.name \notin {"loading", "none", "stopped"}
      BY <1>1, <2>3 DEF Linking
    <2>7. Choosing'
      BY <2>2, <2>3, <2>4 DEF Choosing, Idle
    <2>8. Writable(mappings', sys.pointer)
      <3>1. call.op # "validate"
        BY <1>1 DEF Idle, NoCall
      <3>2. Writable(mappings, sys.pointer)
        BY <1>1, <1>3, <3>1 DEF VInv, Copying, Validating, Accessing
      <3> QED
        BY <2>2, <3>2 DEF Writable
    <2>9. Copying'
      BY <2>3, <2>4, <2>8 DEF Copying
    <2> QED
      BY <2>2, <2>3, <2>4, <2>5, <2>6, <2>7, <2>9, EnteredKeeps
  <1> QED
    BY <1>2, <1>3 DEF reserve, Continue

LEMMA ReservedKeeps ==
    ASSUME VInv, reserved
    PROVE  VInv'
  <1>1. CASE \E code : Quit(code)
    BY <1>1, QuitKeeps
  <1>2. CASE deallocate(sys.address, sys.size) /\ Throw
    BY <1>2, VInvFields, DeallocateSpace, AwayKeeps DEF Throw
  <1>3. CASE UNCHANGED vars /\ Throw
    BY <1>3, UnsupportedKeeps DEF Unsupported
  <1> QED
    BY <1>1, <1>2, <1>3, Zenon DEF reserved

LEMMA MmapKeeps ==
    ASSUME VInv, NEW file, NEW supported, NEW size \in CallSizes, NEW p \in MapProtections,
           handleMmap(file, supported, size, p)
    PROVE  VInv'
  <1> DEFINE s == [Away("mmap") EXCEPT !.size = RoundUp(size), !.permissions = p,
                                       !.mask = PageMask]
  <1>1. size \in Address /\ p \in Permission
    BY VmAssumption
  <1>2. CASE \E code : Refuse(code)
    BY <1>2, RefuseKeeps
  <1>3. CASE Unsupported
    BY <1>3, UnsupportedKeeps
  <1>4. ASSUME SizeIsValid(size), StartSearch(s, MinimumMap)
        PROVE  VInv'
    <2> DEFINE rounded == RoundUp(size)
    <2>1. rounded \in Address /\ rounded # 0 /\ rounded % PageSize = 0 /\ rounded <= Limit
      BY <1>1, <1>4, RoundedSize
    <2> HIDE DEF rounded
    <2>2. rounded \in Nat
      BY <2>1, GeometryAssumption DEF Address
    <2>3. s = [Away("mmap") EXCEPT !.size = rounded, !.permissions = p, !.mask = PageMask]
      BY DEF rounded
    <2>4. Away("mmap") \in SysType /\ Away("mmap").address = 0 /\ Away("mmap").name = "mmap"
      BY AwayType DEF Names
    <2>5. PageMask \in Nat /\ WholePages(PageMask)
      BY PageMaskWhole
    <2> HIDE DEF s
    <2>6. /\ s \in SysType /\ s.name = "mmap" /\ s.size = rounded /\ s.mask = PageMask
          /\ s.address = 0
      BY <1>1, <2>1, <2>3, <2>4, <2>5 DEF SysType
    <2>7. Asking(s)
      BY <2>1, <2>2, <2>5, <2>6 DEF Asking, WholePages
    <2>8. Idle /\ s.name \in Placing /\ s.name \notin Validating
      BY <2>6 DEF handleMmap, Ready, Placing, Validating
    <2>9. MinimumMap \in Address /\ MinimumMap % PageSize = 0
      BY VmAssumption
    <2> QED
      BY <1>4, <2>6, <2>7, <2>8, <2>9, StartedKeeps
  <1> HIDE DEF s
  <1> QED
    BY <1>2, <1>3, <1>4 DEF handleMmap, s

LEMMA MmapFileKeeps ==
    ASSUME VInv, mmapFile
    PROVE  VInv'
  <1>1. {"R", "W"} \in Permission
    BY DEF Permission
  <1>2. Space'
    BY <1>1, VInvFields, FileSegmentSpace DEF mmapFile
  <1> QED
    BY <1>2, AwayKeeps DEF mmapFile, Return, Throw

\* The calls that are one call on the address space.
LEMMA SmallKeeps ==
    ASSUME VInv, NEW address \in ChangeBases, NEW size \in ChangeSizes,
           \/ \E task \in BOOLEAN : machVmDeallocate(task, address, size)
           \/ handleMunmap(address, size)
           \/ \E p \in Protections, known \in BOOLEAN :
               \/ handleMprotect(known, address, size, p)
               \/ \E copy \in Copies, task \in BOOLEAN :
                     machVmProtect(task, known, address, size, p, copy)
    PROVE  VInv'
  <1>1. address \in Address /\ size \in Address
    BY VmAssumption, InputAssumption
  <1>2. CASE \E code : Refuse(code)
    BY <1>2, RefuseKeeps
  <1>3. CASE Unsupported
    BY <1>3, UnsupportedKeeps
  <1>4. CASE deallocate(address, size) /\ \E code : Return(code)
    BY <1>1, <1>4, VInvFields, DeallocateSpace, AwayKeeps DEF Return
  <1>5. ASSUME NEW p \in Protections, NEW copy \in BOOLEAN, protect(address, size, p, copy),
               \E code : Return(code)
        PROVE  VInv'
    <2>1. p \in Permission
      BY InputAssumption
    <2>2. Space'
      BY <1>1, <1>5, <2>1, VInvFields, ProtectSpace
    <2> QED
      BY <1>5, <2>2, AwayKeeps DEF Return
  <1>6. ASSUME NEW task, machVmDeallocate(task, address, size) PROVE VInv'
    BY <1>2, <1>4, <1>6, Zenon DEF machVmDeallocate
  <1>7. CASE handleMunmap(address, size)
    BY <1>2, <1>4, <1>7, Zenon DEF handleMunmap
  <1>8. ASSUME NEW p \in Protections, NEW known, handleMprotect(known, address, size, p)
        PROVE  VInv'
    <2>1. FALSE \in BOOLEAN
      OBVIOUS
    <2> QED
      BY <1>2, <1>5, <1>8, <2>1, Zenon DEF handleMprotect
  <1>9. ASSUME NEW p \in Protections, NEW known, NEW copy \in Copies, NEW task,
               machVmProtect(task, known, address, size, p, copy)
        PROVE  VInv'
    <2>1. copy \in BOOLEAN
      BY InputAssumption
    <2> QED
      BY <1>2, <1>3, <1>5, <1>9, <2>1, Zenon DEF machVmProtect
  <1> QED
    BY <1>6, <1>7, <1>8, <1>9

\* The calls that only write an answer, and the guest's own stores.
LEMMA AnswerKeeps ==
    ASSUME VInv, NEW name \in {"check", "store"}, NEW stage \in {"copyout", "store"},
           NEW pointer \in Pointers, NEW value \in Address,
           Enter([Away(name) EXCEPT !.pointer = pointer], stage, "write", pointer, 1, {"W"},
                 <<value>>)
    PROVE  VInv'
  <1> DEFINE s == [Away(name) EXCEPT !.pointer = pointer]
             t == [s EXCEPT !.stage = stage]
  <1>1. sys' = t /\ begin("write", pointer, 1, {"W"}, <<value>>)
    BY DEF Enter, Continue
  <1>2. pointer \in Address
    BY VmAssumption
  <1>3. /\ Away(name) \in SysType /\ Away(name).name = name /\ Away(name).address = 0
        /\ Away(name).size = 0
    BY AwayType DEF Names
  <1>4. s \in SysType /\ s.name = name /\ s.address = 0 /\ s.size = 0
    BY <1>2, <1>3 DEF SysType
  <1> HIDE DEF s
  <1>5. t \in SysType /\ t.name = name /\ t.address = 0 /\ t.size = 0 /\ t.stage = stage
    BY <1>4, SetStage DEF Stages
  <1> HIDE DEF t
  <1>6. Space'
    <2>1. <<value>> \in Seq(Value) /\ Len(<<value>>) = 1 /\ 1 \in Nat \ {0} /\ Space
      BY VmAssumption DEF VInv
    <2> QED
      BY <1>1, <1>2, <2>1, BeginWrite
  <1>7. Asking(t) /\ Linking(t) /\ t.name \notin {"loading", "none", "stopped"}
    BY <1>5, GeometryAssumption DEF Asking, Linking, Placing, Validating
  <1>8. Choosing' /\ Copying'
    BY <1>1, <1>5 DEF Choosing, Copying, Validating
  <1> QED
    BY <1>1, <1>5, <1>6, <1>7, <1>8, EnteredKeeps

-----------------------------------------------------------------------------
(* map_with_linking_np.                                                    *)

LinkStages == {"list", "blob", "region", "open", "copy", "page", "fix", "fixed", "close"}

\* A step of the call that stays in it.
LEMMA LinkKeeps ==
    ASSUME VInv, sys.name = "link", Space', NEW t \in SysType, sys' = t, t.name = "link",
           t.stage \in LinkStages, t.address = sys.address, t.size = sys.size, t.mask = sys.mask,
           Linking(t)
    PROVE  VInv'
  <1>1. Asking(t)
    BY StageAsking DEF VInv
  <1>2. Choosing' /\ Copying'
    BY DEF Choosing, Copying, LinkStages, Validating
  <1> QED
    BY <1>1, <1>2, EnteredKeeps

\* The region the call has reached.
LEMMA RegionFacts ==
    ASSUME VInv, sys.name = "link"
    PROVE  /\ Region \in RegionType /\ sys.region \in 1 .. Len(sys.regions) /\ sys.link # 0
           /\ Len(sys.regions) \in Nat
           /\ Region.address \in Address /\ Region.size \in Address /\ Region.address \in Nat
           /\ Region.size \in Nat /\ Region.permissions \in Permission
           /\ Region.chain \in Seq(Nat) /\ Len(Region.chain) \in Nat
           /\ \A i \in 1 .. Len(Region.chain) : Region.chain[i] \in Nat
           /\ sys.done \in Nat
  <1>1. sys.region \in 1 .. Len(sys.regions) /\ sys.link # 0
    BY DEF VInv, Linking
  <1>2. sys.regions \in Seq(RegionType) /\ Len(sys.regions) \in Nat
    BY VInvFields
  <1>3. Region \in RegionType
    BY <1>1, <1>2 DEF Region
  <1>4. /\ Region.address \in Address /\ Region.size \in Address
        /\ Region.permissions \in Permission /\ Region.chain \in Seq(Nat)
    BY <1>3 DEF RegionType
  <1>5. Len(Region.chain) \in Nat /\ \A i \in 1 .. Len(Region.chain) : Region.chain[i] \in Nat
    BY <1>4
  <1>6. Region.address \in Nat /\ Region.size \in Nat /\ sys.done \in Nat
    BY <1>4, VInvFields, GeometryAssumption DEF Address
  <1> QED
    BY <1>1, <1>2, <1>3, <1>4, <1>5, <1>6

\* What is left of a region is whole pages.
LEMMA PageLeft ==
    ASSUME NEW done \in Nat, NEW size \in Nat, done % PageSize = 0, size % PageSize = 0, done < size
    PROVE  done + PageSize <= size /\ (done + PageSize) % PageSize = 0
  <1>1. (size - done) % PageSize = 0
    <2>1. done <= size
      OBVIOUS
    <2> QED
      BY <2>1, AlignedDistance, Zenon
  <1> DEFINE d == size - done
             q == d \div PageSize
  <1>2. d \in Nat /\ d > 0 /\ PageSize \in Nat \ {0} /\ PageSize \in Nat
    BY GeometryAssumption
  <1>3. d = PageSize * q + (d % PageSize) /\ q \in Nat
    BY <1>2, DivMod
  <1>4. d % PageSize = 0
    BY <1>1
  <1> HIDE DEF q
  <1>5. d = PageSize * q
    BY <1>2, <1>3, <1>4
  <1>6. q # 0
    BY <1>2, <1>3, <1>5
  <1>7. PageSize <= d
    BY <1>2, <1>3, <1>5, <1>6
  <1>8. PageSize % PageSize = 0
    <2>1. (PageSize * 1) % PageSize = 0
      BY <1>2, MultMod
    <2> QED
      BY <1>2, <2>1
  <1>9. (done + PageSize) % PageSize = 0
    BY <1>2, <1>8, AlignedDistance, Zenon
  <1> QED
    BY <1>2, <1>7, <1>9

\* Chunks and cells of an opened region are addresses.
LEMMA RegionCellsInside ==
    ASSUME VInv, sys.name = "link", sys.stage \in {"copy", "page", "fix", "fixed"},
           sys.done < Region.size
    PROVE  /\ ChunkAt \in Address /\ sys.done + PageSize \in Address
           /\ sys.done + PageSize <= Region.size /\ (sys.done + PageSize) % PageSize = 0
           /\ \A i \in Nat : i < PageSize => ChunkAt + i \in Address
  <1>1. /\ Region.size % PageSize = 0 /\ Region.address + Region.size <= Limit
        /\ sys.done % PageSize = 0
    BY DEF VInv, Linking, Region
  <1>2. Region.address \in Nat /\ Region.size \in Nat /\ sys.done \in Nat
    BY RegionFacts
  <1>3. sys.done + PageSize <= Region.size /\ (sys.done + PageSize) % PageSize = 0
    BY <1>1, <1>2, PageLeft
  <1> QED
    BY <1>1, <1>2, <1>3, GeometryAssumption DEF ChunkAt, Address

LEMMA LinkStartKeeps ==
    ASSUME VInv, NEW regions \in RegionLists, NEW blob \in Pointers,
           handleMapWithLinking(regions, blob)
    PROVE  VInv'
  <1> DEFINE s == [Away("link") EXCEPT !.regions = regions, !.pointer = blob]
             t == [s EXCEPT !.stage = "list"]
  <1>1. CASE Refuse("EINVAL")
    BY <1>1, RefuseKeeps
  <1>2. ASSUME regions # << >>, sys' = t, begin("read", blob, 1, {"R"}, << >>)
        PROVE  VInv'
    <2>1. blob \in Address /\ regions \in Seq(RegionType)
      BY VmAssumption DEF RegionType
    <2>2. /\ Away("link") \in SysType /\ Away("link").name = "link" /\ Away("link").address = 0
          /\ Away("link").size = 0 /\ Away("link").region = 1 /\ Away("link").link = 1
      BY AwayType DEF Names
    <2>3. /\ s \in SysType /\ s.name = "link" /\ s.address = 0 /\ s.size = 0 /\ s.region = 1
          /\ s.link = 1 /\ s.regions = regions
      BY <2>1, <2>2 DEF SysType
    <2> HIDE DEF s
    <2>4. /\ t \in SysType /\ t.name = "link" /\ t.address = 0 /\ t.size = 0 /\ t.region = 1
          /\ t.link = 1 /\ t.regions = regions /\ t.stage = "list"
      BY <2>3, SetStage DEF Stages
    <2> HIDE DEF t
    <2>5. Space'
      BY <1>2, <2>1, VInvFields, BeginRead
    <2>6. 1 \in 1 .. Len(regions)
      BY <1>2, <2>1
    <2>7. Asking(t) /\ Linking(t) /\ t.name \notin {"loading", "none", "stopped"}
      BY <2>4, <2>6, GeometryAssumption DEF Asking, Linking, Placing, Validating
    <2>8. Choosing' /\ Copying'
      BY <1>2, <2>4 DEF Choosing, Copying, Validating
    <2> QED
      BY <1>2, <2>4, <2>5, <2>7, <2>8, EnteredKeeps
  <1>3. \/ Refuse("EINVAL")
        \/ regions # << >> /\ sys' = t /\ begin("read", blob, 1, {"R"}, << >>)
    BY DEF handleMapWithLinking, Enter, Continue
  <1> HIDE DEF t
  <1> QED
    BY <1>1, <1>2, <1>3

LEMMA LinkListKeeps ==
    ASSUME VInv, linkList
    PROVE  VInv'
  <1> DEFINE t == [sys EXCEPT !.stage = "blob"]
  <1>1. CASE \E code : Quit(code)
    BY <1>1, QuitKeeps
  <1>2. CASE sys' = t /\ begin("read", sys.pointer, 1, {"R"}, << >>)
    <2>1. sys.name = "link" /\ sys.stage = "list"
      BY DEF linkList, At
    <2>2. /\ t \in SysType /\ t.stage = "blob" /\ t.name = sys.name /\ t.size = sys.size
          /\ t.address = sys.address /\ t.mask = sys.mask /\ t.regions = sys.regions
          /\ t.region = sys.region /\ t.link = sys.link
      BY VInvFields, SetStage DEF Stages
    <2> HIDE DEF t
    <2>3. Space'
      BY <1>2, VInvFields, BeginRead
    <2>4. Linking(t) /\ t.stage \in LinkStages
      BY <2>1, <2>2 DEF VInv, Linking, LinkStages
    <2> QED
      BY <1>2, <2>1, <2>2, <2>3, <2>4, LinkKeeps
  <1> QED
    BY <1>1, <1>2 DEF linkList, Go, Enter, Continue

LEMMA LinkBlobKeeps ==
    ASSUME VInv, linkBlob
    PROVE  VInv'
  <1> DEFINE t == [sys EXCEPT !.stage = "region", !.pointer = 0]
  <1>1. CASE \E code : Quit(code)
    BY <1>1, QuitKeeps
  <1>2. CASE Unsupported
    BY <1>2, UnsupportedKeeps
  <1>3. CASE sys' = t /\ UNCHANGED vars
    <2>1. sys.name = "link" /\ sys.stage = "blob"
      BY DEF linkBlob, At
    <2>2. 0 \in Address /\ sys \in SysType
      BY VInvFields, GeometryAssumption DEF Address
    <2>3. /\ t \in SysType /\ t.stage = "region" /\ t.name = sys.name /\ t.size = sys.size
          /\ t.address = sys.address /\ t.mask = sys.mask /\ t.regions = sys.regions
          /\ t.region = sys.region /\ t.link = sys.link
      BY <2>2 DEF SysType, Stages
    <2> HIDE DEF t
    <2>4. Space'
      BY <1>3, StillSpace DEF VInv
    <2>5. Linking(t) /\ t.stage \in LinkStages
      BY <2>1, <2>3 DEF VInv, Linking, LinkStages
    <2> QED
      BY <1>3, <2>1, <2>3, <2>4, <2>5, LinkKeeps
  <1> QED
    BY <1>1, <1>2, <1>3 DEF linkBlob, Continue

LEMMA LinkRegionKeeps ==
    ASSUME VInv, linkRegion
    PROVE  VInv'
  <1> DEFINE t == [sys EXCEPT !.stage = "open"]
  <1>1. CASE Unsupported
    BY <1>1, UnsupportedKeeps
  <1>2. ASSUME Region.size # 0, Region.size % PageSize = 0, sys' = t,
               begin("validate", Region.address, Region.size, {"R"}, << >>)
        PROVE  VInv'
    <2>1. sys.name = "link" /\ sys.stage = "region"
      BY DEF linkRegion, At
    <2>2. /\ t \in SysType /\ t.stage = "open" /\ t.name = sys.name /\ t.size = sys.size
          /\ t.address = sys.address /\ t.mask = sys.mask /\ t.regions = sys.regions
          /\ t.region = sys.region /\ t.link = sys.link
      BY VInvFields, SetStage DEF Stages
    <2> HIDE DEF t
    <2>3. Space'
      <3>1. {"R"} # {} /\ {"R"} \in Permission /\ Region.size \in Nat \ {0}
        BY <1>2, <2>1, RegionFacts DEF Permission
      <3> QED
        BY <1>2, <2>1, <3>1, RegionFacts, VInvFields, BeginValidate
    <2>4. Linking(t) /\ t.stage \in LinkStages
      BY <1>2, <2>1, <2>2, RegionFacts DEF Linking, LinkStages, Region
    <2> QED
      BY <1>2, <2>1, <2>2, <2>3, <2>4, LinkKeeps
  <1>3. \/ Unsupported
        \/ /\ Region.size # 0 /\ Region.size % PageSize = 0 /\ sys' = t
           /\ begin("validate", Region.address, Region.size, {"R"}, << >>)
    BY DEF linkRegion, Go, Enter, Continue
  <1> QED
    BY <1>1, <1>2, <1>3

\* A region that could be opened lies inside the address range.
LEMMA LinkOpenKeeps ==
    ASSUME VInv, linkOpen
    PROVE  VInv'
  <1> DEFINE t == [sys EXCEPT !.stage = "copy", !.done = 0]
  <1>1. sys.name = "link" /\ sys.stage = "open"
    BY DEF linkOpen, At
  <1>2. CASE \E code : Quit(code)
    BY <1>2, QuitKeeps
  <1>3. ASSUME protect(Region.address, Region.size, {"R", "W"}, FALSE)
        PROVE  /\ Space'
               /\ result'.status = "success" => Region.address + Region.size <= Limit
    <2>1. {"R", "W"} \in Permission /\ FALSE \in BOOLEAN /\ Region.size # 0
      BY <1>1 DEF Permission, VInv, Linking, Region
    <2> QED
      BY <1>1, <1>3, <2>1, RegionFacts, VInvFields, ProtectSpace
  <1>4. ASSUME protect(Region.address, Region.size, {"R", "W"}, FALSE),
               result'.status = "success", sys' = t
        PROVE  VInv'
    <2>1. 0 \in Address /\ sys \in SysType /\ 0 % PageSize = 0
      <3>1. (PageSize * 0) % PageSize = 0
        BY GeometryAssumption, MultMod
      <3>2. PageSize * 0 = 0
        BY GeometryAssumption
      <3> QED
        BY <3>1, <3>2, VInvFields, GeometryAssumption DEF Address
    <2>2. /\ t \in SysType /\ t.stage = "copy" /\ t.name = sys.name /\ t.size = sys.size
          /\ t.address = sys.address /\ t.mask = sys.mask /\ t.regions = sys.regions
          /\ t.region = sys.region /\ t.link = sys.link /\ t.done = 0
      BY <2>1 DEF SysType, Stages
    <2> HIDE DEF t
    <2>3. Space' /\ Region.address + Region.size <= Limit
      BY <1>3, <1>4
    <2>4. Region.size # 0 /\ Region.size % PageSize = 0
      BY <1>1 DEF VInv, Linking, Region
    <2>5. Linking(t) /\ t.stage \in LinkStages
      BY <1>1, <2>1, <2>2, <2>3, <2>4, RegionFacts DEF Linking, LinkStages, Region
    <2> QED
      BY <1>1, <1>4, <2>2, <2>3, <2>5, LinkKeeps
  <1>5. CASE /\ protect(Region.address, Region.size, {"R", "W"}, FALSE)
             /\ \E code : Return(code)
    BY <1>3, <1>5, AwayKeeps DEF Return
  <1> QED
    BY <1>2, <1>4, <1>5 DEF linkOpen, Continue

LEMMA LinkCopyKeeps ==
    ASSUME VInv, linkCopy
    PROVE  VInv'
  <1>1. sys.name = "link" /\ sys.stage = "copy"
    BY DEF linkCopy, At
  <1>2. CASE \E code : Quit(code)
    BY <1>2, QuitKeeps
  <1>3. /\ Region.size # 0 /\ Region.size % PageSize = 0 /\ Region.address + Region.size <= Limit
        /\ sys.done % PageSize = 0 /\ sys.done <= Region.size /\ sys \in SysType
    BY <1>1, VInvFields DEF VInv, Linking, Region
  <1>4. ASSUME sys.done < Region.size, begin("write", ChunkAt, PageSize, {"W"}, FileChunk),
               sys' = [sys EXCEPT !.done = @ + PageSize]
        PROVE  VInv'
    <2> DEFINE d == sys.done + PageSize
               t == [sys EXCEPT !.done = d]
    <2>1. ChunkAt \in Address /\ d \in Address /\ d <= Region.size /\ d % PageSize = 0
      BY <1>1, <1>4, RegionCellsInside
    <2> HIDE DEF d
    <2>2. sys' = t
      BY <1>4 DEF d
    <2>3. /\ t \in SysType /\ t.stage = "copy" /\ t.name = sys.name /\ t.size = sys.size
          /\ t.address = sys.address /\ t.mask = sys.mask /\ t.regions = sys.regions
          /\ t.region = sys.region /\ t.link = sys.link /\ t.done = d
      BY <1>1, <1>3, <2>1 DEF SysType
    <2> HIDE DEF t
    <2>4. Space'
      <3>1. FileChunk \in Seq(Value) /\ Len(FileChunk) = PageSize /\ PageSize \in Nat \ {0}
        BY ContentAssumption, GeometryAssumption DEF FileChunk
      <3> QED
        BY <1>4, <2>1, <3>1, VInvFields, BeginWrite
    <2>5. Linking(t) /\ t.stage \in LinkStages
      BY <1>1, <1>3, <2>1, <2>3, RegionFacts DEF Linking, LinkStages, Region
    <2> QED
      BY <1>1, <2>2, <2>3, <2>4, <2>5, LinkKeeps
  <1>5. ASSUME sys' = [sys EXCEPT !.stage = "page", !.done = 0], UNCHANGED vars
        PROVE  VInv'
    <2> DEFINE t == [sys EXCEPT !.stage = "page", !.done = 0]
    <2>1. 0 \in Address /\ 0 % PageSize = 0
      <3>1. (PageSize * 0) % PageSize = 0
        BY GeometryAssumption, MultMod
      <3>2. PageSize * 0 = 0
        BY GeometryAssumption
      <3> QED
        BY <3>1, <3>2, GeometryAssumption DEF Address
    <2>2. /\ t \in SysType /\ t.stage = "page" /\ t.name = sys.name /\ t.size = sys.size
          /\ t.address = sys.address /\ t.mask = sys.mask /\ t.regions = sys.regions
          /\ t.region = sys.region /\ t.link = sys.link /\ t.done = 0
      BY <1>3, <2>1 DEF SysType, Stages
    <2>3. sys' = t
      BY <1>5
    <2> HIDE DEF t
    <2>4. Space'
      BY <1>5, StillSpace DEF VInv
    <2>5. Linking(t) /\ t.stage \in LinkStages
      BY <1>1, <1>3, <2>1, <2>2, RegionFacts DEF Linking, LinkStages, Region
    <2> QED
      BY <1>1, <2>2, <2>3, <2>4, <2>5, LinkKeeps
  <1> QED
    BY <1>2, <1>4, <1>5 DEF linkCopy, Continue

LEMMA LinkPageKeeps ==
    ASSUME VInv, linkPage
    PROVE  VInv'
  <1>1. sys.name = "link" /\ sys.stage = "page"
    BY DEF linkPage, At
  <1>2. CASE Unsupported
    BY <1>2, UnsupportedKeeps
  <1>3. /\ Region.size # 0 /\ Region.size % PageSize = 0 /\ Region.address + Region.size <= Limit
        /\ sys.done % PageSize = 0 /\ sys.done <= Region.size /\ sys \in SysType
    BY <1>1, VInvFields DEF VInv, Linking, Region
  <1>4. ASSUME sys' = [sys EXCEPT !.stage = "close"], UNCHANGED vars PROVE VInv'
    <2> DEFINE t == [sys EXCEPT !.stage = "close"]
    <2>1. /\ t \in SysType /\ t.stage = "close" /\ t.name = sys.name /\ t.size = sys.size
          /\ t.address = sys.address /\ t.mask = sys.mask /\ t.regions = sys.regions
          /\ t.region = sys.region /\ t.link = sys.link /\ t.done = sys.done
      BY <1>3, SetStage DEF Stages
    <2>2. sys' = t
      BY <1>4
    <2> HIDE DEF t
    <2>3. Space'
      BY <1>4, StillSpace DEF VInv
    <2>4. Linking(t) /\ t.stage \in LinkStages
      BY <1>1, <1>3, <2>1, RegionFacts DEF Linking, LinkStages, Region
    <2> QED
      BY <1>1, <2>1, <2>2, <2>3, <2>4, LinkKeeps
  <1>5. ASSUME sys.done < Region.size, UNCHANGED vars,
               sys' = [sys EXCEPT !.done = @ + PageSize, !.link = 1]
        PROVE  VInv'
    <2> DEFINE d == sys.done + PageSize
               t == [sys EXCEPT !.done = d, !.link = 1]
    <2>1. d \in Address /\ d <= Region.size /\ d % PageSize = 0
      BY <1>1, <1>5, RegionCellsInside
    <2> HIDE DEF d
    <2>2. sys' = t
      BY <1>5 DEF d
    <2>3. /\ t \in SysType /\ t.stage = "page" /\ t.name = sys.name /\ t.size = sys.size
          /\ t.address = sys.address /\ t.mask = sys.mask /\ t.regions = sys.regions
          /\ t.region = sys.region /\ t.link = 1 /\ t.done = d
      BY <1>1, <1>3, <2>1 DEF SysType
    <2> HIDE DEF t
    <2>4. Space'
      BY <1>5, StillSpace DEF VInv
    <2>5. Linking(t) /\ t.stage \in LinkStages
      BY <1>1, <1>3, <2>1, <2>3, RegionFacts DEF Linking, LinkStages, Region
    <2> QED
      BY <1>1, <2>2, <2>3, <2>4, <2>5, LinkKeeps
  <1>6. ASSUME sys.done < Region.size, sys.link <= Len(Region.chain),
               Region.chain[sys.link] < PageSize, sys' = [sys EXCEPT !.stage = "fix"],
               begin("read", ChunkAt + Region.chain[sys.link], 1, {"R"}, << >>)
        PROVE  VInv'
    <2> DEFINE t == [sys EXCEPT !.stage = "fix"]
    <2>1. sys.link \in 1 .. Len(Region.chain) /\ Region.chain[sys.link] \in Nat
      BY <1>1, <1>6, RegionFacts, VInvFields
    <2>2. ChunkAt + Region.chain[sys.link] \in Address
      BY <1>1, <1>6, <2>1, RegionCellsInside
    <2>3. /\ t \in SysType /\ t.stage = "fix" /\ t.name = sys.name /\ t.size = sys.size
          /\ t.address = sys.address /\ t.mask = sys.mask /\ t.regions = sys.regions
          /\ t.region = sys.region /\ t.link = sys.link /\ t.done = sys.done
      BY <1>3, SetStage DEF Stages
    <2>4. sys' = t
      BY <1>6
    <2> HIDE DEF t
    <2>5. Space'
      BY <1>6, <2>2, VInvFields, BeginRead
    <2>6. Linking(t) /\ t.stage \in LinkStages
      BY <1>1, <1>3, <1>6, <2>3, RegionFacts DEF Linking, LinkStages, Region
    <2> QED
      BY <1>1, <2>3, <2>4, <2>5, <2>6, LinkKeeps
  <1> QED
    BY <1>2, <1>4, <1>5, <1>6 DEF linkPage, Continue, Go, Enter

LEMMA LinkFixKeeps ==
    ASSUME VInv, linkFix
    PROVE  VInv'
  <1> DEFINE t == [sys EXCEPT !.stage = "fixed"]
  <1>1. sys.name = "link" /\ sys.stage = "fix"
    BY DEF linkFix, At
  <1>2. CASE \E code : Quit(code)
    BY <1>2, QuitKeeps
  <1>3. CASE Unsupported
    BY <1>3, UnsupportedKeeps
  <1>4. ASSUME sys' = t,
               begin("write", ChunkAt + Region.chain[sys.link], 1, {"W"}, <<Linked>>)
        PROVE  VInv'
    <2>1. /\ sys.done < Region.size /\ sys.link <= Len(Region.chain)
          /\ Region.chain[sys.link] < PageSize
      BY <1>1 DEF VInv, Linking, Region
    <2>2. sys.link \in 1 .. Len(Region.chain) /\ Region.chain[sys.link] \in Nat
      BY <1>1, <2>1, RegionFacts, VInvFields
    <2>3. ChunkAt + Region.chain[sys.link] \in Address
      BY <1>1, <2>1, <2>2, RegionCellsInside
    <2>4. /\ t \in SysType /\ t.stage = "fixed" /\ t.name = sys.name /\ t.size = sys.size
          /\ t.address = sys.address /\ t.mask = sys.mask /\ t.regions = sys.regions
          /\ t.region = sys.region /\ t.link = sys.link /\ t.done = sys.done
      BY VInvFields, SetStage DEF Stages
    <2> HIDE DEF t
    <2>5. Space'
      <3>1. <<Linked>> \in Seq(Value) /\ Len(<<Linked>>) = 1 /\ 1 \in Nat \ {0}
        BY VmAssumption
      <3> QED
        BY <1>4, <2>3, <3>1, VInvFields, BeginWrite
    <2>6. Linking(t) /\ t.stage \in LinkStages
      BY <1>1, <2>4 DEF VInv, Linking, LinkStages
    <2> QED
      BY <1>1, <1>4, <2>4, <2>5, <2>6, LinkKeeps
  <1> QED
    BY <1>2, <1>3, <1>4 DEF linkFix, Continue, Go, Enter

LEMMA LinkFixedKeeps ==
    ASSUME VInv, linkFixed
    PROVE  VInv'
  <1>1. sys.name = "link" /\ sys.stage = "fixed"
    BY DEF linkFixed, At
  <1>2. CASE \E code : Quit(code)
    BY <1>2, QuitKeeps
  <1>3. ASSUME sys' = [sys EXCEPT !.stage = "page", !.link = @ + 1], UNCHANGED vars
        PROVE  VInv'
    <2> DEFINE l == sys.link + 1
               t == [sys EXCEPT !.stage = "page", !.link = l]
    <2>1. l \in Nat /\ l # 0 /\ sys \in SysType
      BY VInvFields
    <2> HIDE DEF l
    <2>2. sys' = t
      BY <1>3 DEF l
    <2>3. /\ t \in SysType /\ t.stage = "page" /\ t.name = sys.name /\ t.size = sys.size
          /\ t.address = sys.address /\ t.mask = sys.mask /\ t.regions = sys.regions
          /\ t.region = sys.region /\ t.link = l /\ t.done = sys.done
      BY <2>1 DEF SysType, Stages
    <2> HIDE DEF t
    <2>4. Space'
      BY <1>3, StillSpace DEF VInv
    <2>5. Linking(t) /\ t.stage \in LinkStages
      BY <1>1, <2>1, <2>3 DEF VInv, Linking, LinkStages
    <2> QED
      BY <1>1, <2>2, <2>3, <2>4, <2>5, LinkKeeps
  <1> QED
    BY <1>2, <1>3 DEF linkFixed, Continue

LEMMA LinkCloseKeeps ==
    ASSUME VInv, linkClose
    PROVE  VInv'
  <1>1. /\ sys.name = "link" /\ sys.stage = "close"
        /\ protect(Region.address, Region.size, Region.permissions, FALSE)
    BY DEF linkClose, At
  <1>2. Space'
    <2>1. FALSE \in BOOLEAN
      OBVIOUS
    <2> QED
      BY <1>1, <2>1, RegionFacts, VInvFields, ProtectSpace
  <1>3. CASE \E code : Return(code)
    BY <1>2, <1>3, AwayKeeps DEF Return
  <1>4. ASSUME sys.region < Len(sys.regions),
               sys' = [sys EXCEPT !.stage = "region", !.region = @ + 1, !.done = 0]
        PROVE  VInv'
    <2> DEFINE n == sys.region + 1
               t == [sys EXCEPT !.stage = "region", !.region = n, !.done = 0]
    <2>1. /\ n \in Nat /\ n \in 1 .. Len(sys.regions) /\ sys \in SysType /\ 0 \in Address
          /\ sys.link # 0
      <3>1. /\ sys.region \in 1 .. Len(sys.regions) /\ Len(sys.regions) \in Nat
            /\ sys.link # 0
        BY <1>1, RegionFacts
      <3>2. n \in Nat /\ n \in 1 .. Len(sys.regions)
        BY <1>4, <3>1
      <3>3. sys \in SysType
        BY VInvFields
      <3>4. 0 \in Address
        BY GeometryAssumption DEF Address
      <3> QED
        BY <3>1, <3>2, <3>3, <3>4
    <2> HIDE DEF n
    <2>2. sys' = t
      BY <1>4 DEF n
    <2>3. /\ t \in SysType /\ t.stage = "region" /\ t.name = sys.name /\ t.size = sys.size
          /\ t.address = sys.address /\ t.mask = sys.mask /\ t.regions = sys.regions
          /\ t.region = n /\ t.link = sys.link /\ t.done = 0
      BY <2>1 DEF SysType, Stages
    <2> HIDE DEF t
    <2>4. Linking(t) /\ t.stage \in LinkStages
      BY <2>1, <2>3 DEF Linking, LinkStages
    <2> QED
      BY <1>1, <1>2, <2>2, <2>3, <2>4, LinkKeeps
  <1> QED
    BY <1>3, <1>4 DEF linkClose, Continue

-----------------------------------------------------------------------------
(* The accesses a handler waits for.                                       *)

\* An access of one cell ends with its first iteration.
LEMMA OneCell ==
    ASSUME IInv, Active, call.size = 1
    PROVE  /\ call.done = 0 /\ Cursor = call.address /\ Remaining = 1 /\ call.address \in Nat
           /\ \A m \in mappings : Found(m) => Chunk(m) = 1 /\ Holds(m, call.address)
                                              /\ hasPermission(m.permissions, call.required)
  <1>1. call.done \in Nat /\ call.done < call.size /\ call.address \in Nat
    BY GeometryAssumption DEF IInv, CallType, CallProgress, Active, Address
  <1>2. call.done = 0 /\ Cursor = call.address /\ Remaining = 1
    BY <1>1 DEF Cursor, Remaining
  <1>3. ASSUME NEW m \in mappings, Found(m)
        PROVE  Chunk(m) = 1 /\ Holds(m, call.address) /\ hasPermission(m.permissions, call.required)
    <2>1. Chunk(m) \in Nat \ {0} /\ Chunk(m) <= Remaining
      BY <1>3, FoundFacts
    <2>2. Holds(m, Cursor) /\ hasPermission(m.permissions, call.required)
      BY <1>3, FoundChunk
    <2> QED
      BY <1>2, <2>1, <2>2
  <1> QED
    BY <1>1, <1>2, <1>3

LEMMA ReadOne ==
    ASSUME Space, Accessing(call, "read", sys.pointer), readInto
    PROVE  /\ mappings' = mappings
           /\ call'.op = "crashed" \/ (Idle' /\ (Succeeded' => Len(result'.data) = 1))
  <1>1. IInv /\ AInv /\ Active /\ call.size = 1 /\ call.op = "read"
    BY DEF Space, Active, Accessing
  <1>2. call.data \in Seq(Value) /\ Len(call.data) = 0 /\ Remaining = 1
    BY <1>1, OneCell DEF IInv, CallType, AInv, CallShape
  <1>3. ASSUME Finish("fault", << >>), mappings' = mappings
        PROVE  mappings' = mappings /\ Idle' /\ ~Succeeded'
    BY <1>3 DEF Finish, Returned, Idle, Succeeded
  <1>4. CASE Fault
    BY <1>3, <1>4 DEF Fault, Unchanged
  <1>5. ASSUME NEW m \in mappings, Crash(m)
        PROVE  mappings' = mappings /\ call'.op = "crashed"
    BY <1>5 DEF Crash, NoCall
  <1>6. ASSUME NEW m \in mappings, MaterializeFault(m, Chunk(m))
        PROVE  mappings' = mappings /\ Idle' /\ ~Succeeded'
    BY <1>3, <1>6 DEF MaterializeFault
  <1>7. ASSUME NEW m \in mappings, Found(m), mappings' = mappings,
               LET read == call.data \o Cells(m, hosts', Offset(m), Chunk(m))
               IN  \/ Chunk(m) = Remaining /\ Finish("success", read)
                   \/ Chunk(m) < Remaining
        PROVE  mappings' = mappings /\ Idle' /\ Len(result'.data) = 1
    <2>1. Chunk(m) = 1
      BY <1>1, <1>7, OneCell
    <2> DEFINE cells == Cells(m, hosts', Offset(m), 1)
    <2>2. cells = [i \in 1 .. 1 |-> Stored(m, hosts', Offset(m) + i - 1)]
      BY DEF Cells
    <2> HIDE DEF cells
    <2>3. cells \in Seq({cells[1]}) /\ Len(cells) = 1
      <3>1. cells \in [1 .. 1 -> {cells[1]}] /\ 1 \in Nat
        BY <2>2
      <3>2. cells \in Seq({cells[1]})
        BY <3>1, SeqDef
      <3> QED
        BY <3>1, <3>2
    <2>4. call.data = << >>
      BY <1>2
    <2>5. Len(call.data \o cells) = 1
      BY <2>3, <2>4
    <2>6. Finish("success", call.data \o cells)
      BY <1>2, <1>7, <2>1 DEF cells
    <2> QED
      BY <1>7, <2>5, <2>6 DEF Finish, Returned, Idle
  <1>8. \/ Fault
        \/ \E m \in mappings : Found(m) /\ Finish("fault", << >>) /\ mappings' = mappings
        \/ \E m \in mappings : Crash(m) \/ MaterializeFault(m, Chunk(m))
        \/ \E m \in mappings :
             /\ Found(m) /\ mappings' = mappings
             /\ LET read == call.data \o Cells(m, hosts', Offset(m), Chunk(m))
                IN  \/ Chunk(m) = Remaining /\ Finish("success", read)
                    \/ Chunk(m) < Remaining
    BY Zenon DEF readInto
  <1> QED
    BY <1>3, <1>4, <1>5, <1>6, <1>7, <1>8

LEMMA ValidateOne ==
    ASSUME Space, Accessing(call, "validate", sys.pointer), "W" \in call.required, validateAccess
    PROVE  mappings' = mappings /\ Idle' /\ (Succeeded' => Writable(mappings', sys.pointer))
  <1>1. IInv /\ AInv /\ Active /\ call.size = 1 /\ call.address = sys.pointer /\ Remaining = 1
    BY OneCell DEF Space, Active, Accessing
  <1>2. CASE Fault
    BY <1>2 DEF Fault, Unchanged, Finish, Returned, Idle, Succeeded
  <1>3. ASSUME NEW m \in mappings, Found(m), mappings' = mappings,
               (Chunk(m) = Remaining /\ Finish("success", << >>)) \/ Chunk(m) < Remaining
        PROVE  mappings' = mappings /\ Idle' /\ Writable(mappings', sys.pointer)
    <2>1. Chunk(m) = 1 /\ Holds(m, sys.pointer) /\ hasPermission(m.permissions, call.required)
      BY <1>1, <1>3, OneCell
    <2>2. "W" \in m.permissions
      BY <2>1 DEF hasPermission
    <2> QED
      BY <1>1, <1>3, <2>1, <2>2 DEF Writable, Finish, Idle
  <1>4. \/ Fault
        \/ \E m \in mappings :
             /\ Found(m) /\ mappings' = mappings
             /\ (Chunk(m) = Remaining /\ Finish("success", << >>)) \/ Chunk(m) < Remaining
    BY Zenon DEF validateAccess
  <1> QED
    BY <1>2, <1>3, <1>4

\* A cell that can be written is written, unless its mapping has no storage.
LEMMA WriteOne ==
    ASSUME Space, Accessing(call, "write", sys.pointer), Writable(mappings, sys.pointer),
           writeFirst
    PROVE  call'.op = "crashed" \/ (Idle' /\ Succeeded')
  <1>1. /\ IInv /\ AInv /\ Active /\ call.size = 1 /\ call.address = sys.pointer /\ Remaining = 1
        /\ Cursor = sys.pointer /\ call.required = {"W"} /\ Unshared(mappings)
        /\ sys.pointer \in Nat
    BY OneCell DEF Space, Active, Accessing, AInv, CallShape
  <1>2. ~Fault
    <2>1. PICK m \in mappings : Holds(m, sys.pointer) /\ "W" \in m.permissions
      BY DEF Writable
    <2>2. m.base <= sys.pointer /\ sys.pointer < End(m) /\ 1 <= End(m) - sys.pointer
      BY <1>1, <2>1, MappingFacts DEF Holds
    <2>3. m \in SearchHit(sys.pointer, 1)
      BY <1>1, <2>2, InsideIsSearchHit
    <2>4. m \in Resolved(sys.pointer, 1)
      BY <1>1, <2>3, ResolvedExact
    <2>5. find(m, Cursor, 1, call.required)
      BY <1>1, <2>1, <2>4 DEF find, hasPermission
    <2> QED
      BY <2>5 DEF Fault, FindThrows
  <1>3. ASSUME NEW m \in mappings, Crash(m) PROVE call'.op = "crashed"
    BY <1>3 DEF Crash, NoCall
  <1>4. ASSUME NEW m \in mappings, Found(m), MaterializeFault(m, Remaining) PROVE FALSE
    <2>1. Offset(m) \in Nat /\ Chunk(m) = 1 /\ Offset(m) + Chunk(m) <= m.size
      BY <1>1, <1>4, FoundFacts, OneCell
    <2>2. ~materializeThrows(m, Offset(m), 1)
      BY <1>1, <2>1, NeverThrows
    <2> QED
      BY <1>1, <1>4, <2>2 DEF MaterializeFault
  <1>5. ASSUME Finish("success", << >>) PROVE Idle' /\ Succeeded'
    BY <1>5 DEF Finish, Returned, Idle, Succeeded
  <1>6. ASSUME NEW m \in mappings, Found(m), Chunk(m) < Remaining PROVE FALSE
    BY <1>1, <1>6, OneCell
  <1>7. \/ Fault
        \/ \E m \in mappings : \/ Crash(m)
                               \/ Found(m) /\ MaterializeFault(m, Remaining)
                               \/ Finish("success", << >>)
                               \/ Found(m) /\ Chunk(m) < Remaining
    BY Zenon DEF writeFirst
  <1> QED
    BY <1>2, <1>3, <1>4, <1>5, <1>6, <1>7

\* An iteration is the one its call asks for.
LEMMA StepOf ==
    ASSUME StepNext
    PROVE  /\ Active /\ ~Idle /\ call.op # "crashed"
           /\ call.op = "read" => readInto
           /\ call.op = "validate" => validateAccess
           /\ call.op = "write" /\ call.phase = "first" => writeFirst
  <1>1. \/ readInto /\ call.op = "read"
        \/ validateAccess /\ call.op = "validate"
        \/ writeFirst /\ call.op = "write"
        \/ call.op = "write" /\ call.phase \in {"validate", "copy"}
        \/ call.op = "fetch"
        \/ call.op = "direct"
    BY Zenon DEF StepNext, readInto, validateAccess, writeFirst, writeValidate, ValidateChunk,
       writeCopy, executableBytes, directAccess
  <1>2. Active /\ call.op # "crashed" /\ call.op # "none"
    BY <1>1 DEF Active
  <1>3. ~Idle
    BY <1>2 DEF Idle, NoCall
  <1> QED
    BY <1>1, <1>2, <1>3

LEMMA AccessKeeps ==
    ASSUME VInv, access
    PROVE  VInv'
  <1>1. sys' = sys /\ StepNext
    BY DEF access
  <1>2. /\ Active /\ ~Idle /\ call.op # "crashed"
        /\ call.op = "read" => readInto
        /\ call.op = "validate" => validateAccess
        /\ call.op = "write" /\ call.phase = "first" => writeFirst
    BY <1>1, StepOf
  <1>3. Space'
    BY <1>1, NextKeeps, NextAInv DEF VInv, Space, Next
  <1>4. sys.stage \notin {"search", "place", "placed"}
    BY <1>2 DEF VInv, Choosing
  <1>5. CASE sys.stage = "hint"
    <2>1. Accessing(call, "read", sys.pointer) /\ sys.name \in {"allocate", "map"}
      BY <1>2, <1>5 DEF VInv, Choosing
    <2>2. /\ mappings' = mappings
          /\ call'.op = "crashed" \/ (Idle' /\ (Succeeded' => Len(result'.data) = 1))
      BY <1>2, <2>1, ReadOne DEF VInv, Accessing
    <2>3. Choosing'
      BY <1>1, <1>5, <2>1, <2>2 DEF Choosing
    <2>4. Copying'
      BY <1>1, <1>5, <2>2 DEF VInv, Copying
    <2> QED
      BY <1>1, <1>3, <2>3, <2>4 DEF VInv
  <1>6. CASE sys.stage # "hint"
    <2>1. Choosing'
      BY <1>1, <1>4, <1>6 DEF Choosing
    <2>2. ASSUME sys.name \in Validating, sys.stage = "validate"
          PROVE  Idle' /\ (Succeeded' => Writable(mappings', sys.pointer))
      <3>1. Accessing(call, "validate", sys.pointer) /\ "W" \in call.required
        BY <1>2, <2>2 DEF VInv, Copying
      <3> QED
        BY <1>2, <3>1, ValidateOne DEF VInv, Accessing
    <2>3. ASSUME sys.name \in Validating, sys.stage = "copyout"
          PROVE  call'.op = "crashed" \/ (Idle' /\ Succeeded')
      <3>1. Accessing(call, "write", sys.pointer) /\ Writable(mappings, sys.pointer)
        BY <1>2, <2>3 DEF VInv, Copying
      <3> QED
        BY <1>2, <3>1, WriteOne DEF VInv, Accessing
    <2>4. Copying'
      BY <1>1, <1>4, <1>6, <2>2, <2>3 DEF Copying
    <2> QED
      BY <1>1, <1>3, <2>1, <2>4 DEF VInv
  <1> QED
    BY <1>5, <1>6

-----------------------------------------------------------------------------
(* Every step keeps VInv.                                                  *)

LEMMA VmInitVInv == VmInit => VInv
  <1> SUFFICES ASSUME VmInit PROVE VInv
    OBVIOUS
  <1>1. Init /\ sys = Away("loading")
    BY DEF VmInit
  <1>2. IInv /\ AInv
    <2>1. call.op = "none" /\ call = NoCall /\ mappings = {}
      BY <1>1 DEF Init, NoCall
    <2>2. AInv
      BY <2>1 DEF AInv, Unshared, CallShape, Active
    <2> QED
      BY <1>1, <2>2, InitIInv
  <1> DEFINE s == Away("loading")
  <1>3. /\ s \in SysType /\ s.name = "loading" /\ s.stage = "none" /\ s.address = 0 /\ s.size = 0
        /\ s = Away(s.name)
    BY AwayType DEF Names
  <1> HIDE DEF s
  <1>4. sys = s
    BY <1>1 DEF s
  <1>5. Asking(s) /\ Linking(s) /\ Resting(s)
    BY <1>3, GeometryAssumption DEF Asking, Linking, Resting, Placing, Validating
  <1>6. Choosing /\ Copying
    BY <1>3, <1>4 DEF Choosing, Copying, Validating
  <1> QED
    BY <1>2, <1>3, <1>4, <1>5, <1>6 DEF VInv, Space

\* Between handlers: the loader, the guest, and a host that ends the process.
LEMMA OutsideKeeps ==
    ASSUME VInv, load \/ start \/ resume \/ crash
    PROVE  VInv'
  <1>1. CASE load
    <2>1. sys.name = "loading" /\ sys' = sys /\ (MapNext \/ BeginNext \/ StepNext)
      BY <1>1 DEF load
    <2>2. Space'
      BY <2>1, NextKeeps, NextAInv DEF VInv, Space, Next
    <2>3. sys' = Away("loading")
      BY <2>1 DEF VInv, Resting
    <2> QED
      BY <2>2, <2>3, AwayKeeps
  <1>2. CASE toGuest
    <2>1. /\ mappings' = mappings /\ lookup' = lookup /\ hosts' = hosts /\ call' = call
          /\ executableVersion' = executableVersion /\ result'.data = << >>
          /\ sys' = Away("none")
      BY <1>2 DEF toGuest, Returned
    <2>2. IInv'
      BY <2>1, VInvFields, EmptyData DEF IInv, GoodMappings, GoodMapping, LookupType,
         LookupCoherent, CallType, CallProgress
    <2>3. AInv'
      BY <2>1, VInvFields DEF AInv, Active
    <2> QED
      BY <2>1, <2>2, <2>3, AwayKeeps DEF Space
  <1>3. CASE crash
    BY <1>3, UnsupportedKeeps DEF crash
  <1> QED
    BY <1>1, <1>2, <1>3 DEF start, resume

LEMMA PlaceNextKeeps ==
    ASSUME VInv, PlaceNext
    PROVE  VInv'
  BY AllocateKeeps, MapKeeps, MessageKeeps, MmapKeeps, MmapFileKeeps, AllocateHintKeeps,
     PlaceKeeps, SearchKeeps, InstallKeeps, CopyoutKeeps, PlacedKeeps, ReserveKeeps,
     ReservedKeeps, Zenon DEF PlaceNext

LEMMA SmallNextKeeps ==
    ASSUME VInv, SmallNext
    PROVE  VInv'
  <1>1. ASSUME NEW known, handleMadvise(known) PROVE VInv'
    BY <1>1, RefuseKeeps DEF handleMadvise
  <1>2. ASSUME NEW pointer \in Pointers, NEW cache, handleSharedRegionCheck(pointer, cache)
        PROVE  VInv'
    <2>1. SharedRegion \in Address /\ "check" \in {"check", "store"}
          /\ "copyout" \in {"copyout", "store"}
      BY VmAssumption
    <2>2. CASE Refuse("EINVAL")
      BY <2>2, RefuseKeeps
    <2>3. CASE Enter([Away("check") EXCEPT !.pointer = pointer], "copyout", "write", pointer, 1,
                     {"W"}, <<SharedRegion>>)
      BY <2>1, <2>3, AnswerKeeps
    <2> QED
      BY <1>2, <2>2, <2>3 DEF handleSharedRegionCheck
  <1>3. ASSUME NEW pointer \in Pointers, NEW value \in Hints, guestStore(pointer, value)
        PROVE  VInv'
    <2>1. value \in Address /\ "store" \in {"check", "store"} /\ "store" \in {"copyout", "store"}
      BY VmAssumption
    <2>2. Enter([Away("store") EXCEPT !.pointer = pointer], "store", "write", pointer, 1,
                {"W"}, <<value>>)
      BY <1>3 DEF guestStore
    <2> QED
      BY <2>1, <2>2, AnswerKeeps
  <1>4. CASE sharedRegionChecked \/ guestStored
    BY <1>4, QuitKeeps, UnsupportedKeeps DEF sharedRegionChecked, guestStored
  <1> QED
    BY <1>1, <1>2, <1>3, <1>4, SmallKeeps, Zenon DEF SmallNext

LEMMA LinkNextKeeps ==
    ASSUME VInv, LinkNext
    PROVE  VInv'
  BY LinkStartKeeps, LinkListKeeps, LinkBlobKeeps, LinkRegionKeeps, LinkOpenKeeps, LinkCopyKeeps,
     LinkPageKeeps, LinkFixKeeps, LinkFixedKeeps, LinkCloseKeeps, Zenon DEF LinkNext

LEMMA VmNextKeeps == VInv /\ [VmNext]_vmvars => VInv'
  <1> SUFFICES ASSUME VInv, [VmNext]_vmvars PROVE VInv'
    OBVIOUS
  <1>1. CASE UNCHANGED vmvars
    BY <1>1, StillKeeps DEF vmvars
  <1> QED
    BY <1>1, OutsideKeeps, AccessKeeps, PlaceNextKeeps, SmallNextKeeps, LinkNextKeeps DEF VmNext

-----------------------------------------------------------------------------
(* The theorems.                                                           *)

\* VInv holds in every reachable state.
THEOREM VmInvariance == VmSpec => []VInv
  BY VmInitVInv, VmNextKeeps, PTL DEF VmSpec

\* A handler's place has its type, for every address range, page size and request: no rounding,
\* alignment or addition on the way to a placement wraps.
THEOREM PlacesTyped == VmSpec => []SysTypeOK
  <1>1. VInv => SysTypeOK
    <2> SUFFICES ASSUME VInv PROVE SysTypeOK
      OBVIOUS
    <2>1. sys.address + sys.size <= Limit
      BY DEF VInv, Asking
    <2>2. sys.address + sys.size \in Address
      BY <2>1, VInvFields, GeometryAssumption DEF Address
    <2> QED
      BY <2>2, VInvFields DEF SysTypeOK, Names
  <1> QED
    BY <1>1, VmInvariance, PTL

\* The checks of the handlers imply those of validateNewMapping, and a pointer that was validated
\* is still writable when the address is copied out: the uncaught exceptions of Mach.cpp are
\* never thrown, whatever the map, the hint, the mask and the size.
THEOREM NoUncaughtThrow == VmSpec => []CallsNeverThrow
  <1>1. VInv => CallsNeverThrow
    <2> SUFFICES ASSUME VInv PROVE CallsNeverThrow
      OBVIOUS
    <2>1. Idle => call.op # "write" /\ call.op # "crashed"
      BY DEF Idle, NoCall
    <2> QED
      BY <2>1 DEF VInv, Choosing, Copying, CallsNeverThrow, Validating, Accessing
  <1> QED
    BY <1>1, VmInvariance, PTL

\* The handlers keep the guest's map whole: what is proved of the address space under its own
\* callers holds under the calls of the Darwin boundary.
THEOREM VmKeepsMap ==
    VmSpec => [](/\ MappingsDisjoint /\ LookupCoherent /\ FindExact
                 /\ BackingInBounds /\ BackingUnshared /\ CopyNeverFaults)
  <1>1. VInv => /\ MappingsDisjoint /\ LookupCoherent /\ FindExact
                /\ BackingInBounds /\ BackingUnshared /\ CopyNeverFaults
    <2> SUFFICES ASSUME VInv
                 PROVE  /\ MappingsDisjoint /\ LookupCoherent /\ FindExact
                        /\ BackingInBounds /\ BackingUnshared /\ CopyNeverFaults
      OBVIOUS
    <2>1. IInv /\ AInv
      BY VInvFields
    <2>2. FindExact
      <3> SUFFICES ASSUME NEW address \in Address, NEW size \in AccessSizes
                   PROVE  Resolved(address, size) = SearchHit(address, size)
        BY DEF FindExact
      <3>1. address \in Nat /\ size \in Nat \ {0}
        BY GeometryAssumption, InputAssumption DEF Address
      <3> QED
        BY <2>1, <3>1, ResolvedExact
    <2>3. BackingUnshared
      BY <2>1 DEF AInv, Unshared, ApartInHost, BackingUnshared
    <2> QED
      BY <2>1, <2>2, <2>3, IInvImplies, CopyFinds
  <1> QED
    BY <1>1, VmInvariance, PTL

-----------------------------------------------------------------------------
(***************************************************************************)
(* The memory calls of the Darwin boundary implement VmCalls.  Every stage *)
(* of a handler is related to the memory its caller last saw: it is still  *)
(* the same until the call has an effect, and then differs from it by what *)
(* the stage has done so far.  What an access of a handler does is taken   *)
(* from the flat memory that the address space implements.                 *)
(***************************************************************************)

-----------------------------------------------------------------------------
(* An access of a handler, as a step of the flat memory.                   *)

Asks(op, address, size, required, data) ==
    Request = [op |-> op, address |-> address, size |-> size, required |-> required,
               data |-> data]
Told(status) == Request = Flat!NoRequest /\ VisibleResult.status = status
Crashed == call.op = "crashed"

\* The cells an access is allowed to touch.
Grants(memory, a, required) == memory[a].mapped /\ required \subseteq memory[a].permissions
Between(address, size) == {a \in Address : address <= a /\ a < address + size}

\* Memory with the payload stored.
Payload(memory, address, size, data) ==
    [a \in Address |-> IF a \in Between(address, size)
                       THEN [memory[a] EXCEPT !.value = data[a - address + 1]] ELSE memory[a]]

\* Between calls there is nothing asked.
LEMMA IdleTold ==
    ASSUME Idle
    PROVE  Request = Flat!NoRequest /\ VisibleResult = result /\ ~Crashed
  BY IdleRequest DEF VisibleResult, Crashed, Idle, NoCall

LEMMA AbortCrashes == ASSUME Flat!Abort PROVE Crashed'
  <1> DEFINE r == Flat!NoRequest
  <1>1. r = [op |-> r.op, address |-> r.address, size |-> r.size, required |-> r.required,
             data |-> r.data]
    BY DEF Flat!NoRequest
  <1>2. Request' = [r EXCEPT !.op = "crashed"]
    BY DEF Flat!Abort
  <1> HIDE DEF r
  <1>3. Request'.op = "crashed"
    BY <1>1, <1>2
  <1>4. ~Committed' /\ RequestedOp' = "crashed"
    BY <1>3 DEF Request
  <1> QED
    BY <1>4 DEF RequestedOp, Crashed

\* A step of an access: the flat memory stays, the process ends, or the request is answered.
LEMMA AccessStep ==
    ASSUME Space, Space', StepNext
    PROVE  /\ ~Crashed
           /\ \/ UNCHANGED <<Memory, Request, VisibleResult>>
              \/ Crashed'
              \/ /\ Request # Flat!NoRequest
                 /\ Flat!Read \/ Flat!Validate \/ Flat!Write \/ Flat!Fetch
  <1>1. IInv /\ AInv /\ IInv' /\ AInv'
    BY DEF Space
  <1>2. call.op \in {"read", "validate", "write", "fetch", "direct"}
    BY DEF StepNext, readInto, validateAccess, writeFirst, writeValidate, ValidateChunk, writeCopy,
           executableBytes, directAccess
  <1>3. ~Crashed
    BY <1>2 DEF Crashed
  <1>4. CASE Committed
    <2>1. writeCopy
      <3>1. call.op = "write" /\ call.phase = "copy"
        BY <1>4 DEF Committed
      <3> QED
        BY <3>1 DEF StepNext, readInto, validateAccess, writeFirst, writeValidate, ValidateChunk,
                    executableBytes, directAccess
    <2>2. UNCHANGED Flat!fvars \/ Flat!Abort
      BY <1>1, <2>1, WriteCopyFlat
    <2> QED
      BY <1>3, <2>2, AbortCrashes DEF Flat!fvars
  <1>5. CASE ~Committed
    <2>1. Request.op \in {"read", "validate", "write", "fetch"}
      BY <1>2, <1>5 DEF Request, RequestedOp
    <2>2. Request # Flat!NoRequest
      BY <2>1 DEF Flat!NoRequest
    <2>3. [Flat!FNext]_(Flat!fvars)
      BY <1>1, NextFlat DEF Next
    <2>4. CASE UNCHANGED Flat!fvars
      BY <1>3, <2>4 DEF Flat!fvars
    <2>5. CASE Flat!FNext
      BY <1>3, <2>2, <2>5, AbortCrashes
         DEF Flat!FNext, Flat!Refuse, Flat!Map, Flat!Protect, Flat!Deallocate, Flat!Begin
    <2> QED
      BY <2>3, <2>4, <2>5
  <1> QED
    BY <1>4, <1>5

\* An access that was answered stays answered.
LEMMA ToldStays ==
    ASSUME Space, Space', StepNext, Request = Flat!NoRequest
    PROVE  Crashed' \/ UNCHANGED <<Memory, Request, VisibleResult>>
  BY AccessStep

LEMMA AskedFields ==
    ASSUME NEW op, NEW address, NEW size, NEW required, NEW data,
           Asks(op, address, size, required, data)
    PROVE  /\ Request.op = op /\ Request.address = address /\ Request.size = size
           /\ Request.required = required /\ Request.data = data
           /\ Flat!Asked = Between(address, size)
           /\ Flat!Permitted <=> /\ address + size <= Limit + 1
                                 /\ \A a \in Between(address, size) : Grants(Memory, a, required)
  <1>1. /\ Request.op = op /\ Request.address = address /\ Request.size = size
        /\ Request.required = required /\ Request.data = data
    BY DEF Asks
  <1>2. Flat!Asked = Between(address, size)
    BY <1>1 DEF Flat!Asked, Flat!Range, Flat!Addresses, Between, Address
  <1> QED
    BY <1>1, <1>2 DEF Flat!Permitted, Flat!Allows, Flat!IsMapped, Grants

LEMMA ReadStep ==
    ASSUME Space, Space', StepNext, NEW a \in Address, Asks("read", a, 1, {"R"}, << >>)
    PROVE  \/ Crashed'
           \/ /\ Memory' = Memory
              /\ \/ Asks("read", a, 1, {"R"}, << >>)'
                 \/ Told("fault")' /\ ~(Grants(Memory, a, {"R"}) /\ Memory[a].readable)
                 \/ /\ Told("success")' /\ Grants(Memory, a, {"R"})
                    /\ VisibleResult'.data[1] = Memory[a].value
  <1>1. /\ Request.op = "read" /\ Request.address = a /\ Request.size = 1
        /\ Flat!Asked = Between(a, 1)
        /\ Flat!Permitted <=> /\ a + 1 <= Limit + 1
                              /\ \A b \in Between(a, 1) : Grants(Memory, b, {"R"})
    BY AskedFields
  <1>2. a \in Nat /\ a <= Limit /\ Limit \in Nat
    BY GeometryAssumption DEF Address
  <1>3. Between(a, 1) = {a} /\ a + 1 <= Limit + 1
    BY <1>2 DEF Between, Address
  <1>4. Flat!Permitted <=> Grants(Memory, a, {"R"})
    BY <1>1, <1>3
  <1>5. CASE UNCHANGED <<Memory, Request, VisibleResult>>
    BY <1>5 DEF Asks
  <1>6. CASE Flat!Read
    <2>1. Memory' = Memory
      BY <1>6 DEF Flat!Read
    <2>2. CASE Flat!Answer("fault", << >>) /\ (~Flat!Permitted \/ \E b \in Flat!Asked : Flat!IsMapped(b) /\ ~Memory[b].readable)
      BY <1>1, <1>3, <1>4, <2>1, <2>2 DEF Flat!Answer, Told
    <2>3. CASE /\ Flat!Permitted
               /\ Flat!Answer("success", [i \in 1 .. Request.size |->
                                            Memory[Request.address + i - 1].value])
      <3>1. VisibleResult' = [status |-> "success",
                              data |-> [i \in 1 .. 1 |-> Memory[a + i - 1].value]]
        BY <1>1, <2>3 DEF Flat!Answer
      <3>2. a + 1 - 1 = a
        BY <1>2
      <3>3. VisibleResult'.data[1] = Memory[a].value /\ VisibleResult'.status = "success"
        BY <3>1, <3>2
      <3> QED
        BY <1>4, <2>1, <2>3, <3>3 DEF Flat!Answer, Told
    <2> QED
      BY <1>6, <2>2, <2>3 DEF Flat!Read
  <1> QED
    BY <1>1, <1>5, <1>6, AccessStep DEF Flat!Validate, Flat!Write, Flat!Fetch

LEMMA ValidateStep ==
    ASSUME Space, Space', StepNext, NEW address, NEW size, NEW required,
           Asks("validate", address, size, required, << >>)
    PROVE  \/ Crashed'
           \/ /\ Memory' = Memory
              /\ \/ Asks("validate", address, size, required, << >>)'
                 \/ Told("fault")'
                 \/ /\ Told("success")' /\ address + size <= Limit + 1
                    /\ \A a \in Between(address, size) : Grants(Memory, a, required)
  <1>1. /\ Request.op = "validate"
        /\ Flat!Permitted <=> /\ address + size <= Limit + 1
                              /\ \A a \in Between(address, size) : Grants(Memory, a, required)
    BY AskedFields
  <1>2. CASE UNCHANGED <<Memory, Request, VisibleResult>>
    BY <1>2 DEF Asks
  <1>3. CASE Flat!Validate
    <2>1. Memory' = Memory /\ Flat!Answer(IF Flat!Permitted THEN "success" ELSE "fault", << >>)
      BY <1>3 DEF Flat!Validate
    <2>2. CASE Flat!Permitted
      BY <1>1, <2>1, <2>2 DEF Flat!Answer, Told
    <2>3. CASE ~Flat!Permitted
      BY <1>1, <2>1, <2>3 DEF Flat!Answer, Told
    <2> QED
      BY <2>2, <2>3
  <1> QED
    BY <1>1, <1>2, <1>3, AccessStep DEF Flat!Read, Flat!Write, Flat!Fetch

LEMMA WriteStep ==
    ASSUME Space, Space', StepNext, NEW address, NEW size, NEW data,
           Asks("write", address, size, {"W"}, data)
    PROVE  \/ Crashed'
           \/ Asks("write", address, size, {"W"}, data)' /\ Memory' = Memory
           \/ /\ Told("fault")' /\ Memory' = Memory
              /\ ~(/\ address + size <= Limit + 1
                   /\ \A a \in Between(address, size) : Grants(Memory, a, {"W"}))
           \/ /\ Told("success")' /\ Memory' = Payload(Memory, address, size, data)
              /\ \A a \in Between(address, size) : Grants(Memory, a, {"W"})
  <1>1. /\ Request.op = "write" /\ Request.address = address /\ Request.data = data
        /\ Flat!Asked = Between(address, size)
        /\ Flat!Permitted <=> /\ address + size <= Limit + 1
                              /\ \A a \in Between(address, size) : Grants(Memory, a, {"W"})
    BY AskedFields
  <1>2. CASE UNCHANGED <<Memory, Request, VisibleResult>>
    BY <1>2 DEF Asks
  <1>3. CASE Flat!Write
    <2>1. CASE ~Flat!Permitted /\ Flat!Answer("fault", << >>) /\ UNCHANGED <<Memory, VisibleVersion>>
      BY <1>1, <2>1 DEF Flat!Answer, Told
    <2>2. CASE /\ Flat!Permitted /\ Flat!Answer("success", << >>)
               /\ Flat!ChangeCells(Flat!Asked, [a \in Flat!Asked |->
                     [Memory[a] EXCEPT !.value = Request.data[a - Request.address + 1]]])
      <3> DEFINE B == Between(address, size)
      <3>1. Memory' = [a \in Address |-> IF a \in B
                          THEN [b \in B |-> [Memory[b] EXCEPT !.value = data[b - address + 1]]][a]
                          ELSE Memory[a]]
        BY <1>1, <2>2 DEF Flat!ChangeCells, Flat!Addresses, Address
      <3> HIDE DEF B
      <3>2. Memory' = [a \in Address |-> IF a \in B
                          THEN [Memory[a] EXCEPT !.value = data[a - address + 1]] ELSE Memory[a]]
        BY <3>1
      <3>3. Memory' = Payload(Memory, address, size, data)
        BY <3>2 DEF Payload, B
      <3> QED
        BY <1>1, <2>2, <3>3 DEF Flat!Answer, Told
    <2> QED
      BY <1>3, <2>1, <2>2 DEF Flat!Write
  <1> QED
    BY <1>1, <1>2, <1>3, AccessStep DEF Flat!Read, Flat!Validate, Flat!Fetch

\* An access that begins changes no cell.
LEMMA BeginAsks ==
    ASSUME Space, Space', NEW op \in {"read", "validate", "write"}, NEW address, NEW size,
           NEW required, NEW data, op = "read" => data = << >>,
           begin(op, address, size, required, data)
    PROVE  Asks(op, address, size, required, data)' /\ Memory' = Memory /\ ~Crashed'
  <1>1. Flat!Begin
    BY BeginFlat DEF Space
  <1>2. call' = [NoCall EXCEPT !.op = op, !.address = address, !.size = size,
                               !.required = required, !.data = data, !.phase = "first"]
    BY DEF begin
  <1>3. /\ call'.op = op /\ call'.phase = "first" /\ call'.address = address
        /\ call'.size = size /\ call'.required = required /\ call'.data = data
    BY <1>2 DEF NoCall
  <1>4. ~Committed' /\ RequestedOp' = op /\ ~Crashed'
    BY <1>3 DEF Committed, RequestedOp, Crashed
  <1> QED
    BY <1>1, <1>3, <1>4 DEF Flat!Begin, Request, Asks

-----------------------------------------------------------------------------
(* What a handler knows at each of its stages.  q and r are the request    *)
(* and the result of the flat memory, mem is its cells and old is what     *)
(* they were when the guest made the call.                                 *)

NoReq == Flat!NoRequest
Req(op, address, size, required, data) ==
    [op |-> op, address |-> address, size |-> size, required |-> required, data |-> data]

Reading(q, r, mem, a) ==
    \/ q = Req("read", a, 1, {"R"}, << >>)
    \/ q = NoReq /\ r.status = "fault" /\ ~(Grants(mem, a, {"R"}) /\ mem[a].readable)
    \/ q = NoReq /\ r.status = "success" /\ Grants(mem, a, {"R"}) /\ r.data[1] = mem[a].value

Checking(q, r, mem, address, size, required) ==
    \/ q = Req("validate", address, size, required, << >>)
    \/ q = NoReq /\ r.status = "fault"
    \/ /\ q = NoReq /\ r.status = "success" /\ address + size <= Limit + 1
       /\ \A a \in Between(address, size) : Grants(mem, a, required)

Writing(q, r, mem, before, address, size, data) ==
    \/ q = Req("write", address, size, {"W"}, data) /\ mem = before
    \/ /\ q = NoReq /\ r.status = "fault" /\ mem = before
       /\ ~(/\ address + size <= Limit + 1
            /\ \A a \in Between(address, size) : Grants(before, a, {"W"}))
    \/ /\ q = NoReq /\ r.status = "success" /\ mem = Payload(before, address, size, data)
       /\ \A a \in Between(address, size) : Grants(before, a, {"W"})

\* A mapped cell, by its parts.
MappedCell(p, mx, backed, value, readable) ==
    [mapped |-> TRUE, permissions |-> p, maximum |-> mx, backed |-> backed, value |-> value,
     readable |-> readable]
IsCell(c) == c = MappedCell(c.permissions, c.maximum, c.backed, c.value, c.readable)
WellFormed(mem) ==
    /\ mem = [a \in Address |-> mem[a]]
    /\ \A a \in Address : (mem[a].mapped /\ IsCell(mem[a])) \/ mem[a] = Nowhere

\* Memory with the cells of a range laid out alike.
Laid(mem, address, size, cell) ==
    [a \in Address |-> IF a \in Between(address, size) THEN cell ELSE mem[a]]
Room(mem, range) == \A a \in range : ~mem[a].mapped

\* The search.
Fit(old, c, from, size, mask) ==
    /\ c >= from
    /\ c % (mask + 1) = 0
    /\ Room(old, Between(c, size))
    /\ \/ c + size <= MaximumUserMapEnd
       \/ \E a \in Address : a >= c + size /\ old[a].mapped
From(s, old) == IF s.name = "mmap" \/ old[s.pointer].value < MinimumMap
                THEN MinimumMap ELSE old[s.pointer].value
NoneBelow(s, old, c) ==
    \A d \in Address : d < c => ~Fit(old, d, From(s, old), s.size, s.mask)
GoodMask(mask) == mask = PageMask \/ (mask \in Masks /\ MaskIsValid(mask))

Hinted(s, old) == s.name # "mmap" => Grants(old, s.pointer, {"R"})
Searching(s, old) ==
    /\ ~s.fixed
    /\ Hinted(s, old)
    /\ From(s, old) \in Nat /\ From(s, old) <= s.candidate
    /\ s.candidate % (s.mask + 1) = 0
    /\ NoneBelow(s, old, s.candidate)
Chosen(s, old) ==
    /\ Hinted(s, old)
    /\ Room(old, Between(s.address, s.size))
    /\ s.fixed => /\ s.name # "mmap"
                  /\ s.address = old[s.pointer].value - (old[s.pointer].value % PageSize)
    /\ ~s.fixed => /\ Fit(old, s.address, From(s, old), s.size, s.mask)
                   /\ NoneBelow(s, old, s.address)

\* Memory with the pages of a placement mapped.
Installed(s, old) ==
    Laid(old, s.address, s.size, MappedCell(s.permissions, {"R", "W", "X"}, TRUE, Zero, TRUE))

PlacesTo(s, mem, old, q, r) ==
    s.name \in Placing =>
      /\ GoodMask(s.mask)
      /\ s.stage \in {"validate", "hint", "search", "place", "placed", "copyout"}
      /\ s.stage \in {"validate", "hint", "search", "place"} => mem = old
      /\ s.stage = "validate" => Checking(q, r, mem, s.pointer, 1, {"R", "W"})
      /\ s.stage = "hint" => Reading(q, r, mem, s.pointer)
      /\ s.stage = "search" => Searching(s, old)
      /\ s.stage \in {"place", "placed", "copyout"} => Chosen(s, old)
      /\ s.stage = "placed" => mem = Installed(s, old)
      /\ s.stage = "copyout" =>
           Writing(q, r, mem, Installed(s, old), s.pointer, 1, <<s.address>>)

\* The reservation of the mach_vm_map message.
Reserving(s, old) ==
    IF s.done = 1 THEN Laid(old, s.address, s.size, MappedCell({}, {}, FALSE, Zero, TRUE)) ELSE old
ReservesTo(s, mem, old, q, r) ==
    s.name = "reserve" =>
      /\ s.address % PageSize = 0 /\ s.size % PageSize = 0
      /\ s.stage \in {"validate", "placed", "copyout"}
      /\ s.stage = "validate" => mem = old /\ Checking(q, r, mem, s.pointer, 1, {"W"})
      /\ s.stage \in {"placed", "copyout"} =>
           /\ Grants(old, s.pointer, {"W"})
           /\ s.done = 1 <=> Room(old, Between(s.address, s.size))
      /\ s.stage = "placed" => mem = Reserving(s, old)
      /\ s.stage = "copyout" =>
           Writing(q, r, mem, Reserving(s, old), s.pointer, 1, <<s.address>>)

StoresTo(s, mem, old, q, r) ==
    /\ s.name = "check" =>
         s.stage = "copyout" /\ Writing(q, r, mem, old, s.pointer, 1, <<SharedRegion>>)
    /\ s.name = "store" =>
         s.stage = "store" /\ \E v \in Address : Writing(q, r, mem, old, s.pointer, 1, <<v>>)

\* Regions.  A cell that can be linked, and what linking leaves in it.
Part(region) == Between(region.address, region.size)
Linkable(c) == c.mapped /\ "R" \in c.permissions /\ {"R", "W"} \subseteq c.maximum
Relinked(c, d, values) ==
    d = MappedCell(d.permissions, c.maximum, c.backed, d.value, c.readable) /\ d.value \in values

\* The regions before the k-th are finished; the cells of the set open are being rewritten.
RegionsDone(regions, k, open, mem, old) ==
    /\ \A i \in 1 .. k - 1 : \A a \in Part(regions[i]) :
         Linkable(old[a]) /\ Relinked(old[a], mem[a], {FileByte, Linked})
    /\ \A i \in 1 .. k - 1 : \A a \in Part(regions[i]) :
         a \notin open /\ (\A j \in i + 1 .. k - 1 : a \notin Part(regions[j]))
           => mem[a].permissions = regions[i].permissions
    /\ \A a \in Address : a \notin open /\ (\A i \in 1 .. k - 1 : a \notin Part(regions[i]))
         => mem[a] = old[a]
\* An open region of which the first `copied' cells hold the file.
RegionOpen(region, copied, mem, old) ==
    /\ region.address % PageSize = 0
    /\ region.permissions \subseteq {"R", "W"}
    /\ ~RangeOverflows(region.address, region.size)
    /\ \A a \in Part(region) :
         /\ Linkable(old[a])
         /\ Relinked(old[a], mem[a], {FileByte, Linked, old[a].value})
         /\ mem[a].permissions = {"R", "W"}
         /\ a < region.address + copied => mem[a].value \in {FileByte, Linked}

\* The copy of a region: the chunk before `done' is copied, or is about to be.
CopiesTo(region, done, mem, old, q, r) ==
    \/ q = NoReq /\ r.status = "success" /\ RegionOpen(region, done, mem, old)
    \/ /\ q = Req("write", region.address + (done - PageSize), PageSize, {"W"}, FileChunk)
       /\ PageSize <= done
       /\ RegionOpen(region, done - PageSize, mem, old)

LinksTo(s, mem, old, q, r) ==
    s.name = "link" =>
      /\ s.regions \in RegionLists
      /\ s.stage \in {"list", "blob", "region", "open", "copy", "page", "fix", "fixed", "close"}
      /\ s.stage \in {"list", "blob"} =>
           mem = old /\ s.region = 1 /\ Reading(q, r, mem, s.pointer)
      /\ s.stage \in {"region", "page", "close"} => q = NoReq
      /\ s.stage \in {"region", "open"} => RegionsDone(s.regions, s.region, {}, mem, old)
      /\ LET region == s.regions[s.region]
             cell == region.address + s.done + region.chain[s.link]
         IN  /\ s.stage = "open" =>
                  /\ region.address % PageSize = 0 /\ "X" \notin region.permissions
                  /\ Checking(q, r, mem, region.address, region.size, {"R"})
             /\ s.stage \in {"copy", "page", "fix", "fixed", "close"} =>
                  RegionsDone(s.regions, s.region, Part(region), mem, old)
             /\ s.stage = "copy" => CopiesTo(region, s.done, mem, old, q, r)
             /\ s.stage \in {"page", "fix", "fixed", "close"} =>
                  RegionOpen(region, region.size, mem, old)
             /\ s.stage = "fix" => Reading(q, r, mem, cell)
             /\ s.stage = "fixed" => \/ q = Req("write", cell, 1, {"W"}, <<Linked>>)
                                     \/ q = NoReq /\ r.status = "success"

\* The relation of a handler's place to memory.
StageOK(s, mem, old, q, r) ==
    /\ PlacesTo(s, mem, old, q, r)
    /\ ReservesTo(s, mem, old, q, r)
    /\ StoresTo(s, mem, old, q, r)
    /\ LinksTo(s, mem, old, q, r)

Outcome(s, code) ==
    /\ s.name = "loading" <=> code = "loading"
    /\ s.name = "stopped" <=> code = "stopped"
    /\ s.name \notin {"loading", "none", "stopped"} => code = "none"

RInv ==
    /\ Outcome(sys, returned)
    /\ WellFormed(seen)
    /\ sys.name = "none" => Idle
    /\ sys.name \in {"loading", "none"} => seen = Memory
    /\ ~Crashed => StageOK(sys, Memory, seen, Request, VisibleResult)

-----------------------------------------------------------------------------
(* The cells of the address space.                                         *)

LEMMA ViewIsCell ==
    ASSUME NEW m, NEW h, NEW c, NEW a, NEW v, v = View(m, h, c, a)
    PROVE  v.mapped /\ IsCell(v)
  <1> DEFINE p == m.permissions
             x == m.maximumPermissions
             b == HasBacking(m)
             y == ValueSeen(m, h, c, a)
             r == ReadableFlag(m, a)
  <1>1. v = MappedCell(p, x, b, y, r)
    BY Zenon DEF View, MappedCell
  <1> HIDE DEF p, x, b, y, r
  <1>2. /\ v.mapped = TRUE /\ v.permissions = p /\ v.maximum = x /\ v.backed = b /\ v.value = y
        /\ v.readable = r
    BY <1>1 DEF MappedCell
  <1> QED
    BY <1>1, <1>2 DEF IsCell

LEMMA MemoryWellFormed ==
    ASSUME IInv
    PROVE  /\ WellFormed(Memory)
           /\ \A a \in Address : Memory[a].mapped <=> \E m \in mappings : Holds(m, a)
  <1>1. CellsViewed
    BY Viewed
  <1>2. ASSUME NEW a \in Address, NEW m \in mappings, Holds(m, a)
        PROVE  Memory[a].mapped /\ IsCell(Memory[a])
    BY <1>1, <1>2, ViewIsCell DEF CellsViewed
  <1>3. ASSUME NEW a \in Address, \A m \in mappings : ~Holds(m, a)
        PROVE  Memory[a] = Nowhere /\ ~Memory[a].mapped
    BY <1>1, <1>3 DEF CellsViewed, Nowhere
  <1> QED
    BY <1>1, <1>2, <1>3 DEF WellFormed, CellsViewed

LEMMA MemoryWellFormedNext ==
    ASSUME IInv'
    PROVE  /\ WellFormed(Memory')
           /\ \A a \in Address : Memory'[a].mapped <=> \E m \in mappings' : Holds(m, a)
  <1>1. CellsViewed'
    BY ViewedNext
  <1>2. ASSUME NEW a \in Address, NEW m \in mappings', Holds(m, a)
        PROVE  Memory'[a].mapped /\ IsCell(Memory'[a])
    BY <1>1, <1>2, ViewIsCell DEF CellsViewed
  <1>3. ASSUME NEW a \in Address, \A m \in mappings' : ~Holds(m, a)
        PROVE  Memory'[a] = Nowhere /\ ~Memory'[a].mapped
    BY <1>1, <1>3 DEF CellsViewed, Nowhere
  <1> QED
    BY <1>1, <1>2, <1>3 DEF WellFormed, CellsViewed

-----------------------------------------------------------------------------
(* A step of the access a stage is waiting for.                            *)

LEMMA ReadingStep ==
    ASSUME Space, Space', StepNext, NEW a \in Address, Reading(Request, VisibleResult, Memory, a)
    PROVE  Crashed' \/ (Memory' = Memory /\ Reading(Request', VisibleResult', Memory', a))
  <1>1. CASE Request = Req("read", a, 1, {"R"}, << >>)
    BY <1>1, ReadStep DEF Asks, Told, Req, NoReq, Reading
  <1>2. CASE Request = NoReq
    BY <1>2, ToldStays DEF NoReq, Reading
  <1> QED
    BY <1>1, <1>2 DEF Reading

LEMMA CheckingStep ==
    ASSUME Space, Space', StepNext, NEW address, NEW size, NEW required,
           Checking(Request, VisibleResult, Memory, address, size, required)
    PROVE  \/ Crashed'
           \/ /\ Memory' = Memory
              /\ Checking(Request', VisibleResult', Memory', address, size, required)
  <1>1. CASE Request = Req("validate", address, size, required, << >>)
    BY <1>1, ValidateStep DEF Asks, Told, Req, NoReq, Checking
  <1>2. CASE Request = NoReq
    BY <1>2, ToldStays DEF NoReq, Checking
  <1> QED
    BY <1>1, <1>2 DEF Checking

LEMMA WritingStep ==
    ASSUME Space, Space', StepNext, NEW before, NEW address, NEW size, NEW data,
           Writing(Request, VisibleResult, Memory, before, address, size, data)
    PROVE  Crashed' \/ Writing(Request', VisibleResult', Memory', before, address, size, data)
  <1>1. CASE Request = Req("write", address, size, {"W"}, data) /\ Memory = before
    BY <1>1, WriteStep DEF Asks, Told, Req, NoReq, Writing
  <1>2. CASE Request = NoReq
    BY <1>2, ToldStays DEF NoReq, Writing
  <1> QED
    BY <1>1, <1>2 DEF Writing

\* A stage that begins an access is waiting for it.
LEMMA BeginReq ==
    ASSUME Space, Space', NEW op \in {"read", "validate", "write"}, NEW address, NEW size,
           NEW required, NEW data, op = "read" => data = << >>,
           begin(op, address, size, required, data)
    PROVE  Request' = Req(op, address, size, required, data) /\ Memory' = Memory /\ ~Crashed'
  BY BeginAsks DEF Asks, Req

-----------------------------------------------------------------------------
(* The steps of a handler that change no cell.                             *)

LEMMA StillMemory ==
    ASSUME Space, Space', UNCHANGED vars
    PROVE  Memory' = Memory /\ Request' = Request /\ VisibleResult' = VisibleResult
           /\ (Idle' <=> Idle) /\ (Crashed' <=> Crashed)
  BY StutterFlat DEF Space, Flat!fvars, vars, Idle, Crashed

LEMMA IdleReq == Idle => Request = NoReq /\ VisibleResult = result /\ ~Crashed
  BY IdleTold DEF NoReq

LEMMA IdleReqNext == (Idle => Request = NoReq /\ VisibleResult = result /\ ~Crashed)'
  BY IdleReq, PTL

LEMMA RestingStage ==
    ASSUME NEW s, s.name \in {"loading", "none", "stopped"}, NEW mem, NEW old, NEW q, NEW r
    PROVE  StageOK(s, mem, old, q, r)
  BY DEF StageOK, PlacesTo, ReservesTo, StoresTo, LinksTo, Placing

\* The fields of what a call was asked to place.
LEMMA PlacementFields ==
    /\ Placement.op = sys.name /\ Placement.pointer = sys.pointer /\ Placement.size = sys.size
    /\ Placement.mask = sys.mask /\ Placement.fixed = sys.fixed
    /\ Placement.permissions = sys.permissions /\ Placement.address = sys.address
  BY DEF Placement

LEMMA ExtentIs == \A c, size : Vm!Extent(c, size) = Between(c, size)
  BY DEF Vm!Extent, Vm!Addresses, Between, Address

LEMMA FitIs ==
    \A c : Vm!Fits(c, Vm!Start, Placement.size, Placement.mask)
             <=> Fit(seen, c, From(sys, seen), sys.size, sys.mask)
  <1>1. Vm!Start = From(sys, seen)
    BY PlacementFields DEF Vm!Start, From
  <1>2. \A c, from, size, mask : Vm!Fits(c, from, size, mask) <=> Fit(seen, c, from, size, mask)
    BY ExtentIs DEF Vm!Fits, Vm!IsFree, Fit, Room, Vm!Addresses, Address
  <1> QED
    BY <1>1, <1>2, PlacementFields

\* Nothing fits.
NoFit == \A c \in Address : ~Fit(seen, c, From(sys, seen), sys.size, sys.mask)

LEMMA AnswerStep ==
    ASSUME RInv, sys.name \notin {"loading", "stopped"}, seen' = seen,
           returned' \notin {"loading", "stopped"},
           returned' \in {"noSpace", "ENOMEM"} /\ sys.name \in Placing /\ ~sys.fixed => NoFit
    PROVE  Vm!Answer
  <1>1. Vm!Running
    BY DEF RInv, Outcome, Vm!Running
  <1>2. Vm!Anywhere <=> sys.name \in Placing /\ ~sys.fixed
    BY PlacementFields DEF Vm!Anywhere, Placing
  <1>3. NoFit => \A c \in Vm!Addresses : ~Vm!Fits(c, Vm!Start, Placement.size, Placement.mask)
    BY FitIs DEF NoFit, Vm!Addresses, Address
  <1> QED
    BY <1>1, <1>2, <1>3, Zenon DEF Vm!Answer

Stepped == RInv' /\ Vm!ANext

LEMMA ContinueStep ==
    ASSUME RInv, NEW t, Continue(t), t.name \notin {"loading", "none", "stopped"},
           returned = "none",
           Crashed' \/ StageOK(t, Memory', seen, Request', VisibleResult')
    PROVE  Stepped
  <1>1. sys' = t /\ returned' = "none" /\ seen' = seen
    BY DEF Continue
  <1>2. Outcome(sys', returned')
    BY <1>1 DEF Outcome
  <1>3. RInv'
    BY <1>1, <1>2 DEF RInv
  <1>4. Vm!Ask
    BY <1>1 DEF Vm!Ask
  <1> QED
    BY <1>3, <1>4 DEF Stepped, Vm!ANext

LEMMA ReturnKeeps ==
    ASSUME Space', NEW code, Return(code), code \notin {"loading", "stopped"}, Idle'
    PROVE  RInv' /\ seen' = Memory' /\ returned' = code
  <1>1. sys' = Away("none") /\ returned' = code /\ seen' = Memory'
    BY DEF Return
  <1>2. sys'.name = "none"
    BY <1>1, AwayType DEF Names
  <1>3. WellFormed(seen')
    BY <1>1, MemoryWellFormedNext DEF Space
  <1>4. StageOK(sys', Memory', seen', Request', VisibleResult')
    BY <1>2, RestingStage
  <1>5. Outcome(sys', returned')
    BY <1>1, <1>2 DEF Outcome
  <1> QED
    BY <1>1, <1>2, <1>3, <1>4, <1>5 DEF RInv

LEMMA QuitStep ==
    ASSUME Space, Space', RInv, NEW code, Quit(code), code \notin {"loading", "stopped"}, Idle
    PROVE  RInv' /\ seen' = Memory /\ returned' = code
  <1>1. Memory' = Memory /\ Idle'
    BY StillMemory DEF Quit
  <1> QED
    BY <1>1, ReturnKeeps DEF Quit

LEMMA QuitAnswers ==
    ASSUME Space, Space', RInv, NEW code, Quit(code), code \notin {"loading", "stopped"}, Idle,
           sys.name \notin {"loading", "stopped"}, Memory = seen,
           code \in {"noSpace", "ENOMEM"} /\ sys.name \in Placing /\ ~sys.fixed => NoFit
    PROVE  Stepped
  BY QuitStep, AnswerStep DEF Stepped, Vm!ANext

LEMMA ThrowStep ==
    ASSUME RInv, Throw, sys.name # "stopped"
    PROVE  Stepped
  <1>1. sys' = Away("stopped") /\ returned' = "stopped" /\ seen' = seen
    BY DEF Throw
  <1>2. sys'.name = "stopped"
    BY <1>1, AwayType DEF Names
  <1>3. StageOK(sys', Memory', seen', Request', VisibleResult')
    BY <1>2, RestingStage
  <1>4. RInv'
    BY <1>1, <1>2, <1>3 DEF RInv, Outcome
  <1>5. Vm!Stop
    BY <1>1 DEF Vm!Stop, RInv, Outcome
  <1> QED
    BY <1>4, <1>5 DEF Stepped, Vm!ANext

LEMMA ReadyFacts ==
    ASSUME Ready
    PROVE  sys.name = "none" /\ returned = "none" /\ Idle
  BY AwayType DEF Ready, Names

LEMMA RefuseStep ==
    ASSUME Space, Space', RInv, Ready, NEW code, Refuse(code), code \notin {"loading", "stopped"}
    PROVE  Stepped
  <1>1. sys.name = "none" /\ Idle
    BY ReadyFacts
  <1>2. /\ sys' = sys /\ returned' = code /\ seen' = seen
        /\ Memory' = Memory /\ Idle'
    BY <1>1, StillMemory DEF Refuse
  <1>3. StageOK(sys', Memory', seen', Request', VisibleResult')
    BY <1>1, <1>2, RestingStage
  <1>4. RInv'
    BY <1>1, <1>2, <1>3 DEF RInv, Outcome
  <1>5. Vm!Answer
    BY <1>1, <1>2, AnswerStep DEF Placing
  <1> QED
    BY <1>4, <1>5 DEF Stepped, Vm!ANext

LEMMA UnsupportedStep ==
    ASSUME RInv, Unsupported, sys.name # "stopped"
    PROVE  Stepped
  BY ThrowStep DEF Unsupported

-----------------------------------------------------------------------------
(* A step of the access the handler is waiting for.                        *)

LEMMA PlacesAccess ==
    ASSUME VInv, Space', StepNext, sys.name \in Placing,
           PlacesTo(sys, Memory, seen, Request, VisibleResult)
    PROVE  Crashed' \/ PlacesTo(sys, Memory', seen, Request', VisibleResult')
  <1>1. Space /\ sys.pointer \in Address /\ ~Idle
    BY VInvFields, StepOf
  <1>2. sys.stage \in {"validate", "hint", "copyout"}
    BY <1>1 DEF VInv, Choosing, PlacesTo
  <1>3. CASE sys.stage = "validate"
    BY <1>1, <1>3, CheckingStep DEF PlacesTo
  <1>4. CASE sys.stage = "hint"
    BY <1>1, <1>4, ReadingStep DEF PlacesTo
  <1>5. CASE sys.stage = "copyout"
    BY <1>1, <1>5, WritingStep DEF PlacesTo
  <1> QED
    BY <1>2, <1>3, <1>4, <1>5

LEMMA ReservesAccess ==
    ASSUME VInv, Space', StepNext, sys.name = "reserve",
           ReservesTo(sys, Memory, seen, Request, VisibleResult)
    PROVE  Crashed' \/ ReservesTo(sys, Memory', seen, Request', VisibleResult')
  <1>1. Space /\ ~Idle
    BY VInvFields, StepOf
  <1>2. sys.stage \in {"validate", "copyout"}
    BY <1>1 DEF VInv, Choosing, ReservesTo
  <1>3. CASE sys.stage = "validate"
    BY <1>1, <1>3, CheckingStep DEF ReservesTo
  <1>5. CASE sys.stage = "copyout"
    BY <1>1, <1>5, WritingStep DEF ReservesTo
  <1> QED
    BY <1>2, <1>3, <1>5

LEMMA StoresAccess ==
    ASSUME VInv, Space', StepNext, StoresTo(sys, Memory, seen, Request, VisibleResult)
    PROVE  Crashed' \/ StoresTo(sys, Memory', seen, Request', VisibleResult')
  BY WritingStep, VInvFields DEF StoresTo

\* A cell that was stored to.
LEMMA StoredCell ==
    ASSUME NEW c, IsCell(c), NEW v, NEW d, d = [c EXCEPT !.value = v]
    PROVE  d = MappedCell(c.permissions, c.maximum, c.backed, v, c.readable)
           /\ d.value = v /\ d.permissions = c.permissions
  <1> DEFINE p == c.permissions
             x == c.maximum
             b == c.backed
             y == c.value
             r == c.readable
  <1>1. c = MappedCell(p, x, b, y, r)
    BY DEF IsCell
  <1> HIDE DEF p, x, b, y, r
  <1>2. d = MappedCell(p, x, b, v, r)
    BY <1>1 DEF MappedCell
  <1>3. d.value = v /\ d.permissions = p
    BY <1>2 DEF MappedCell
  <1> QED
    BY <1>2, <1>3 DEF p, x, b, r

LEMMA CellFields ==
    ASSUME NEW p, NEW x, NEW b, NEW v, NEW r, NEW c, c = MappedCell(p, x, b, v, r)
    PROVE  /\ c.mapped /\ c.permissions = p /\ c.maximum = x /\ c.backed = b /\ c.value = v
           /\ c.readable = r /\ IsCell(c)
  <1>1. /\ c.mapped = TRUE /\ c.permissions = p /\ c.maximum = x /\ c.backed = b /\ c.value = v
        /\ c.readable = r
    BY DEF MappedCell
  <1> QED
    BY <1>1 DEF IsCell

\* A chunk, or a link, is stored to an open region.
LEMMA StoredOpen ==
    ASSUME NEW mem, NEW old, NEW new, NEW region \in RegionType, NEW copied \in Nat,
           RegionOpen(region, copied, mem, old), NEW address \in Nat, NEW size \in Nat,
           NEW data, NEW value \in {FileByte, Linked},
           \A i \in 1 .. size : data[i] = value,
           new = Payload(mem, address, size, data),
           Between(address, size) \subseteq Part(region), NEW upto \in Nat,
           \A a \in Part(region) : a < region.address + upto =>
              a < region.address + copied \/ a \in Between(address, size)
    PROVE  RegionOpen(region, upto, new, old)
  <1>1. \A a \in Address : new[a] = IF a \in Between(address, size)
                            THEN [mem[a] EXCEPT !.value = data[a - address + 1]] ELSE mem[a]
    BY DEF Payload
  <1>2. ASSUME NEW a \in Between(address, size) PROVE data[a - address + 1] = value /\ a \in Address
    <2>1. a \in Nat /\ a \in Address /\ address <= a /\ a < address + size
      BY GeometryAssumption DEF Between, Address
    <2>2. a - address + 1 \in 1 .. size
      BY <2>1
    <2> QED
      BY <2>1, <2>2
  <1>3. ASSUME NEW a \in Part(region)
        PROVE  /\ Linkable(old[a])
               /\ Relinked(old[a], new[a], {FileByte, Linked, old[a].value})
               /\ new[a].permissions = {"R", "W"}
               /\ a < region.address + upto => new[a].value \in {FileByte, Linked}
    <2>1. /\ a \in Address /\ Linkable(old[a])
          /\ Relinked(old[a], mem[a], {FileByte, Linked, old[a].value})
          /\ mem[a].permissions = {"R", "W"}
          /\ a < region.address + copied => mem[a].value \in {FileByte, Linked}
      BY DEF RegionOpen, Part, Between
    <2>2. CASE a \notin Between(address, size)
      BY <1>1, <2>1, <2>2
    <2>3. CASE a \in Between(address, size)
      <3> DEFINE o == old[a]
                 c == mem[a]
                 d == new[a]
      <3>1. d = [c EXCEPT !.value = value]
        BY <1>1, <1>2, <2>1, <2>3
      <3>2. c = MappedCell(c.permissions, o.maximum, o.backed, c.value, o.readable)
        BY <2>1 DEF Relinked
      <3> HIDE DEF c, d, o
      <3>3. IsCell(c) /\ c.maximum = o.maximum /\ c.backed = o.backed /\ c.readable = o.readable
        BY <3>2, CellFields
      <3>4. d = MappedCell(c.permissions, c.maximum, c.backed, value, c.readable)
            /\ d.value = value /\ d.permissions = c.permissions
        BY <3>1, <3>3, StoredCell
      <3>5. d = MappedCell(d.permissions, o.maximum, o.backed, d.value, o.readable)
        BY <3>3, <3>4
      <3>6. Relinked(o, d, {FileByte, Linked, o.value})
        BY <3>4, <3>5 DEF Relinked
      <3> QED
        BY <2>1, <3>4, <3>6 DEF c, d, o
    <2> QED
      BY <2>2, <2>3
  <1> QED
    BY <1>3 DEF RegionOpen

LEMMA StoredDone ==
    ASSUME NEW mem, NEW old, NEW new, NEW regions, NEW k, NEW open,
           RegionsDone(regions, k, open, mem, old),
           \A a \in Address : a \notin open => new[a] = mem[a],
           \A a \in open : /\ new[a].value \in {FileByte, Linked} \/ new[a] = mem[a]
                           /\ Relinked(old[a], new[a], {FileByte, Linked, old[a].value})
    PROVE  RegionsDone(regions, k, open, new, old)
  <1>1. ASSUME NEW i \in 1 .. k - 1, NEW a \in Part(regions[i])
        PROVE  Linkable(old[a]) /\ Relinked(old[a], new[a], {FileByte, Linked}) /\ a \in Address
    BY DEF RegionsDone, Relinked, Part, Between
  <1>2. ASSUME NEW i \in 1 .. k - 1, NEW a \in Part(regions[i]), a \notin open,
               \A j \in i + 1 .. k - 1 : a \notin Part(regions[j])
        PROVE  new[a].permissions = regions[i].permissions
    <2>1. new[a] = mem[a]
      BY <1>1, <1>2
    <2> QED
      BY <1>2, <2>1 DEF RegionsDone
  <1>3. ASSUME NEW a \in Address, a \notin open, \A i \in 1 .. k - 1 : a \notin Part(regions[i])
        PROVE  new[a] = old[a]
    BY <1>3 DEF RegionsDone
  <1> QED
    BY <1>1, <1>2, <1>3 DEF RegionsDone

\* A write inside an open region does what it should.
LEMMA OpenWrite ==
    ASSUME Space, Space', StepNext, NEW region \in RegionType, NEW copied \in Nat, NEW upto \in Nat,
           NEW regions, NEW k, NEW old,
           RegionOpen(region, copied, Memory, old),
           RegionsDone(regions, k, Part(region), Memory, old),
           NEW address \in Nat, NEW size \in Nat, NEW data, NEW value \in {FileByte, Linked},
           \A i \in 1 .. size : data[i] = value,
           region.address <= address, address + size <= region.address + region.size,
           region.address + region.size <= Limit,
           \A a \in Part(region) : a < region.address + upto =>
              a < region.address + copied \/ a \in Between(address, size),
           Request = Req("write", address, size, {"W"}, data)
    PROVE  \/ Crashed'
           \/ /\ Request' = Request /\ RegionOpen(region, copied, Memory', old)
              /\ RegionsDone(regions, k, Part(region), Memory', old)
           \/ /\ Request' = NoReq /\ VisibleResult'.status = "success"
              /\ RegionOpen(region, upto, Memory', old)
              /\ RegionsDone(regions, k, Part(region), Memory', old)
  <1>1. /\ region.address \in Nat /\ region.size \in Nat /\ Limit \in Nat
    BY GeometryAssumption DEF RegionType, Address
  <1>2. Between(address, size) \subseteq Part(region)
    BY <1>1, GeometryAssumption DEF Between, Part, Address
  <1>3. \A a \in Part(region) : Grants(Memory, a, {"W"})
    <2> SUFFICES ASSUME NEW a \in Part(region) PROVE Grants(Memory, a, {"W"})
      OBVIOUS
    <2> DEFINE o == old[a]
               c == Memory[a]
    <2>1. c = MappedCell(c.permissions, o.maximum, o.backed, c.value, o.readable)
          /\ c.permissions = {"R", "W"}
      BY DEF RegionOpen, Relinked
    <2> HIDE DEF c, o
    <2>2. c.mapped
      BY <2>1, CellFields
    <2> QED
      BY <2>1, <2>2 DEF Grants, c
  <1>4. address + size <= Limit + 1
    BY <1>1
  <1>5. CASE Request' = Request /\ Memory' = Memory
    BY <1>5
  <1>6. CASE /\ Request' = NoReq /\ VisibleResult'.status = "success"
             /\ Memory' = Payload(Memory, address, size, data)
    <2>1. RegionOpen(region, upto, Memory', old)
      BY <1>2, <1>6, StoredOpen
    <2>2. RegionOpen(region, copied, Memory', old)
      BY <1>2, <1>6, StoredOpen
    <2>3. \A a \in Address : Memory'[a] = IF a \in Between(address, size)
              THEN [Memory[a] EXCEPT !.value = data[a - address + 1]] ELSE Memory[a]
      BY <1>6 DEF Payload
    <2>4. \A a \in Address : a \notin Part(region) => Memory'[a] = Memory[a]
      BY <1>2, <2>3
    <2>5. ASSUME NEW a \in Part(region)
          PROVE  /\ Memory'[a].value \in {FileByte, Linked} \/ Memory'[a] = Memory[a]
                 /\ Relinked(old[a], Memory'[a], {FileByte, Linked, old[a].value})
      <3>1. Relinked(old[a], Memory'[a], {FileByte, Linked, old[a].value}) /\ a \in Address
        BY <2>2 DEF RegionOpen, Part, Between
      <3>2. CASE a \notin Between(address, size)
        BY <2>3, <3>1, <3>2
      <3>3. CASE a \in Between(address, size)
        <4>1. a \in Nat /\ address <= a /\ a < address + size
          BY <3>3, GeometryAssumption DEF Between, Address
        <4>2. a - address + 1 \in 1 .. size
          BY <4>1
        <4> DEFINE c == Memory[a]
                   d == Memory'[a]
        <4>3. d = [c EXCEPT !.value = value]
          BY <2>3, <3>1, <3>3, <4>2
        <4>4. Relinked(old[a], c, {FileByte, Linked, old[a].value})
          BY DEF RegionOpen
        <4> DEFINE o == old[a]
        <4>5. c = MappedCell(c.permissions, o.maximum, o.backed, c.value, o.readable)
          BY <4>4 DEF Relinked
        <4> HIDE DEF c, d, o
        <4>6. IsCell(c)
          BY <4>5, CellFields
        <4>7. d.value = value
          BY <4>3, <4>6, StoredCell
        <4> QED
          BY <3>1, <4>7 DEF d
      <3> QED
        BY <3>2, <3>3
    <2>6. RegionsDone(regions, k, Part(region), Memory', old)
      BY <2>4, <2>5, StoredDone
    <2> QED
      BY <1>6, <2>1, <2>6
  <1> QED
    BY <1>2, <1>3, <1>4, <1>5, <1>6, WriteStep DEF Asks, Told, Req, NoReq

\* The geometry of the region a handler works on.
LEMMA OpenGeometry ==
    ASSUME VInv, sys.name = "link", sys.stage \in {"copy", "page", "fix", "fixed", "close"}
    PROVE  /\ Region \in RegionType /\ Region.address + Region.size <= Limit
           /\ Region.size # 0 /\ Region.size % PageSize = 0
           /\ sys.done <= Region.size /\ sys.done % PageSize = 0 /\ sys.done \in Nat
           /\ Region.address \in Nat /\ Region.size \in Nat /\ PageSize \in Nat \ {0}
  BY RegionFacts, GeometryAssumption DEF VInv, Linking, Region

LEMMA ChainGeometry ==
    ASSUME VInv, sys.name = "link", sys.stage \in {"fix", "fixed"}
    PROVE  LET cell == Region.address + sys.done + Region.chain[sys.link]
           IN  /\ cell \in Address /\ cell \in Nat /\ Region.address <= cell
               /\ cell + 1 <= Region.address + Region.size /\ cell = ChunkAt + Region.chain[sys.link]
  <1> DEFINE i == Region.chain[sys.link]
             cell == Region.address + sys.done + i
  <1>1. sys.done < Region.size /\ sys.link <= Len(Region.chain) /\ i < PageSize
    BY DEF VInv, Linking, Region
  <1>2. sys.link # 0 /\ sys.link \in Nat /\ Len(Region.chain) \in Nat
        /\ \A j \in 1 .. Len(Region.chain) : Region.chain[j] \in Nat
    BY RegionFacts, VInvFields
  <1>3. i \in Nat
    BY <1>1, <1>2
  <1>4. sys.done + PageSize <= Region.size
    BY <1>1, RegionCellsInside
  <1>5. /\ Region.address \in Nat /\ Region.size \in Nat /\ sys.done \in Nat /\ PageSize \in Nat
        /\ Region.address + Region.size <= Limit
    BY OpenGeometry
  <1> HIDE DEF i
  <1>6. /\ cell \in Address /\ cell \in Nat /\ Region.address <= cell
        /\ cell + 1 <= Region.address + Region.size /\ cell = ChunkAt + i
    <2>1. cell \in Nat /\ Region.address <= cell /\ cell + 1 <= Region.address + Region.size
      BY <1>1, <1>3, <1>4, <1>5
    <2>2. cell = ChunkAt + i
      BY <1>3, <1>5 DEF ChunkAt
    <2>3. cell \in Address
      BY <1>5, <2>1, GeometryAssumption DEF Address
    <2> QED
      BY <2>1, <2>2, <2>3
  <1> QED
    BY <1>6 DEF i

LEMMA LinksAccess ==
    ASSUME VInv, Space', StepNext, sys.name = "link",
           LinksTo(sys, Memory, seen, Request, VisibleResult)
    PROVE  Crashed' \/ LinksTo(sys, Memory', seen, Request', VisibleResult')
  <1> DEFINE region == sys.regions[sys.region]
             cell == region.address + sys.done + region.chain[sys.link]
  <1>0. Space /\ sys.pointer \in Address /\ region = Region
    BY VInvFields DEF Region
  <1>1. /\ sys.regions \in RegionLists
        /\ sys.stage \in {"list", "blob"} =>
             Memory = seen /\ sys.region = 1 /\ Reading(Request, VisibleResult, Memory, sys.pointer)
        /\ sys.stage \in {"region", "page", "close"} => Request = NoReq
        /\ sys.stage \in {"region", "open"} => RegionsDone(sys.regions, sys.region, {}, Memory, seen)
        /\ sys.stage = "open" =>
             /\ region.address % PageSize = 0 /\ "X" \notin region.permissions
             /\ Checking(Request, VisibleResult, Memory, region.address, region.size, {"R"})
        /\ sys.stage \in {"copy", "page", "fix", "fixed", "close"} =>
             RegionsDone(sys.regions, sys.region, Part(region), Memory, seen)
        /\ sys.stage = "copy" =>
             CopiesTo(region, sys.done, Memory, seen, Request, VisibleResult)
        /\ sys.stage \in {"page", "fix", "fixed", "close"} =>
             RegionOpen(region, region.size, Memory, seen)
        /\ sys.stage = "fix" => Reading(Request, VisibleResult, Memory, cell)
        /\ sys.stage = "fixed" => \/ Request = Req("write", cell, 1, {"W"}, <<Linked>>)
                                  \/ Request = NoReq /\ VisibleResult.status = "success"
    BY Zenon DEF LinksTo
  <1> DEFINE goal == /\ sys.stage \in {"list", "blob"} =>
                          /\ Memory' = seen /\ sys.region = 1
                          /\ Reading(Request', VisibleResult', Memory', sys.pointer)
                     /\ sys.stage \in {"region", "page", "close"} => Request' = NoReq
                     /\ sys.stage \in {"region", "open"} =>
                          RegionsDone(sys.regions, sys.region, {}, Memory', seen)
                     /\ sys.stage = "open" =>
                          /\ region.address % PageSize = 0 /\ "X" \notin region.permissions
                          /\ Checking(Request', VisibleResult', Memory', region.address,
                                      region.size, {"R"})
                     /\ sys.stage \in {"copy", "page", "fix", "fixed", "close"} =>
                          RegionsDone(sys.regions, sys.region, Part(region), Memory', seen)
                     /\ sys.stage = "copy" =>
                          CopiesTo(region, sys.done, Memory', seen, Request', VisibleResult')
                     /\ sys.stage \in {"page", "fix", "fixed", "close"} =>
                          RegionOpen(region, region.size, Memory', seen)
                     /\ sys.stage = "fix" => Reading(Request', VisibleResult', Memory', cell)
                     /\ sys.stage = "fixed" =>
                          \/ Request' = Req("write", cell, 1, {"W"}, <<Linked>>)
                          \/ Request' = NoReq /\ VisibleResult'.status = "success"
  <1>2. goal => LinksTo(sys, Memory', seen, Request', VisibleResult')
    BY <1>1, Zenon DEF LinksTo
  <1>3. CASE sys.stage \in {"list", "blob"}
    <2>1. Crashed' \/ (Memory' = Memory /\ Reading(Request', VisibleResult', Memory', sys.pointer))
      BY <1>0, <1>1, <1>3, ReadingStep
    <2> QED
      BY <1>1, <1>2, <1>3, <2>1
  <1>4. CASE sys.stage \in {"region", "page", "close"}
    <2>1. Crashed' \/ (Memory' = Memory /\ Request' = NoReq)
      BY <1>0, <1>1, <1>4, ToldStays DEF NoReq
    <2> QED
      BY <1>1, <1>2, <1>4, <2>1
  <1>5. CASE sys.stage = "open"
    <2>1. \/ Crashed'
          \/ /\ Memory' = Memory
             /\ Checking(Request', VisibleResult', Memory', region.address, region.size, {"R"})
      BY <1>0, <1>1, <1>5, CheckingStep
    <2> QED
      BY <1>1, <1>2, <1>5, <2>1
  <1>6. CASE sys.stage = "copy"
    <2>1. CASE Request = NoReq
      <3>1. Crashed' \/ UNCHANGED <<Memory, Request, VisibleResult>>
        BY <1>0, <2>1, ToldStays DEF NoReq
      <3> QED
        BY <1>1, <1>2, <1>6, <3>1
    <2>2. CASE Request # NoReq
      <3> DEFINE address == region.address + (sys.done - PageSize)
                 copied == sys.done - PageSize
      <3>1. /\ Request = Req("write", address, PageSize, {"W"}, FileChunk)
            /\ PageSize <= sys.done /\ RegionOpen(region, copied, Memory, seen)
        BY <1>1, <1>6, <2>2, Zenon DEF CopiesTo
      <3>2. /\ region \in RegionType /\ region.address + region.size <= Limit
            /\ sys.done <= region.size /\ sys.done \in Nat
            /\ region.address \in Nat /\ region.size \in Nat /\ PageSize \in Nat \ {0}
        BY <1>0, <1>6, OpenGeometry
      <3>3. /\ address \in Nat /\ copied \in Nat /\ region.address <= address
            /\ address + PageSize <= region.address + region.size
        BY <3>1, <3>2
      <3>4. \A a \in Part(region) : a < region.address + sys.done =>
               a < region.address + copied \/ a \in Between(address, PageSize)
        BY <3>2, <3>3, GeometryAssumption DEF Part, Between, Address
      <3>5. \A i \in 1 .. PageSize : FileChunk[i] = FileByte
        BY DEF FileChunk
      <3> DEFINE d == sys.done
                 k == sys.region
                 rs == sys.regions
      <3>6. RegionsDone(rs, k, Part(region), Memory, seen)
        BY <1>1, <1>6
      <3>7. d \in Nat /\ \A a \in Part(region) : a < region.address + d =>
                             a < region.address + copied \/ a \in Between(address, PageSize)
        BY <3>2, <3>4
      <3> HIDE DEF address, copied, region, d, k, rs
      <3>8. \/ Crashed'
            \/ /\ Request' = Request /\ RegionOpen(region, copied, Memory', seen)
               /\ RegionsDone(rs, k, Part(region), Memory', seen)
            \/ /\ Request' = NoReq /\ VisibleResult'.status = "success"
               /\ RegionOpen(region, d, Memory', seen)
               /\ RegionsDone(rs, k, Part(region), Memory', seen)
        BY <1>0, <3>1, <3>2, <3>3, <3>5, <3>6, <3>7, OpenWrite
      <3> USE DEF d, k, rs, region
      <3>9. CASE /\ Request' = Request /\ RegionOpen(region, copied, Memory', seen)
                 /\ RegionsDone(rs, k, Part(region), Memory', seen)
        <4>1. CopiesTo(region, sys.done, Memory', seen, Request', VisibleResult')
          BY <3>1, <3>9, Zenon DEF CopiesTo, copied, address
        <4> QED
          BY <1>2, <1>6, <3>9, <4>1
      <3>10. CASE /\ Request' = NoReq /\ VisibleResult'.status = "success"
                  /\ RegionOpen(region, d, Memory', seen)
                  /\ RegionsDone(rs, k, Part(region), Memory', seen)
        <4>1. CopiesTo(region, sys.done, Memory', seen, Request', VisibleResult')
          BY <3>10 DEF CopiesTo
        <4> QED
          BY <1>2, <1>6, <3>10, <4>1
      <3> QED
        BY <3>8, <3>9, <3>10
    <2> QED
      BY <2>1, <2>2
  <1>7. CASE sys.stage = "fix"
    <2>1. cell \in Address
      BY <1>0, <1>7, ChainGeometry
    <2>2. Crashed' \/ (Memory' = Memory /\ Reading(Request', VisibleResult', Memory', cell))
      BY <1>0, <1>1, <1>7, <2>1, ReadingStep
    <2> QED
      BY <1>1, <1>2, <1>7, <2>2
  <1>8. CASE sys.stage = "fixed"
    <2>1. CASE Request = NoReq
      <3>1. Crashed' \/ UNCHANGED <<Memory, Request, VisibleResult>>
        BY <1>0, <2>1, ToldStays DEF NoReq
      <3> QED
        BY <1>1, <1>2, <1>8, <2>1, <3>1
    <2>2. CASE Request # NoReq
      <3>1. Request = Req("write", cell, 1, {"W"}, <<Linked>>)
        BY <1>1, <1>8, <2>2
      <3>2. /\ cell \in Nat /\ region.address <= cell /\ cell + 1 <= region.address + region.size
        BY <1>0, <1>8, ChainGeometry
      <3>3. /\ region \in RegionType /\ region.address + region.size <= Limit
            /\ region.size \in Nat
        BY <1>0, <1>8, OpenGeometry
      <3>4. \A i \in 1 .. 1 : <<Linked>>[i] = Linked
        OBVIOUS
      <3> DEFINE k == sys.region
                 rs == sys.regions
                 n == region.size
                 data == <<Linked>>
      <3>5. RegionsDone(rs, k, Part(region), Memory, seen) /\ RegionOpen(region, n, Memory, seen)
            /\ n \in Nat /\ Request = Req("write", cell, 1, {"W"}, data)
            /\ \A i \in 1 .. 1 : data[i] = Linked
        BY <1>1, <1>8, <3>1, <3>3, <3>4
      <3> HIDE DEF cell, region, k, rs, n, data
      <3>6. \/ Crashed'
            \/ /\ Request' = Request /\ RegionOpen(region, n, Memory', seen)
               /\ RegionsDone(rs, k, Part(region), Memory', seen)
            \/ /\ Request' = NoReq /\ VisibleResult'.status = "success"
               /\ RegionOpen(region, n, Memory', seen)
               /\ RegionsDone(rs, k, Part(region), Memory', seen)
        BY <1>0, <3>2, <3>3, <3>5, OpenWrite
      <3> USE DEF cell, region, k, rs, n, data
      <3> QED
        BY <1>2, <1>8, <3>1, <3>6
    <2> QED
      BY <2>1, <2>2
  <1>9. sys.stage \in {"list", "blob", "region", "page", "close", "open", "copy", "fix", "fixed"}
        \/ goal
    BY Zenon
  <1> QED
    BY <1>2, <1>3, <1>4, <1>5, <1>6, <1>7, <1>8, <1>9

LEMMA AccessStepped ==
    ASSUME VInv, VInv', RInv, access
    PROVE  Stepped
  <1>1. /\ Space /\ Space' /\ StepNext /\ sys.name \notin {"loading", "stopped"} /\ Continue(sys)
    BY DEF access, Continue, VInv
  <1>2. ~Idle /\ ~Crashed
    BY <1>1, StepOf, AccessStep
  <1>3. sys.name \notin {"loading", "none", "stopped"} /\ returned = "none"
    BY <1>1, <1>2 DEF RInv, Outcome
  <1>4. StageOK(sys, Memory, seen, Request, VisibleResult)
    BY <1>2 DEF RInv
  <1>5. Crashed' \/ PlacesTo(sys, Memory', seen, Request', VisibleResult')
    <2>1. CASE sys.name \in Placing
      BY <1>1, <1>4, <2>1, PlacesAccess DEF StageOK
    <2> QED
      BY <2>1 DEF PlacesTo
  <1>6. Crashed' \/ ReservesTo(sys, Memory', seen, Request', VisibleResult')
    <2>1. CASE sys.name = "reserve"
      BY <1>1, <1>4, <2>1, ReservesAccess DEF StageOK
    <2> QED
      BY <2>1 DEF ReservesTo
  <1>7. Crashed' \/ StoresTo(sys, Memory', seen, Request', VisibleResult')
    BY <1>1, <1>4, StoresAccess DEF StageOK
  <1>8. Crashed' \/ LinksTo(sys, Memory', seen, Request', VisibleResult')
    <2>1. CASE sys.name = "link"
      BY <1>1, <1>4, <2>1, LinksAccess DEF StageOK
    <2> QED
      BY <2>1 DEF LinksTo
  <1>9. Crashed' \/ StageOK(sys, Memory', seen, Request', VisibleResult')
    BY <1>5, <1>6, <1>7, <1>8 DEF StageOK
  <1> QED
    BY <1>1, <1>3, <1>9, ContinueStep

-----------------------------------------------------------------------------
(* The loader, the guest and a host that ends the process.                 *)

LEMMA OutsideStepped ==
    ASSUME VInv, VInv', RInv, load \/ start \/ resume \/ crash
    PROVE  Stepped
  <1>0. Space /\ Space'
    BY DEF VInv
  <1>1. CASE load
    <2>1. sys.name = "loading" /\ sys' = sys /\ returned' = returned /\ seen' = Memory'
      BY <1>1 DEF load
    <2>2. returned = "loading"
      BY <2>1 DEF RInv, Outcome
    <2>3. StageOK(sys', Memory', seen', Request', VisibleResult')
      BY <2>1, RestingStage
    <2>4. WellFormed(seen')
      BY <1>0, <2>1, MemoryWellFormedNext DEF Space
    <2>5. RInv'
      BY <2>1, <2>2, <2>3, <2>4 DEF RInv, Outcome
    <2>6. Vm!Load
      BY <2>1, <2>2 DEF Vm!Load
    <2> QED
      BY <2>5, <2>6 DEF Stepped, Vm!ANext
  <1>2. ASSUME toGuest, Idle, seen = Memory PROVE RInv' /\ seen' = seen /\ returned' = "none"
    <2>1. /\ mappings' = mappings /\ hosts' = hosts /\ call' = call /\ seen' = seen
          /\ executableVersion' = executableVersion /\ sys' = Away("none") /\ returned' = "none"
      BY <1>2 DEF toGuest
    <2>2. Idle' /\ ~Committed /\ ~Committed'
      BY <1>2, <2>1 DEF Idle, Committed, NoCall
    <2>3. Quiet
      BY <2>1, <2>2 DEF Quiet, SeenSame
    <2>4. Memory' = Memory
      BY <1>0, <2>3, QuietMemory DEF Space
    <2>5. sys'.name = "none"
      BY <2>1, AwayType DEF Names
    <2>6. StageOK(sys', Memory', seen', Request', VisibleResult')
      BY <2>5, RestingStage
    <2> QED
      BY <1>2, <2>1, <2>2, <2>4, <2>5, <2>6 DEF RInv, Outcome
  <1>3. CASE start
    <2>1. sys.name = "loading" /\ Idle /\ toGuest
      BY <1>3 DEF start
    <2>2. RInv' /\ returned' = "none" /\ returned = "loading"
      BY <1>2, <2>1 DEF RInv, Outcome
    <2>3. Vm!Load
      BY <2>2 DEF Vm!Load
    <2> QED
      BY <2>2, <2>3 DEF Stepped, Vm!ANext
  <1>4. CASE resume
    <2>1. sys.name = "none" /\ Idle /\ toGuest /\ seen = Memory
      BY <1>4 DEF resume, RInv
    <2>2. RInv' /\ returned' = "none" /\ seen' = seen
      BY <1>2, <2>1
    <2>3. Vm!Answer
      BY <2>1, <2>2, AnswerStep
    <2> QED
      BY <2>2, <2>3 DEF Stepped, Vm!ANext
  <1>5. CASE crash
    BY <1>5, UnsupportedStep DEF crash
  <1> QED
    BY <1>1, <1>3, <1>4, <1>5

-----------------------------------------------------------------------------
(* The calls that place pages: how they begin.                             *)

\* Only the relation of the call that is running says anything.
LEMMA OneStage ==
    ASSUME NEW s, NEW mem, NEW old, NEW q, NEW r
    PROVE  /\ s.name \in Placing /\ PlacesTo(s, mem, old, q, r) => StageOK(s, mem, old, q, r)
           /\ s.name = "reserve" /\ ReservesTo(s, mem, old, q, r) => StageOK(s, mem, old, q, r)
           /\ s.name = "link" /\ LinksTo(s, mem, old, q, r) => StageOK(s, mem, old, q, r)
           /\ s.name \in {"check", "store"} /\ StoresTo(s, mem, old, q, r)
                => StageOK(s, mem, old, q, r)
  BY DEF StageOK, PlacesTo, ReservesTo, StoresTo, LinksTo, Placing

\* A handler that begins an access.
LEMMA EnterStep ==
    ASSUME Space, Space', RInv, NEW s, NEW stage, NEW t, t = [s EXCEPT !.stage = stage],
           t.name \notin {"loading", "none", "stopped"}, returned = "none",
           NEW op \in {"read", "validate", "write"}, NEW address, NEW size, NEW required, NEW data,
           op = "read" => data = << >>,
           Enter(s, stage, op, address, size, required, data),
           \A r : StageOK(t, Memory, seen, Req(op, address, size, required, data), r)
    PROVE  Stepped
  <1>1. begin(op, address, size, required, data) /\ Continue(t)
    BY DEF Enter
  <1>2. Request' = Req(op, address, size, required, data) /\ Memory' = Memory
    BY <1>1, BeginReq
  <1>3. StageOK(t, Memory', seen, Request', VisibleResult')
    BY <1>2
  <1> QED
    BY <1>1, <1>3, ContinueStep

LEMMA AllocateStepped ==
    ASSUME VInv, VInv', RInv, NEW task, NEW pointer \in Pointers, NEW size \in CallSizes,
           NEW anywhere, machVmAllocate(task, pointer, size, anywhere)
    PROVE  Stepped
  <1>0. Space /\ Space' /\ Ready /\ returned = "none" /\ seen = Memory
    BY ReadyFacts DEF VInv, RInv, machVmAllocate
  <1> DEFINE n == RoundUp(size)
             p == {"R", "W"}
             s == [Away("allocate") EXCEPT !.pointer = pointer, !.size = n,
                                           !.permissions = p, !.mask = PageMask]
             t == [s EXCEPT !.stage = "validate"]
             q == Req("validate", pointer, 1, p, << >>)
  <1>1. CASE Refuse("invalidDestination") \/ Refuse("invalidArgument")
    BY <1>0, <1>1, RefuseStep
  <1>2. CASE Enter(s, "validate", "validate", pointer, 1, p, << >>)
    <2>1. t.name = "allocate" /\ t.pointer = pointer /\ t.mask = PageMask /\ t.stage = "validate"
      BY DEF Away
    <2>2. \A r : StageOK(t, Memory, seen, q, r)
      <3>1. \A r : Checking(q, r, Memory, t.pointer, 1, p)
        BY <2>1 DEF Checking
      <3>2. GoodMask(t.mask) /\ t.name \in Placing
        BY <2>1 DEF GoodMask, Placing
      <3> HIDE DEF t, q
      <3>3. \A r : PlacesTo(t, Memory, seen, q, r)
        BY <1>0, <2>1, <3>1, <3>2 DEF PlacesTo
      <3> QED
        BY <3>2, <3>3, OneStage
    <2> QED
      BY <1>0, <1>2, <2>1, <2>2, EnterStep
  <1> QED
    BY <1>1, <1>2, Zenon DEF machVmAllocate

LEMMA MapStepped ==
    ASSUME VInv, VInv', RInv, NEW task, NEW pointer \in Pointers, NEW size \in CallSizes,
           NEW p \in MapProtections, NEW fixed \in BOOLEAN, NEW mask \in Masks \cup {0},
           machVmMap(task, pointer, size, p, fixed, mask)
    PROVE  Stepped
  <1>0. Space /\ Space' /\ Ready /\ returned = "none" /\ seen = Memory /\ sys.name = "none"
    BY ReadyFacts DEF VInv, RInv, machVmMap
  <1> DEFINE n == RoundUp(size)
             effective == IF mask = 0 THEN PageMask ELSE mask
             s == [Away("map") EXCEPT !.pointer = pointer, !.size = n, !.permissions = p,
                                      !.mask = effective, !.fixed = fixed]
             t == [s EXCEPT !.stage = "hint"]
             q == Req("read", pointer, 1, {"R"}, << >>)
  <1>1. CASE Refuse("invalidDestination") \/ Refuse("invalidArgument")
    BY <1>0, <1>1, RefuseStep
  <1>2. CASE Unsupported
    BY <1>0, <1>2, UnsupportedStep
  <1>3. ASSUME ~(fixed /\ mask # 0), fixed \/ MaskIsValid(effective),
               Enter(s, "hint", "read", pointer, 1, {"R"}, << >>)
        PROVE  Stepped
    <2>1. GoodMask(effective)
      <3>1. CASE mask = 0
        BY <3>1 DEF GoodMask
      <3>2. CASE mask # 0
        BY <1>3, <3>2 DEF GoodMask
      <3> QED
        BY <3>1, <3>2
    <2> HIDE DEF effective
    <2>2. t.name = "map" /\ t.pointer = pointer /\ t.mask = effective /\ t.stage = "hint"
      BY DEF Away
    <2>3. \A r : StageOK(t, Memory, seen, q, r)
      <3>1. \A r : Reading(q, r, Memory, t.pointer)
        BY <2>2 DEF Reading
      <3>2. GoodMask(t.mask) /\ t.name \in Placing
        BY <2>1, <2>2 DEF Placing
      <3> HIDE DEF t, q
      <3>3. \A r : PlacesTo(t, Memory, seen, q, r)
        BY <1>0, <2>2, <3>1, <3>2 DEF PlacesTo
      <3> QED
        BY <3>2, <3>3, OneStage
    <2>4. t.name \notin {"loading", "none", "stopped"}
      BY <2>2
    <2> QED
      BY <1>0, <1>3, <2>3, <2>4, EnterStep
  <1> QED
    BY <1>1, <1>2, <1>3, Zenon DEF machVmMap

LEMMA AllocateHintStepped ==
    ASSUME VInv, VInv', RInv, allocateHint
    PROVE  Stepped
  <1>0. /\ Space /\ Space' /\ Idle /\ sys.name = "allocate" /\ sys.stage = "validate"
        /\ sys \in SysType
    BY DEF VInv, allocateHint, At
  <1>1. returned = "none" /\ StageOK(sys, Memory, seen, Request, VisibleResult)
    BY <1>0, IdleReq DEF RInv, Outcome
  <1>2. sys.name \in Placing /\ PlacesTo(sys, Memory, seen, Request, VisibleResult)
    BY <1>0, <1>1 DEF StageOK, Placing
  <1>3. Memory = seen /\ GoodMask(sys.mask)
    BY <1>0, <1>2 DEF PlacesTo
  <1>4. CASE Quit("invalidAddress")
    BY <1>0, <1>3, <1>4, QuitAnswers
  <1>5. CASE Go("hint", "read", sys.pointer, 1, {"R"}, << >>)
    <2> DEFINE t == [sys EXCEPT !.stage = "hint"]
               q == Req("read", sys.pointer, 1, {"R"}, << >>)
    <2>1. t.name = "allocate" /\ t.pointer = sys.pointer /\ t.mask = sys.mask /\ t.stage = "hint"
      BY <1>0, SetStage DEF Stages
    <2>2. \A r : StageOK(t, Memory, seen, q, r)
      <3>1. \A r : Reading(q, r, Memory, t.pointer)
        BY <2>1 DEF Reading
      <3>2. GoodMask(t.mask) /\ t.name \in Placing
        BY <1>3, <2>1 DEF Placing
      <3> HIDE DEF t, q
      <3>3. \A r : PlacesTo(t, Memory, seen, q, r)
        BY <1>3, <2>1, <3>1, <3>2 DEF PlacesTo
      <3> QED
        BY <3>2, <3>3, OneStage
    <2>3. t.name \notin {"loading", "none", "stopped"}
          /\ Enter(sys, "hint", "read", sys.pointer, 1, {"R"}, << >>)
      BY <1>5, <2>1 DEF Go
    <2> HIDE DEF t
    <2>4. t = [sys EXCEPT !.stage = "hint"]
      BY DEF t
    <2> QED
      BY <1>0, <1>1, <2>2, <2>3, <2>4, EnterStep
  <1> QED
    BY <1>4, <1>5, Zenon DEF allocateHint

-----------------------------------------------------------------------------
(* The search for the lowest fit.                                          *)

\* No multiple lies between a value and its alignment.
LEMMA AlignLeast ==
    ASSUME NEW value \in Nat, NEW mask \in Nat, alignUp(value, mask) # NoAddress
    PROVE  /\ alignUp(value, mask) % (mask + 1) = 0
           /\ \A d \in Nat : value <= d /\ d < alignUp(value, mask) => d % (mask + 1) # 0
  <1> USE GeometryAssumption
  <1> DEFINE M == mask + 1
             a == value + mask
             q == a \div M
             r == a % M
             w == M * q
  <1>1. M \in Nat \ {0} /\ a \in Nat
    OBVIOUS
  <1>2. a = M * q + r /\ r \in 0 .. M - 1 /\ q \in Nat
    BY <1>1, DivMod
  <1>3. alignUp(value, mask) = q * M
    BY DEF alignUp, NoAddress
  <1> HIDE DEF q, r
  <1>4. w = q * M /\ w \in Nat
    BY <1>1, <1>2
  <1>5. w % M = 0
    BY <1>1, <1>2, MultMod
  <1>6. ASSUME NEW d \in Nat, value <= d, d < w, d % M = 0 PROVE FALSE
    <2> DEFINE e == d \div M
    <2>1. d = M * e + (d % M) /\ e \in Nat
      BY <1>1, DivMod
    <2> HIDE DEF e
    <2>2. d = M * e
      BY <1>1, <1>6, <2>1
    <2>3. CASE e >= q
      <3>1. e = q + (e - q) /\ e - q \in Nat
        BY <1>2, <2>1, <2>3
      <3>2. M * e = M * q + M * (e - q) /\ M * (e - q) \in Nat
        BY <1>1, <1>2, <2>1, <3>1
      <3> QED
        BY <1>4, <1>6, <2>2, <3>2
    <2>4. CASE e < q
      <3>1. q = e + 1 + (q - e - 1) /\ q - e - 1 \in Nat
        BY <1>2, <2>1, <2>4
      <3>2. M * q = M * e + M + M * (q - e - 1) /\ M * (q - e - 1) \in Nat
        BY <1>1, <1>2, <2>1, <3>1
      <3>3. w >= d + M
        BY <1>1, <1>4, <2>2, <3>2
      <3>4. w + r = value + mask /\ r \in Nat
        BY <1>1, <1>2
      <3> HIDE DEF w
      <3> QED
        BY <1>2, <1>4, <1>6, <3>3, <3>4
    <2> QED
      BY <1>2, <2>1, <2>3, <2>4
  <1> HIDE DEF w
  <1> QED
    BY <1>3, <1>4, <1>5, <1>6

\* Pages asked for are at least one.
LEMMA AtLeastAPage ==
    ASSUME NEW size \in Nat, size # 0, size % PageSize = 0
    PROVE  size >= PageSize
  <1>1. 0 < size /\ 0 \in Nat /\ 0 % PageSize = 0 /\ PageSize \in Nat
    BY GeometryAssumption
  <1>2. 0 + PageSize <= size
    BY <1>1, PageLeft
  <1> QED
    BY <1>1, <1>2

\* An aligned address beyond what alignUp yields has no room for a page.
LEMMA NoTopFit ==
    ASSUME NEW mask \in Nat, GoodMask(mask), NEW d \in Address, d > Limit - mask,
           NEW size \in Nat, size >= PageSize, NEW old, NEW from
    PROVE  ~Fit(old, d, from, size, mask)
  <1> SUFFICES ASSUME Fit(old, d, from, size, mask) PROVE FALSE
    OBVIOUS
  <1>1. d % (mask + 1) = 0
    BY DEF Fit
  <1>2. d + PageSize > Limit
    <2>1. CASE mask = PageMask
      BY <2>1, GeometryAssumption DEF PageMask, Address
    <2>2. CASE mask \in Masks /\ MaskIsValid(mask)
      BY <1>1, <2>2, AlignmentAssumption
    <2> QED
      BY <2>1, <2>2 DEF GoodMask
  <1>3. d + size > Limit /\ d + size \in Nat /\ Limit \in Nat
    BY <1>2, GeometryAssumption DEF Address
  <1>4. MaximumUserMapEnd \in Nat /\ MaximumUserMapEnd <= Limit
    BY VmAssumption, GeometryAssumption DEF Address
  <1>5. \A a \in Address : a \in Nat /\ a <= Limit
    BY GeometryAssumption DEF Address
  <1>6. \/ d + size <= MaximumUserMapEnd
        \/ \E a \in Address : a >= d + size
    BY DEF Fit
  <1> HIDE DEF Fit
  <1> QED
    BY <1>3, <1>4, <1>5, <1>6

\* A mapping in the way blocks every address from the candidate to its end.
LEMMA Blocked ==
    ASSUME IInv, NEW m \in mappings, NEW c \in Nat, NEW size \in Nat \ {0}, c < End(m),
           ~(c <= m.base /\ size <= m.base - c), NEW d \in Address, c <= d, d < End(m)
    PROVE  ~Room(Memory, Between(d, size))
  <1>1. /\ m.base \in Nat /\ End(m) \in Nat /\ m.base < End(m) /\ End(m) <= Limit
        /\ d \in Nat /\ Limit \in Nat
    BY MappingFacts, GeometryAssumption DEF Address
  <1>2. CASE m.base <= d
    <2>1. Holds(m, d) /\ d \in Between(d, size)
      BY <1>1, <1>2 DEF Holds, Between
    <2> QED
      BY <2>1, MemoryWellFormed DEF Room
  <1>3. CASE d < m.base
    <2>1. Holds(m, m.base) /\ m.base \in Address /\ m.base \in Between(d, size)
      BY <1>1, <1>3 DEF Holds, Between, Address
    <2> QED
      BY <2>1, MemoryWellFormed DEF Room
  <1> QED
    BY <1>1, <1>2, <1>3

\* A range that no mapping touches has room.
LEMMA GapHasRoom ==
    ASSUME IInv, NEW c \in Nat, NEW size \in Nat,
           \A n \in mappings : End(n) <= c \/ c + size <= n.base
    PROVE  Room(Memory, Between(c, size))
  <1> SUFFICES ASSUME NEW a \in Between(c, size), Memory[a].mapped PROVE FALSE
    BY DEF Room
  <1>1. a \in Address /\ a \in Nat /\ c <= a /\ a < c + size
    BY GeometryAssumption DEF Between, Address
  <1>2. PICK n \in mappings : Holds(n, a)
    BY <1>1, MemoryWellFormed
  <1>3. n.base \in Nat /\ End(n) \in Nat
    BY MappingFacts
  <1> QED
    BY <1>1, <1>2, <1>3 DEF Holds

\* The search starts, or goes on, at an aligned candidate below which nothing fits.
LEMMA SearchingStepped ==
    ASSUME Space, Space', RInv, returned = "none", NEW s \in SysType, s.name \in Placing,
           GoodMask(s.mask), Memory = seen, NEW first \in Address, StartSearch(s, first), ~s.fixed,
           Hinted(s, seen), From(s, seen) \in Nat, From(s, seen) <= first,
           first % (s.mask + 1) = 0, NoneBelow(s, seen, first)
    PROVE  Stepped
  <1> DEFINE t == [s EXCEPT !.stage = "search", !.candidate = first]
  <1>1. Continue(t) /\ UNCHANGED vars
    BY DEF StartSearch
  <1>2. /\ t.stage = "search" /\ t.candidate = first /\ t.name = s.name
        /\ t.pointer = s.pointer /\ t.size = s.size /\ t.mask = s.mask /\ t.fixed = s.fixed
    BY DEF SysType, Stages
  <1> HIDE DEF t
  <1>3. Memory' = seen
    BY <1>1, StillMemory
  <1>4. Searching(t, seen)
    BY <1>2 DEF Searching, Hinted, From, NoneBelow
  <1>5. PlacesTo(t, Memory', seen, Request', VisibleResult')
    BY <1>2, <1>3, <1>4 DEF PlacesTo
  <1>6. StageOK(t, Memory', seen, Request', VisibleResult')
    BY <1>2, <1>5, OneStage
  <1> QED
    BY <1>1, <1>2, <1>6, ContinueStep DEF Placing

\* An address was chosen.
LEMMA ChosenStepped ==
    ASSUME Space, Space', RInv, returned = "none", sys \in SysType, sys.name \in Placing,
           GoodMask(sys.mask), Memory = seen, NEW base \in Address,
           Continue([sys EXCEPT !.stage = "place", !.address = base]), UNCHANGED vars,
           Hinted(sys, seen), Room(seen, Between(base, sys.size)),
           sys.fixed => /\ sys.name # "mmap"
                        /\ base = seen[sys.pointer].value - (seen[sys.pointer].value % PageSize),
           ~sys.fixed => /\ Fit(seen, base, From(sys, seen), sys.size, sys.mask)
                         /\ NoneBelow(sys, seen, base)
    PROVE  Stepped
  <1> DEFINE t == [sys EXCEPT !.stage = "place", !.address = base]
  <1>2. /\ t.stage = "place" /\ t.address = base /\ t.name = sys.name
        /\ t.pointer = sys.pointer /\ t.size = sys.size /\ t.mask = sys.mask /\ t.fixed = sys.fixed
    BY DEF SysType, Stages
  <1>1. Continue(t)
    OBVIOUS
  <1> HIDE DEF t
  <1>3. Memory' = seen
    BY <1>1, StillMemory
  <1>4. Chosen(t, seen)
    BY <1>2 DEF Chosen, Hinted, From, NoneBelow
  <1>5. PlacesTo(t, Memory', seen, Request', VisibleResult')
    BY <1>2, <1>3, <1>4 DEF PlacesTo
  <1>6. StageOK(t, Memory', seen, Request', VisibleResult')
    BY <1>2, <1>5, OneStage
  <1> QED
    BY <1>1, <1>2, <1>6, ContinueStep DEF Placing

\* There is no aligned address left.
LEMMA NoAddressAbove ==
    ASSUME NEW value \in Nat, NEW mask \in Nat, alignUp(value, mask) = NoAddress
    PROVE  value > Limit - mask
  <1> SUFFICES ASSUME ~(value > Limit - mask) PROVE FALSE
    OBVIOUS
  <1> DEFINE q == (value + mask) \div (mask + 1)
  <1>1. value + mask \in Nat /\ mask + 1 \in Nat \ {0}
    OBVIOUS
  <1>2. q \in Nat
    BY <1>1, DivMod
  <1>3. alignUp(value, mask) = q * (mask + 1)
    BY DEF alignUp
  <1> HIDE DEF q
  <1>4. q * (mask + 1) \in Nat
    BY <1>1, <1>2
  <1>5. -1 = q * (mask + 1)
    BY <1>3 DEF NoAddress
  <1> QED
    BY <1>4, <1>5

LEMMA SearchStepped ==
    ASSUME VInv, VInv', RInv, search
    PROVE  Stepped
  <1> DEFINE candidate == sys.candidate
             ahead == {m \in mappings : candidate < End(m)}
             Take == /\ Continue([sys EXCEPT !.stage = "place", !.address = candidate])
                     /\ UNCHANGED vars
             Fitting(c) == Fit(seen, c, From(sys, seen), sys.size, sys.mask)
  <1>1. sys.stage = "search" /\ Idle
    BY DEF search
  <1>2. sys.name \in Placing /\ candidate % PageSize = 0
    BY <1>1 DEF VInv, Choosing
  <1>3. /\ candidate \in Address /\ candidate \in Nat /\ sys.size \in Address /\ sys.size \in Nat
        /\ sys.mask \in Nat /\ IInv /\ sys \in SysType /\ Limit \in Nat
        /\ Space /\ Space' /\ MaximumUserMapEnd \in Nat /\ MaximumUserMapEnd <= Limit
    BY VInvFields, GeometryAssumption, VmAssumption DEF Address, VInv
  <1>4. sys.size # 0 /\ sys.size % PageSize = 0 /\ WholePages(sys.mask)
    BY <1>2 DEF VInv, Asking, WholePages
  <1>5. \A m \in mappings : m.base \in Nat /\ End(m) \in Nat /\ m.base < End(m) /\ End(m) <= Limit
    BY <1>3, MappingFacts
  <1>6. returned = "none" /\ PlacesTo(sys, Memory, seen, Request, VisibleResult)
    BY <1>1, <1>2, IdleReq DEF RInv, Outcome, StageOK, Placing
  <1>7. Memory = seen /\ GoodMask(sys.mask) /\ Searching(sys, seen)
    BY <1>1, <1>2, <1>6 DEF PlacesTo
  <1>8. /\ ~sys.fixed /\ Hinted(sys, seen) /\ From(sys, seen) <= candidate /\ From(sys, seen) \in Nat
        /\ candidate % (sys.mask + 1) = 0 /\ NoneBelow(sys, seen, candidate)
    BY <1>7 DEF Searching
  <1>9. sys.size >= PageSize
    BY <1>3, <1>4, AtLeastAPage
  <1>10. ASSUME NoFit, NoSpace PROVE Stepped
    BY <1>1, <1>2, <1>3, <1>7, <1>10, QuitAnswers DEF NoSpace, Placing
  <1>11. ASSUME Take, Room(seen, Between(candidate, sys.size)),
                \/ candidate + sys.size <= MaximumUserMapEnd
                \/ \E a \in Address : a >= candidate + sys.size /\ seen[a].mapped
         PROVE  Stepped
    <2>1. Fit(seen, candidate, From(sys, seen), sys.size, sys.mask)
      BY <1>8, <1>11 DEF Fit
    <2> QED
      BY <1>2, <1>3, <1>6, <1>7, <1>8, <1>11, <2>1, ChosenStepped
  <1>12. ASSUME NEW m \in ahead, \A n \in ahead : m.base <= n.base,
                candidate <= m.base, sys.size <= m.base - candidate, Take
         PROVE  Stepped
    <2>1. \A n \in mappings : End(n) <= candidate \/ candidate + sys.size <= n.base
      BY <1>3, <1>5, <1>12
    <2>2. Room(seen, Between(candidate, sys.size))
      BY <1>3, <1>7, <2>1, GapHasRoom
    <2>3. m \in mappings /\ m.base >= candidate + sys.size /\ m.base \in Address /\ Holds(m, m.base)
      BY <1>3, <1>5, <1>12 DEF Address, Holds
    <2>4. seen[m.base].mapped
      BY <1>3, <1>7, <2>3, MemoryWellFormed
    <2> QED
      BY <1>11, <1>12, <2>2, <2>3, <2>4
  <1>13. ASSUME NEW m \in ahead, ~(candidate <= m.base /\ sys.size <= m.base - candidate),
                NEW d \in Address, d < End(m)
         PROVE  ~Fitting(d)
    <2>1. CASE d < candidate
      BY <1>8, <2>1 DEF NoneBelow
    <2>2. CASE candidate <= d
      <3>1. ~Room(Memory, Between(d, sys.size))
        BY <1>3, <1>4, <1>13, <2>2, Blocked
      <3> QED
        BY <1>7, <3>1 DEF Fit
    <2> QED
      BY <1>3, <2>1, <2>2 DEF Address
  <1>14. ASSUME NEW m \in ahead, ~(candidate <= m.base /\ sys.size <= m.base - candidate),
                walkPast(m, sys.mask) = NoAddress, NoSpace
         PROVE  Stepped
    <2>1. End(m) \in Nat /\ End(m) > Limit - sys.mask
      BY <1>3, <1>5, <1>14, NoAddressAbove DEF walkPast
    <2>2. ASSUME NEW d \in Address PROVE ~Fitting(d)
      <3>1. CASE d < End(m)
        BY <1>13, <1>14, <3>1
      <3>2. CASE ~(d < End(m))
        <4>1. d > Limit - sys.mask
          BY <1>3, <2>1, <3>2 DEF Address
        <4> QED
          BY <1>3, <1>7, <1>9, <4>1, NoTopFit
      <3> QED
        BY <3>1, <3>2
    <2> QED
      BY <1>10, <1>14, <2>2 DEF NoFit
  <1>15. ASSUME NEW m \in ahead, ~(candidate <= m.base /\ sys.size <= m.base - candidate),
                walkPast(m, sys.mask) # NoAddress, StartSearch(sys, walkPast(m, sys.mask))
         PROVE  Stepped
    <2> DEFINE next == walkPast(m, sys.mask)
    <2>1. m \in mappings /\ End(m) \in Nat /\ candidate < End(m)
      BY <1>5
    <2>2. next \in Address /\ End(m) <= next
      BY <1>3, <1>4, <1>15, <2>1, AlignedUp DEF walkPast
    <2>3. /\ next % (sys.mask + 1) = 0
          /\ \A d \in Nat : End(m) <= d /\ d < next => d % (sys.mask + 1) # 0
      BY <1>3, <1>15, <2>1, AlignLeast DEF walkPast
    <2>4. StartSearch(sys, next)
      BY <1>15
    <2> HIDE DEF next
    <2>5. ASSUME NEW d \in Address, d < next PROVE ~Fitting(d)
      <3>1. CASE d < End(m)
        BY <1>13, <1>15, <3>1
      <3>2. CASE ~(d < End(m))
        <4>1. d \in Nat /\ End(m) <= d
          BY <1>3, <2>1, <3>2 DEF Address
        <4>2. d % (sys.mask + 1) # 0
          BY <2>3, <2>5, <4>1
        <4> QED
          BY <4>2 DEF Fit
      <3> QED
        BY <3>1, <3>2
    <2>6. NoneBelow(sys, seen, next)
      BY <2>5 DEF NoneBelow
    <2>7. From(sys, seen) <= next
      <3>1. next \in Nat
        BY <2>2, <1>3 DEF Address
      <3> QED
        BY <1>3, <1>8, <2>1, <2>2, <3>1
    <2> QED
      BY <1>2, <1>3, <1>6, <1>7, <1>8, <2>2, <2>3, <2>4, <2>6, <2>7, SearchingStepped
  <1>16. ASSUME ahead = {}, candidate <= MaximumUserMapEnd,
                sys.size <= MaximumUserMapEnd - candidate, Take
         PROVE  Stepped
    <2>1. \A n \in mappings : End(n) <= candidate \/ candidate + sys.size <= n.base
      BY <1>3, <1>5, <1>16
    <2>2. Room(seen, Between(candidate, sys.size))
      BY <1>3, <1>7, <2>1, GapHasRoom
    <2>3. candidate + sys.size <= MaximumUserMapEnd
      BY <1>3, <1>16
    <2> QED
      BY <1>11, <1>16, <2>2, <2>3
  <1>17. ASSUME ahead = {}, NoSpace,
                ~(candidate <= MaximumUserMapEnd /\ sys.size <= MaximumUserMapEnd - candidate)
         PROVE  Stepped
    <2>1. ASSUME NEW d \in Address, candidate <= d PROVE ~Fitting(d)
      <3>1. d \in Nat
        BY <1>3 DEF Address
      <3>2. ~(d + sys.size <= MaximumUserMapEnd)
        BY <1>3, <1>17, <2>1, <3>1
      <3>3. ASSUME NEW a \in Address, a >= d + sys.size, seen[a].mapped PROVE FALSE
        <4>1. PICK n \in mappings : Holds(n, a)
          BY <1>3, <1>7, <3>3, MemoryWellFormed
        <4>2. a \in Nat /\ a < End(n) /\ End(n) <= candidate
          BY <1>3, <1>5, <1>17, <4>1 DEF Address, Holds
        <4> QED
          BY <1>3, <1>5, <2>1, <3>1, <3>3, <4>2
      <3> QED
        BY <3>2, <3>3 DEF Fit
    <2>2. \A d \in Address : ~Fitting(d)
      BY <1>3, <1>8, <2>1 DEF NoneBelow, Address
    <2> QED
      BY <1>10, <1>17, <2>2 DEF NoFit
  <1>18. \/ \E m \in ahead :
             LET fits == candidate <= m.base /\ sys.size <= m.base - candidate
                 next == walkPast(m, sys.mask)
             IN  /\ \A n \in ahead : m.base <= n.base
                 /\ \/ fits /\ Take
                    \/ ~fits /\ next = NoAddress /\ NoSpace
                    \/ ~fits /\ next # NoAddress /\ StartSearch(sys, next)
         \/ LET fits == candidate <= MaximumUserMapEnd
                        /\ sys.size <= MaximumUserMapEnd - candidate
            IN  /\ ahead = {}
                /\ IF fits THEN Take ELSE NoSpace
    BY DEF search
  <1> HIDE DEF candidate, ahead, Take
  <1> QED
    BY <1>12, <1>14, <1>15, <1>16, <1>17, <1>18

\* The hint was read: it is what the pointer held when the guest made the call.
LEMMA PlaceStepped ==
    ASSUME VInv, VInv', RInv, place
    PROVE  Stepped
  <1> DEFINE hint == result.data[1]
             from == IF hint < MinimumMap THEN MinimumMap ELSE hint
             first == alignUp(from, sys.mask)
             base == PageFloor(hint)
             Fitting(c) == Fit(seen, c, From(sys, seen), sys.size, sys.mask)
  <1>1. sys.name \in {"allocate", "map"} /\ sys.stage = "hint" /\ Idle
    BY DEF place
  <1>2. sys.name \in Placing /\ sys.name \notin {"mmap", "loading", "none", "stopped"}
    BY <1>1 DEF Placing
  <1>3. /\ sys.size \in Nat /\ sys.mask \in Nat /\ IInv /\ sys \in SysType /\ Limit \in Nat
        /\ Space /\ Space' /\ MinimumMap \in Nat /\ sys.fixed \in BOOLEAN
    BY VInvFields, GeometryAssumption, VmAssumption DEF Address, VInv
  <1>4. sys.size # 0 /\ sys.size % PageSize = 0 /\ WholePages(sys.mask)
    BY <1>2 DEF VInv, Asking, WholePages
  <1>5. \A m \in mappings : m.base \in Nat /\ End(m) \in Nat /\ m.base < End(m) /\ End(m) <= Limit
    BY <1>3, MappingFacts
  <1>6. returned = "none" /\ PlacesTo(sys, Memory, seen, Request, VisibleResult)
    BY <1>1, <1>2, IdleReq DEF RInv, Outcome, StageOK
  <1>7. Memory = seen /\ GoodMask(sys.mask) /\ Reading(Request, VisibleResult, Memory, sys.pointer)
    BY <1>1, <1>2, <1>6 DEF PlacesTo
  <1>8. ASSUME Succeeded
        PROVE  /\ Grants(seen, sys.pointer, {"R"}) /\ hint = seen[sys.pointer].value
               /\ hint \in Nat /\ hint <= Limit
    <2>1. Request = NoReq /\ VisibleResult = result
      BY <1>1, IdleReq
    <2>2. Request # Req("read", sys.pointer, 1, {"R"}, << >>)
      BY <2>1 DEF NoReq, Req, Flat!NoRequest
    <2>3. Grants(seen, sys.pointer, {"R"}) /\ hint = seen[sys.pointer].value
      BY <1>7, <1>8, <2>1, <2>2 DEF Reading, Succeeded
    <2>4. call.op = "none"
      BY <1>1 DEF Idle, NoCall
    <2>5. Len(result.data) = 1
      BY <1>1, <1>8, <2>4 DEF VInv, Choosing, Accessing
    <2>6. result.data \in Seq(Value)
      BY <1>3 DEF IInv
    <2>7. hint \in Address
      BY <2>5, <2>6, VmAssumption
    <2> QED
      BY <2>3, <2>7, GeometryAssumption DEF Address
  <1>9. CASE Quit("invalidAddress") \/ Quit("invalidArgument")
    BY <1>1, <1>2, <1>3, <1>7, <1>9, QuitAnswers
  <1>10. CASE sys.fixed /\ NoSpace
    BY <1>1, <1>2, <1>3, <1>7, <1>10, QuitAnswers DEF NoSpace
  <1>11. ASSUME Succeeded PROVE from = From(sys, seen) /\ from \in Nat
    BY <1>2, <1>3, <1>8, <1>11 DEF From
  <1>12. sys.size >= PageSize
    BY <1>3, <1>4, AtLeastAPage
  <1>13. ASSUME Succeeded, ~sys.fixed, first = NoAddress, NoSpace PROVE Stepped
    <2>1. from = From(sys, seen) /\ from \in Nat
      BY <1>11, <1>13
    <2> HIDE DEF from
    <2>2. from > Limit - sys.mask
      BY <1>3, <1>13, <2>1, NoAddressAbove
    <2>3. ASSUME NEW d \in Address PROVE ~Fitting(d)
      <3>1. CASE d > Limit - sys.mask
        BY <1>3, <1>7, <1>12, <3>1, NoTopFit
      <3>2. CASE ~(d > Limit - sys.mask)
        <4>1. ~(d >= From(sys, seen))
          BY <1>3, <2>1, <2>2, <3>2 DEF Address
        <4> QED
          BY <4>1 DEF Fit
      <3> QED
        BY <3>1, <3>2
    <2>4. NoFit
      BY <2>3 DEF NoFit
    <2> QED
      BY <1>1, <1>2, <1>3, <1>7, <1>13, <2>4, QuitAnswers DEF NoSpace
  <1>14. ASSUME Succeeded, ~sys.fixed, first # NoAddress, StartSearch(sys, first) PROVE Stepped
    <2>1. from = From(sys, seen) /\ from \in Nat
      BY <1>11, <1>14
    <2>2. Hinted(sys, seen)
      BY <1>8, <1>14 DEF Hinted
    <2> HIDE DEF from
    <2>3. first \in Address /\ from <= first
      BY <1>3, <1>4, <1>14, <2>1, AlignedUp
    <2>4. /\ first % (sys.mask + 1) = 0
          /\ \A d \in Nat : from <= d /\ d < first => d % (sys.mask + 1) # 0
      BY <1>3, <1>14, <2>1, AlignLeast
    <2> HIDE DEF first
    <2>5. ASSUME NEW d \in Address, d < first PROVE ~Fitting(d)
      <3>1. d \in Nat
        BY <1>3 DEF Address
      <3> QED
        BY <2>1, <2>4, <2>5, <3>1 DEF Fit
    <2>6. NoneBelow(sys, seen, first)
      BY <2>5 DEF NoneBelow
    <2> QED
      BY <1>2, <1>3, <1>6, <1>7, <1>14, <2>1, <2>2, <2>3, <2>4, <2>6, SearchingStepped
  <1>15. ASSUME Succeeded, sys.fixed, ~fixedOverflows(base, sys.size),
                ~overlaps(base, base + sys.size),
                Continue([sys EXCEPT !.stage = "place", !.address = base]), UNCHANGED vars
         PROVE  Stepped
    <2>1. hint \in Nat /\ hint <= Limit /\ hint = seen[sys.pointer].value
          /\ Hinted(sys, seen)
      BY <1>8, <1>15 DEF Hinted
    <2>2. base = seen[sys.pointer].value - (seen[sys.pointer].value % PageSize)
      BY <2>1 DEF PageFloor
    <2> HIDE DEF hint
    <2>3. base \in Nat /\ base <= hint
      BY <2>1, RoundingIsAligned
    <2> HIDE DEF base
    <2>4. base \in Address
      BY <1>3, <2>1, <2>3 DEF Address
    <2>5. \A m \in mappings : End(m) <= base \/ base + sys.size <= m.base
      BY <1>3, <1>5, <1>15, <2>3 DEF overlaps
    <2>6. Room(seen, Between(base, sys.size))
      BY <1>3, <1>7, <2>3, <2>5, GapHasRoom
    <2> QED
      BY <1>2, <1>3, <1>6, <1>7, <1>15, <2>1, <2>2, <2>4, <2>6, ChosenStepped
  <1>16. \/ Quit("invalidAddress") \/ Quit("invalidArgument")
         \/ sys.fixed /\ NoSpace
         \/ Succeeded /\ ~sys.fixed /\ first = NoAddress /\ NoSpace
         \/ Succeeded /\ ~sys.fixed /\ first # NoAddress /\ StartSearch(sys, first)
         \/ /\ Succeeded /\ sys.fixed
            /\ ~fixedOverflows(base, sys.size) /\ ~overlaps(base, base + sys.size)
            /\ Continue([sys EXCEPT !.stage = "place", !.address = base]) /\ UNCHANGED vars
    BY DEF place
  <1> HIDE DEF first, base
  <1> QED
    BY <1>9, <1>10, <1>13, <1>14, <1>15, <1>16

\* mmap begins its search at the lowest address it may use.
LEMMA MmapStepped ==
    ASSUME VInv, VInv', RInv, NEW readOnlyFile, NEW supported, NEW size \in CallSizes,
           NEW p \in MapProtections, handleMmap(readOnlyFile, supported, size, p)
    PROVE  Stepped
  <1>0. Space /\ Space' /\ Ready /\ returned = "none" /\ seen = Memory /\ sys.name = "none"
    BY ReadyFacts DEF VInv, RInv, handleMmap
  <1> DEFINE n == RoundUp(size)
             s == [Away("mmap") EXCEPT !.size = n, !.permissions = p, !.mask = PageMask]
  <1>1. CASE Refuse("EBADF") \/ Refuse("EINVAL")
    BY <1>0, <1>1, RefuseStep
  <1>2. CASE Unsupported
    BY <1>0, <1>2, UnsupportedStep
  <1>3. ASSUME SizeIsValid(size), StartSearch(s, MinimumMap) PROVE Stepped
    <2>1. Away("mmap") \in SysType /\ Away("mmap").name = "mmap" /\ Away("mmap").fixed = FALSE
      BY AwayType DEF Names
    <2>2. n \in Address /\ p \in Permission /\ PageMask \in Nat /\ MinimumMap \in Address
      BY <1>3, RoundedSize, PageMaskWhole, VmAssumption
    <2> HIDE DEF n
    <2>3. /\ s \in SysType /\ s.name = "mmap" /\ ~s.fixed /\ s.mask = PageMask
      BY <2>1, <2>2 DEF SysType
    <2> HIDE DEF s
    <2>4. Hinted(s, seen) /\ From(s, seen) = MinimumMap /\ GoodMask(s.mask) /\ s.name \in Placing
      BY <2>3 DEF Hinted, From, GoodMask, Placing
    <2>5. MinimumMap % (s.mask + 1) = 0 /\ MinimumMap \in Nat
      <3>1. PageMask + 1 = PageSize
        BY GeometryAssumption DEF PageMask
      <3> QED
        BY <2>2, <2>3, <3>1, VmAssumption, GeometryAssumption DEF Address
    <2>6. NoneBelow(s, seen, MinimumMap)
      <3> SUFFICES ASSUME NEW d \in Address, d < MinimumMap
                   PROVE  ~Fit(seen, d, MinimumMap, s.size, s.mask)
        BY <2>4 DEF NoneBelow
      <3>1. d \in Nat
        BY GeometryAssumption DEF Address
      <3> QED
        BY <2>5, <3>1 DEF Fit
    <2>7. From(s, seen) \in Nat /\ From(s, seen) <= MinimumMap
      BY <2>4, <2>5
    <2> QED
      BY <1>0, <1>3, <2>2, <2>3, <2>4, <2>5, <2>6, <2>7, SearchingStepped
  <1> HIDE DEF s
  <1>4. \/ Refuse("EBADF") \/ Refuse("EINVAL") \/ Unsupported
        \/ SizeIsValid(size) /\ StartSearch(s, MinimumMap)
    BY Zenon DEF handleMmap, s
  <1> QED
    BY <1>1, <1>2, <1>3, <1>4

-----------------------------------------------------------------------------
(* The cells of a new mapping.                                             *)

LEMMA InsertedCells ==
    ASSUME IInv, IInv', Idle, NEW k, NEW h, insertMapping(k, h), k.base \in Nat, k.size \in Nat,
           \A m \in mappings : HasFile(m) => h[m.fileBytes] = hosts[m.fileBytes],
           \A m \in mappings : End(m) <= k.base \/ k.base + k.size <= m.base,
           NEW cell, \A a \in Between(k.base, k.size) : View(k, h, NoCall, a) = cell
    PROVE  /\ Memory' = Laid(Memory, k.base, k.size, cell) /\ Idle' /\ result'.status = "success"
           /\ Room(Memory, Between(k.base, k.size))
  <1> DEFINE B == Between(k.base, k.size)
  <1>1. mappings' = mappings \cup {k} /\ hosts' = h /\ call' = NoCall /\ result'.status = "success"
    BY DEF insertMapping, Finish, Returned
  <1>2. ~Committed /\ ~Committed' /\ Idle' /\ call = NoCall
    BY <1>1 DEF Committed, Idle, NoCall
  <1>3. CellsViewed /\ CellsViewed'
    BY Viewed, ViewedNext
  <1>4. \A a \in Address : Holds(k, a) <=> a \in B
    BY DEF Holds, End, Between
  <1>5. Room(Memory, B)
    BY GapHasRoom
  <1>6. ASSUME NEW a \in Address PROVE Memory'[a] = IF a \in B THEN cell ELSE Memory[a]
    <2>1. CASE a \in B
      <3>1. Memory'[a] = View(k, h, NoCall, a)
        BY <1>1, <1>3, <1>4, <2>1 DEF CellsViewed
      <3> QED
        BY <2>1, <3>1
    <2>2. ASSUME a \notin B, NEW m \in mappings, Holds(m, a) PROVE Memory'[a] = Memory[a]
      <3>1. m \in mappings' /\ (HasFile(m) => hosts'[m.fileBytes] = hosts[m.fileBytes])
        BY <1>1
      <3>2. Seen(m, hosts', a - m.base) = Seen(m, hosts, a - m.base)
        BY <3>1 DEF Seen, Settled, Stored
      <3>3. ValueSeen(m, hosts', call', a) = ValueSeen(m, hosts, call, a)
        BY <1>2, <3>2, NoPayload, NoPayloadNext
      <3>4. View(m, hosts', call', a) = View(m, hosts, call, a)
        BY <3>3, Zenon DEF View
      <3> QED
        BY <1>3, <2>2, <3>1, <3>4 DEF CellsViewed
    <2>3. CASE a \notin B /\ \A m \in mappings : ~Holds(m, a)
      <3>1. \A m \in mappings' : ~Holds(m, a)
        BY <1>1, <1>4, <2>3
      <3> QED
        BY <1>3, <2>3, <3>1 DEF CellsViewed
    <2> QED
      BY <2>1, <2>2, <2>3
  <1>7. Memory' = [a \in Address |-> IF a \in B THEN cell ELSE Memory[a]]
    <2>1. Memory' = [a \in Address |-> Memory'[a]]
      BY <1>3 DEF CellsViewed
    <2> QED
      BY <1>6, <2>1
  <1> QED
    BY <1>1, <1>2, <1>5, <1>7 DEF Laid

\* The cells of a mapping of a new host mapping.
NewCell(p, mx, value) == MappedCell(p, mx, TRUE, value, TRUE)
NewFile(base, size, p, mx, b) == FileMapping(base, size, p, mx, b, 0, FALSE)
Filled(host, size, value) == \A i \in 0 .. size - 1 : host.cells[i] = value

LEMMA NewCellMapped == ASSUME NEW p, NEW mx, NEW value PROVE NewCell(p, mx, value).mapped
  <1> DEFINE t == TRUE
             c == NewCell(p, mx, value)
  <1>1. c = MappedCell(p, mx, t, value, t)
    BY Zenon DEF NewCell
  <1> HIDE DEF t, c
  <1>2. c.mapped
    BY <1>1, CellFields
  <1> QED
    BY <1>2 DEF c

LEMMA FileCell ==
    ASSUME NEW base \in Nat, NEW size \in Nat, NEW p, NEW mx, NEW b \in Backings, NEW h,
           NEW value, Filled(h[b], size, value), NEW a \in Between(base, size)
    PROVE  View(NewFile(base, size, p, mx, b), h, NoCall, a) = NewCell(p, mx, value)
  <1> DEFINE k == NewFile(base, size, p, mx, b)
  <1>1. /\ k.base = base /\ k.permissions = p /\ k.maximumPermissions = mx
        /\ k.fileBytes = b /\ k.fileDataOffset = 0 /\ ~k.lazyFileTransform
        /\ k.readableBytes = Empty
    BY DEF NewFile, FileMapping, PlainMapping
  <1> HIDE DEF k
  <1>2. HasFile(k) /\ HasBacking(k) = TRUE /\ ReadableFlag(k, a) = TRUE
    BY <1>1, ContentAssumption DEF HasFile, HasBacking, ReadableFlag, IsSparse
  <1>3. a \in Nat /\ a - base \in 0 .. size - 1 /\ 0 + (a - base) = a - base
    BY GeometryAssumption DEF Between, Address
  <1>4. Stored(k, h, a - base) = value
    <2>1. h[b].cells[a - base] = value
      BY <1>3 DEF Filled
    <2> QED
      BY <1>1, <1>2, <1>3, <2>1 DEF Stored
  <1>5. Seen(k, h, a - k.base) = value
    BY <1>1, <1>2, <1>4 DEF Seen, Settled
  <1>6. ValueSeen(k, h, NoCall, a) = value
    BY <1>5 DEF ValueSeen, ShowsPayload, NoCall
  <1> QED
    BY <1>1, <1>2, <1>6, Zenon DEF View, MappedCell, NewCell, k

LEMMA RejectedCells ==
    ASSUME Space, Space', Idle, Rejected
    PROVE  Memory' = Memory /\ Idle' /\ result'.status = "rejected"
  <1>1. Memory' = Memory
    BY RefuseFlat DEF Space, Rejected
  <1> QED
    BY <1>1 DEF Rejected, Unchanged, Finish, Idle, Returned

\* A file mapping of validated pages.
LEMMA InsertedFile ==
    ASSUME Space, Space', Idle, NEW base \in Address, NEW size \in Address, NEW p, NEW mx,
           validateNewMapping(base, size, p, mx), NEW b \in Backings, IsFree(b), NEW value, NEW t,
           NEW h, h = [hosts EXCEPT ![b] = [cells |-> [c \in 0 .. size - 1 |-> value],
                                            transform |-> t]],
           insertMapping(FileMapping(base, size, p, mx, b, 0, FALSE), h)
    PROVE  /\ Memory' = Laid(Memory, base, size, NewCell(p, mx, value))
           /\ Idle' /\ result'.status = "success" /\ Room(Memory, Between(base, size))
  <1> DEFINE k == FileMapping(base, size, p, mx, b, 0, FALSE)
             host == [cells |-> [c \in 0 .. size - 1 |-> value], transform |-> t]
             cell == NewCell(p, mx, value)
  <1>1. base \in Nat /\ size \in Nat /\ IInv /\ IInv'
    BY GeometryAssumption DEF Address, Space
  <1>2. k.base = base /\ k.size = size
    BY DEF FileMapping, PlainMapping
  <1>3. h[b] = host
    BY DEF Space, IInv, HostsType
  <1>4. ASSUME NEW a \in Between(base, size) PROVE View(k, h, NoCall, a) = cell
    <2>1. Filled(h[b], size, value)
      <3>1. host.cells = [c \in 0 .. size - 1 |-> value]
        OBVIOUS
      <3> HIDE DEF host
      <3> QED
        BY ONLY <1>3, <3>1 DEF Filled
    <2>2. k = NewFile(base, size, p, mx, b)
      BY DEF NewFile
    <2> HIDE DEF k
    <2>3. base \in Nat /\ size \in Nat /\ b \in Backings /\ a \in Between(base, size)
      BY <1>1, <1>4
    <2>4. View(NewFile(base, size, p, mx, b), h, NoCall, a) = NewCell(p, mx, value)
      BY ONLY <2>1, <2>3, FileCell
    <2> QED
      BY ONLY <2>2, <2>4
  <1> HIDE DEF cell, host
  <1>5. \A m \in mappings : HasFile(m) => h[m.fileBytes] = hosts[m.fileBytes]
    <2>1. h = [hosts EXCEPT ![b] = host]
      BY DEF host
    <2> QED
      BY ONLY <1>1, <2>1, b \in Backings, IsFree(b), OtherHosts
  <1>6. \A m \in mappings : End(m) <= base \/ base + size <= m.base
    BY <1>1, NewMappingApart
  <1>7. insertMapping(k, h)
    OBVIOUS
  <1> HIDE DEF k
  <1>8. k.base \in Nat /\ k.size \in Nat
    BY <1>1, <1>2
  <1>9. \A m \in mappings : End(m) <= k.base \/ k.base + k.size <= m.base
    BY <1>2, <1>6
  <1>10. \A a \in Between(k.base, k.size) : View(k, h, NoCall, a) = cell
    BY <1>2, <1>4
  <1>11. /\ Memory' = Laid(Memory, k.base, k.size, cell) /\ Idle' /\ result'.status = "success"
         /\ Room(Memory, Between(k.base, k.size))
    BY <1>1, <1>5, <1>7, <1>8, <1>9, <1>10, InsertedCells
  <1> QED
    BY <1>2, <1>11 DEF cell

LEMMA AnonymousCells ==
    ASSUME Space, Space', NEW base \in Address, NEW size \in Address, NEW p, NEW mx, mx # {},
           mapAnonymous(base, size, p, mx)
    PROVE  /\ Idle'
           /\ \/ result'.status = "rejected" /\ Memory' = Memory
              \/ /\ result'.status = "success" /\ Room(Memory, Between(base, size))
                 /\ Memory' = Laid(Memory, base, size, NewCell(p, mx, Zero))
  <1> DEFINE b == CHOOSE b \in Backings : IsFree(b)
             host == [cells |-> [c \in 0 .. size - 1 |-> Zero], transform |-> NoTransform]
             h == [hosts EXCEPT ![b] = host]
  <1>1. Idle /\ \/ Rejected
                \/ /\ validateNewMapping(base, size, p, mx) /\ (\E x \in Backings : IsFree(x))
                   /\ insertMapping(FileMapping(base, size, p, mx, b, 0, FALSE), h)
    BY DEF mapAnonymous, None
  <1>2. CASE Rejected
    BY <1>1, <1>2, RejectedCells
  <1>3. CASE /\ validateNewMapping(base, size, p, mx) /\ (\E x \in Backings : IsFree(x))
             /\ insertMapping(FileMapping(base, size, p, mx, b, 0, FALSE), h)
    <2>1. b \in Backings /\ IsFree(b)
      BY <1>3
    <2> HIDE DEF b
    <2> QED
      BY <1>1, <1>3, <2>1, InsertedFile
  <1> QED
    BY <1>1, <1>2, <1>3

LEMMA FileSegmentCells ==
    ASSUME Space, Space', NEW base \in Address, NEW size \in Address, NEW p, NEW mx,
           mapFileSegment(base, size, p, mx, 0, 0)
    PROVE  /\ Idle'
           /\ \/ result'.status = "rejected" /\ Memory' = Memory
              \/ /\ result'.status = "success" /\ Room(Memory, Between(base, size))
                 /\ Memory' = Laid(Memory, base, size, NewCell(p, mx, FileByte))
  <1> DEFINE b == CHOOSE b \in Backings : IsFree(b)
             host == [cells |-> [c \in 0 .. size - 1 |-> FileByte], transform |-> NoTransform]
             h == [hosts EXCEPT ![b] = host]
  <1> DEFINE lazy == 0 # 0
             last == 0 + size - 1
             t == IF 0 = 0 THEN NoTransform ELSE installLazyFilePageTransform(0, size, 0)
  <1>i. Idle /\ \/ Rejected
                \/ /\ validateNewMapping(base, size, p, mx) /\ (\E x \in Backings : IsFree(x))
                   /\ insertMapping(FileMapping(base, size, p, mx, b, 0, lazy),
                        [hosts EXCEPT ![b] = [cells |-> [c \in 0 .. last |-> FileByte],
                                              transform |-> t]])
    BY Zenon DEF mapFileSegment
  <1>1. lazy = FALSE /\ last = size - 1 /\ t = NoTransform
    BY GeometryAssumption DEF Address
  <1> HIDE DEF lazy, last, t
  <1>2. Idle /\ \/ Rejected
                \/ /\ validateNewMapping(base, size, p, mx) /\ (\E x \in Backings : IsFree(x))
                   /\ insertMapping(FileMapping(base, size, p, mx, b, 0, FALSE), h)
    BY <1>i, <1>1, Zenon
  <1>3. CASE Rejected
    BY <1>2, <1>3, RejectedCells
  <1>4. CASE /\ validateNewMapping(base, size, p, mx) /\ (\E x \in Backings : IsFree(x))
             /\ insertMapping(FileMapping(base, size, p, mx, b, 0, FALSE), h)
    <2>1. b \in Backings /\ IsFree(b)
      BY <1>4
    <2> HIDE DEF b
    <2> QED
      BY <1>2, <1>4, <2>1, InsertedFile
  <1> QED
    BY <1>2, <1>3, <1>4

\* A range with room lies in a gap between the mappings.
LEMMA RoomIsGap ==
    ASSUME IInv, NEW base \in Nat, NEW size \in Nat \ {0}, base + size <= Limit,
           Room(Memory, Between(base, size)), NEW m \in mappings
    PROVE  End(m) <= base \/ base + size <= m.base
  <1> SUFFICES ASSUME base < End(m), m.base < base + size PROVE FALSE
    BY MappingFacts
  <1>1. m.base \in Nat /\ End(m) \in Nat /\ m.base < End(m) /\ End(m) <= Limit /\ Limit \in Nat
    BY MappingFacts, GeometryAssumption
  <1>2. CASE m.base <= base
    <2>1. base \in Address /\ Holds(m, base) /\ base \in Between(base, size)
      BY <1>1, <1>2 DEF Address, Holds, Between
    <2> QED
      BY <2>1, MemoryWellFormed DEF Room
  <1>3. CASE base < m.base
    <2>1. m.base \in Address /\ Holds(m, m.base) /\ m.base \in Between(base, size)
      BY <1>1, <1>3 DEF Address, Holds, Between
    <2> QED
      BY <2>1, MemoryWellFormed DEF Room
  <1> QED
    BY <1>1, <1>2, <1>3

\* A reservation of pages succeeds just when there is room.
LEMMA ReservationCells ==
    ASSUME Space, Space', NEW base \in Address, NEW size \in Address, size # 0,
           base % PageSize = 0, size % PageSize = 0, base + size <= Limit,
           mapAnonymous(base, size, {}, {})
    PROVE  /\ Idle'
           /\ \/ /\ result'.status = "rejected" /\ Memory' = Memory
                 /\ ~Room(Memory, Between(base, size))
              \/ /\ result'.status = "success" /\ Room(Memory, Between(base, size))
                 /\ Memory' = Laid(Memory, base, size, MappedCell({}, {}, FALSE, Zero, TRUE))
  <1> DEFINE k == PlainMapping(base, size, {}, {}, Empty)
             cell == MappedCell({}, {}, FALSE, Zero, TRUE)
  <1>1. base \in Nat /\ size \in Nat /\ IInv /\ IInv'
    BY GeometryAssumption DEF Address, Space
  <1>2. Idle /\ \/ ~validateNewMapping(base, size, {}, {}) /\ Rejected
                \/ validateNewMapping(base, size, {}, {}) /\ insertMapping(k, hosts)
    BY DEF mapAnonymous, None
  <1>3. CASE ~validateNewMapping(base, size, {}, {}) /\ Rejected
    <2>1. ~Room(Memory, Between(base, size))
      <3> SUFFICES ASSUME Room(Memory, Between(base, size)) PROVE FALSE
        OBVIOUS
      <3>1. \A m \in mappings : End(m) <= base \/ base + size <= m.base
        BY <1>1, RoomIsGap
      <3>2. {} \in Permission
        BY DEF Permission
      <3>3. validateNewMapping(base, size, {}, {"R", "W", "X"})
        BY <1>1, <3>1, <3>2, GapIsValid
      <3> QED
        BY <1>3, <3>3 DEF validateNewMapping, hasPermission
    <2> QED
      BY <1>2, <1>3, <2>1, RejectedCells
  <1>4. CASE validateNewMapping(base, size, {}, {}) /\ insertMapping(k, hosts)
    <2>1. /\ k.base = base /\ k.size = size /\ k.permissions = {} /\ k.maximumPermissions = {}
          /\ k.bytes = Empty /\ k.fileBytes = NoBacking /\ k.readableBytes = Empty
      BY DEF PlainMapping
    <2>2. HasBacking(k) = FALSE /\ \A a : ReadableFlag(k, a) = TRUE
      BY <2>1 DEF HasBacking, HasFile, ReadableFlag, IsSparse
    <2>3. insertMapping(k, hosts)
      BY <1>4
    <2> HIDE DEF k
    <2>4. ASSUME NEW a PROVE View(k, hosts, NoCall, a) = cell
      <3>1. ValueSeen(k, hosts, NoCall, a) = Zero
        BY <2>2 DEF ValueSeen, ShowsPayload, NoCall, Seen
      <3> QED
        BY <2>1, <2>2, <3>1, Zenon DEF View, MappedCell
    <2> HIDE DEF cell
    <2>5. \A m \in mappings : End(m) <= k.base \/ k.base + k.size <= m.base
      BY <1>1, <1>4, <2>1, NewMappingApart
    <2>6. /\ Memory' = Laid(Memory, k.base, k.size, cell) /\ Idle' /\ result'.status = "success"
          /\ Room(Memory, Between(k.base, k.size))
      BY <1>1, <1>2, <2>1, <2>3, <2>4, <2>5, InsertedCells
    <2> QED
      BY <2>1, <2>6 DEF cell
  <1> QED
    BY <1>2, <1>3, <1>4

-----------------------------------------------------------------------------
(* What the placements leave in the memory the guest sees.                 *)

LEMMA OneCellRange == ASSUME NEW a \in Address PROVE Between(a, 1) = {a}
  <1>1. a \in Nat
    BY GeometryAssumption DEF Address
  <1> QED
    BY <1>1, GeometryAssumption DEF Between, Address

LEMMA StoredIs ==
    ASSUME NEW f, f = [a \in Address |-> f[a]], NEW pointer \in Address, NEW v
    PROVE  Payload(f, pointer, 1, <<v>>) = Vm!Stored(f, pointer, v)
  <1>1. pointer \in Nat /\ pointer - pointer + 1 = 1 /\ <<v>>[1] = v
    BY GeometryAssumption DEF Address
  <1>2. Between(pointer, 1) = {pointer}
    BY OneCellRange
  <1>3. Payload(f, pointer, 1, <<v>>)
          = [a \in Address |-> IF a = pointer THEN [f[a] EXCEPT !.value = v] ELSE f[a]]
    BY <1>1, <1>2 DEF Payload
  <1> DEFINE d == [f[pointer] EXCEPT !.value = v]
  <1>4. Payload(f, pointer, 1, <<v>>) = [a \in Address |-> IF a = pointer THEN d ELSE f[a]]
    BY <1>3
  <1>5. Vm!Stored(f, pointer, v) = [f EXCEPT ![pointer] = d]
    BY DEF Vm!Stored
  <1> HIDE DEF d
  <1> QED
    BY <1>4, <1>5

\* A store maps and unmaps nothing.
LEMMA StoreMaps ==
    ASSUME NEW f, NEW pointer \in Address, IsCell(f[pointer]), f[pointer].mapped, NEW v,
           NEW a \in Address, NEW g, g = Payload(f, pointer, 1, <<v>>)
    PROVE  /\ g[a].mapped <=> f[a].mapped
           /\ a # pointer => g[a] = f[a]
  <1>1. Between(pointer, 1) = {pointer}
    BY OneCellRange
  <1>2. CASE a # pointer
    BY <1>1, <1>2 DEF Payload
  <1>3. CASE a = pointer
    <2> DEFINE w == <<v>>[a - pointer + 1]
               c == f[a]
               d == g[a]
    <2>1. d = [c EXCEPT !.value = w]
      BY <1>1, <1>3 DEF Payload
    <2> HIDE DEF w, d, c
    <2>2. d = MappedCell(c.permissions, c.maximum, c.backed, w, c.readable)
      BY <1>3, <2>1, StoredCell DEF c
    <2>3. d.mapped
      BY <2>2, CellFields
    <2> QED
      BY <1>3, <2>3 DEF d
  <1> QED
    BY <1>2, <1>3

\* The new pages, and where they begin.
LEMMA NewIs ==
    ASSUME NEW address \in Address, NEW size \in Nat \ {0}, address + size <= Limit,
           Room(seen, Between(address, size)),
           \A a \in Between(address, size) : seen'[a].mapped,
           \A a \in Address : a \notin Between(address, size) /\ seen'[a].mapped => seen[a].mapped
    PROVE  /\ Vm!New = Between(address, size) /\ Vm!New # {} /\ Vm!Base = address
           /\ Vm!New = Vm!Extent(Vm!Base, size)
  <1>1. address \in Nat /\ Limit \in Nat
    BY GeometryAssumption DEF Address
  <1>2. Vm!New = Between(address, size)
    <2>1. \A a : a \in Between(address, size) => a \in Address
      BY DEF Between
    <2>2. Vm!New = {a \in Address : ~seen[a].mapped /\ seen'[a].mapped}
      BY DEF Vm!New, Vm!Addresses, Address
    <2>3. \A a \in Address : (~seen[a].mapped /\ seen'[a].mapped) <=> a \in Between(address, size)
      BY DEF Room
    <2> QED
      BY <2>1, <2>2, <2>3
  <1>3. address \in Vm!New /\ \A b \in Vm!New : b \in Nat /\ address <= b
    BY <1>1, <1>2 DEF Between, Address
  <1>4. Vm!Base \in Vm!New /\ \A b \in Vm!New : Vm!Base <= b
    BY <1>3 DEF Vm!Base
  <1>5. Vm!Base = address
    BY <1>1, <1>3, <1>4
  <1> QED
    BY <1>2, <1>3, <1>5, ExtentIs

LEMMA MappedIs ==
    ASSUME NEW address, NEW size, Vm!New = Between(address, size), NEW cell
    PROVE  Vm!Mapped(seen, cell) = Laid(seen, address, size, cell)
  BY DEF Vm!Mapped, Laid, Vm!Addresses, Address

LEMMA FreshIs ==
    ASSUME NEW p, NEW mx, NEW value
    PROVE  Vm!Fresh(p, mx, value, TRUE) = NewCell(p, mx, value)
  BY Zenon DEF Vm!Fresh, NewCell, MappedCell

\* The lowest fit.
LEMMA LowestIs ==
    ASSUME Fit(seen, sys.address, From(sys, seen), sys.size, sys.mask),
           NoneBelow(sys, seen, sys.address)
    PROVE  Vm!IsLowestFit(sys.address, Vm!Start, Placement.size, Placement.mask)
  <1>1. Vm!Fits(sys.address, Vm!Start, Placement.size, Placement.mask)
    BY FitIs
  <1>2. \A d \in Vm!Addresses :
          d < sys.address => ~Vm!Fits(d, Vm!Start, Placement.size, Placement.mask)
    BY FitIs DEF NoneBelow, Vm!Addresses, Address
  <1> QED
    BY <1>1, <1>2 DEF Vm!IsLowestFit

LEMMA InstallStepped ==
    ASSUME VInv, VInv', RInv, install
    PROVE  Stepped
  <1> DEFINE t == [sys EXCEPT !.stage = "placed"]
             all == {"R", "W", "X"}
  <1>1. /\ sys.name \in {"allocate", "map"} /\ sys.stage = "place"
        /\ mapAnonymous(sys.address, sys.size, sys.permissions, all)
    BY DEF install
  <1>2. /\ Space /\ Space' /\ Idle /\ sys.name \in Placing /\ sys \in SysType
        /\ sys.address \in Address /\ sys.size \in Address
    BY <1>1, VInvFields DEF VInv, Choosing, Placing
  <1>3. returned = "none" /\ PlacesTo(sys, Memory, seen, Request, VisibleResult)
    BY <1>1, <1>2, IdleReq DEF RInv, Outcome, StageOK
  <1>4. Memory = seen /\ GoodMask(sys.mask) /\ Chosen(sys, seen)
    BY <1>1, <1>2, <1>3 DEF PlacesTo
  <1>5. CASE Throw
    BY <1>1, <1>5, ThrowStep
  <1>6. CASE result'.status = "success" /\ Continue(t)
    <2>1. Memory' = Laid(seen, sys.address, sys.size, NewCell(sys.permissions, all, Zero))
      <3>1. all # {}
        OBVIOUS
      <3> HIDE DEF all
      <3> QED
        BY <1>1, <1>2, <1>4, <1>6, <3>1, AnonymousCells
    <2>2. /\ t.stage = "placed" /\ t.name = sys.name /\ t.pointer = sys.pointer
          /\ t.size = sys.size /\ t.mask = sys.mask /\ t.address = sys.address
          /\ t.fixed = sys.fixed /\ t.permissions = sys.permissions
      BY <1>2, SetStage DEF Stages
    <2> HIDE DEF t
    <2>3. Memory' = Installed(t, seen)
      BY <2>1, <2>2, Zenon DEF Installed, NewCell
    <2>4. Chosen(t, seen)
      BY <1>4, <2>2 DEF Chosen, Hinted, From, NoneBelow
    <2>5. PlacesTo(t, Memory', seen, Request', VisibleResult')
      BY <1>4, <2>2, <2>3, <2>4 DEF PlacesTo
    <2>6. StageOK(t, Memory', seen, Request', VisibleResult')
      BY <1>2, <2>2, <2>5, OneStage
    <2> QED
      BY <1>3, <1>6, <1>1, <2>2, <2>6, ContinueStep
  <1> HIDE DEF t
  <1> QED
    BY <1>5, <1>6, Zenon DEF install, t

\* The address is copied out, for a placement and for the reply of the reservation.
LEMMA CopyoutStepped ==
    ASSUME VInv, VInv', RInv, copyout
    PROVE  Stepped
  <1> DEFINE t == [sys EXCEPT !.stage = "copyout"]
             q == Req("write", sys.pointer, 1, {"W"}, <<sys.address>>)
  <1>1. /\ sys.stage = "placed" /\ Idle
        /\ Enter(sys, "copyout", "write", sys.pointer, 1, {"W"}, <<sys.address>>)
    BY DEF copyout, Go
  <1>2. Space /\ Space' /\ sys \in SysType /\ sys.name \in Names
    BY VInvFields DEF VInv
  <1>3. StageOK(sys, Memory, seen, Request, VisibleResult)
    BY <1>1, IdleReq DEF RInv
  <1>4. sys.name \in Placing \cup {"reserve"}
    <2>1. \A n \in Names : Away(n).stage = "none"
      BY AwayType
    <2>2. sys.name \notin {"loading", "none", "stopped"}
      BY <1>1, <1>2, <2>1 DEF VInv, Resting
    <2> QED
      BY <1>1, <1>2, <1>3, <2>2 DEF Names, Placing, StageOK, StoresTo, LinksTo
  <1>5. returned = "none"
    BY <1>4 DEF RInv, Outcome, Placing
  <1>6. /\ t.stage = "copyout" /\ t.name = sys.name /\ t.pointer = sys.pointer
        /\ t.size = sys.size /\ t.mask = sys.mask /\ t.address = sys.address
        /\ t.fixed = sys.fixed /\ t.permissions = sys.permissions /\ t.done = sys.done
    BY <1>2, SetStage DEF Stages
  <1>7. t = [sys EXCEPT !.stage = "copyout"]
    OBVIOUS
  <1> HIDE DEF t
  <1>8. ASSUME NEW r PROVE StageOK(t, Memory, seen, q, r)
    <2>1. CASE sys.name \in Placing
      <3>1. GoodMask(sys.mask) /\ Chosen(sys, seen) /\ Memory = Installed(sys, seen)
        BY <1>1, <1>3, <2>1 DEF StageOK, PlacesTo
      <3>2. Chosen(t, seen) /\ Installed(t, seen) = Installed(sys, seen)
        BY <1>6, <3>1 DEF Chosen, Hinted, From, NoneBelow, Installed
      <3>3. Writing(q, r, Memory, Installed(t, seen), t.pointer, 1, <<t.address>>)
        BY <1>6, <3>1, <3>2 DEF Writing
      <3>4. PlacesTo(t, Memory, seen, q, r)
        BY <1>6, <3>1, <3>2, <3>3 DEF PlacesTo
      <3> QED
        BY <1>6, <2>1, <3>4, OneStage
    <2>2. CASE sys.name = "reserve"
      <3>1. /\ sys.address % PageSize = 0 /\ sys.size % PageSize = 0
            /\ Grants(seen, sys.pointer, {"W"})
            /\ sys.done = 1 <=> Room(seen, Between(sys.address, sys.size))
            /\ Memory = Reserving(sys, seen)
        BY <1>1, <1>3, <2>2 DEF StageOK, ReservesTo
      <3>2. Reserving(t, seen) = Reserving(sys, seen)
        BY <1>6 DEF Reserving
      <3>3. Writing(q, r, Memory, Reserving(t, seen), t.pointer, 1, <<t.address>>)
        BY <1>6, <3>1, <3>2 DEF Writing
      <3>4. ReservesTo(t, Memory, seen, q, r)
        BY <1>6, <3>1, <3>2, <3>3 DEF ReservesTo
      <3> QED
        BY <1>6, <2>2, <3>4, OneStage
    <2> QED
      BY <1>4, <2>1, <2>2
  <1>9. t.name \notin {"loading", "none", "stopped"}
    BY <1>4, <1>6 DEF Placing
  <1> QED
    BY <1>1, <1>2, <1>5, <1>7, <1>8, <1>9, EnterStep

\* An access that was answered while nothing is asked.
LEMMA WrittenIdle ==
    ASSUME Idle, NEW before, NEW pointer \in Address, NEW v,
           Writing(Request, VisibleResult, Memory, before, pointer, 1, <<v>>)
    PROVE  /\ Succeeded => /\ Memory = Payload(before, pointer, 1, <<v>>)
                           /\ Grants(before, pointer, {"W"})
           /\ ~Succeeded => Memory = before /\ ~Grants(before, pointer, {"W"})
  <1>1. Request = NoReq /\ VisibleResult = result
    BY IdleReq
  <1>2. Request # Req("write", pointer, 1, {"W"}, <<v>>)
    BY <1>1 DEF NoReq, Req, Flat!NoRequest
  <1>3. Between(pointer, 1) = {pointer} /\ pointer + 1 <= Limit + 1
    BY OneCellRange, GeometryAssumption DEF Address
  <1> QED
    BY <1>1, <1>2, <1>3 DEF Writing, Succeeded

\* The cells of a range that was laid out.
LEMMA LaidCells ==
    ASSUME NEW f, NEW address, NEW size, NEW cell, NEW g, g = Laid(f, address, size, cell)
    PROVE  /\ g = [a \in Address |-> g[a]]
           /\ \A a \in Between(address, size) : g[a] = cell /\ a \in Address
           /\ \A a \in Address : a \notin Between(address, size) => g[a] = f[a]
  BY DEF Laid, Between

\* Traps 10 and 15 end: the pages are where they should be and the pointer tells where.
LEMMA PlacedStepped ==
    ASSUME VInv, VInv', RInv, placed
    PROVE  Stepped
  <1> DEFINE B == Between(sys.address, sys.size)
             cell == NewCell(sys.permissions, {"R", "W", "X"}, Zero)
             laid == Laid(seen, sys.address, sys.size, cell)
  <1>1. sys.name \in {"allocate", "map"} /\ sys.stage = "copyout" /\ Idle
    BY DEF placed
  <1>2. /\ Space /\ Space' /\ sys.name \in Placing /\ sys.name \notin {"mmap", "loading", "stopped"}
        /\ sys.address \in Address /\ sys.size \in Nat \ {0} /\ sys.pointer \in Address
        /\ sys.address + sys.size <= Limit /\ sys.fixed \in BOOLEAN
    BY <1>1, VInvFields, GeometryAssumption, SMTT(60) DEF VInv, Placing, Asking, Address
  <1>3. PlacesTo(sys, Memory, seen, Request, VisibleResult)
    BY <1>1, <1>2, IdleReq DEF RInv, StageOK
  <1>4. /\ Chosen(sys, seen)
        /\ Writing(Request, VisibleResult, Memory, Installed(sys, seen), sys.pointer, 1,
                   <<sys.address>>)
    BY <1>1, <1>2, <1>3 DEF PlacesTo
  <1>5. Installed(sys, seen) = laid
    BY Zenon DEF Installed, NewCell
  <1>6. cell.mapped
    BY NewCellMapped
  <1> HIDE DEF cell
  <1>7. /\ laid = [a \in Address |-> laid[a]]
        /\ \A a \in B : laid[a] = cell /\ a \in Address
        /\ \A a \in Address : a \notin B => laid[a] = seen[a]
    BY LaidCells
  <1> HIDE DEF laid
  <1>8. /\ Grants(seen, sys.pointer, {"R"}) /\ Room(seen, B)
        /\ sys.fixed => sys.address = seen[sys.pointer].value - (seen[sys.pointer].value % PageSize)
        /\ ~sys.fixed => /\ Fit(seen, sys.address, From(sys, seen), sys.size, sys.mask)
                         /\ NoneBelow(sys, seen, sys.address)
    BY <1>2, <1>4 DEF Chosen, Hinted
  <1>9. sys.pointer \notin B /\ laid[sys.pointer] = seen[sys.pointer]
    BY <1>2, <1>7, <1>8 DEF Grants, Room
  <1>10. IsCell(laid[sys.pointer]) /\ laid[sys.pointer].mapped
    BY <1>2, <1>8, <1>9 DEF Grants, RInv, WellFormed, Nowhere
  <1>11. Vm!Running
    BY <1>2 DEF RInv, Outcome, Vm!Running
  <1>12. Vm!Allows(sys.pointer, {"R"})
         /\ (Vm!Allows(sys.pointer, {"W"}) <=> Grants(seen, sys.pointer, {"W"}))
    BY <1>8 DEF Vm!Allows, Grants
  <1>13. ASSUME Vm!New = B, Vm!New # {}, Vm!Base = sys.address, Vm!New = Vm!Extent(Vm!Base, sys.size),
                \/ returned' = "success" /\ seen' = Vm!Stored(laid, sys.pointer, sys.address)
                \/ /\ sys.name = "map" /\ returned' = "invalidAddress"
                   /\ ~Grants(seen, sys.pointer, {"W"}) /\ seen' = laid
         PROVE  Vm!Place
    <2>1. Vm!Mapped(seen, Vm!Fresh(Placement.permissions, {"R", "W", "X"}, Zero, TRUE)) = laid
      <3>1. Vm!Fresh(Placement.permissions, {"R", "W", "X"}, Zero, TRUE) = cell
        BY FreshIs, PlacementFields DEF cell
      <3> QED
        BY <1>13, <3>1, MappedIs DEF laid
    <2>2. IF Placement.fixed
          THEN Vm!Base = seen[sys.pointer].value - (seen[sys.pointer].value % PageSize)
          ELSE Vm!IsLowestFit(Vm!Base, Vm!Start, Placement.size, Placement.mask)
      BY <1>2, <1>8, <1>13, LowestIs, PlacementFields
    <2> QED
      BY <1>1, <1>11, <1>12, <1>13, <2>1, <2>2, PlacementFields DEF Vm!Place
  <1>14. CASE Succeeded /\ Quit("success")
    <2>1. RInv' /\ seen' = Memory /\ returned' = "success"
      BY <1>1, <1>2, <1>14, QuitStep
    <2>2. seen' = Payload(laid, sys.pointer, 1, <<sys.address>>)
      BY <1>1, <1>2, <1>4, <1>5, <1>14, <2>1, WrittenIdle
    <2>3. seen' = Vm!Stored(laid, sys.pointer, sys.address)
      BY <1>2, <1>7, <2>2, StoredIs
    <2>4. \A a \in Address : seen'[a].mapped <=> laid[a].mapped
      BY <1>2, <1>10, <2>2, StoreMaps
    <2>5. /\ \A a \in B : seen'[a].mapped
          /\ \A a \in Address : a \notin B /\ seen'[a].mapped => seen[a].mapped
      BY <1>6, <1>7, <2>4
    <2>6. /\ Vm!New = B /\ Vm!New # {} /\ Vm!Base = sys.address
          /\ Vm!New = Vm!Extent(Vm!Base, sys.size)
      BY <1>2, <1>8, <2>5, NewIs
    <2> QED
      BY <1>13, <2>1, <2>3, <2>6 DEF Stepped, Vm!ANext
  <1>15. CASE ~Succeeded /\ sys.name = "map" /\ Quit("invalidAddress")
    <2>1. RInv' /\ seen' = Memory /\ returned' = "invalidAddress"
      BY <1>1, <1>2, <1>15, QuitStep
    <2>2. seen' = laid /\ ~Grants(laid, sys.pointer, {"W"})
      BY <1>1, <1>2, <1>4, <1>5, <1>15, <2>1, WrittenIdle
    <2>3. ~Grants(seen, sys.pointer, {"W"})
      BY <1>9, <2>2 DEF Grants
    <2>4. /\ \A a \in B : seen'[a].mapped
          /\ \A a \in Address : a \notin B /\ seen'[a].mapped => seen[a].mapped
      BY <1>6, <1>7, <2>2
    <2>5. /\ Vm!New = B /\ Vm!New # {} /\ Vm!Base = sys.address
          /\ Vm!New = Vm!Extent(Vm!Base, sys.size)
      BY <1>2, <1>8, <2>4, NewIs
    <2> QED
      BY <1>13, <1>15, <2>1, <2>2, <2>3, <2>5 DEF Stepped, Vm!ANext
  <1>16. CASE Unsupported
    BY <1>2, <1>16, UnsupportedStep
  <1> QED
    BY <1>14, <1>15, <1>16, Zenon DEF placed

\* mmap ends.
LEMMA MmapFileStepped ==
    ASSUME VInv, VInv', RInv, mmapFile
    PROVE  Stepped
  <1> DEFINE B == Between(sys.address, sys.size)
             rw == {"R", "W"}
             cell == NewCell(sys.permissions, rw, FileByte)
             laid == Laid(seen, sys.address, sys.size, cell)
  <1>1. /\ sys.name = "mmap" /\ sys.stage = "place" /\ Idle
        /\ mapFileSegment(sys.address, sys.size, sys.permissions, rw, 0, 0)
    BY DEF mmapFile, At
  <1>2. /\ Space /\ Space' /\ sys.name \in Placing /\ sys.fixed \in BOOLEAN
        /\ sys.address \in Address /\ sys.size \in Nat \ {0} /\ sys.size \in Address
        /\ sys.address + sys.size <= Limit
    BY <1>1, VInvFields, GeometryAssumption DEF VInv, Placing, Asking, Address
  <1>3. PlacesTo(sys, Memory, seen, Request, VisibleResult)
    BY <1>1, <1>2, IdleReq DEF RInv, StageOK
  <1>4. Memory = seen /\ Chosen(sys, seen)
    BY <1>1, <1>2, <1>3 DEF PlacesTo
  <1>5. /\ Room(seen, B) /\ Fit(seen, sys.address, From(sys, seen), sys.size, sys.mask)
        /\ NoneBelow(sys, seen, sys.address)
    BY <1>1, <1>2, <1>4 DEF Chosen
  <1>6. Idle' /\ \/ result'.status = "rejected" /\ Memory' = Memory
                 \/ result'.status = "success" /\ Memory' = laid
    <2> HIDE DEF rw
    <2> QED
      BY <1>1, <1>2, <1>4, FileSegmentCells
  <1>7. cell.mapped
    BY NewCellMapped
  <1>8. cell = Vm!Fresh(Placement.permissions, rw, FileByte, TRUE)
    BY FreshIs, PlacementFields
  <1> HIDE DEF cell
  <1>9. CASE result'.status = "success" /\ Return("success")
    <2>1. RInv' /\ seen' = laid /\ returned' = "success"
      BY <1>2, <1>6, <1>9, ReturnKeeps
    <2>2. /\ \A a \in B : laid[a] = cell /\ a \in Address
          /\ \A a \in Address : a \notin B => laid[a] = seen[a]
      BY LaidCells
    <2> HIDE DEF laid
    <2>3. /\ \A a \in B : seen'[a].mapped
          /\ \A a \in Address : a \notin B /\ seen'[a].mapped => seen[a].mapped
      BY <1>7, <2>1, <2>2
    <2>4. /\ Vm!New = B /\ Vm!New # {} /\ Vm!Base = sys.address
          /\ Vm!New = Vm!Extent(Vm!Base, sys.size)
      BY <1>2, <1>5, <2>3, NewIs
    <2>5. Vm!Mapped(seen, cell) = laid
      BY <2>4, MappedIs DEF laid
    <2>6. Vm!IsLowestFit(Vm!Base, Vm!Start, Placement.size, Placement.mask)
      BY <1>5, <2>4, LowestIs
    <2>7. Vm!Running
      BY <1>1 DEF RInv, Outcome, Vm!Running
    <2>8. Vm!PlaceFile
      BY <1>1, <1>8, <2>1, <2>4, <2>5, <2>6, <2>7, PlacementFields DEF Vm!PlaceFile
    <2> QED
      BY <2>1, <2>8 DEF Stepped, Vm!ANext
  <1>10. CASE result'.status = "rejected" /\ Return("EINVAL")
    <2>1. RInv' /\ seen' = seen /\ returned' = "EINVAL"
      BY <1>2, <1>4, <1>6, <1>10, ReturnKeeps
    <2>2. Vm!Answer
      BY <1>1, <2>1, AnswerStep
    <2> QED
      BY <2>1, <2>2 DEF Stepped, Vm!ANext
  <1>11. CASE Throw
    BY <1>1, <1>11, ThrowStep
  <1> QED
    BY <1>9, <1>10, <1>11, Zenon DEF mmapFile

-----------------------------------------------------------------------------
(* The mach_vm_map message.                                                *)

LEMMA MessageStepped ==
    ASSUME VInv, VInv', RInv, NEW pointer \in Pointers, NEW base \in FixedBases,
           NEW size \in CallSizes, machVmMapMessage(pointer, base, size)
    PROVE  Stepped
  <1>0. Space /\ Space' /\ Ready /\ returned = "none" /\ seen = Memory /\ sys.name = "none"
    BY ReadyFacts DEF VInv, RInv, machVmMapMessage
  <1> DEFINE s == [Away("reserve") EXCEPT !.pointer = pointer, !.size = size, !.address = base]
             t == [s EXCEPT !.stage = "validate"]
             q == Req("validate", pointer, 1, {"W"}, << >>)
  <1>1. CASE Unsupported
    BY <1>0, <1>1, UnsupportedStep
  <1>2. ASSUME base % PageSize = 0, size % PageSize = 0,
               Enter(s, "validate", "validate", pointer, 1, {"W"}, << >>)
        PROVE  Stepped
    <2>1. /\ t.name = "reserve" /\ t.pointer = pointer /\ t.stage = "validate"
          /\ t.size = size /\ t.address = base
      BY DEF Away
    <2>2. \A r : Checking(q, r, Memory, t.pointer, 1, {"W"})
      BY <2>1 DEF Checking
    <2>3. \A r : StageOK(t, Memory, seen, q, r)
      <3> HIDE DEF t, q
      <3>1. \A r : ReservesTo(t, Memory, seen, q, r)
        BY <1>0, <1>2, <2>1, <2>2 DEF ReservesTo
      <3> QED
        BY <2>1, <3>1, OneStage
    <2>4. t.name \notin {"loading", "none", "stopped"}
      BY <2>1
    <2> QED
      BY <1>0, <1>2, <2>3, <2>4, EnterStep
  <1> HIDE DEF s
  <1>3. \/ Unsupported
        \/ /\ base % PageSize = 0 /\ size % PageSize = 0
           /\ Enter(s, "validate", "validate", pointer, 1, {"W"}, << >>)
    BY Zenon DEF machVmMapMessage, s
  <1> QED
    BY <1>1, <1>2, <1>3

LEMMA CheckedIdle ==
    ASSUME Idle, NEW address, NEW size, NEW required,
           Checking(Request, VisibleResult, Memory, address, size, required), Succeeded
    PROVE  /\ address + size <= Limit + 1
           /\ \A a \in Between(address, size) : Grants(Memory, a, required)
  <1>1. Request = NoReq /\ VisibleResult = result
    BY IdleReq
  <1>2. Request # Req("validate", address, size, required, << >>)
    BY <1>1 DEF NoReq, Req, Flat!NoRequest
  <1> QED
    BY <1>1, <1>2 DEF Checking, Succeeded

LEMMA ReserveStepped ==
    ASSUME VInv, VInv', RInv, reserve
    PROVE  Stepped
  <1> DEFINE d == IF result'.status = "success" THEN 1 ELSE 0
             t == [sys EXCEPT !.stage = "placed", !.done = d]
  <1>1. sys.name = "reserve" /\ sys.stage = "validate" /\ Idle
    BY DEF reserve, At
  <1>2. /\ Space /\ Space' /\ sys \in SysType /\ sys.address \in Address /\ sys.size \in Address
        /\ sys.pointer \in Address /\ sys.size # 0 /\ sys.address + sys.size <= Limit
    BY <1>1, VInvFields DEF VInv, Asking, Validating
  <1>3. returned = "none" /\ ReservesTo(sys, Memory, seen, Request, VisibleResult)
    BY <1>1, <1>2, IdleReq DEF RInv, Outcome, StageOK
  <1>4. /\ sys.address % PageSize = 0 /\ sys.size % PageSize = 0
        /\ Memory = seen /\ Checking(Request, VisibleResult, Memory, sys.pointer, 1, {"W"})
    BY <1>1, <1>3 DEF ReservesTo
  <1>5. CASE Unsupported
    BY <1>1, <1>5, UnsupportedStep
  <1>6. CASE Succeeded /\ mapAnonymous(sys.address, sys.size, {}, {}) /\ Continue(t)
    <2>1. Grants(seen, sys.pointer, {"W"})
      <3>1. \A a \in Between(sys.pointer, 1) : Grants(Memory, a, {"W"})
        BY <1>1, <1>4, <1>6, CheckedIdle
      <3> QED
        BY <1>2, <1>4, <3>1, OneCellRange
    <2>2. /\ t.name = "reserve" /\ t.stage = "placed" /\ t.pointer = sys.pointer
          /\ t.size = sys.size /\ t.address = sys.address /\ t.done = d
      BY <1>1, <1>2 DEF SysType
    <2>3. \/ /\ d = 0 /\ Memory' = Memory /\ ~Room(Memory, Between(sys.address, sys.size))
          \/ /\ d = 1 /\ Room(Memory, Between(sys.address, sys.size))
             /\ Memory' = Laid(Memory, sys.address, sys.size, MappedCell({}, {}, FALSE, Zero, TRUE))
      BY <1>2, <1>4, <1>6, ReservationCells
    <2> DEFINE laid == Laid(seen, sys.address, sys.size, MappedCell({}, {}, FALSE, Zero, TRUE))
    <2>a. Reserving(t, seen) = IF t.done = 1 THEN laid ELSE seen
      <3> HIDE DEF t, d
      <3> QED
        BY <2>2, Zenon DEF Reserving
    <2>b. \/ d = 0 /\ Memory' = seen /\ ~Room(seen, Between(sys.address, sys.size))
          \/ d = 1 /\ Room(seen, Between(sys.address, sys.size)) /\ Memory' = laid
      <3> HIDE DEF d
      <3> QED
        BY <1>4, <2>3, Zenon
    <2> HIDE DEF t, d, laid
    <2>4. Memory' = Reserving(t, seen)
      BY <2>2, <2>a, <2>b
    <2>5. t.done = 1 <=> Room(seen, Between(t.address, t.size))
      BY <2>2, <2>b
    <2>6. ReservesTo(t, Memory', seen, Request', VisibleResult')
      BY <1>4, <2>1, <2>2, <2>4, <2>5 DEF ReservesTo
    <2>7. StageOK(t, Memory', seen, Request', VisibleResult')
      BY <2>2, <2>6, OneStage
    <2> QED
      BY <1>3, <1>6, <2>2, <2>7, ContinueStep
  <1> HIDE DEF t
  <1> QED
    BY <1>5, <1>6, Zenon DEF reserve, t

LEMMA ReservedStepped ==
    ASSUME VInv, VInv', RInv, reserved
    PROVE  Stepped
  <1> DEFINE B == Between(sys.address, sys.size)
             no == FALSE
             yes == TRUE
             cell == MappedCell({}, {}, no, Zero, yes)
             before == Reserving(sys, seen)
  <1>1. sys.name = "reserve" /\ sys.stage = "copyout" /\ Idle
    BY DEF reserved, At
  <1>2. /\ Space /\ Space' /\ sys.address \in Address /\ sys.size \in Nat \ {0}
        /\ sys.pointer \in Address /\ sys.address + sys.size <= Limit
    BY <1>1, VInvFields, GeometryAssumption DEF VInv, Asking, Validating, Address
  <1>3. ReservesTo(sys, Memory, seen, Request, VisibleResult)
    BY <1>1, <1>2, IdleReq DEF RInv, StageOK
  <1>4. /\ Grants(seen, sys.pointer, {"W"}) /\ (sys.done = 1 <=> Room(seen, B))
        /\ Writing(Request, VisibleResult, Memory, before, sys.pointer, 1, <<sys.address>>)
    BY <1>1, <1>3 DEF ReservesTo
  <1>5. CASE Throw
    BY <1>1, <1>5, ThrowStep
  <1>6. CASE Succeeded /\ Quit(IF sys.done = 1 THEN "success" ELSE "noSpace")
    <2> DEFINE code == IF Room(seen, B) THEN "success" ELSE "noSpace"
    <2>1. Quit(code) /\ code \notin {"loading", "stopped"}
      BY <1>4, <1>6
    <2> HIDE DEF code
    <2>2. RInv' /\ seen' = Memory /\ returned' = code
      BY <1>1, <1>2, <2>1, QuitStep
    <2>3. seen' = Payload(before, sys.pointer, 1, <<sys.address>>)
      BY <1>1, <1>2, <1>4, <1>6, <2>2, WrittenIdle
    <2>4. before = IF Room(seen, B) THEN Laid(seen, sys.address, sys.size, cell) ELSE seen
      BY <1>4, Zenon DEF Reserving
    <2>5. cell.mapped /\ cell = Vm!Fresh({}, {}, Zero, FALSE)
      <3>1. cell = Vm!Fresh({}, {}, Zero, FALSE)
        BY Zenon DEF Vm!Fresh, MappedCell
      <3>2. cell = MappedCell({}, {}, no, Zero, yes)
        OBVIOUS
      <3> HIDE DEF cell, no, yes
      <3>3. cell.mapped
        BY <3>2, CellFields
      <3> QED
        BY <3>1, <3>3
    <2> HIDE DEF cell, before
    <2>6. /\ seen = [a \in Address |-> seen[a]]
          /\ IsCell(seen[sys.pointer]) /\ seen[sys.pointer].mapped
      BY <1>2, <1>4 DEF Grants, RInv, WellFormed, Nowhere
    <2>7. /\ Vm!New = IF Room(seen, B) THEN B ELSE {}
          /\ before = Vm!Mapped(seen, cell)
          /\ before = [a \in Address |-> before[a]]
      <3>1. CASE Room(seen, B)
        <4>1. before = Laid(seen, sys.address, sys.size, cell)
          BY <2>4, <3>1
        <4>2. /\ before = [a \in Address |-> before[a]]
              /\ \A a \in B : before[a] = cell /\ a \in Address
              /\ \A a \in Address : a \notin B => before[a] = seen[a]
          BY <4>1, LaidCells
        <4>3. sys.pointer \notin B /\ before[sys.pointer] = seen[sys.pointer]
          BY <1>2, <2>6, <3>1, <4>2 DEF Room
        <4>4. \A a \in Address : seen'[a].mapped <=> before[a].mapped
          BY <1>2, <2>3, <2>6, <4>3, StoreMaps
        <4>5. /\ \A a \in B : seen'[a].mapped
              /\ \A a \in Address : a \notin B /\ seen'[a].mapped => seen[a].mapped
          BY <2>5, <4>2, <4>4
        <4>6. Vm!New = B
          BY <1>2, <3>1, <4>5, NewIs
        <4>7. before = Vm!Mapped(seen, cell)
          BY <4>1, <4>6, MappedIs
        <4> QED
          BY <3>1, <4>2, <4>6, <4>7
      <3>2. CASE ~Room(seen, B)
        <4>1. before = seen
          BY <2>4, <3>2
        <4>2. \A a \in Address : seen'[a].mapped <=> seen[a].mapped
          BY <1>2, <2>3, <2>6, <4>1, StoreMaps
        <4>3. Vm!New = {}
          BY <4>2 DEF Vm!New, Vm!Addresses, Address
        <4>4. Vm!Mapped(seen, cell) = [a \in Address |-> seen[a]]
          BY <4>3 DEF Vm!Mapped, Vm!Addresses, Address
        <4> QED
          BY <2>6, <3>2, <4>1, <4>3, <4>4
      <3> QED
        BY <3>1, <3>2
    <2>8. seen' = Vm!Stored(before, sys.pointer, sys.address)
      BY <1>2, <2>3, <2>7, StoredIs
    <2>9. Vm!Extent(sys.address, sys.size) = B /\ (Vm!IsFree(B) <=> Room(seen, B))
      BY ExtentIs DEF Vm!IsFree, Room
    <2>10. Vm!Running /\ Vm!Allows(sys.pointer, {"W"})
      BY <1>1, <1>4 DEF RInv, Outcome, Vm!Running, Vm!Allows, Grants
    <2>11. seen' = Vm!Stored(Vm!Mapped(seen, Vm!Fresh({}, {}, Zero, FALSE)), sys.pointer, sys.address)
      BY <2>5, <2>7, <2>8
    <2> HIDE DEF B
    <2>12. /\ returned' = IF Vm!IsFree(B) THEN "success" ELSE "noSpace"
           /\ Vm!New = IF Vm!IsFree(B) THEN B ELSE {}
      BY <2>2, <2>7, <2>9 DEF code
    <2>13. Vm!Reserve
      BY <1>1, <2>9, <2>10, <2>11, <2>12, PlacementFields DEF Vm!Reserve
    <2> QED
      BY <2>2, <2>13 DEF Stepped, Vm!ANext
  <1> QED
    BY <1>5, <1>6, Zenon DEF reserved

-----------------------------------------------------------------------------
(* The calls that are one call on the address space.                       *)

Statuses == {"success", "invalidArgument", "invalidAddress", "protectionFailure"}

LEMMA Codes ==
    ASSUME NEW status \in Statuses
    PROVE  /\ KernOf(status) \notin {"loading", "stopped"} /\ ErrnoOf(status) \notin {"loading", "stopped"}
           /\ status = "success" => KernOf(status) = "success" /\ ErrnoOf(status) = "success"
  BY DEF Statuses, KernOf, ErrnoOf

LEMMA UnchangedStep ==
    ASSUME Space, Space', RInv, Ready, NEW code, code \notin {"loading", "stopped"}, Return(code),
           NEW status \in Statuses, Unchanged(status)
    PROVE  Stepped
  <1>1. sys.name = "none" /\ Idle /\ seen = Memory
    BY ReadyFacts DEF RInv
  <1>2. Memory' = Memory
    BY <1>1, RefuseFlat DEF Space, Statuses
  <1>3. Idle'
    BY DEF Unchanged, Finish, Idle
  <1>4. RInv' /\ seen' = seen /\ returned' = code
    BY <1>1, <1>2, <1>3, ReturnKeeps
  <1>5. Vm!Answer
    BY <1>1, <1>4, AnswerStep DEF Placing
  <1> QED
    BY <1>4, <1>5 DEF Stepped, Vm!ANext

\* The pages of the flat memory are the pages the calls speak of.
LEMMA PagesAre ==
    /\ Vm!Pages = Flat!Pages
    /\ \A first, last : Vm!PagesFrom(first, last) = Flat!PagesOf(first, last)
    /\ Vm!Addresses = Address /\ Flat!Addresses = Address
  BY DEF Vm!Pages, Vm!Page, Vm!Addresses, Vm!PagesFrom, Flat!Pages, Flat!Page, Flat!Addresses,
         Flat!PagesOf, Address

LEMMA ProtectVm ==
    ASSUME Flat!Protect, seen = Memory, seen' = Memory', returned' = "success", Vm!Running
    PROVE  Vm!Protect
  <1>1. PICK first, last \in Flat!Pages :
        LET range == Flat!PagesOf(first, last)
            permissions == Memory'[first * PageSize].permissions
        IN  /\ range # {}
            /\ \A a \in range : Flat!IsMapped(a) /\ Memory'[a].mapped
            /\ \E copy \in BOOLEAN :
                /\ \A a \in range : copy \/ permissions \subseteq Memory[a].maximum
                /\ Flat!ChangeCells(range, [a \in range |->
                     [Memory[a] EXCEPT !.permissions = permissions,
                                       !.maximum = IF copy THEN permissions ELSE @]])
    BY DEF Flat!Protect
  <1> DEFINE range == Flat!PagesOf(first, last)
             p == seen'[first * PageSize].permissions
  <1>2. PICK copy \in BOOLEAN :
                /\ \A a \in range : copy \/ p \subseteq seen[a].maximum
                /\ Flat!ChangeCells(range, [a \in range |->
                     [seen[a] EXCEPT !.permissions = p, !.maximum = IF copy THEN p ELSE @]])
    BY <1>1
  <1>3. range # {} /\ \A a \in range : seen[a].mapped /\ seen'[a].mapped
    BY <1>1 DEF Flat!IsMapped
  <1>4. range = Vm!PagesFrom(first, last) /\ first \in Vm!Pages /\ last \in Vm!Pages
    BY PagesAre
  <1> DEFINE g(a) == [seen[a] EXCEPT !.permissions = p, !.maximum = IF copy THEN p ELSE @]
  <1>5. seen' = [a \in Vm!Addresses |-> IF a \in range THEN [b \in range |-> g(b)][a] ELSE seen[a]]
    BY <1>2, PagesAre DEF Flat!ChangeCells
  <1> HIDE DEF range, p
  <1>6. seen' = [a \in Vm!Addresses |-> IF a \in range THEN g(a) ELSE seen[a]]
    <2> HIDE DEF g
    <2> QED
      BY <1>5
  <1>7. \A a \in range : seen[a].mapped /\ seen'[a].mapped /\ (copy \/ p \subseteq seen[a].maximum)
    BY <1>2, <1>3
  <1> QED
    <2>1. \E copy1 \in BOOLEAN :
            /\ \A a \in range :
                  seen[a].mapped /\ seen'[a].mapped /\ (copy1 \/ p \subseteq seen[a].maximum)
            /\ seen' = [a \in Vm!Addresses |-> IF a \in range
                          THEN [seen[a] EXCEPT !.permissions = p,
                                               !.maximum = IF copy1 THEN p ELSE @]
                          ELSE seen[a]]
      BY <1>6, <1>7, Zenon
    <2>2. /\ Vm!PagesFrom(first, last) # {}
          /\ \E copy1 \in BOOLEAN :
               /\ \A a \in Vm!PagesFrom(first, last) :
                     /\ seen[a].mapped /\ seen'[a].mapped
                     /\ copy1 \/ seen'[first * PageSize].permissions \subseteq seen[a].maximum
               /\ seen' = [a \in Vm!Addresses |-> IF a \in Vm!PagesFrom(first, last)
                             THEN [seen[a] EXCEPT
                                     !.permissions = seen'[first * PageSize].permissions,
                                     !.maximum = IF copy1 THEN seen'[first * PageSize].permissions
                                                          ELSE @]
                             ELSE seen[a]]
      BY <1>3, <1>4, <2>1, Zenon DEF p
    <2>3. returned' = "success" /\ Vm!Running
      OBVIOUS
    <2> QED
      BY ONLY <1>4, <2>2, <2>3, ZenonT(60) DEF Vm!Protect

LEMMA DeallocateVm ==
    ASSUME Flat!Deallocate, seen = Memory, seen' = Memory', returned' = "success", Vm!Running
    PROVE  Vm!Deallocate
  <1>1. PICK first, last \in Flat!Pages :
          Flat!ChangeCells(Flat!PagesOf(first, last), [a \in Flat!Addresses |-> Flat!Unmapped])
    BY DEF Flat!Deallocate
  <1> DEFINE range == Flat!PagesOf(first, last)
  <1>2. seen' = [a \in Address |-> IF a \in range THEN [b \in Address |-> Flat!Unmapped][a]
                                                   ELSE seen[a]]
    BY <1>1, PagesAre DEF Flat!ChangeCells
  <1>3. range = Vm!PagesFrom(first, last) /\ first \in Vm!Pages /\ last \in Vm!Pages
    BY PagesAre
  <1> HIDE DEF range
  <1>4. seen' = [a \in Vm!Addresses |-> IF a \in range THEN [mapped |-> FALSE] ELSE seen[a]]
    BY <1>2, PagesAre DEF Flat!Unmapped
  <1> QED
    BY <1>3, <1>4 DEF Vm!Deallocate

LEMMA ProtectReturned ==
    ASSUME Space, Space', RInv, Ready, NEW address \in Address, NEW size \in Address,
           NEW p \in Permission, NEW copy \in BOOLEAN, protect(address, size, p, copy), NEW code,
           code = KernOf(result'.status) \/ code = ErrnoOf(result'.status), Return(code)
    PROVE  Stepped
  <1>1. CASE \E status \in Statuses : Unchanged(status)
    <2>1. PICK status \in Statuses : Unchanged(status)
      BY <1>1
    <2>2. result'.status = status
      BY <2>1 DEF Unchanged, Finish, Returned
    <2>3. code \notin {"loading", "stopped"}
      BY <2>2, Codes
    <2> QED
      BY <2>1, <2>3, UnchangedStep
  <1>2. ASSUME NEW from, NEW to, Protects(from, to, p, copy) PROVE Stepped
    <2>1. Flat!Protect
      BY <1>2, ProtectFlat DEF Space
    <2>2. Idle' /\ result'.status = "success"
      BY <1>2 DEF Protects, Finish, Idle, Returned
    <2>3. code = "success"
      BY <2>2, Codes DEF Statuses
    <2>4. RInv' /\ seen' = Memory' /\ returned' = "success"
      BY <2>2, <2>3, ReturnKeeps
    <2>5. seen = Memory /\ Vm!Running
      BY ReadyFacts DEF RInv, Vm!Running
    <2>6. Vm!Protect
      BY <2>1, <2>4, <2>5, ProtectVm
    <2> QED
      BY <2>4, <2>6 DEF Stepped, Vm!ANext
  <1>3. \/ \E status \in Statuses : Unchanged(status)
        \/ \E from, to : Protects(from, to, p, copy)
    BY ProtectEffect DEF Space, Statuses
  <1> QED
    BY <1>1, <1>2, <1>3

LEMMA DeallocateReturned ==
    ASSUME Space, Space', RInv, Ready, NEW address \in Address, NEW size \in Address,
           deallocate(address, size), NEW code,
           code = KernOf(result'.status) \/ code = ErrnoOf(result'.status), Return(code)
    PROVE  Stepped
  <1>1. CASE \E status \in Statuses : Unchanged(status)
    <2>1. PICK status \in Statuses : Unchanged(status)
      BY <1>1
    <2>2. result'.status = status
      BY <2>1 DEF Unchanged, Finish, Returned
    <2>3. code \notin {"loading", "stopped"}
      BY <2>2, Codes
    <2> QED
      BY <2>1, <2>3, UnchangedStep
  <1>2. ASSUME NEW from, NEW to, Deallocates(from, to) PROVE Stepped
    <2>1. Flat!Deallocate
      BY <1>2, DeallocateFlat DEF Space
    <2>2. Idle' /\ result'.status = "success"
      BY <1>2 DEF Deallocates, Finish, Idle, Returned
    <2>3. code = "success"
      BY <2>2, Codes DEF Statuses
    <2>4. RInv' /\ seen' = Memory' /\ returned' = "success"
      BY <2>2, <2>3, ReturnKeeps
    <2>5. seen = Memory /\ Vm!Running
      BY ReadyFacts DEF RInv, Vm!Running
    <2>6. Vm!Deallocate
      BY <2>1, <2>4, <2>5, DeallocateVm
    <2> QED
      BY <2>4, <2>6 DEF Stepped, Vm!ANext
  <1>3. \/ \E status \in Statuses : Unchanged(status)
        \/ \E from, to : Deallocates(from, to)
    BY DeallocateEffect DEF Space, Statuses
  <1> QED
    BY <1>1, <1>2, <1>3

\* A store of the guest, or of the region's address, ends.
LEMMA StoredVm ==
    ASSUME VInv, RInv, Idle, sys.name \in {"check", "store"}, Succeeded, NEW v \in Address,
           Writing(Request, VisibleResult, Memory, seen, sys.pointer, 1, <<v>>), seen' = Memory,
           returned' = "stored" \/ (returned' = "success" /\ v = SharedRegion)
    PROVE  Vm!Store
  <1>1. sys.pointer \in Address
    BY VInvFields
  <1>2. Memory = Payload(seen, sys.pointer, 1, <<v>>) /\ Grants(seen, sys.pointer, {"W"})
    BY <1>1, WrittenIdle
  <1>3. seen = [a \in Address |-> seen[a]]
    BY DEF RInv, WellFormed
  <1>4. seen' = Vm!Stored(seen, sys.pointer, v)
    BY <1>1, <1>2, <1>3, StoredIs
  <1>5. Vm!Running /\ Vm!Allows(sys.pointer, {"W"})
    BY <1>2 DEF RInv, Outcome, Vm!Running, Vm!Allows, Grants
  <1> QED
    BY <1>1, <1>4, <1>5, PagesAre DEF Vm!Store

LEMMA CheckedStepped ==
    ASSUME VInv, VInv', RInv, sharedRegionChecked
    PROVE  Stepped
  <1>1. /\ sys.name = "check" /\ sys.stage = "copyout" /\ Idle /\ Space /\ Space'
        /\ sys.pointer \in Address
    BY VInvFields DEF sharedRegionChecked, At, VInv
  <1>2. Writing(Request, VisibleResult, Memory, seen, sys.pointer, 1, <<SharedRegion>>)
    BY <1>1, IdleReq DEF RInv, StageOK, StoresTo
  <1>3. CASE Succeeded /\ Quit("success")
    <2>1. RInv' /\ seen' = Memory /\ returned' = "success"
      BY <1>1, <1>3, QuitStep
    <2>2. SharedRegion \in Address
      BY VmAssumption
    <2>3. Vm!Store
      BY <1>1, <1>2, <1>3, <2>1, <2>2, StoredVm
    <2> QED
      BY <2>1, <2>3 DEF Stepped, Vm!ANext
  <1>4. CASE ~Succeeded /\ Quit("EFAULT")
    <2>1. Memory = seen
      BY <1>1, <1>2, <1>4, WrittenIdle
    <2> QED
      BY <1>1, <1>4, <2>1, QuitAnswers
  <1> QED
    BY <1>3, <1>4 DEF sharedRegionChecked

LEMMA GuestStoredStepped ==
    ASSUME VInv, VInv', RInv, guestStored
    PROVE  Stepped
  <1>1. sys.name = "store" /\ sys.stage = "store" /\ Idle /\ Space /\ Space'
    BY DEF guestStored, At, VInv
  <1>2. PICK v \in Address : Writing(Request, VisibleResult, Memory, seen, sys.pointer, 1, <<v>>)
    BY <1>1, IdleReq DEF RInv, StageOK, StoresTo
  <1>3. CASE Succeeded /\ Quit("stored")
    <2>1. RInv' /\ seen' = Memory /\ returned' = "stored"
      BY <1>1, <1>3, QuitStep
    <2>2. Vm!Store
      BY <1>1, <1>2, <1>3, <2>1, StoredVm
    <2> QED
      BY <2>1, <2>2 DEF Stepped, Vm!ANext
  <1>4. CASE Unsupported
    BY <1>1, <1>4, UnsupportedStep
  <1> QED
    BY <1>3, <1>4 DEF guestStored

\* A store begins.
LEMMA StoreEntered ==
    ASSUME Space, Space', RInv, Ready, NEW pointer \in Pointers, NEW v \in Address,
           NEW name, NEW stage, NEW s, s = [Away(name) EXCEPT !.pointer = pointer],
           \/ name = "check" /\ stage = "copyout" /\ v = SharedRegion
           \/ name = "store" /\ stage = "store",
           Enter(s, stage, "write", pointer, 1, {"W"}, <<v>>)
    PROVE  Stepped
  <1> DEFINE t == [s EXCEPT !.stage = stage]
             q == Req("write", pointer, 1, {"W"}, <<v>>)
  <1>1. returned = "none" /\ seen = Memory
    BY ReadyFacts DEF RInv
  <1>2. t.name = name /\ t.pointer = pointer /\ t.stage = stage
    BY DEF Away
  <1>3. t = [s EXCEPT !.stage = stage]
    OBVIOUS
  <1> HIDE DEF t
  <1>4. ASSUME NEW r PROVE StageOK(t, Memory, seen, q, r)
    <2>1. Writing(q, r, Memory, seen, t.pointer, 1, <<v>>)
      BY <1>1, <1>2 DEF Writing
    <2> HIDE DEF q
    <2>2. StoresTo(t, Memory, seen, q, r)
      BY <1>2, <2>1 DEF StoresTo
    <2> QED
      BY <1>2, <2>2, OneStage
  <1>5. t.name \notin {"loading", "none", "stopped"}
    BY <1>2
  <1> QED
    BY <1>1, <1>3, <1>4, <1>5, EnterStep

LEMMA SmallStepped ==
    ASSUME VInv, VInv', RInv, SmallNext
    PROVE  Stepped
  <1>0. Space /\ Space' /\ (Ready => sys.name = "none")
    BY ReadyFacts DEF VInv
  <1>1. ASSUME NEW address \in ChangeBases, NEW size \in ChangeSizes, NEW task,
               machVmDeallocate(task, address, size)
        PROVE  Stepped
    <2>1. address \in Address /\ size \in Address /\ Ready
      BY <1>1, VmAssumption, InputAssumption DEF machVmDeallocate
    <2>2. CASE Refuse("invalidDestination")
      BY <1>0, <2>1, <2>2, RefuseStep
    <2>3. CASE deallocate(address, size) /\ Return(KernOf(result'.status))
      BY <1>0, <2>1, <2>3, DeallocateReturned
    <2> QED
      BY <1>1, <2>2, <2>3 DEF machVmDeallocate
  <1>2. ASSUME NEW address \in ChangeBases, NEW size \in ChangeSizes, handleMunmap(address, size)
        PROVE  Stepped
    <2>1. address \in Address /\ size \in Address /\ Ready
      BY <1>2, VmAssumption, InputAssumption DEF handleMunmap
    <2>2. CASE Refuse("EINVAL")
      BY <1>0, <2>1, <2>2, RefuseStep
    <2>3. CASE deallocate(address, size) /\ Return(ErrnoOf(result'.status))
      BY <1>0, <2>1, <2>3, DeallocateReturned
    <2> QED
      BY <1>2, <2>2, <2>3, Zenon DEF handleMunmap
  <1>3. ASSUME NEW address \in ChangeBases, NEW size \in ChangeSizes, NEW p \in Protections,
               NEW known, handleMprotect(known, address, size, p)
        PROVE  Stepped
    <2>1. address \in Address /\ size \in Address /\ p \in Permission /\ Ready
      BY <1>3, VmAssumption, InputAssumption DEF handleMprotect
    <2>2. CASE Refuse("EINVAL")
      BY <1>0, <2>1, <2>2, RefuseStep
    <2>3. CASE protect(address, size, p, FALSE) /\ Return(ErrnoOf(result'.status))
      BY <1>0, <2>1, <2>3, ProtectReturned
    <2> QED
      BY <1>3, <2>2, <2>3, Zenon DEF handleMprotect
  <1>4. ASSUME NEW address \in ChangeBases, NEW size \in ChangeSizes, NEW p \in Protections,
               NEW known, NEW copy \in Copies, NEW task,
               machVmProtect(task, known, address, size, p, copy)
        PROVE  Stepped
    <2>1. address \in Address /\ size \in Address /\ p \in Permission /\ copy \in BOOLEAN /\ Ready
      BY <1>4, VmAssumption, InputAssumption DEF machVmProtect
    <2>2. CASE Refuse("invalidDestination")
      BY <1>0, <2>1, <2>2, RefuseStep
    <2>3. CASE Unsupported
      BY <1>0, <2>1, <2>3, UnsupportedStep
    <2>4. CASE protect(address, size, p, copy) /\ Return(KernOf(result'.status))
      BY <1>0, <2>1, <2>4, ProtectReturned
    <2> QED
      BY <1>4, <2>2, <2>3, <2>4, Zenon DEF machVmProtect
  <1>5. ASSUME NEW known, handleMadvise(known) PROVE Stepped
    <2>1. Ready /\ (Refuse("success") \/ Refuse("EINVAL"))
      BY <1>5 DEF handleMadvise
    <2> QED
      BY <1>0, <2>1, RefuseStep
  <1>6. ASSUME NEW pointer \in Pointers, NEW cache, handleSharedRegionCheck(pointer, cache)
        PROVE  Stepped
    <2> DEFINE s == [Away("check") EXCEPT !.pointer = pointer]
    <2>1. Ready /\ SharedRegion \in Address
      BY <1>6, VmAssumption DEF handleSharedRegionCheck
    <2>2. CASE Refuse("EINVAL")
      BY <1>0, <2>1, <2>2, RefuseStep
    <2>3. CASE Enter(s, "copyout", "write", pointer, 1, {"W"}, <<SharedRegion>>)
      BY <1>0, <2>1, <2>3, StoreEntered
    <2> QED
      BY <1>6, <2>2, <2>3, Zenon DEF handleSharedRegionCheck
  <1>7. ASSUME NEW pointer \in Pointers, NEW value \in Hints, guestStore(pointer, value)
        PROVE  Stepped
    <2> DEFINE s == [Away("store") EXCEPT !.pointer = pointer]
    <2>1. Ready /\ value \in Address /\ Enter(s, "store", "write", pointer, 1, {"W"}, <<value>>)
      BY <1>7, VmAssumption DEF guestStore
    <2> QED
      BY <1>0, <2>1, StoreEntered
  <1> QED
    BY <1>1, <1>2, <1>3, <1>4, <1>5, <1>6, <1>7, CheckedStepped, GuestStoredStepped, Zenon
       DEF SmallNext

-----------------------------------------------------------------------------
(* map_with_linking_np: what the regions look like to the guest.           *)

\* A cell that was linked is the old one with another protection and value.
LEMMA RelinkedIs ==
    ASSUME NEW c, IsCell(c), NEW d, NEW values, Relinked(c, d, values)
    PROVE  /\ d.mapped /\ d.value \in values
           /\ d = [c EXCEPT !.permissions = d.permissions, !.value = d.value]
           /\ IsCell(d) /\ d.maximum = c.maximum /\ d.readable = c.readable /\ d.backed = c.backed
  <1> DEFINE p == c.permissions
             x == c.maximum
             b == c.backed
             y == c.value
             r == c.readable
             dp == d.permissions
             dy == d.value
  <1>1. c = MappedCell(p, x, b, y, r) /\ d = MappedCell(dp, x, b, dy, r) /\ dy \in values
    BY DEF IsCell, Relinked
  <1> HIDE DEF p, x, b, y, r, dp, dy
  <1>2. d = [c EXCEPT !.permissions = dp, !.value = dy]
    <2> DEFINE e == [c EXCEPT !.permissions = dp]
    <2> DEFINE t == TRUE
    <2>a. /\ c = [mapped |-> t, permissions |-> p, maximum |-> x, backed |-> b, value |-> y,
                  readable |-> r]
          /\ d = [mapped |-> t, permissions |-> dp, maximum |-> x, backed |-> b, value |-> dy,
                  readable |-> r]
      BY <1>1, Zenon DEF MappedCell
    <2> HIDE DEF t
    <2>1. e = [mapped |-> t, permissions |-> dp, maximum |-> x, backed |-> b, value |-> y,
               readable |-> r]
      BY <2>a
    <2>2. [c EXCEPT !.permissions = dp, !.value = dy] = [e EXCEPT !.value = dy]
      OBVIOUS
    <2> HIDE DEF e
    <2>3. [e EXCEPT !.value = dy] = d
      BY <2>1, <2>a
    <2> QED
      BY <2>2, <2>3
  <1>3. d.mapped /\ IsCell(d) /\ d.maximum = x /\ d.readable = r /\ d.backed = b
    BY <1>1, CellFields
  <1> QED
    BY <1>1, <1>2, <1>3 DEF dp, dy, x, r, b

\* A mapped cell of a well-formed memory is a cell.
LEMMA SeenCell ==
    ASSUME NEW mem, WellFormed(mem), NEW a \in Address, mem[a].mapped
    PROVE  IsCell(mem[a])
  BY DEF WellFormed, Nowhere

LEMMA LinkVm ==
    ASSUME NEW regions \in RegionLists, NEW k \in 1 .. Len(regions) + 1, NEW open, NEW copied,
           WellFormed(seen), WellFormed(seen'), Vm!Running,
           RegionsDone(regions, k, open, seen', seen),
           open = IF k <= Len(regions) /\ returned' \in {"EIO", "EFAULT"} THEN Part(regions[k])
                                                                         ELSE {},
           open # {} => RegionOpen(regions[k], copied, seen', seen),
           returned' \in {"success", "EINVAL", "EACCES", "EIO", "EFAULT"},
           returned' = "success" <=> k = Len(regions) + 1,
           returned' = "EFAULT" => \E a \in open : ~seen[a].readable
    PROVE  Vm!Link
  <1> DEFINE Done(i) == UNION {Vm!RegionCells(regions[j]) : j \in i .. k - 1}
  <1>1. \A r : Vm!RegionCells(r) = Part(r)
    BY ExtentIs DEF Vm!RegionCells, Part
  <1>2. \A i, a : a \in Done(i) <=> \E j \in i .. k - 1 : a \in Part(regions[j])
    BY <1>1
  <1> HIDE DEF Done
  <1>3. open = IF k <= Len(regions) /\ returned' \in {"EIO", "EFAULT"}
               THEN Vm!RegionCells(regions[k]) ELSE {}
    BY <1>1
  <1>4. \A a \in open : a \in Part(regions[k]) /\ RegionOpen(regions[k], copied, seen', seen)
    OBVIOUS
  <1>5. \A r : \A a \in Part(r) : a \in Address
    BY DEF Part, Between
  <1>6. ASSUME NEW a \in Done(1) \cup open
        PROVE  Vm!Allows(a, {"R"}) /\ {"R", "W"} \subseteq seen[a].maximum
    <2>1. Linkable(seen[a])
      <3>1. CASE a \in open
        BY <1>4, <3>1 DEF RegionOpen
      <3>2. CASE a \in Done(1)
        BY <1>2, <3>2 DEF RegionsDone
      <3> QED
        BY <3>1, <3>2
    <2> QED
      BY <2>1 DEF Linkable, Vm!Allows
  <1>7. ASSUME NEW i \in 1 .. k - 1,
               NEW a \in Vm!RegionCells(regions[i]) \ (Done(i + 1) \cup open)
        PROVE  Vm!Rewritten(a, regions[i].permissions, {FileByte, Linked})
    <2>1. a \in Part(regions[i]) /\ a \in Address /\ a \notin open
          /\ \A j \in i + 1 .. k - 1 : a \notin Part(regions[j])
      BY <1>1, <1>2, <1>5
    <2>2. /\ Linkable(seen[a]) /\ Relinked(seen[a], seen'[a], {FileByte, Linked})
          /\ seen'[a].permissions = regions[i].permissions
      BY <2>1 DEF RegionsDone
    <2>3. IsCell(seen[a])
      BY <2>1, <2>2, SeenCell DEF Linkable
    <2>4. /\ seen'[a].mapped /\ seen'[a].value \in {FileByte, Linked}
          /\ seen'[a] = [seen[a] EXCEPT !.permissions = seen'[a].permissions,
                                        !.value = seen'[a].value]
      BY <2>2, <2>3, RelinkedIs
    <2> QED
      BY <2>2, <2>4 DEF Vm!Rewritten
  <1>8. ASSUME NEW a \in open
        PROVE  Vm!Rewritten(a, {"R", "W"}, {FileByte, Linked, seen[a].value})
    <2>1. a \in Part(regions[k]) /\ a \in Address /\ RegionOpen(regions[k], copied, seen', seen)
      BY <1>4, <1>5
    <2>2. /\ Linkable(seen[a]) /\ Relinked(seen[a], seen'[a], {FileByte, Linked, seen[a].value})
          /\ seen'[a].permissions = {"R", "W"}
      BY <2>1 DEF RegionOpen
    <2>3. IsCell(seen[a])
      BY <2>1, <2>2, SeenCell DEF Linkable
    <2>4. /\ seen'[a].mapped /\ seen'[a].value \in {FileByte, Linked, seen[a].value}
          /\ seen'[a] = [seen[a] EXCEPT !.permissions = seen'[a].permissions,
                                        !.value = seen'[a].value]
      BY <2>2, <2>3, RelinkedIs
    <2> QED
      BY <2>2, <2>4 DEF Vm!Rewritten
  <1>9. \A a \in Vm!Addresses \ (Done(1) \cup open) : seen'[a] = seen[a]
    BY <1>2, PagesAre DEF RegionsDone
  <1>10. DOMAIN seen' = Vm!Addresses
    BY PagesAre DEF WellFormed
  <1>11. returned' = "EFAULT" => \E a \in open : ~seen[a].readable
    OBVIOUS
  <1> HIDE DEF Done
  <1> QED
    BY <1>3, <1>6, <1>7, <1>8, <1>9, <1>10, <1>11, Zenon DEF Vm!Link, Done

-----------------------------------------------------------------------------
(* map_with_linking_np: its steps before a region is opened.               *)

LEMMA LinkIdle ==
    ASSUME VInv, VInv', RInv, sys.name = "link", Idle
    PROVE  /\ Space /\ Space' /\ sys \in SysType /\ returned = "none"
           /\ Request = NoReq /\ VisibleResult = result
           /\ LinksTo(sys, Memory, seen, Request, VisibleResult)
           /\ WellFormed(seen) /\ Vm!Running
  BY IdleReq, VInvFields DEF VInv, RInv, Outcome, StageOK, Vm!Running

LEMMA LinkContinue ==
    ASSUME RInv, returned = "none", NEW t, Continue(t), t.name = "link",
           LinksTo(t, Memory', seen, Request', VisibleResult')
    PROVE  Stepped
  <1>1. StageOK(t, Memory', seen, Request', VisibleResult')
    BY OneStage
  <1> QED
    BY <1>1, ContinueStep

LEMMA LinkEnter ==
    ASSUME Space, Space', RInv, returned = "none", NEW s, NEW stage, NEW t,
           t = [s EXCEPT !.stage = stage], t.name = "link",
           NEW op \in {"read", "validate", "write"}, NEW address, NEW size, NEW required, NEW data,
           op = "read" => data = << >>,
           Enter(s, stage, op, address, size, required, data),
           \A r : LinksTo(t, Memory, seen, Req(op, address, size, required, data), r)
    PROVE  Stepped
  <1>1. t.name \notin {"loading", "none", "stopped"}
    OBVIOUS
  <1>2. \A r : StageOK(t, Memory, seen, Req(op, address, size, required, data), r)
    BY OneStage
  <1> QED
    BY <1>1, <1>2, EnterStep

\* The stages before the first region.
LEMMA LinksFirst ==
    ASSUME NEW t, NEW mem, NEW q, NEW r, t.regions \in RegionLists, t.stage \in {"list", "blob"},
           t.region = 1, Reading(q, r, mem, t.pointer)
    PROVE  LinksTo(t, mem, mem, q, r)
  BY DEF LinksTo

LEMMA LinkStartStepped ==
    ASSUME VInv, VInv', RInv, NEW regions \in RegionLists, NEW blob \in Pointers,
           handleMapWithLinking(regions, blob)
    PROVE  Stepped
  <1>0. Space /\ Space' /\ Ready /\ returned = "none" /\ seen = Memory
    BY ReadyFacts DEF VInv, RInv, handleMapWithLinking
  <1> DEFINE s == [Away("link") EXCEPT !.regions = regions, !.pointer = blob]
             t == [s EXCEPT !.stage = "list"]
             q == Req("read", blob, 1, {"R"}, << >>)
  <1>1. CASE Refuse("EINVAL")
    BY <1>0, <1>1, RefuseStep
  <1>2. CASE Enter(s, "list", "read", blob, 1, {"R"}, << >>)
    <2>1. /\ t.name = "link" /\ t.stage = "list" /\ t.regions = regions /\ t.pointer = blob
          /\ t.region = 1
      BY DEF Away
    <2>2. t = [s EXCEPT !.stage = "list"]
      OBVIOUS
    <2> HIDE DEF t
    <2>3. ASSUME NEW r PROVE LinksTo(t, Memory, seen, q, r)
      <3>1. Reading(q, r, Memory, t.pointer)
        BY <2>1 DEF Reading
      <3> QED
        BY <1>0, <2>1, <3>1, LinksFirst
    <2> QED
      BY <1>0, <1>2, <2>1, <2>2, <2>3, LinkEnter
  <1> QED
    BY <1>1, <1>2, Zenon DEF handleMapWithLinking

LEMMA LinkListStepped ==
    ASSUME VInv, VInv', RInv, linkList
    PROVE  Stepped
  <1> DEFINE t == [sys EXCEPT !.stage = "blob"]
             q == Req("read", sys.pointer, 1, {"R"}, << >>)
  <1>1. sys.name = "link" /\ sys.stage = "list" /\ Idle
    BY DEF linkList, At
  <1>2. /\ Space /\ Space' /\ sys \in SysType /\ returned = "none"
        /\ LinksTo(sys, Memory, seen, Request, VisibleResult)
    BY <1>1, LinkIdle
  <1>3. Memory = seen /\ sys.region = 1 /\ sys.regions \in RegionLists
    BY <1>1, <1>2 DEF LinksTo
  <1>4. CASE Quit("EFAULT")
    BY <1>1, <1>2, <1>3, <1>4, QuitAnswers
  <1>5. CASE Enter(sys, "blob", "read", sys.pointer, 1, {"R"}, << >>)
    <2>1. /\ t.name = "link" /\ t.stage = "blob" /\ t.regions = sys.regions
          /\ t.pointer = sys.pointer /\ t.region = 1
      BY <1>1, <1>2, <1>3, SetStage DEF Stages
    <2>2. t = [sys EXCEPT !.stage = "blob"]
      OBVIOUS
    <2> HIDE DEF t
    <2>3. ASSUME NEW r PROVE LinksTo(t, Memory, seen, q, r)
      <3>1. Reading(q, r, Memory, t.pointer)
        BY <2>1 DEF Reading
      <3> QED
        BY <1>3, <2>1, <3>1, LinksFirst
    <2> QED
      BY <1>2, <1>5, <2>1, <2>2, <2>3, LinkEnter
  <1> QED
    BY <1>4, <1>5, Zenon DEF linkList, Go

\* The stage in which a region is examined.
LEMMA LinksRegion ==
    ASSUME NEW t, NEW mem, NEW old, NEW q, NEW r, q = NoReq, t.regions \in RegionLists,
           t.stage = "region", RegionsDone(t.regions, t.region, {}, mem, old)
    PROVE  LinksTo(t, mem, old, q, r)
  BY DEF LinksTo

LEMMA LinkBlobStepped ==
    ASSUME VInv, VInv', RInv, linkBlob
    PROVE  Stepped
  <1> DEFINE t == [sys EXCEPT !.stage = "region", !.pointer = 0]
  <1>1. sys.name = "link" /\ sys.stage = "blob" /\ Idle
    BY DEF linkBlob, At
  <1>2. /\ Space /\ Space' /\ sys \in SysType /\ returned = "none" /\ Request = NoReq
        /\ LinksTo(sys, Memory, seen, Request, VisibleResult)
    BY <1>1, LinkIdle
  <1>3. Memory = seen /\ sys.region = 1 /\ sys.regions \in RegionLists
    BY <1>1, <1>2 DEF LinksTo
  <1>4. CASE Quit("EFAULT") \/ Quit("EBADF") \/ Quit("EIO")
    BY <1>1, <1>2, <1>3, <1>4, QuitAnswers
  <1>5. CASE Unsupported
    BY <1>1, <1>5, UnsupportedStep
  <1>6. CASE Continue(t) /\ UNCHANGED vars
    <2>1. t.name = "link" /\ t.stage = "region" /\ t.regions = sys.regions /\ t.region = 1
      BY <1>1, <1>2, <1>3 DEF SysType
    <2> HIDE DEF t
    <2>2. Memory' = seen /\ Request' = NoReq
      BY <1>2, <1>3, <1>6, StillMemory
    <2>3. RegionsDone(t.regions, t.region, {}, Memory', seen)
      BY <2>1, <2>2 DEF RegionsDone
    <2>4. LinksTo(t, Memory', seen, Request', VisibleResult')
      BY <1>3, <2>1, <2>2, <2>3, LinksRegion
    <2> QED
      BY <1>2, <1>6, <2>1, <2>4, LinkContinue
  <1> HIDE DEF t
  <1> QED
    BY <1>4, <1>5, <1>6, Zenon DEF linkBlob, t

LEMMA LinkRegionStepped ==
    ASSUME VInv, VInv', RInv, linkRegion
    PROVE  Stepped
  <1> DEFINE t == [sys EXCEPT !.stage = "open"]
             q == Req("validate", Region.address, Region.size, {"R"}, << >>)
  <1>1. sys.name = "link" /\ sys.stage = "region" /\ Idle
    BY DEF linkRegion, At
  <1>2. /\ Space /\ Space' /\ sys \in SysType /\ returned = "none"
        /\ LinksTo(sys, Memory, seen, Request, VisibleResult)
    BY <1>1, LinkIdle
  <1>3. RegionsDone(sys.regions, sys.region, {}, Memory, seen) /\ sys.regions \in RegionLists
    BY <1>1, <1>2 DEF LinksTo
  <1>4. CASE Unsupported
    BY <1>1, <1>4, UnsupportedStep
  <1>5. CASE /\ Region.address % PageSize = 0 /\ "X" \notin Region.permissions
             /\ Enter(sys, "open", "validate", Region.address, Region.size, {"R"}, << >>)
    <2>1. /\ t.name = "link" /\ t.stage = "open" /\ t.regions = sys.regions
          /\ t.region = sys.region
      BY <1>1, <1>2, SetStage DEF Stages
    <2>2. t = [sys EXCEPT !.stage = "open"]
      OBVIOUS
    <2> HIDE DEF t
    <2>3. ASSUME NEW r PROVE LinksTo(t, Memory, seen, q, r)
      <3>1. Checking(q, r, Memory, Region.address, Region.size, {"R"})
        BY DEF Checking
      <3>2. t.regions[t.region] = Region
        BY <2>1 DEF Region
      <3> HIDE DEF q
      <3> QED
        BY <1>3, <1>5, <2>1, <3>1, <3>2 DEF LinksTo
    <2> QED
      BY <1>2, <1>5, <2>1, <2>2, <2>3, LinkEnter
  <1> QED
    BY <1>4, <1>5, Zenon DEF linkRegion, Go

-----------------------------------------------------------------------------
(* map_with_linking_np: the protection of a region.                        *)

LEMMA WholeRange ==
    ASSUME NEW address \in Nat, NEW size \in Nat, address % PageSize = 0, size % PageSize = 0
    PROVE  PageFloor(address) = address /\ PageCeiling(address + size) = address + size
  <1> DEFINE n == address + size
             c == PageCeiling(n)
             x == c - n
  <1>1. PageSize \in Nat \ {0} /\ PageSize \in Nat /\ n \in Nat
    BY GeometryAssumption
  <1>2. PageFloor(address) = address
    BY DEF PageFloor
  <1>3. n % PageSize = 0
    BY AlignedDistance
  <1>4. c \in Nat /\ c % PageSize = 0 /\ n <= c /\ c < n + PageSize
    BY <1>1, RoundingIsAligned
  <1> HIDE DEF n, c
  <1>5. x % PageSize = 0
    BY <1>1, <1>3, <1>4, AlignedDistance
  <1>6. x \in Nat /\ x < PageSize
    BY <1>1, <1>4
  <1>7. x = PageSize * (x \div PageSize) + (x % PageSize) /\ x \div PageSize \in Nat
    BY <1>1, <1>6, DivMod
  <1> DEFINE q == x \div PageSize
  <1>8. x = PageSize * q /\ q \in Nat
    BY <1>1, <1>5, <1>7
  <1> HIDE DEF q
  <1>9. q = 0
    <2> SUFFICES ASSUME q # 0 PROVE FALSE
      OBVIOUS
    <2>1. q >= 1
      BY <1>8
    <2>2. PageSize * q >= PageSize
      BY <1>1, <1>8, <2>1
    <2> QED
      BY <1>1, <1>6, <1>8, <2>2
  <1>10. x = 0
    BY <1>1, <1>8, <1>9
  <1>11. c = n
    BY <1>1, <1>4, <1>10
  <1> QED
    BY <1>2, <1>11 DEF c, n

LEMMA ProtectedCell ==
    ASSUME NEW c, IsCell(c), NEW d, NEW p, Protected(c, d, p, FALSE)
    PROVE  /\ d = MappedCell(p, c.maximum, c.backed, c.value, c.readable)
           /\ p \subseteq c.maximum
  <1> DEFINE t == TRUE
             o == c.permissions
             x == c.maximum
             b == c.backed
             y == c.value
             r == c.readable
  <1>1. /\ c = [mapped |-> t, permissions |-> o, maximum |-> x, backed |-> b, value |-> y,
                readable |-> r]
    BY Zenon DEF IsCell, MappedCell
  <1>2. p \subseteq c.maximum /\ d = [c EXCEPT !.permissions = p, !.maximum = IF FALSE THEN p ELSE @]
    BY Zenon DEF Protected
  <1> HIDE DEF t, o, x, b, y, r
  <1> DEFINE e == [c EXCEPT !.permissions = p]
  <1>3. e = [mapped |-> t, permissions |-> p, maximum |-> x, backed |-> b, value |-> y,
             readable |-> r]
    BY <1>1
  <1>4. d = [c EXCEPT !.permissions = p, !.maximum = x]
    BY <1>1, <1>2
  <1>5. d = [e EXCEPT !.maximum = x]
    BY <1>4
  <1> HIDE DEF e
  <1>6. d = [mapped |-> t, permissions |-> p, maximum |-> x, backed |-> b, value |-> y,
             readable |-> r]
    BY <1>3, <1>5
  <1> QED
    BY <1>2, <1>6, Zenon DEF MappedCell, t, x, b, y, r

\* What protect does to a range of whole pages.
LEMMA PagesProtected ==
    ASSUME Space, Space', NEW address \in Address, NEW size \in Address, size # 0,
           address % PageSize = 0, size % PageSize = 0, NEW p \in Permission,
           protect(address, size, p, FALSE)
    PROVE  /\ Idle'
           /\ \/ /\ result'.status # "success" /\ Memory' = Memory
                 /\ \/ RangeOverflows(address, size)
                    \/ Stops(address, address + size, p, FALSE) # {}
              \/ /\ result'.status = "success" /\ ~RangeOverflows(address, size)
                 /\ \A a \in Address : a \notin Between(address, size) => Memory'[a] = Memory[a]
                 /\ \A a \in Between(address, size) : Protected(Memory[a], Memory'[a], p, FALSE)
  <1> DEFINE end == address + size
  <1>1. address \in Nat /\ size \in Nat
    BY GeometryAssumption DEF Address
  <1>2. PageFloor(address) = address /\ PageCeiling(address + size) = end
    BY <1>1, WholeRange
  <1>3. \/ Idle /\ \E status \in Statuses :
                      Unchanged(status) /\ WhyUnchanged(address, size, p, FALSE, status)
        \/ Protects(address, end, p, FALSE) /\ ~RangeOverflows(address, size)
    <2>1. FALSE \in BOOLEAN
      OBVIOUS
    <2> QED
      BY <1>2, <2>1, ProtectEffect DEF Space, Statuses
  <1>4. ASSUME Idle, NEW status \in Statuses, Unchanged(status),
               WhyUnchanged(address, size, p, FALSE, status)
        PROVE  /\ Idle' /\ result'.status # "success" /\ Memory' = Memory
               /\ RangeOverflows(address, size) \/ Stops(address, end, p, FALSE) # {}
    <2>1. Memory' = Memory
      BY <1>4, RefuseFlat DEF Space, Statuses
    <2>2. Idle' /\ result'.status = status
      BY <1>4 DEF Unchanged, Finish, Idle, Returned
    <2>3. status # "success"
      BY <1>4 DEF WhyUnchanged
    <2>4. RangeOverflows(address, size) \/ Stops(address, end, p, FALSE) # {}
      BY <1>2, <1>4, <2>3 DEF WhyUnchanged, Statuses
    <2> QED
      BY <2>1, <2>2, <2>3, <2>4
  <1>5. ASSUME Protects(address, end, p, FALSE)
        PROVE  /\ Idle' /\ result'.status = "success"
               /\ \A a \in Address : a \notin Between(address, size) => Memory'[a] = Memory[a]
               /\ \A a \in Between(address, size) : Protected(Memory[a], Memory'[a], p, FALSE)
    <2>1. Idle' /\ result'.status = "success"
      BY <1>5 DEF Protects, Finish, Idle, Returned
    <2>2. FALSE \in BOOLEAN
      OBVIOUS
    <2>3. /\ \A a \in Address : ~(address <= a /\ a < end) => Memory'[a] = Memory[a]
          /\ \A a \in Address : address <= a /\ a < end => Protected(Memory[a], Memory'[a], p, FALSE)
      BY <1>5, <2>2, ProtectCells DEF Space
    <2> QED
      BY <2>1, <2>3 DEF Between
  <1> QED
    BY <1>3, <1>4, <1>5

\* Nothing stops the protection of mapped pages within their maximum.
LEMMA NothingStops ==
    ASSUME Space, Idle, NEW address \in Nat, NEW size \in Nat, address + size <= Limit, NEW p,
           \A a \in Between(address, size) : Memory[a].mapped /\ p \subseteq Memory[a].maximum
    PROVE  Stops(address, address + size, p, FALSE) = {}
  <1>1. IInv /\ ~Committed
    BY IdleRequest DEF Space
  <1>2. ASSUME NEW a \in address .. address + size - 1
        PROVE  /\ mappingContaining(a) # {}
               /\ \A m \in mappingContaining(a) : hasPermission(m.maximumPermissions, p)
    <2>1. a \in Nat /\ a \in Address /\ a \in Between(address, size)
      BY GeometryAssumption DEF Address, Between
    <2>2. PICK n \in mappings : Holds(n, a)
      BY <1>1, <2>1, MemoryWellFormed
    <2>3. n \in mappingContaining(a)
      BY <1>1, <2>1, <2>2, InsideIsSearchHit, MappingFacts DEF SearchHit, mappingContaining, Holds
    <2>4. ASSUME NEW m \in mappingContaining(a) PROVE hasPermission(m.maximumPermissions, p)
      <3>1. m \in mappings /\ Holds(m, a)
        BY <1>1, <2>1, MappingFacts DEF mappingContaining, rangeContains, Holds
      <3> QED
        BY <1>1, <2>1, <3>1, CellFacts DEF hasPermission
    <2> QED
      BY <2>3, <2>4
  <1> QED
    BY <1>2 DEF Stops, Holes, Denials

\* A linked cell whose protection has changed is still a linked cell.
LEMMA RelinkedProtected ==
    ASSUME NEW c, IsCell(c), NEW m, NEW d, NEW p, NEW values, Relinked(c, m, values),
           Protected(m, d, p, FALSE)
    PROVE  /\ Relinked(c, d, values) /\ d.permissions = p /\ d.value = m.value
           /\ p \subseteq c.maximum
  <1>1. /\ m.value \in values /\ IsCell(m) /\ m.maximum = c.maximum /\ m.readable = c.readable
        /\ m.backed = c.backed
    BY RelinkedIs
  <1>2. d = MappedCell(p, m.maximum, m.backed, m.value, m.readable) /\ p \subseteq m.maximum
    BY <1>1, ProtectedCell
  <1>3. d.permissions = p /\ d.value = m.value
    BY <1>2, CellFields
  <1>4. d = MappedCell(d.permissions, c.maximum, c.backed, d.value, c.readable)
    BY <1>1, <1>2, <1>3
  <1> QED
    BY <1>1, <1>2, <1>3, <1>4 DEF Relinked

\* A region is opened: the regions before it are as they were but for the cells they share.
LEMMA OpenedRegion ==
    ASSUME NEW mem, NEW old, NEW new, WellFormed(old), NEW regions, NEW k,
           RegionsDone(regions, k, {}, mem, old), NEW region \in RegionType,
           region.address % PageSize = 0, "X" \notin region.permissions,
           ~RangeOverflows(region.address, region.size),
           \A a \in Part(region) : Grants(mem, a, {"R"}),
           \A a \in Address : a \notin Part(region) => new[a] = mem[a],
           \A a \in Part(region) : Protected(mem[a], new[a], {"R", "W"}, FALSE)
    PROVE  RegionOpen(region, 0, new, old) /\ RegionsDone(regions, k, Part(region), new, old)
  <1> DEFINE rw == {"R", "W"}
  <1>1. \A r : \A a \in Part(r) : a \in Address
    BY DEF Part, Between
  <1>2. region.address \in Nat /\ region.permissions \subseteq {"R", "W"}
    BY GeometryAssumption DEF RegionType, Address, Permission
  <1>3. ASSUME NEW a \in Part(region), NEW values, Relinked(old[a], mem[a], values), IsCell(old[a])
        PROVE  /\ Relinked(old[a], new[a], values) /\ new[a].permissions = rw
               /\ rw \subseteq old[a].maximum
    <2> DEFINE c == old[a]
               m == mem[a]
               d == new[a]
    <2>1. IsCell(c) /\ Relinked(c, m, values) /\ Protected(m, d, rw, FALSE)
      BY <1>3
    <2> HIDE DEF rw, c, m, d
    <2>2. IsCell(c)
      BY <2>1
    <2>3. Relinked(c, m, values)
      BY <2>1
    <2>4. Protected(m, d, rw, FALSE)
      BY <2>1
    <2>5. Relinked(c, d, values) /\ d.permissions = rw /\ rw \subseteq c.maximum
      BY ONLY <2>2, <2>3, <2>4, RelinkedProtected
    <2> QED
      BY <2>5 DEF c, d
  <1>4. ASSUME NEW i \in 1 .. k - 1, NEW a \in Part(regions[i])
        PROVE  /\ Linkable(old[a]) /\ Relinked(old[a], new[a], {FileByte, Linked})
               /\ a \in Part(region) => new[a].permissions = rw
               /\ IsCell(old[a])
    <2>1. Linkable(old[a]) /\ Relinked(old[a], mem[a], {FileByte, Linked}) /\ a \in Address
      BY <1>1 DEF RegionsDone
    <2>2. IsCell(old[a])
      BY <2>1, SeenCell DEF Linkable
    <2> QED
      BY <1>3, <2>1, <2>2
  <1>5. ASSUME NEW a \in Part(region)
        PROVE  /\ Linkable(old[a]) /\ Relinked(old[a], new[a], {FileByte, Linked, old[a].value})
               /\ new[a].permissions = rw
    <2>1. CASE \E i \in 1 .. k - 1 : a \in Part(regions[i])
      BY <1>4, <2>1 DEF Relinked
    <2>2. CASE \A i \in 1 .. k - 1 : a \notin Part(regions[i])
      <3>1. a \in Address /\ mem[a] = old[a]
        BY <1>1, <2>2 DEF RegionsDone
      <3>2. old[a].mapped /\ {"R"} \subseteq old[a].permissions
        BY <3>1 DEF Grants
      <3>3. IsCell(old[a])
        BY <3>1, <3>2, SeenCell
      <3>4. Relinked(old[a], mem[a], {FileByte, Linked, old[a].value})
        BY <3>1, <3>3 DEF Relinked, IsCell
      <3> QED
        BY <1>3, <3>2, <3>3, <3>4 DEF Linkable
    <2> QED
      BY <2>1, <2>2
  <1>6. \A a \in Part(region) : ~(a < region.address + 0)
    <2> SUFFICES ASSUME NEW a \in Part(region) PROVE ~(a < region.address + 0)
      OBVIOUS
    <2>1. a \in Nat /\ region.address <= a
      BY GeometryAssumption DEF Part, Between, Address
    <2> QED
      BY <1>2, <2>1
  <1>7. RegionOpen(region, 0, new, old)
    BY <1>2, <1>5, <1>6 DEF RegionOpen
  <1>8. ASSUME NEW i \in 1 .. k - 1, NEW a \in Part(regions[i]), a \notin Part(region),
               \A j \in i + 1 .. k - 1 : a \notin Part(regions[j])
        PROVE  new[a].permissions = regions[i].permissions
    <2>1. new[a] = mem[a] /\ a \notin {}
      BY <1>1, <1>8
    <2> QED
      BY <1>8, <2>1 DEF RegionsDone
  <1>9. ASSUME NEW a \in Address, a \notin Part(region), \A i \in 1 .. k - 1 : a \notin Part(regions[i])
        PROVE  new[a] = old[a]
    <2>1. new[a] = mem[a] /\ a \notin {}
      BY <1>9
    <2> QED
      BY <1>9, <2>1 DEF RegionsDone
  <1>10. RegionsDone(regions, k, Part(region), new, old)
    BY <1>4, <1>8, <1>9 DEF RegionsDone
  <1> QED
    BY <1>7, <1>10

\* A region is closed: it is finished, like the ones before it.
LEMMA ClosedRegion ==
    ASSUME NEW mem, NEW old, NEW new, WellFormed(old), NEW regions, NEW k \in Nat \ {0},
           NEW region \in RegionType, region = regions[k],
           RegionsDone(regions, k, Part(region), mem, old),
           RegionOpen(region, region.size, mem, old),
           \A a \in Address : a \notin Part(region) => new[a] = mem[a],
           \A a \in Part(region) : Protected(mem[a], new[a], region.permissions, FALSE)
    PROVE  RegionsDone(regions, k + 1, {}, new, old)
  <1> DEFINE p == region.permissions
  <1>1. \A r : \A a \in Part(r) : a \in Address
    BY DEF Part, Between
  <1>2. \A i \in 1 .. (k + 1) - 1 : i \in 1 .. k - 1 \/ i = k
    OBVIOUS
  <1>3. ASSUME NEW a \in Part(region)
        PROVE  /\ Linkable(old[a]) /\ IsCell(old[a]) /\ a \in Address
               /\ Relinked(old[a], new[a], {FileByte, Linked})
               /\ new[a].permissions = p
    <2>1. /\ Linkable(old[a]) /\ Relinked(old[a], mem[a], {FileByte, Linked, old[a].value})
          /\ a < region.address + region.size => mem[a].value \in {FileByte, Linked}
      BY DEF RegionOpen
    <2>2. a < region.address + region.size /\ a \in Address
      BY DEF Part, Between
    <2>3. Relinked(old[a], mem[a], {FileByte, Linked})
      BY <2>1, <2>2 DEF Relinked
    <2>4. IsCell(old[a])
      BY <2>1, <2>2, SeenCell DEF Linkable
    <2> DEFINE c == old[a]
               m == mem[a]
               d == new[a]
               values == {FileByte, Linked}
    <2>5. Protected(m, d, p, FALSE)
      OBVIOUS
    <2>6. IsCell(c)
      BY <2>4
    <2>7. Relinked(c, m, values)
      BY <2>3
    <2> HIDE DEF p, c, m, d, values
    <2>8. Relinked(c, d, values) /\ d.permissions = p
      BY ONLY <2>5, <2>6, <2>7, RelinkedProtected
    <2> QED
      BY <2>1, <2>2, <2>4, <2>8 DEF c, d, values
  <1>4. ASSUME NEW i \in 1 .. (k + 1) - 1, NEW a \in Part(regions[i])
        PROVE  Linkable(old[a]) /\ Relinked(old[a], new[a], {FileByte, Linked})
    <2>1. CASE a \in Part(region)
      BY <1>3, <2>1
    <2>2. CASE a \notin Part(region)
      <3>1. i \in 1 .. k - 1 /\ a \in Address
        BY <1>1, <1>2, <2>2
      <3>2. new[a] = mem[a] /\ Linkable(old[a]) /\ Relinked(old[a], mem[a], {FileByte, Linked})
        BY <2>2, <3>1 DEF RegionsDone
      <3> QED
        BY <3>2
    <2> QED
      BY <2>1, <2>2
  <1>5. ASSUME NEW i \in 1 .. (k + 1) - 1, NEW a \in Part(regions[i]),
               \A j \in i + 1 .. (k + 1) - 1 : a \notin Part(regions[j])
        PROVE  new[a].permissions = regions[i].permissions
    <2>1. CASE i = k
      BY <1>3, <2>1
    <2>2. CASE i \in 1 .. k - 1
      <3>1. k \in i + 1 .. (k + 1) - 1 /\ \A j \in i + 1 .. k - 1 : j \in i + 1 .. (k + 1) - 1
        BY <2>2
      <3>2. a \notin Part(region) /\ \A j \in i + 1 .. k - 1 : a \notin Part(regions[j])
        BY <1>5, <3>1
      <3>3. new[a] = mem[a]
        BY <1>1, <3>2
      <3> QED
        BY <2>2, <3>2, <3>3 DEF RegionsDone
    <2> QED
      BY <1>2, <2>1, <2>2
  <1>6. ASSUME NEW a \in Address, \A i \in 1 .. (k + 1) - 1 : a \notin Part(regions[i])
        PROVE  new[a] = old[a]
    <2>1. k \in 1 .. (k + 1) - 1 /\ \A i \in 1 .. k - 1 : i \in 1 .. (k + 1) - 1
      OBVIOUS
    <2>2. a \notin Part(region) /\ \A i \in 1 .. k - 1 : a \notin Part(regions[i])
      BY <1>6, <2>1
    <2> QED
      BY <2>2 DEF RegionsDone
  <1>7. \A i \in 1 .. (k + 1) - 1 : \A a \in Part(regions[i]) :
          Linkable(old[a]) /\ Relinked(old[a], new[a], {FileByte, Linked})
    BY <1>4
  <1>8. \A i \in 1 .. (k + 1) - 1 : \A a \in Part(regions[i]) :
          a \notin {} /\ (\A j \in i + 1 .. (k + 1) - 1 : a \notin Part(regions[j]))
            => new[a].permissions = regions[i].permissions
    BY <1>5
  <1>9. \A a \in Address : a \notin {} /\ (\A i \in 1 .. (k + 1) - 1 : a \notin Part(regions[i]))
          => new[a] = old[a]
    BY <1>6
  <1> QED
    BY ONLY <1>7, <1>8, <1>9, Zenon DEF RegionsDone

\* The call ends with an error, between two regions or inside one.
LEMMA LinkFails ==
    ASSUME VInv, VInv', RInv, sys.name = "link", Idle, NEW code \in {"EINVAL", "EACCES"},
           Return(code), Idle', Memory' = Memory,
           RegionsDone(sys.regions, sys.region, {}, Memory, seen)
    PROVE  Stepped
  <1>1. /\ Space /\ Space' /\ WellFormed(seen) /\ Vm!Running /\ sys.regions \in RegionLists
        /\ sys.region \in 1 .. Len(sys.regions) /\ Len(sys.regions) \in Nat
    BY LinkIdle, RegionFacts DEF LinksTo
  <1>2. RInv' /\ seen' = Memory /\ returned' = code
    BY <1>1, ReturnKeeps
  <1>3. WellFormed(seen')
    BY <1>2 DEF RInv
  <1> DEFINE rs == sys.regions
             k == sys.region
             open == {}
  <1>4. /\ rs \in RegionLists /\ k \in 1 .. Len(rs) + 1 /\ RegionsDone(rs, k, open, seen', seen)
        /\ open = IF k <= Len(rs) /\ returned' \in {"EIO", "EFAULT"} THEN Part(rs[k]) ELSE {}
        /\ ~(returned' = "success" \/ k = Len(rs) + 1)
    BY <1>1, <1>2
  <1> HIDE DEF rs, k
  <1>5. Vm!Link
    BY <1>1, <1>2, <1>3, <1>4, LinkVm
  <1> QED
    BY <1>2, <1>5 DEF Stepped, Vm!ANext

LEMMA LinkFailsOpen ==
    ASSUME VInv, VInv', RInv, sys.name = "link", Idle, NEW code \in {"EIO", "EFAULT"},
           Quit(code), NEW copied, RegionOpen(Region, copied, Memory, seen),
           RegionsDone(sys.regions, sys.region, Part(Region), Memory, seen),
           code = "EFAULT" => \E a \in Part(Region) : ~seen[a].readable
    PROVE  Stepped
  <1>1. /\ Space /\ Space' /\ WellFormed(seen) /\ Vm!Running /\ sys.regions \in RegionLists
        /\ sys.region \in 1 .. Len(sys.regions) /\ Len(sys.regions) \in Nat
    BY LinkIdle, RegionFacts DEF LinksTo
  <1>2. RInv' /\ seen' = Memory /\ returned' = code
    BY <1>1, QuitStep
  <1>3. WellFormed(seen')
    BY <1>2 DEF RInv
  <1> DEFINE rs == sys.regions
             k == sys.region
             open == Part(rs[k])
  <1>4. /\ rs \in RegionLists /\ k \in 1 .. Len(rs) + 1 /\ RegionsDone(rs, k, open, seen', seen)
        /\ open = IF k <= Len(rs) /\ returned' \in {"EIO", "EFAULT"} THEN Part(rs[k]) ELSE {}
        /\ ~(returned' = "success" \/ k = Len(rs) + 1)
        /\ RegionOpen(rs[k], copied, seen', seen)
        /\ returned' = "EFAULT" => \E a \in open : ~seen[a].readable
    BY <1>1, <1>2 DEF Region
  <1> HIDE DEF rs, k, open
  <1>5. Vm!Link
    BY <1>1, <1>2, <1>3, <1>4, LinkVm
  <1> QED
    BY <1>2, <1>5 DEF Stepped, Vm!ANext

-----------------------------------------------------------------------------
(* map_with_linking_np: the steps inside a region.                         *)

LEMMA LinksAt ==
    ASSUME NEW t, NEW mem, NEW old, NEW q, NEW r, NEW region, region = t.regions[t.region],
           t.regions \in RegionLists, t.stage \in {"copy", "page", "fix", "fixed", "close"},
           RegionsDone(t.regions, t.region, Part(region), mem, old),
           t.stage \in {"page", "close"} => q = NoReq,
           t.stage = "copy" => CopiesTo(region, t.done, mem, old, q, r),
           t.stage # "copy" => RegionOpen(region, region.size, mem, old),
           t.stage = "fix" => Reading(q, r, mem, region.address + t.done + region.chain[t.link]),
           t.stage = "fixed" =>
              q = Req("write", region.address + t.done + region.chain[t.link], 1, {"W"}, <<Linked>>)
    PROVE  LinksTo(t, mem, old, q, r)
  BY DEF LinksTo

\* What is known at a stage inside a region, once its access is over.
LEMMA LinkInside ==
    ASSUME VInv, VInv', RInv, sys.name = "link", Idle,
           sys.stage \in {"copy", "page", "fix", "fixed", "close"}
    PROVE  /\ sys.regions \in RegionLists
           /\ RegionsDone(sys.regions, sys.region, Part(Region), Memory, seen)
           /\ sys.stage = "copy" => Succeeded /\ RegionOpen(Region, sys.done, Memory, seen)
           /\ sys.stage # "copy" => RegionOpen(Region, Region.size, Memory, seen)
           /\ sys.stage = "fix" =>
                Reading(Request, VisibleResult, Memory,
                        Region.address + sys.done + Region.chain[sys.link])
           /\ sys.stage = "fixed" => Succeeded
  <1>1. /\ Request = NoReq /\ VisibleResult = result
        /\ LinksTo(sys, Memory, seen, Request, VisibleResult)
    BY LinkIdle
  <1> DEFINE cell == Region.address + sys.done + Region.chain[sys.link]
  <1>2. /\ sys.regions \in RegionLists
        /\ RegionsDone(sys.regions, sys.region, Part(Region), Memory, seen)
        /\ sys.stage = "copy" => CopiesTo(Region, sys.done, Memory, seen, Request, VisibleResult)
        /\ sys.stage \in {"page", "fix", "fixed", "close"} =>
             RegionOpen(Region, Region.size, Memory, seen)
        /\ sys.stage = "fix" => Reading(Request, VisibleResult, Memory, cell)
        /\ sys.stage = "fixed" => \/ Request = Req("write", cell, 1, {"W"}, <<Linked>>)
                                  \/ Request = NoReq /\ VisibleResult.status = "success"
    BY <1>1, Zenon DEF LinksTo, Region
  <1>3. \A address, size, required, data : Request # Req("write", address, size, required, data)
    BY <1>1 DEF NoReq, Req, Flat!NoRequest
  <1>4. sys.stage = "copy" => Succeeded /\ RegionOpen(Region, sys.done, Memory, seen)
    BY <1>1, <1>2, <1>3 DEF CopiesTo, Succeeded
  <1>5. sys.stage = "fixed" => Succeeded
    BY <1>1, <1>2, <1>3 DEF Succeeded
  <1> HIDE DEF cell
  <1> QED
    BY <1>2, <1>4, <1>5 DEF cell

LEMMA LinkOpenStepped ==
    ASSUME VInv, VInv', RInv, linkOpen
    PROVE  Stepped
  <1> DEFINE t == [sys EXCEPT !.stage = "copy", !.done = 0]
             rw == {"R", "W"}
  <1>1. sys.name = "link" /\ sys.stage = "open" /\ Idle
    BY DEF linkOpen, At
  <1>2. /\ Space /\ Space' /\ sys \in SysType /\ returned = "none" /\ WellFormed(seen)
        /\ LinksTo(sys, Memory, seen, Request, VisibleResult)
    BY <1>1, LinkIdle
  <1>3. /\ RegionsDone(sys.regions, sys.region, {}, Memory, seen) /\ sys.regions \in RegionLists
        /\ Region.address % PageSize = 0 /\ "X" \notin Region.permissions
        /\ Checking(Request, VisibleResult, Memory, Region.address, Region.size, {"R"})
    BY <1>1, <1>2, Zenon DEF LinksTo, Region
  <1>4. CASE Quit("EINVAL")
    <2>1. Return("EINVAL") /\ Idle' /\ Memory' = Memory
      BY <1>1, <1>2, <1>4, StillMemory DEF Quit
    <2> QED
      BY <1>1, <1>3, <2>1, LinkFails
  <1>5. ASSUME Succeeded, protect(Region.address, Region.size, rw, FALSE),
               \/ result'.status = "success" /\ Continue(t)
               \/ result'.status # "success" /\ Return("EACCES")
        PROVE  Stepped
    <2>1. /\ Region \in RegionType /\ Region.address \in Address /\ Region.size \in Address
          /\ Region.size # 0 /\ Region.size % PageSize = 0 /\ rw \in Permission
      BY <1>1, RegionFacts DEF VInv, Linking, Region, Permission
    <2> HIDE DEF rw
    <2>2. /\ Idle'
          /\ \/ result'.status # "success" /\ Memory' = Memory
             \/ /\ result'.status = "success" /\ ~RangeOverflows(Region.address, Region.size)
                /\ \A a \in Address : a \notin Between(Region.address, Region.size)
                     => Memory'[a] = Memory[a]
                /\ \A a \in Between(Region.address, Region.size) :
                     Protected(Memory[a], Memory'[a], rw, FALSE)
      BY <1>2, <1>3, <1>5, <2>1, PagesProtected
    <2>3. CASE result'.status # "success"
      BY <1>1, <1>3, <1>5, <2>2, <2>3, LinkFails
    <2>4. CASE result'.status = "success"
      <3> DEFINE region == Region
                 rs == sys.regions
                 k == sys.region
                 old == seen
                 new == Memory'
                 mem == Memory
      <3>1. Continue(t) /\ ~RangeOverflows(region.address, region.size)
        BY <1>5, <2>2, <2>4
      <3>2. \A a \in Part(region) : Grants(mem, a, {"R"})
        BY <1>1, <1>3, <1>5, CheckedIdle DEF Part
      <3>3. \A a \in Address : a \notin Part(region) => new[a] = mem[a]
        BY <2>2, <2>4 DEF Part
      <3>4. \A a \in Part(region) : Protected(mem[a], new[a], {"R", "W"}, FALSE)
        BY <2>2, <2>4 DEF Part, rw
      <3>5. WellFormed(old) /\ RegionsDone(rs, k, {}, mem, old) /\ region \in RegionType
            /\ region.address % PageSize = 0 /\ "X" \notin region.permissions
        BY <1>2, <1>3, <2>1
      <3>6. region = t.regions[t.region] /\ t.regions = rs /\ t.region = k /\ t.done = 0
            /\ t.name = "link" /\ t.stage = "copy"
        BY <1>1, <1>2 DEF SysType, Region
      <3> HIDE DEF region, rs, k, old, new, mem, t
      <3>7. WellFormed(old)
        BY <3>5
      <3>8. RegionsDone(rs, k, {}, mem, old)
        BY <3>5
      <3>9. region \in RegionType
        BY <3>5
      <3>10. region.address % PageSize = 0
        BY <3>5
      <3>11. "X" \notin region.permissions
        BY <3>5
      <3>12. ~RangeOverflows(region.address, region.size)
        BY <3>1
      <3>13. RegionOpen(region, 0, new, old) /\ RegionsDone(rs, k, Part(region), new, old)
        BY ONLY <3>2, <3>3, <3>4, <3>7, <3>8, <3>9, <3>10, <3>11, <3>12, OpenedRegion
      <3>14. Request' = NoReq /\ VisibleResult' = result'
        BY <2>2, IdleReqNext
      <3>15. CopiesTo(region, t.done, new, old, Request', VisibleResult')
        BY <2>4, <3>6, <3>13, <3>14 DEF CopiesTo
      <3>16. t.regions \in RegionLists
        BY <1>3, <3>6 DEF rs
      <3>17. LinksTo(t, new, old, Request', VisibleResult')
        BY <3>6, <3>13, <3>15, <3>16, LinksAt
      <3>18. LinksTo(t, Memory', seen, Request', VisibleResult')
        BY <3>17 DEF new, old
      <3> QED
        BY <1>2, <3>1, <3>6, <3>18, LinkContinue
    <2> QED
      BY <2>3, <2>4
  <1> HIDE DEF t
  <1> QED
    BY <1>4, <1>5, Zenon DEF linkOpen, t, rw

LEMMA LinkCopyStepped ==
    ASSUME VInv, VInv', RInv, linkCopy
    PROVE  Stepped
  <1>1. sys.name = "link" /\ sys.stage = "copy" /\ Idle
    BY DEF linkCopy, At
  <1>2. /\ Space /\ Space' /\ sys \in SysType /\ returned = "none"
        /\ Request = NoReq /\ VisibleResult = result
    BY <1>1, LinkIdle
  <1>3. /\ sys.regions \in RegionLists /\ Succeeded
        /\ RegionsDone(sys.regions, sys.region, Part(Region), Memory, seen)
        /\ RegionOpen(Region, sys.done, Memory, seen)
    BY <1>1, LinkInside
  <1>4. /\ Region.size \in Nat /\ sys.done \in Nat /\ PageSize \in Nat \ {0}
        /\ Region.address \in Nat
    BY <1>1, OpenGeometry
  <1>5. CASE Quit("EIO")
    BY <1>1, <1>3, <1>5, LinkFailsOpen
  <1>6. ASSUME sys.done < Region.size, begin("write", ChunkAt, PageSize, {"W"}, FileChunk),
               Continue([sys EXCEPT !.done = @ + PageSize])
        PROVE  Stepped
    <2> DEFINE d == sys.done + PageSize
               t == [sys EXCEPT !.done = d]
    <2>1. d \in Nat /\ d - PageSize = sys.done /\ PageSize <= d
      BY <1>4
    <2>2. Continue(t)
      BY <1>6
    <2> HIDE DEF d
    <2>3. /\ t.name = "link" /\ t.stage = "copy" /\ t.regions = sys.regions
          /\ t.region = sys.region /\ t.done = d
      BY <1>1, <1>2 DEF SysType
    <2> HIDE DEF t
    <2>4. Request' = Req("write", ChunkAt, PageSize, {"W"}, FileChunk) /\ Memory' = Memory
      BY <1>2, <1>6, BeginReq
    <2>5. CopiesTo(Region, t.done, Memory', seen, Request', VisibleResult')
      <3>1. Request' = Req("write", Region.address + (d - PageSize), PageSize, {"W"}, FileChunk)
        BY <2>1, <2>4 DEF ChunkAt
      <3> QED
        BY <1>3, <2>1, <2>3, <2>4, <3>1 DEF CopiesTo
    <2>6. Region = t.regions[t.region]
      BY <2>3 DEF Region
    <2>7. RegionsDone(t.regions, t.region, Part(Region), Memory', seen) /\ t.regions \in RegionLists
      BY <1>3, <2>3, <2>4
    <2>8. LinksTo(t, Memory', seen, Request', VisibleResult')
      BY <2>3, <2>5, <2>6, <2>7, LinksAt
    <2> QED
      BY <1>2, <2>2, <2>3, <2>8, LinkContinue
  <1>7. ASSUME sys.done = Region.size, Continue([sys EXCEPT !.stage = "page", !.done = 0]),
               UNCHANGED vars
        PROVE  Stepped
    <2> DEFINE t == [sys EXCEPT !.stage = "page", !.done = 0]
    <2>1. /\ t.name = "link" /\ t.stage = "page" /\ t.regions = sys.regions
          /\ t.region = sys.region
      BY <1>1, <1>2 DEF SysType
    <2>2. Continue(t)
      BY <1>7
    <2> HIDE DEF t
    <2>3. Request' = NoReq /\ Memory' = Memory
      BY <1>2, <1>7, StillMemory
    <2>4. Region = t.regions[t.region]
      BY <2>1 DEF Region
    <2>5. /\ RegionsDone(t.regions, t.region, Part(Region), Memory', seen)
          /\ t.regions \in RegionLists /\ RegionOpen(Region, Region.size, Memory', seen)
      BY <1>3, <1>7, <2>1, <2>3
    <2>6. LinksTo(t, Memory', seen, Request', VisibleResult')
      BY <2>1, <2>3, <2>4, <2>5, LinksAt
    <2> QED
      BY <1>2, <2>1, <2>2, <2>6, LinkContinue
  <1> QED
    BY <1>5, <1>6, <1>7, Zenon DEF linkCopy

\* A step from one place inside a region to another, without an access.
LEMMA LinkMoves ==
    ASSUME VInv, VInv', RInv, sys.name = "link", Idle, sys.stage \in {"page", "fixed"},
           NEW t, t.name = "link", t.stage \in {"page", "close"}, t.regions = sys.regions,
           t.region = sys.region, Continue(t), UNCHANGED vars
    PROVE  Stepped
  <1>1. Space /\ Space' /\ returned = "none" /\ Request = NoReq
    BY LinkIdle
  <1>2. /\ sys.regions \in RegionLists
        /\ RegionsDone(sys.regions, sys.region, Part(Region), Memory, seen)
        /\ RegionOpen(Region, Region.size, Memory, seen)
    BY LinkInside
  <1>3. Request' = NoReq /\ Memory' = Memory
    BY <1>1, StillMemory
  <1>4. Region = t.regions[t.region]
    BY DEF Region
  <1>5. /\ RegionsDone(t.regions, t.region, Part(Region), Memory', seen)
        /\ t.regions \in RegionLists /\ RegionOpen(Region, Region.size, Memory', seen)
    BY <1>2, <1>3
  <1>6. LinksTo(t, Memory', seen, Request', VisibleResult')
    BY <1>3, <1>4, <1>5, LinksAt
  <1> QED
    BY <1>1, <1>6, LinkContinue

LEMMA LinkPageStepped ==
    ASSUME VInv, VInv', RInv, linkPage
    PROVE  Stepped
  <1> DEFINE address == ChunkAt + Region.chain[sys.link]
  <1>1. sys.name = "link" /\ sys.stage = "page" /\ Idle
    BY DEF linkPage, At
  <1>2. Space /\ Space' /\ sys \in SysType /\ returned = "none"
    BY <1>1, LinkIdle
  <1>3. /\ sys.regions \in RegionLists
        /\ RegionsDone(sys.regions, sys.region, Part(Region), Memory, seen)
        /\ RegionOpen(Region, Region.size, Memory, seen)
    BY <1>1, LinkInside
  <1>4. ASSUME Continue([sys EXCEPT !.stage = "close"]), UNCHANGED vars PROVE Stepped
    <2> DEFINE t == [sys EXCEPT !.stage = "close"]
    <2>1. /\ t.name = "link" /\ t.stage = "close" /\ t.regions = sys.regions
          /\ t.region = sys.region /\ Continue(t)
      BY <1>1, <1>2, <1>4 DEF SysType
    <2> HIDE DEF t
    <2> QED
      BY <1>1, <1>4, <2>1, LinkMoves
  <1>5. ASSUME Continue([sys EXCEPT !.done = @ + PageSize, !.link = 1]), UNCHANGED vars
        PROVE  Stepped
    <2> DEFINE t == [sys EXCEPT !.done = @ + PageSize, !.link = 1]
    <2>1. /\ t.name = "link" /\ t.stage = "page" /\ t.regions = sys.regions
          /\ t.region = sys.region /\ Continue(t)
      BY <1>1, <1>2, <1>5 DEF SysType
    <2> HIDE DEF t
    <2> QED
      BY <1>1, <1>5, <2>1, LinkMoves
  <1>6. CASE Unsupported
    BY <1>1, <1>6, UnsupportedStep
  <1>7. ASSUME sys.done < Region.size, sys.link <= Len(Region.chain),
               Enter(sys, "fix", "read", address, 1, {"R"}, << >>)
        PROVE  Stepped
    <2> DEFINE t == [sys EXCEPT !.stage = "fix"]
               q == Req("read", address, 1, {"R"}, << >>)
    <2>1. /\ t.name = "link" /\ t.stage = "fix" /\ t.regions = sys.regions
          /\ t.region = sys.region /\ t.done = sys.done /\ t.link = sys.link
      BY <1>1, <1>2, SetStage DEF Stages
    <2>2. t = [sys EXCEPT !.stage = "fix"]
      OBVIOUS
    <2> HIDE DEF t
    <2>3. Region = t.regions[t.region]
      BY <2>1 DEF Region
    <2>4. address = Region.address + t.done + Region.chain[t.link]
      BY <2>1 DEF ChunkAt
    <2>5. ASSUME NEW r PROVE LinksTo(t, Memory, seen, q, r)
      <3>1. Reading(q, r, Memory, address)
        BY DEF Reading
      <3> HIDE DEF q
      <3>2. Reading(q, r, Memory, Region.address + t.done + Region.chain[t.link])
        BY <2>4, <3>1
      <3>3. RegionsDone(t.regions, t.region, Part(Region), Memory, seen) /\ t.regions \in RegionLists
        BY <1>3, <2>1
      <3> QED
        BY <1>3, <2>1, <2>3, <3>2, <3>3, LinksAt
    <2> HIDE DEF address
    <2> QED
      BY <1>2, <1>7, <2>1, <2>2, <2>5, LinkEnter
  <1> HIDE DEF address
  <1> QED
    BY <1>4, <1>5, <1>6, <1>7, Zenon DEF linkPage, Go, address

LEMMA LinkFixStepped ==
    ASSUME VInv, VInv', RInv, linkFix
    PROVE  Stepped
  <1> DEFINE address == ChunkAt + Region.chain[sys.link]
             cell == Region.address + sys.done + Region.chain[sys.link]
  <1>1. sys.name = "link" /\ sys.stage = "fix" /\ Idle
    BY DEF linkFix, At
  <1>2. /\ Space /\ Space' /\ sys \in SysType /\ returned = "none" /\ WellFormed(seen)
        /\ Request = NoReq /\ VisibleResult = result
    BY <1>1, LinkIdle
  <1>3. /\ sys.regions \in RegionLists
        /\ RegionsDone(sys.regions, sys.region, Part(Region), Memory, seen)
        /\ RegionOpen(Region, Region.size, Memory, seen)
        /\ Reading(Request, VisibleResult, Memory, cell)
    BY <1>1, LinkInside
  <1>4. /\ cell \in Address /\ cell \in Nat /\ Region.address <= cell
        /\ cell + 1 <= Region.address + Region.size /\ cell = address
    BY <1>1, ChainGeometry
  <1>5. Region.address \in Nat /\ Region.size \in Nat
    BY <1>1, OpenGeometry
  <1> HIDE DEF cell
  <1>6. cell \in Part(Region)
    BY <1>4, <1>5 DEF Part, Between
  <1>7. ~Succeeded => ~seen[cell].readable
    <2> SUFFICES ASSUME ~Succeeded PROVE ~seen[cell].readable
      OBVIOUS
    <2>1. Request # Req("read", cell, 1, {"R"}, << >>)
      BY <1>2 DEF NoReq, Req, Flat!NoRequest
    <2>2. ~(Grants(Memory, cell, {"R"}) /\ Memory[cell].readable)
      BY <1>2, <1>3, <2>1 DEF Reading, Succeeded
    <2> DEFINE c == seen[cell]
               m == Memory[cell]
               values == {FileByte, Linked, seen[cell].value}
    <2>3. Linkable(c) /\ Relinked(c, m, values) /\ m.permissions = {"R", "W"}
      BY <1>3, <1>6 DEF RegionOpen
    <2>4. IsCell(c)
      BY <1>2, <1>4, <2>3, SeenCell DEF Linkable
    <2> HIDE DEF c, m, values
    <2>5. m.mapped /\ m.readable = c.readable
      BY <2>3, <2>4, RelinkedIs
    <2> QED
      BY <2>2, <2>3, <2>5 DEF Grants, m, c
  <1>8. CASE ~Succeeded /\ Quit("EFAULT")
    <2>1. \E a \in Part(Region) : ~seen[a].readable
      BY <1>6, <1>7, <1>8
    <2> QED
      BY <1>1, <1>3, <1>8, <2>1, LinkFailsOpen
  <1>9. CASE Unsupported
    BY <1>1, <1>9, UnsupportedStep
  <1>10. ASSUME Enter(sys, "fixed", "write", address, 1, {"W"}, <<Linked>>)
         PROVE  Stepped
    <2> DEFINE t == [sys EXCEPT !.stage = "fixed"]
               data == <<Linked>>
               q == Req("write", address, 1, {"W"}, data)
    <2>1. /\ t.name = "link" /\ t.stage = "fixed" /\ t.regions = sys.regions
          /\ t.region = sys.region /\ t.done = sys.done /\ t.link = sys.link
      BY <1>1, <1>2, SetStage DEF Stages
    <2>2. t = [sys EXCEPT !.stage = "fixed"]
      OBVIOUS
    <2> HIDE DEF t
    <2>3. Region = t.regions[t.region]
      BY <2>1 DEF Region
    <2>4. q = Req("write", Region.address + t.done + Region.chain[t.link], 1, {"W"}, <<Linked>>)
      BY <2>1 DEF ChunkAt
    <2>5. RegionsDone(t.regions, t.region, Part(Region), Memory, seen) /\ t.regions \in RegionLists
      BY <1>3, <2>1
    <2>6. ASSUME NEW r PROVE LinksTo(t, Memory, seen, q, r)
      <3> HIDE DEF q, data
      <3> QED
        BY <1>3, <2>1, <2>3, <2>4, <2>5, LinksAt
    <2> HIDE DEF address
    <2>7. Enter(sys, "fixed", "write", address, 1, {"W"}, data)
      BY <1>10
    <2> HIDE DEF data
    <2> QED
      BY <1>2, <2>1, <2>2, <2>6, <2>7, LinkEnter
  <1> HIDE DEF address
  <1> QED
    BY <1>8, <1>9, <1>10, Zenon DEF linkFix, Go, address

LEMMA LinkFixedStepped ==
    ASSUME VInv, VInv', RInv, linkFixed
    PROVE  Stepped
  <1> DEFINE t == [sys EXCEPT !.stage = "page", !.link = @ + 1]
  <1>1. sys.name = "link" /\ sys.stage = "fixed" /\ Idle
    BY DEF linkFixed, At
  <1>2. Succeeded /\ sys \in SysType
    BY <1>1, LinkInside, LinkIdle
  <1>3. Continue(t) /\ UNCHANGED vars
    BY <1>2 DEF linkFixed
  <1>4. t.name = "link" /\ t.stage = "page" /\ t.regions = sys.regions /\ t.region = sys.region
    BY <1>1, <1>2 DEF SysType
  <1> HIDE DEF t
  <1> QED
    BY <1>1, <1>3, <1>4, LinkMoves

LEMMA LinkCloseStepped ==
    ASSUME VInv, VInv', RInv, linkClose
    PROVE  Stepped
  <1> DEFINE p == Region.permissions
  <1>1. /\ sys.name = "link" /\ sys.stage = "close" /\ Idle
        /\ protect(Region.address, Region.size, p, FALSE)
    BY DEF linkClose, At
  <1>2. Space /\ Space' /\ sys \in SysType /\ returned = "none" /\ WellFormed(seen) /\ Vm!Running
    BY <1>1, LinkIdle
  <1>3. /\ sys.regions \in RegionLists
        /\ RegionsDone(sys.regions, sys.region, Part(Region), Memory, seen)
        /\ RegionOpen(Region, Region.size, Memory, seen)
    BY <1>1, LinkInside
  <1>4. /\ Region \in RegionType /\ Region.address + Region.size <= Limit
        /\ Region.size # 0 /\ Region.size % PageSize = 0
        /\ Region.address \in Nat /\ Region.size \in Nat
    BY <1>1, OpenGeometry
  <1>5. /\ Region.address \in Address /\ Region.size \in Address /\ p \in Permission
        /\ sys.region \in 1 .. Len(sys.regions) /\ Len(sys.regions) \in Nat /\ sys.region \in Nat
    BY <1>1, RegionFacts
  <1>6. /\ Region.address % PageSize = 0 /\ p \subseteq {"R", "W"}
        /\ ~RangeOverflows(Region.address, Region.size)
    BY <1>3 DEF RegionOpen
  <1> HIDE DEF p
  <1>7. ASSUME NEW a \in Between(Region.address, Region.size)
        PROVE  Memory[a].mapped /\ p \subseteq Memory[a].maximum
    <2> DEFINE c == seen[a]
               m == Memory[a]
               values == {FileByte, Linked, seen[a].value}
    <2>1. Linkable(c) /\ Relinked(c, m, values) /\ a \in Address
      BY <1>3 DEF RegionOpen, Part, Between
    <2>2. IsCell(c)
      BY <1>2, <2>1, SeenCell DEF Linkable
    <2> HIDE DEF c, m, values
    <2>3. m.mapped /\ m.maximum = c.maximum
      BY <2>1, <2>2, RelinkedIs
    <2> QED
      BY <1>6, <2>1, <2>3 DEF Linkable, m
  <1>8. Stops(Region.address, Region.address + Region.size, p, FALSE) = {}
    BY <1>1, <1>2, <1>4, <1>7, NothingStops
  <1>9. /\ Idle' /\ result'.status = "success"
        /\ \A a \in Address : a \notin Between(Region.address, Region.size)
             => Memory'[a] = Memory[a]
        /\ \A a \in Between(Region.address, Region.size) :
             Protected(Memory[a], Memory'[a], p, FALSE)
    BY <1>1, <1>2, <1>4, <1>5, <1>6, <1>8, PagesProtected
  <1>10. RegionsDone(sys.regions, sys.region + 1, {}, Memory', seen)
    <2> DEFINE region == Region
               rs == sys.regions
               k == sys.region
               old == seen
               new == Memory'
               mem == Memory
    <2>1. \A a \in Address : a \notin Part(region) => new[a] = mem[a]
      BY <1>9 DEF Part
    <2>2. \A a \in Part(region) : Protected(mem[a], new[a], region.permissions, FALSE)
      BY <1>9 DEF Part, p
    <2>3. region = rs[k] /\ k \in Nat \ {0}
      BY <1>5 DEF Region
    <2>4. /\ WellFormed(old) /\ RegionsDone(rs, k, Part(region), mem, old) /\ region \in RegionType
          /\ RegionOpen(region, region.size, mem, old)
      BY <1>2, <1>3, <1>4
    <2> HIDE DEF region, rs, k, old, new, mem
    <2>5. WellFormed(old)
      BY <2>4
    <2>6. RegionsDone(rs, k, Part(region), mem, old)
      BY <2>4
    <2>7. region \in RegionType
      BY <2>4
    <2>8. RegionOpen(region, region.size, mem, old)
      BY <2>4
    <2>9. RegionsDone(rs, k + 1, {}, new, old)
      BY ONLY <2>1, <2>2, <2>3, <2>5, <2>6, <2>7, <2>8, ClosedRegion
    <2> QED
      BY <2>9 DEF rs, k, new, old
  <1>11. ASSUME sys.region = Len(sys.regions), Return("success") PROVE Stepped
    <2>1. RInv' /\ seen' = Memory' /\ returned' = "success"
      BY <1>2, <1>9, <1>11, ReturnKeeps
    <2>2. WellFormed(seen')
      BY <2>1 DEF RInv
    <2> DEFINE rs == sys.regions
               k == sys.region + 1
               open == {}
    <2>3. /\ rs \in RegionLists /\ k \in 1 .. Len(rs) + 1 /\ RegionsDone(rs, k, open, seen', seen)
          /\ open = IF k <= Len(rs) /\ returned' \in {"EIO", "EFAULT"} THEN Part(rs[k]) ELSE {}
          /\ k = Len(rs) + 1
      BY <1>3, <1>5, <1>10, <1>11, <2>1
    <2> HIDE DEF rs, k
    <2>4. Vm!Link
      BY <1>2, <2>1, <2>2, <2>3, LinkVm
    <2> QED
      BY <2>1, <2>4 DEF Stepped, Vm!ANext
  <1>12. ASSUME Continue([sys EXCEPT !.stage = "region", !.region = @ + 1, !.done = 0])
         PROVE  Stepped
    <2> DEFINE n == sys.region + 1
               t == [sys EXCEPT !.stage = "region", !.region = n, !.done = 0]
    <2>1. Continue(t) /\ RegionsDone(sys.regions, n, {}, Memory', seen)
      BY <1>10, <1>12
    <2> HIDE DEF n
    <2>2. t.name = "link" /\ t.stage = "region" /\ t.regions = sys.regions /\ t.region = n
      BY <1>1, <1>2 DEF SysType
    <2> HIDE DEF t
    <2>3. Request' = NoReq
      BY <1>9, IdleReqNext
    <2>4. LinksTo(t, Memory', seen, Request', VisibleResult')
      BY <1>3, <2>1, <2>2, <2>3, LinksRegion
    <2> QED
      BY <1>2, <2>1, <2>2, <2>4, LinkContinue
  <1> QED
    BY <1>9, <1>11, <1>12, Zenon DEF linkClose

LEMMA LinkStepped ==
    ASSUME VInv, VInv', RInv, LinkNext
    PROVE  Stepped
  BY LinkStartStepped, LinkListStepped, LinkBlobStepped, LinkRegionStepped, LinkOpenStepped,
     LinkCopyStepped, LinkPageStepped, LinkFixStepped, LinkFixedStepped, LinkCloseStepped, Zenon
     DEF LinkNext

-----------------------------------------------------------------------------
(* Every step.                                                             *)

LEMMA PlaceNextStepped ==
    ASSUME VInv, VInv', RInv, PlaceNext
    PROVE  Stepped
  BY AllocateStepped, MapStepped, MessageStepped, MmapStepped, MmapFileStepped,
     AllocateHintStepped, PlaceStepped, SearchStepped, InstallStepped, CopyoutStepped,
     PlacedStepped, ReserveStepped, ReservedStepped, Zenon DEF PlaceNext

\* Before the startup code has mapped anything there is no cell.
LEMMA RefinedInit == VmInit => RInv /\ Vm!AInit
  <1> SUFFICES ASSUME VmInit PROVE RInv /\ Vm!AInit
    OBVIOUS
  <1>1. VInv /\ Idle /\ mappings = {}
    BY VmInitVInv DEF VmInit, Init, Idle
  <1>2. WellFormed(Memory) /\ \A a \in Address : ~Memory[a].mapped
    BY <1>1, MemoryWellFormed DEF VInv, Space
  <1>3. Memory = [a \in Address |-> Memory[a]] /\ \A a \in Address : Memory[a] = Nowhere
    BY <1>2 DEF WellFormed
  <1>4. seen = [a \in Address |-> Nowhere]
    BY DEF VmInit, Nowhere
  <1>5. seen = Memory
    BY <1>3, <1>4
  <1>6. sys = Away("loading") /\ sys.name = "loading" /\ returned = "loading"
    BY AwayType DEF VmInit, Names
  <1>7. StageOK(sys, Memory, seen, Request, VisibleResult)
    BY <1>6, RestingStage
  <1>8. Outcome(sys, returned)
    BY <1>6 DEF Outcome
  <1>9. RInv
    BY <1>2, <1>5, <1>6, <1>7, <1>8 DEF RInv
  <1>10. Vm!AInit
    BY <1>4, <1>6 DEF Vm!AInit, Vm!Addresses, Address, Nowhere
  <1> QED
    BY <1>9, <1>10

LEMMA RefinedStutter ==
    ASSUME VInv, VInv', RInv, UNCHANGED vmvars
    PROVE  RInv' /\ UNCHANGED Vm!avars
  <1>1. UNCHANGED vars /\ sys' = sys /\ returned' = returned /\ seen' = seen
    BY DEF vmvars
  <1>2. /\ Memory' = Memory /\ Request' = Request /\ VisibleResult' = VisibleResult
        /\ (Idle' <=> Idle) /\ (Crashed' <=> Crashed)
    BY <1>1, StillMemory DEF VInv
  <1>3. RInv'
    BY <1>1, <1>2 DEF RInv
  <1>4. UNCHANGED Vm!avars
    BY <1>1 DEF Vm!avars, Placement
  <1> QED
    BY <1>3, <1>4

LEMMA RefinedStep ==
    VInv /\ VInv' /\ RInv /\ [VmNext]_vmvars => RInv' /\ [Vm!ANext]_(Vm!avars)
  <1> SUFFICES ASSUME VInv, VInv', RInv, [VmNext]_vmvars
               PROVE  RInv' /\ [Vm!ANext]_(Vm!avars)
    OBVIOUS
  <1>1. CASE UNCHANGED vmvars
    BY <1>1, RefinedStutter
  <1>2. CASE VmNext
    <2>1. Stepped
      BY <1>2, OutsideStepped, AccessStepped, PlaceNextStepped, SmallStepped, LinkStepped
         DEF VmNext
    <2> QED
      BY <2>1 DEF Stepped
  <1> QED
    BY <1>1, <1>2

-----------------------------------------------------------------------------
(* The theorem.                                                            *)

\* The memory calls of SyscallMemory.cpp and Mach.cpp are atomic to the guest, for every page
\* size, address range, map, request and interleaving of failures: a call succeeds with exactly
\* the effect VmCalls promises, at the lowest address that fits where it chooses one, or fails
\* and leaves all of memory as it was, but for the two calls that VmCalls lets end half done.
THEOREM CallsAreAtomic == VmSpec => VmCallsRefinement
  <1>1. VmSpec => [](VInv /\ RInv)
    <2>1. VmInit => VInv /\ RInv
      BY VmInitVInv, RefinedInit
    <2>2. (VInv /\ RInv) /\ [VmNext]_vmvars => (VInv /\ RInv)'
      BY VmNextKeeps, RefinedStep
    <2> QED
      BY <2>1, <2>2, PTL DEF VmSpec
  <1>2. VmInit => Vm!AInit
    BY RefinedInit
  <1> QED
    BY <1>1, <1>2, RefinedStep, PTL DEF VmSpec, VmCallsRefinement, Vm!ASpec

=============================================================================
