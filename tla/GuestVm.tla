------------------------------ MODULE GuestVm -------------------------------
(***************************************************************************)
(* The memory calls of the Darwin boundary, on top of guest::AddressSpace: *)
(* the BSD calls of SyscallMemory.cpp, the Mach VM traps 10, 12, 14 and 15 *)
(* and the mach_vm_map message of Mach.cpp.                                *)
(*                                                                         *)
(* A call is a sequence of calls on the address space, each of them an     *)
(* action of AddressSpace or, for an access to guest memory, its begin and *)
(* the iterations that follow; `sys' is the place the handler has reached. *)
(* There is one guest thread, so nothing runs between them.  A structure   *)
(* in guest memory (an address, a reply, the region list, the blob) is one *)
(* cell: the accesses that matter are whether it is mapped and what        *)
(* address it holds.                                                       *)
(***************************************************************************)
EXTENDS AddressSpaceRefinement

CONSTANTS
    Linked,            \* what a fixup leaves in a chained cell
    MinimumMap,        \* minimumAnywhereAddress and minimumMmapAddress
    MaximumUserMapEnd, \* maximumUserMapEnd
    SharedRegion,      \* regionStart() + slide() of the shared cache
    Masks,             \* alignment masks asked of mach_vm_map
    Pointers,          \* where the guest keeps the structures it passes
    CallSizes,         \* sizes asked of the calls that map
    MapProtections,    \* protections asked of mmap and mach_vm_map
    ChangeBases,       \* addresses asked of the calls that protect and deallocate
    FixedBases,        \* addresses asked of the mach_vm_map message
    Hints,             \* addresses the guest stores before a call
    RegionLists,       \* regions asked of map_with_linking_np, which may overlap
    MaxCalls           \* bound on the maps and calls of one behaviour

\* What the calls keep in a cell is an address.
ASSUME VmAssumption ==
    /\ Value = Address
    /\ {Linked, SharedRegion} \cup Hints \cup FixedBases \subseteq Address
    /\ ChangeBases \subseteq Address
    /\ {MinimumMap, MaximumUserMapEnd} \subseteq Address
    /\ MinimumMap % PageSize = 0
    /\ MaxCalls \in Nat
    /\ MapProtections \subseteq Permission
    /\ Masks \subseteq Nat /\ Pointers \subseteq Address /\ CallSizes \subseteq Address
    /\ RegionLists \subseteq Seq([address : Address, size : Address, permissions : Permission,
                                  chain : Seq(Nat)])

VARIABLES
    sys,      \* the call being handled
    returned, \* what the last call returned to the guest
    calls,    \* maps of the startup code and calls of the guest so far
    seen      \* history: memory as the guest last saw it, when it made the call

vmvars == <<vars, sys, returned, calls, seen>>

PageMask == PageSize - 1

-----------------------------------------------------------------------------
(* The handler's place.                                                    *)

Away(name) ==
    [name |-> name, stage |-> "none", pointer |-> 0, size |-> 0, permissions |-> {}, mask |-> 0,
     fixed |-> FALSE, candidate |-> 0, address |-> 0,
     regions |-> << >>, region |-> 1, done |-> 0, link |-> 1]

Ready == sys = Away("none") /\ returned = "none" /\ Idle /\ calls < MaxCalls
At(name, stage) == sys.name = name /\ sys.stage = stage /\ Idle
Succeeded == result.status = "success"

VmInit ==
    /\ Init
    /\ sys = Away("loading")
    /\ returned = "loading"
    /\ calls = 0
    /\ seen = [a \in Address |-> [mapped |-> FALSE]]

Return(code) == sys' = Away("none") /\ returned' = code /\ seen' = Memory' /\ UNCHANGED calls
Quit(code) == UNCHANGED vars /\ Return(code)
\* A call refused before it has done anything: memory is what the guest last saw.
Refuse(code) == returned' = code /\ UNCHANGED <<vars, sys, calls, seen>>
Continue(next) == sys' = next /\ UNCHANGED <<returned, calls, seen>>
\* An exception no handler catches ends the emulation.
Throw == sys' = Away("stopped") /\ returned' = "stopped" /\ UNCHANGED <<calls, seen>>
Unsupported == Throw /\ UNCHANGED vars

\* A handler starts, or goes on, with an access to guest memory.
Enter(args, stage, op, address, size, required, data) ==
    /\ begin(op, address, size, required, data)
    /\ Continue([args EXCEPT !.stage = stage])
Go(stage, op, address, size, required, data) == Enter(sys, stage, op, address, size, required, data)

-----------------------------------------------------------------------------
(* Choosing an address.                                                    *)

NoAddress == -1

\* Mutant: no overflow check, so that the sum wraps.
alignUpWraps(value, mask) == (((value + mask) % (Limit + 1)) \div (mask + 1)) * (mask + 1)

alignUp(value, mask) ==
    IF value > Limit - mask THEN NoAddress
                            ELSE ((value + mask) \div (mask + 1)) * (mask + 1)

\* Mutant: the search goes on from the end of the mapping without aligning it again.
walkPastUnaligned(m, mask) == End(m)

\* The candidate after a mapping that is in the way.
walkPast(m, mask) == alignUp(End(m), mask)

\* The search of findAnywhereRange and findMmapRange starts at an aligned candidate.
StartSearch(args, first) ==
    Continue([args EXCEPT !.stage = "search", !.candidate = first]) /\ UNCHANGED vars

NoSpace == Quit(IF sys.name = "mmap" THEN "ENOMEM" ELSE "noSpace")

\* One iteration of the loop over the sorted mappings; those that end below the candidate are
\* passed over.  The loop stops at the first gap that is large enough and gives up when the next
\* candidate does not exist; above the last mapping the user range is the limit.
search ==
    /\ sys.stage = "search" /\ Idle
    /\ LET candidate == sys.candidate
           ahead == {m \in mappings : candidate < End(m)}
           Chosen == /\ Continue([sys EXCEPT !.stage = "place", !.address = candidate])
                     /\ UNCHANGED vars
       IN  \/ \E m \in ahead :
               LET fits == candidate <= m.base /\ sys.size <= m.base - candidate
                   next == walkPast(m, sys.mask)
               IN  /\ \A n \in ahead : m.base <= n.base
                   /\ \/ fits /\ Chosen
                      \/ ~fits /\ next = NoAddress /\ NoSpace
                      \/ ~fits /\ next # NoAddress /\ StartSearch(sys, next)
           \/ LET fits == candidate <= MaximumUserMapEnd
                          /\ sys.size <= MaximumUserMapEnd - candidate
              IN  /\ ahead = {}
                  /\ IF fits THEN Chosen ELSE NoSpace

RoundUp(size) == PageCeiling(size)
SizeIsValid(size) == size # 0 /\ size <= Limit - PageMask

-----------------------------------------------------------------------------
(* Traps 10 and 15 and the mach_vm_map message.                            *)

\* Trap 10.  Any placement but anywhere is refused.
machVmAllocate(task, pointer, size, anywhere) ==
    /\ Ready
    /\ \/ ~task /\ Refuse("invalidDestination")
       \/ task /\ ~(anywhere /\ SizeIsValid(size)) /\ Refuse("invalidArgument")
       \/ /\ task /\ anywhere /\ SizeIsValid(size)
          /\ Enter([Away("allocate") EXCEPT !.pointer = pointer, !.size = RoundUp(size),
                                            !.permissions = {"R", "W"}, !.mask = PageMask],
                   "validate", "validate", pointer, 1, {"R", "W"}, << >>)

\* A run of ones that covers the page mask.
MaskIsValid(mask) ==
    /\ mask < MaximumUserMapEnd
    /\ \E k \in 1 .. mask + 1 : mask + 1 = PageSize * k /\ \E n \in 0 .. mask : k = 2 ^ n

\* No aligned address above the last one that alignUp yields leaves room for a page: the address
\* range ends on a multiple of the powers of two.
ASSUME AlignmentAssumption ==
    \A mask \in Masks : MaskIsValid(mask) =>
        \A a \in Address : a % (mask + 1) = 0 /\ a > Limit - mask => a + PageSize > Limit

\* Trap 15.
machVmMap(task, pointer, size, p, fixed, mask) ==
    /\ Ready
    /\ \/ ~task /\ Refuse("invalidDestination")
       \/ task /\ fixed /\ mask # 0 /\ Unsupported
       \/ /\ task
          /\ ~(fixed /\ mask # 0)
          /\ LET effective == IF mask = 0 THEN PageMask ELSE mask IN
             \/ /\ ~SizeIsValid(size) \/ (~fixed /\ ~MaskIsValid(effective))
                /\ Refuse("invalidArgument")
             \/ /\ SizeIsValid(size)
                /\ fixed \/ MaskIsValid(effective)
                /\ Enter([Away("map") EXCEPT !.pointer = pointer, !.size = RoundUp(size),
                                             !.permissions = p, !.mask = effective,
                                             !.fixed = fixed],
                         "hint", "read", pointer, 1, {"R"}, << >>)

\* Trap 10 has checked that the address can be written before it reads the hint.
allocateHint ==
    /\ At("allocate", "validate")
    /\ \/ ~Succeeded /\ Quit("invalidAddress")
       \/ Succeeded /\ Go("hint", "read", sys.pointer, 1, {"R"}, << >>)

\* Mutant: the end of a fixed mapping is not checked.
fixedNeverOverflows(base, size) == FALSE

fixedOverflows(base, size) == base > Limit - size

\* Mutant: only a mapping that holds the base is seen as being in the way.
overlapsAtBase(base, end) == \E m \in mappings : m.base <= base /\ base < End(m)

overlaps(base, end) == \E m \in mappings : base < End(m) /\ m.base < end

\* The hint has been read: a fixed mapping goes to its page, any other is searched for.
place ==
    /\ sys.name \in {"allocate", "map"} /\ sys.stage = "hint" /\ Idle
    /\ \/ ~Succeeded /\ Quit("invalidAddress")
       \/ /\ Succeeded /\ ~sys.fixed
          /\ LET hint == result.data[1]
                 first == alignUp(IF hint < MinimumMap THEN MinimumMap ELSE hint, sys.mask)
             IN  IF first = NoAddress THEN NoSpace ELSE StartSearch(sys, first)
       \/ /\ Succeeded /\ sys.fixed
          /\ LET base == PageFloor(result.data[1])
                 outside == fixedOverflows(base, sys.size)
                 taken == overlaps(base, base + sys.size)
             IN  \/ outside /\ Quit("invalidArgument")
                 \/ ~outside /\ taken /\ NoSpace
                 \/ /\ ~outside /\ ~taken
                    /\ Continue([sys EXCEPT !.stage = "place", !.address = base])
                    /\ UNCHANGED vars

install ==
    /\ sys.name \in {"allocate", "map"} /\ sys.stage = "place"
    /\ mapAnonymous(sys.address, sys.size, sys.permissions, {"R", "W", "X"})
    /\ \/ result'.status = "rejected" /\ Throw
       \/ result'.status = "success" /\ Continue([sys EXCEPT !.stage = "placed"])

copyout ==
    /\ sys.stage = "placed" /\ Idle
    /\ Go("copyout", "write", sys.pointer, 1, {"W"}, <<sys.address>>)

\* A failed copyout is an error of trap 15 that keeps the mapping; trap 10 does not catch it.
placed ==
    /\ sys.name \in {"allocate", "map"} /\ sys.stage = "copyout" /\ Idle
    /\ \/ Succeeded /\ Quit("success")
       \/ ~Succeeded /\ sys.name = "map" /\ Quit("invalidAddress")
       \/ ~Succeeded /\ sys.name = "allocate" /\ Unsupported

\* mach_msg2 with a mach_vm_map request: a fixed reservation without access.
machVmMapMessage(pointer, base, size) ==
    /\ Ready
    /\ LET supported == size # 0 /\ base % PageSize = 0 /\ size % PageSize = 0
                        /\ base <= Limit - size
       IN  \/ ~supported /\ Unsupported
           \/ /\ supported
              /\ Enter([Away("reserve") EXCEPT !.pointer = pointer, !.size = size,
                                               !.address = base],
                       "validate", "validate", pointer, 1, {"W"}, << >>)

reserve ==
    /\ At("reserve", "validate")
    /\ \/ ~Succeeded /\ Unsupported
       \/ /\ Succeeded
          /\ mapAnonymous(sys.address, sys.size, {}, {})
          /\ Continue([sys EXCEPT !.stage = "placed", !.done = IF result'.status = "success" THEN 1 ELSE 0])

\* The reply holds the result; a reply that cannot be written takes the reservation back.
reserved ==
    /\ At("reserve", "copyout")
    /\ \/ Succeeded /\ Quit(IF sys.done = 1 THEN "success" ELSE "noSpace")
       \/ /\ ~Succeeded
          /\ IF sys.done = 1 THEN deallocate(sys.address, sys.size) ELSE UNCHANGED vars
          /\ Throw

-----------------------------------------------------------------------------
(* The calls that are one call on the address space.                       *)

KernOf(status) ==
    CASE status = "success" -> "success"
      [] status = "invalidAddress" -> "invalidAddress"
      [] status = "protectionFailure" -> "protectionFailure"
      [] status = "invalidArgument" -> "invalidArgument"

ErrnoOf(status) ==
    CASE status = "success" -> "success"
      [] status = "invalidAddress" -> "ENOMEM"
      [] status = "protectionFailure" -> "EACCES"
      [] status = "invalidArgument" -> "EINVAL"

\* Trap 12.
machVmDeallocate(task, address, size) ==
    /\ Ready
    /\ \/ ~task /\ Refuse("invalidDestination")
       \/ task /\ deallocate(address, size) /\ Return(KernOf(result'.status))

\* Trap 14; set_maximum and protection bits it does not know are unsupported.
machVmProtect(task, known, address, size, p, copy) ==
    /\ Ready
    /\ \/ ~task /\ Refuse("invalidDestination")
       \/ task /\ ~known /\ Unsupported
       \/ task /\ known /\ protect(address, size, p, copy) /\ Return(KernOf(result'.status))

handleMprotect(known, address, size, p) ==
    /\ Ready
    /\ \/ (address % PageSize # 0 \/ ~known) /\ Refuse("EINVAL")
       \/ /\ address % PageSize = 0 /\ known
          /\ protect(address, size, p, FALSE)
          /\ Return(ErrnoOf(result'.status))

handleMunmap(address, size) ==
    /\ Ready
    /\ \/ (address % PageSize # 0 \/ size = 0) /\ Refuse("EINVAL")
       \/ /\ address % PageSize = 0 /\ size # 0
          /\ deallocate(address, size)
          /\ Return(ErrnoOf(result'.status))

\* Advice is accepted and ignored, an unknown one refused.
handleMadvise(known) == Ready /\ Refuse(IF known THEN "success" ELSE "EINVAL")

\* A private file mapping, when the protection, flags and offset are ones it knows; the address
\* is chosen here and the caller's is ignored.
handleMmap(readOnlyFile, supported, size, p) ==
    /\ Ready
    /\ \/ ~readOnlyFile /\ Refuse("EBADF")
       \/ readOnlyFile /\ ~(supported /\ p \subseteq {"R", "W"}) /\ Unsupported
       \/ /\ readOnlyFile /\ supported /\ p \subseteq {"R", "W"}
          /\ IF SizeIsValid(size)
             THEN StartSearch([Away("mmap") EXCEPT !.size = RoundUp(size), !.permissions = p,
                                                   !.mask = PageMask], MinimumMap)
             ELSE Refuse("EINVAL")

\* A file too short for the mapping is an error, one that cannot be opened or mapped an exception.
mmapFile ==
    /\ At("mmap", "place")
    /\ mapFileSegment(sys.address, sys.size, sys.permissions, {"R", "W"}, 0, 0)
    /\ \/ result'.status = "success" /\ Return("success")
       \/ result'.status = "rejected" /\ Return("EINVAL")
       \/ result'.status = "rejected" /\ Throw

handleSharedRegionCheck(pointer, cache) ==
    /\ Ready
    /\ \/ ~cache /\ Refuse("EINVAL")
       \/ cache /\ Enter([Away("check") EXCEPT !.pointer = pointer], "copyout",
                         "write", pointer, 1, {"W"}, <<SharedRegion>>)
sharedRegionChecked ==
    At("check", "copyout") /\ Quit(IF Succeeded THEN "success" ELSE "EFAULT")

-----------------------------------------------------------------------------
(* map_with_linking_np.                                                    *)

Region == sys.regions[sys.region]
\* The copy of a region is made in chunks; here a chunk is a page.
ChunkAt == Region.address + sys.done

handleMapWithLinking(regions, blob) ==
    /\ Ready
    /\ \/ regions = << >> /\ Refuse("EINVAL")
       \/ regions # << >>
          /\ Enter([Away("link") EXCEPT !.regions = regions, !.pointer = blob],
                   "list", "read", blob, 1, {"R"}, << >>)

linkList ==
    /\ At("link", "list")
    /\ \/ ~Succeeded /\ Quit("EFAULT")
       \/ Succeeded /\ Go("blob", "read", sys.pointer, 1, {"R"}, << >>)

\* The descriptor, the header of the blob and the host file are examined before any region is.
linkBlob ==
    /\ At("link", "blob")
    /\ \/ ~Succeeded /\ Quit("EFAULT")
       \/ Succeeded /\ Quit("EBADF")
       \/ Succeeded /\ Quit("EIO")
       \/ Succeeded /\ Unsupported
       \/ /\ Succeeded
          /\ Continue([sys EXCEPT !.stage = "region", !.pointer = 0])
          /\ UNCHANGED vars

\* A region that is not made of pages, is executable or ends past the host file is unsupported.
linkRegion ==
    /\ At("link", "region")
    /\ LET supported == /\ Region.size # 0
                        /\ Region.address % PageSize = 0
                        /\ Region.size % PageSize = 0
                        /\ "X" \notin Region.permissions
       IN  \/ Unsupported
           \/ supported /\ Go("open", "validate", Region.address, Region.size, {"R"}, << >>)

\* The region is opened for writing.
linkOpen ==
    /\ At("link", "open")
    /\ \/ ~Succeeded /\ Quit("EINVAL")
       \/ /\ Succeeded
          /\ protect(Region.address, Region.size, {"R", "W"}, FALSE)
          /\ \/ /\ result'.status = "success"
                /\ Continue([sys EXCEPT !.stage = "copy", !.done = 0])
             \/ result'.status # "success" /\ Return("EACCES")

FileChunk == [i \in 1 .. PageSize |-> FileByte]

\* A chunk is read from the host file, which may have become shorter, and stored.
linkCopy ==
    /\ At("link", "copy")
    /\ \/ ~Succeeded /\ Quit("EIO")
       \/ Succeeded /\ sys.done < Region.size /\ Quit("EIO")
       \/ /\ Succeeded
          /\ sys.done < Region.size
          /\ begin("write", ChunkAt, PageSize, {"W"}, FileChunk)
          /\ Continue([sys EXCEPT !.done = @ + PageSize])
       \/ /\ Succeeded
          /\ sys.done = Region.size
          /\ Continue([sys EXCEPT !.stage = "page", !.done = 0])
          /\ UNCHANGED vars

\* applyMapWithLinkingPageFixups, for the page at sys.done.  A chain is the offsets of its cells;
\* one that leaves its page, as a page that no segment of the blob covers, is unsupported before
\* the next cell is touched.
linkPage ==
    /\ At("link", "page")
    /\ \/ /\ sys.done = Region.size
          /\ Continue([sys EXCEPT !.stage = "close"])
          /\ UNCHANGED vars
       \/ /\ sys.done < Region.size
          /\ sys.link > Len(Region.chain)
          /\ Continue([sys EXCEPT !.done = @ + PageSize, !.link = 1])
          /\ UNCHANGED vars
       \/ /\ sys.done < Region.size
          /\ sys.link <= Len(Region.chain)
          /\ \/ Region.chain[sys.link] >= PageSize /\ Unsupported
             \/ /\ Region.chain[sys.link] < PageSize
                /\ Go("fix", "read", ChunkAt + Region.chain[sys.link], 1, {"R"}, << >>)

linkFix ==
    /\ At("link", "fix")
    /\ \/ ~Succeeded /\ Quit("EFAULT")
       \/ Succeeded /\ Unsupported \* the cell binds an ordinal the blob does not have
       \/ Succeeded /\ Go("fixed", "write", ChunkAt + Region.chain[sys.link], 1, {"W"}, <<Linked>>)

linkFixed ==
    /\ At("link", "fixed")
    /\ \/ ~Succeeded /\ Quit("EFAULT")
       \/ /\ Succeeded
          /\ Continue([sys EXCEPT !.stage = "page", !.link = @ + 1])
          /\ UNCHANGED vars

\* The region gets its own protection.
linkClose ==
    /\ At("link", "close")
    /\ protect(Region.address, Region.size, Region.permissions, FALSE)
    /\ \/ result'.status # "success" /\ Return("EACCES")
       \/ result'.status = "success" /\ sys.region = Len(sys.regions) /\ Return("success")
       \/ /\ result'.status = "success" /\ sys.region < Len(sys.regions)
          /\ Continue([sys EXCEPT !.stage = "region", !.region = @ + 1, !.done = 0])

-----------------------------------------------------------------------------
(* The guest, the loader before it, and the next-state relation.           *)

\* The guest stores an address of its own choice.
guestStore(pointer, value) ==
    /\ Ready
    /\ Enter([Away("store") EXCEPT !.pointer = pointer], "store",
             "write", pointer, 1, {"W"}, <<value>>)
guestStored ==
    /\ At("store", "store")
    /\ \/ Succeeded /\ Quit("stored")
       \/ ~Succeeded /\ Unsupported

\* The startup code maps the images and the stack and reads what it has mapped.
load ==
    /\ sys.name = "loading"
    /\ \/ calls < MaxCalls /\ MapNext /\ calls' = calls + 1
       \/ (BeginNext \/ StepNext) /\ UNCHANGED calls
    /\ seen' = Memory'
    /\ UNCHANGED <<sys, returned>>

\* The handler, or the startup code, is left for the guest.
toGuest ==
    /\ returned' = "none"
    /\ result' = Returned("none", << >>)
    /\ sys' = Away("none")
    /\ UNCHANGED <<mappings, lookup, hosts, executableVersion, call, seen>>

start == sys.name = "loading" /\ Idle /\ toGuest /\ UNCHANGED calls
resume == sys.name = "none" /\ returned # "none" /\ toGuest /\ calls' = calls + 1

\* An iteration of the access the handler is waiting for.
access ==
    /\ sys.name \notin {"loading", "stopped"}
    /\ StepNext
    /\ UNCHANGED <<sys, returned, calls, seen>>

\* Storage that does not exist was accessed; the host ends the process.
crash ==
    /\ call.op = "crashed"
    /\ sys.name # "stopped"
    /\ Unsupported

LinkNext ==
    \/ \E regions \in RegionLists, blob \in Pointers : handleMapWithLinking(regions, blob)
    \/ linkList \/ linkBlob \/ linkRegion \/ linkOpen \/ linkCopy
    \/ linkPage \/ linkFix \/ linkFixed \/ linkClose

PlaceNext ==
    \/ \E task \in BOOLEAN, pointer \in Pointers, size \in CallSizes :
        \/ \E anywhere \in BOOLEAN : machVmAllocate(task, pointer, size, anywhere)
        \/ \E p \in MapProtections, fixed \in BOOLEAN, mask \in Masks \cup {0} :
              machVmMap(task, pointer, size, p, fixed, mask)
    \/ \E pointer \in Pointers, base \in FixedBases, size \in CallSizes :
        machVmMapMessage(pointer, base, size)
    \/ \E file, supported \in BOOLEAN, size \in CallSizes, p \in MapProtections :
        handleMmap(file, supported, size, p)
    \/ mmapFile \/ allocateHint \/ place \/ search \/ install \/ copyout \/ placed \/ reserve \/ reserved

SmallNext ==
    \/ \E address \in ChangeBases, size \in ChangeSizes :
        \/ \E task \in BOOLEAN : machVmDeallocate(task, address, size)
        \/ handleMunmap(address, size)
        \/ \E p \in Protections, known \in BOOLEAN :
            \/ handleMprotect(known, address, size, p)
            \/ \E copy \in Copies, task \in BOOLEAN :
                  machVmProtect(task, known, address, size, p, copy)
    \/ \E known \in BOOLEAN : handleMadvise(known)
    \/ \E pointer \in Pointers :
        \/ \E cache \in BOOLEAN : handleSharedRegionCheck(pointer, cache)
        \/ \E value \in Hints : guestStore(pointer, value)
    \/ sharedRegionChecked \/ guestStored

VmNext == load \/ start \/ resume \/ access \/ crash \/ PlaceNext \/ SmallNext \/ LinkNext

VmSpec == VmInit /\ [][VmNext]_vmvars

-----------------------------------------------------------------------------
(* Properties.                                                             *)

\* The handler's place has its type; in particular an address it has chosen is an address, so
\* that no alignment or addition has wrapped on the way to it.
SysTypeOK ==
    /\ sys.name \in {"loading", "none", "stopped", "allocate", "map", "reserve", "mmap", "check",
                     "store", "link"}
    /\ {sys.address, sys.pointer, sys.size, sys.done} \subseteq Address
    /\ sys.address + sys.size \in Address
    /\ sys.permissions \in Permission

\* The checks a trap makes before it maps are at least those of validateNewMapping, and trap 10
\* and the mach_vm_map message never fail to write what they have checked to be writable: none
\* of the exceptions the handlers of Mach.cpp leave uncaught is ever thrown, short of a host
\* that has no memory left.
CallsNeverThrow ==
    /\ sys.stage = "place" =>
         validateNewMapping(sys.address, sys.size, sys.permissions, {"R", "W", "X"})
    /\ sys.name \in {"allocate", "reserve"} /\ sys.stage = "copyout" /\ Idle => Succeeded

\* What the call that is running was asked to place.
Placement ==
    [op |-> sys.name, pointer |-> sys.pointer, size |-> sys.size, mask |-> sys.mask,
     fixed |-> sys.fixed, permissions |-> sys.permissions, address |-> sys.address]

Vm == INSTANCE VmCalls WITH cells <- seen, request <- Placement

\* To the guest every memory call is one step: it succeeds with exactly its effect, at the lowest
\* address that fits where it chooses one, or fails and leaves all of memory as it was.  The two
\* exceptions are the ones VmCalls spells out.
VmCallsRefinement == Vm!ASpec
=============================================================================
