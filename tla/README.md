# A TLA+ verification of Rosa

Rosa runs x86_64 macOS programs on AArch64 by dynamic binary translation. It
maps a Mach-O image into an emulated address space, decodes guest code into
basic blocks, lowers them through an intermediate representation to AArch64
code, runs that code from a dispatcher, and answers the guest's BSD system calls
and Mach traps itself. One host thread runs one guest thread; a guest fault is a
C++ exception that leaves the dispatcher.

This directory holds TLA+ modules for the parts of Rosa that carry state, the
TLC configurations that check them on small instances, and TLAPS proofs of the
properties that can be proved for every instance. `PROJECT.json` lists the
components, the runs, the source lines behind each definition, the hazards and
the theorems.

To check a run: `tlc -workers 2 -config AddressSpaceFiles.cfg MCAddressSpace`.
To check the proofs: `tlapm M.tla` for each module `M` whose name ends in `Proofs`.

## 1. Inventory

"Hard" names what a unit test would hardly reach, "correct" what has to hold.

| Component | State | Operations | Hard | Correct |
|---|---|---|---|---|
| Guest address space (`guest/AddressSpace`, `MappingBatch`) | sorted vector of mappings with private bytes or a slice of a shared host object, lazily transformed pages, 16-entry lookup table, executable version | `mapSegment(s)`, `mapAnonymous`, `mapFileSegment`, `mapSparseReadOnly`, `protect`, `deallocate`, `readInto`, `writeBytes`, `validateAccess`, `executableBytes`, `directMemoryView` | splits of slices, lookup entries after a split, accesses across mappings, top of the range, transform exactly once | mappings disjoint; lookup = search; memory behaves as one flat page table; a change of code bytes changes the version |
| Dispatcher (`dbt/Dispatcher`) | dispatch cache of raw pointers, counters, ring of recent blocks, guest RIP/RSP | `run`, exits of every kind | self-modifying code, a pointer to a retired block, a batch longer than the ring, a push that faults | only current code runs; the limit holds; `run` returns |
| Block cache and persistent cache (`dbt/BlockCache`, `CacheIdentity`) | owned blocks, hash index with versions, records of the cache file, dirty flag | `findCurrent`, `getOrTranslate`, `flushPersistent`, load | translation that throws half way, killed process, failed rename, file of another program | ownership = index; nothing stale is reused; a clean cache is a saved cache |
| Translated blocks (`dbt/TranslatedBlock`, `Translator`) | source bytes, execution count, warm-up, optimized loop | `execute`, promotion, fallback | batch limit against warm-up, stores inside a batch | limits hold across tiers |
| Mach ports and traps (`darwin/PortSpace`, `Mach`) | ports by name, next name, stable names of services, special reply port, vouchers | allocate, construct, deallocate, mod_refs, insert_member, copyouts, `mach_msg2` requests | exhausted names and references, copyout that faults after an allocation, a stable name that outlives its port | names are not reused; one name per service; failures leave no trace |
| Guest descriptors (`darwin/Files`) | descriptor table, shared open file descriptions, host descriptors they own, close-on-exec, policy on host paths | open, duplicate, close, lookup | shared description against private flag, exhaustion after the host file is open, a link that leads out of the working directory, a tree that another process changes between the resolution of a path and its open | a UNIX descriptor table; no host descriptor leaks or is closed too early; the policy holds of the tree it was applied to |
| BSD calls on files (`SyscallFiles`) | none of its own | `open`, `openat`, `read`, `lseek`, `fcntl`, `dup`, `close`, `getdirentries64`, `getattrlistbulk`, queries | a copy that faults after the host offset moved, two positions of one directory | a call that fails consumes nothing |
| Calls on memory (`SyscallMemory`, VM traps of `Mach`) | none of their own | `mmap`, `munmap`, `mprotect`, `madvise`, `map_with_linking_np`, `shared_region_check_np`; traps 10, 12, 14, 15; the `mach_vm_map` message | search for a free range at the limits, a failure between opening a region for writing and protecting it again, a copyout that fails after the mapping was made | each call is one step for the guest; placement at the lowest address that fits; no exception is left uncaught |
| BSD calls on processes and sysctl (`Syscall`, `SyscallProcess`, `SyscallSysctl`) | signal actions, limits, tables | decode and dispatch of call numbers | order of argument checks | tables match |
| Shared cache (`darwin/SharedCache`) | subcaches, mappings, slide info | open, `mapInto`, version-2 slide chains | chains that cross a page | each pointer slid once |
| Commpage (`darwin/Commpage`) | none | constant tables | – | unread bytes fault |
| Executable arena (`arm64/CodeBuffer`) | chunks, cursor, pending batch | allocate, publish | a program that just fits, adjacent cache lines | programs disjoint, published before run |
| Mach-O loader and startup stack (`macho/*`) | image, stack bytes | parse, map, build the stack | offsets near the end of the file | every read in bounds |
| Runtime helpers and flags (`dbt/RuntimeHelpers`, `FlagHelpers`, `MemoryArithmetic`) | direct window, stop flag | stores, read-modify-write, flags | faults between read and write, flags at word edges | fault-atomic; flags as the architecture defines them |
| Optimizing tier (`dbt/LlvmBackend`) | loop code, memory guard | promotion, guard | guard arithmetic near 2^64 | guarded spans are left by no iteration |
| IR and its optimisations (`ir/*`) | block of instructions | self-edge detection, register forwarding | aliasing of partial registers | same effect as the original block |
| Decoder (`x86/Decode*`, `Instruction.h`) | the cursor of a block | `decodeInstruction`, `decodeBlock`, again from saved bytes | address forms decoded inline in each branch, order of the families, one wrong length shifts a block, windows that end early | what is accepted is what the architecture defines, the rest throws; blocks end at transfers |
| Lowering (`x86/Lowering`) | none | instruction to IR | partial registers, flags | as the architecture defines |
| AArch64 backend (`arm64/Backend`, `Assembler`) | register allocation, labels | emit | repeated entry protocol, windows, spans that skip the stop check | loop leaves when it must |
| Diagnostics, command line (`debug/Dump`, `main`) | options | dump, run, flush | – | – |

How they interact: the dispatcher asks the block cache for a translation; the
block cache reads code through `executableBytes` and compares versions with
`executableVersion()`; generated code stores through runtime helpers, which call
the address space and raise the stop flag when the version moved; a system-call
exit calls the BSD and Mach dispatchers, which map, protect, read and write
guest memory. All of this is synchronous: the interleavings that matter are
those of guest stores with the translation that performs them, of chunks of one
access, of processes that share a cache file, of the guest's traps, and of other
host processes with the two looks a hosted open takes at the file system.

## 2. Modules

| Module | Models | Notes |
|---|---|---|
| `AddressSpace` | `guest::AddressSpace` | one action per operation; an access is a loop with one step per chunk |
| `FlatMemory` | what the address space promises | cells with permissions, no mappings, no lookup, no laziness |
| `AddressSpaceRefinement` | refinement mapping | also states `CodeVersioned` |
| `Dispatcher` | `Dispatcher`, `BlockCache`, `TranslatedBlock`, the loop protocol of the generated code | composes the three, because their hazards are about pointers between them |
| `PortSpace` | `GuestPortSpace` and the port traps of `MachDispatcher` | one action per trap |
| `IpcSpace`, `PortSpaceRefinement` | what a port space promises, and the mapping | |
| `FileSpace` | `GuestFileSpace` and the system calls that change it, with the host's descriptors | one operator per handler |
| `UnixFiles`, `FileSpaceRefinement` | what a descriptor table promises, and the mapping; properties | |
| `GuestVm` | the memory calls of the Darwin boundary, over `AddressSpace` | composes: every access of a handler is an access of the address space; states its properties and the mapping to `VmCalls` |
| `VmCalls` | what those calls promise the guest | one atomic step per call |
| `Encoding` | the fields of an instruction and what the families share (`DecodeInternal.h`, `Instruction.h`) | |
| `DecodeGeneral`, `DecodePrefixed`, `DecodeSimd` | the branches of the families, one definition per branch | stateless |
| `X86Format` | the reference: what the architecture gives each encoding | written from opcode maps, not from the code |
| `Decoder` | `decodeInstruction`, `decodeBlock`, `TranslatedBlock::decoded` | properties |
| `MC*` | constants for TLC | |
| `AddressSpaceProofs`, `DispatcherProofs`, `PortSpaceProofs`, `FileSpaceProofs`, `GuestVmProofs` | theorems about the module of that name and its refinement | |
| `DecoderInstructionProofs`, `DecoderLengthProofs`, `DecoderProofs` | theorems about one instruction, about its length, and about `Decoder` | each extends the one before |

**AddressSpace.** `mappings` is `mappings_` as a set of records; the index of a
mapping is the number of mappings below it. `hosts` are the host objects behind
`fileBytes` with their lazy transform; `lookup` the table of 16 entries,
`executableVersion` the counter, `call` the access that is running and `result`
what the last one returned. `split` is the code that `protect` and `deallocate`
share. Addresses, pages and the table are parameters; addresses are cells.

**Dispatcher.** Guest code is a row of one-cell instructions: a plain operation,
a checked store, a byte load, a byte store that may use a direct write window, a
jump, a branch to the block's own start, call, return, system call, and an
undecodable cell. Targets and addresses that registers hold are free choices. Blocks are
heap objects with an identity whose storage is reused, so that a stale pointer
is visible. `lookup`, `blocks`, `persistent`, `file` and `dirty` are the block
cache's; `dispatch`, `executed`, `recent` the dispatcher's; `cur` is what a running block
knows (batch limit, where its repetition began, position, window, stop flag, span).
`trace` (the executions `run` has counted) and `begun` (how often a block began) are history variables.
A loop of byte accesses may have a *span*: at its first byte load, or at its only byte store, it
proves once that all remaining repetitions stay in the window (`directReadSpan`, `directWriteSpan`). While the
register that says so (x4) is not zero, `emitSelfEdge` goes back to that access, into the middle of the
loop and without the stop check (`Repeat`, `IsFastEntry`, `Backend.cpp:3753`). In a loop with byte loads a byte
store may stand as well; it has no write window then, its helper is a call that leaves anything in x4, and
`SpansAfterStore` says so.
`NextProcess` ends the process, at any point of a run as well, and starts another one.

**PortSpace.** Names are numbered in allocation order. `portSpace` holds
`ports_`, `nextSyntheticName_` and the stable service names; the dispatcher's
special reply port, debug control port and vouchers are variables of their own; `issued` is a history
variable with the names reported to the guest. Guest pointers are readable and writable or not.

**FileSpace.** `descriptors` is `descriptors_` (0 in `file` is a closed
descriptor), `files` are the open file descriptions, `hosts` the host's table
with the position of each open host descriptor, `access` the policy. Each handler
is one operator with the checks of the source in their order; host calls fail when the
environment wants, and guest memory faults when it wants. Paths are the ones
that matter to `handleOpen`: the working directory, a name in it,
the root, the special names and a missing one. A call that
throws ends the guest.

The open of a host path takes two looks at the file system and is two steps.
`ResolveHosted` checks the flags, resolves the path (`canonicalGuestPathFrom`, `SyscallFiles.cpp:438`) and applies the
policy to the canonical path; `permitsHostPath` compares paths and asks nothing of the host, so it is part of this
step. `opening` then holds the path until `OpenHosted` has the host open it (line 451), which resolves it again. What
stands at a path is chosen at each look (`Trees`): the file, a link out of the working directory, nothing,
or a link in place of a directory on the way. `raced` records, for the properties only, that the two looks saw
different trees. Inside one look the tree does not change. How many entries a directory has is chosen at
each look as well.

**GuestVm.** `sys` is the handler that runs: which call, the stage it has reached,
its arguments, the address it has chosen and, for `map_with_linking_np`, the region
and the bytes done. A stage ends with one call on the address space, which is the
action of `AddressSpace` itself (`mapAnonymous`, `mapFileSegment`, `protect`,
`deallocate`), or begins an access whose iterations `access` performs. `returned` is
what the guest is told. `load` lets the startup code make any first map; then calls
follow each other, with stores of the guest in between. `seen` is a history variable,
guest memory at the moments the guest can look at it: before and after a call.
`VmCalls` speaks of `seen`, `returned` and the placement that was asked for, and its
steps do not know mappings: `Fits` is a statement about cells, where
`findAnywhereRange` and `findMmapRange` walk a sorted vector, one iteration per step with the
candidate in `sys`. It has two actions for the calls that may
end half done, `Place` with a failed copyout and `Link` with a host file that ends early or a
cell of a chain that cannot be read. Regions of one list may overlap: a cell of several finished
regions has the protection of the last.
Structures the guest passes by pointer are one cell; the content of the blob
is what the chain of a region says, and host files fail when the environment wants.

**Decoder.** An encoding is a record of prefixes, REX bits, opcode bytes and the
fields of ModRM and SIB; displacements and immediates are known by their size,
because which bytes they hold does not steer the decoder and how many it takes
does. Each branch of a family is an operator that names the mnemonic and asks for its operands;
the inline decodings of memory operands differ in what they accept, and a branch
lists that as a policy of `MemoryForm`. `Decoded` computes the operands and the
length. `Recognized` tries the families in the order of `decodeInstruction`. The
decoder does not know where instructions begin: `DecodeNext` follows its own
cursor over the bytes of the program, and `LoseStep` is the case that the cursor
stands inside an instruction. `Encodings` is the set of all encodings with the prefixes that some branch
of the decoder names. `Reconstruct` decodes a finished block again from
its own bytes.

## 3. Runs

| Run | Checks | Bounds |
|---|---|---|
| `vm` | `MappingsDisjoint`, `LookupCoherent`, `FindExact`, `SysTypeOK`, `CallsNeverThrow`, `VmCallsRefinement` | 7 pages of 2 cells, the user range ends after 4 of them, 2 host objects, table of 2 slots; 4 maps and calls: the loader maps a page or two, the guest stores a hint at the end of the user range or near the top, makes room or takes it, and places; masks of one and two pages and an invalid one; sizes that round up; lists of one and two regions, which may overlap; sparse mappings that are readable in part |
| `files` | `TypeOK`, `BackingInBounds`, `BackingUnshared`, `FlatMemoryRefinement` | 2 pages of 2 cells below the top one, 2 host objects, cells of one bit, one cell of host prefix, lazy pages: files and anonymous memory are mapped side by side, and a slice is cut, read and written before and after its pages are transformed |
| `code` | `CopyNeverFaults`, `CodeVersioned`, `FlatMemoryRefinement` | 3 pages of one cell below the top one, cells of one bit, segments of two pages, alone and two in one batch, one sparse object: a two-cell access crosses mappings with different rights and sparse mappings that are readable in part |
| `selfmodify` | `TypeOK`, `NoStaleBlock`, `UsableEntriesAreLive`, `OwnershipMatchesIndex` | every program of two cells, one dispatch slot, storage for one block more than can be alive: a retired block's storage is reused while a slot still points to it; stacks in code, in the hole and at zero |
| `batches` | `RecentIsTail`, `WithinBudget`, `StaleOnlyUnchecked`, `CountsEveryStart`, `RunTerminates` | loops of two instructions and a branch, every mix of operations, byte loads and byte stores, with a data cell that grants windows; ring of 3, limit of 4, warm-ups of 2 and 3: the ring wraps, a batch is longer than it, a loop repeats with a span and without, and stale code is repeated in both ways that exist |
| `restart` | `NoStaleBlock`, `CleanMeansSaved` | processes with instruction limits 1 and 2 and any program share one file |
| `ports` | `TypeOK`, `ReceiversAreOwned`, `ServiceIsUnique`, `NamesNeverReused`, `FailureLeavesNothing`, `IpcSpaceRefinement` | names 1 to 4, 2 references: both run out; every request with every pair of ports, one voucher |
| `descriptors` | `TypeOK`, `HostOwned`, `WithinPolicy`, `FailureConsumesNothing`, `UnixFilesRefinement` | 2 descriptors and 2 host descriptors, one of them perhaps a standard stream: the table fills, is shared and empties; files of one byte, seeks one byte past the end, directories of no or one entry, anew at each look; every pair of trees around an open; one request for every way through `handleOpen`, both policies |
| `decoder` | `TypeOK`, `DecodesAsArchitecture`, `StaysInStep`, `BlockIsMaximal`, `ReconstructsFromSource` | every opcode a branch names, with the prefixes that mean something to it, no REX byte or eight of them, register forms, and memory forms with and without base, index and RIP; sequences with limits and windows that end early |
| `pagezero`, `bytestores`, `unsupported` | violations, section 6 | the smallest instance that shows each |

`TypeOK` is checked once per module, in `files`, `selfmodify`,
`ports`, `descriptors` and `decoder`; `SysTypeOK` is that of `GuestVm`.

The bounds are values of constants or the sets of requests a caller makes
(`MapBases`, `Programs`, `Deltas`, ...). Five counters are capped in guards:
`SeekLimit` (how far a seek goes), `MaxVersion` (the executable version), `Blocks` (translated blocks alive at
once), `MaxVouchers` and `MaxCalls` (maps and calls of one behaviour of `GuestVm`).
Four are enough for two neighbours, a hint and a placement between or above them. A version of two is enough for an entry to be current, stale and
current again under another block; two processes are enough for a file to be
written by one and read by the other, and the runs allow any number.
`SYMMETRY Storage` permutes the storage of blocks in runs that check invariants
and action properties; `batches` checks liveness and does not use it.

Deadlock is checked for the address space and the dispatcher. It is not for the
port space and the descriptors, where a call the source does not implement throws
and the guest ends there, nor for `GuestVm`, where in addition the calls are counted, nor for the decoder, which has nothing to do once a
block is decoded again.

The decoder run covers encodings, not programs: a block of two instructions
already has the cases of a cursor that was moved wrongly, a limit that is
reached and a window that ends. The REX bytes are each bit alone and the
combinations that a branch tests together; two registers of each kind are
enough, because branches only compare encodings with 4 and 5. In `descriptors` two
entries suffice for sharing: what a third descriptor could do to a description,
the second does, and the theorems hold for any number. The two-cell programs of `selfmodify` have no byte loads; `batches`
has them, with three cells.

Fairness: `Dispatcher!Fairness` is weak fairness of the dispatcher and of the
running block taken together. The host thread that called `run` executes nothing
else until it returns, so an enabled step is eventually taken. Nothing is
assumed about the environment: starting a run, saving and ending the process may
never happen. `RunTerminates` then says that a run comes back whatever
the guest does, because batches count down and the number of blocks is bounded.

## 4. Proofs

The proof modules assume only the named assumptions of the modules
they extend: sizes are positive naturals, the request sets have
the types the source's signatures give them, model values are distinct.

**AddressSpaceProofs.** `TypeOK`, `MappingsDisjoint`, `LookupCoherent`,
`BackingInBounds` and `FindExact` are invariants for every address range, page
size, table size and set of requests. `LookupCoherent` says that a valid entry has the extent of a mapping that
exists; its index may be stale (`MappingBatch.cpp:86`), and `find` compares the base before it uses it, which `FindExact` is about. None is inductive alone: a lookup entry is
as good as the mapping it names, a write stays in bounds because the
mapping was found before it and has not moved, and a split keeps the bounds of the host object
only if the pieces are whole pages of a mapping that had them. The inductive
invariant `IInv` joins `GoodMappings` (finite, typed, well placed, apart, within their
backing), the types of the host objects, `LookupType`, `LookupCoherent` and
`CallProgress` (how far a running access has come). The argument goes bottom-up: lemmas on
a single piece of a split, then on `split` of a set of
mappings, then on the search and the table, then one lemma per action.

**AddressSpaceProofs, accesses.** `BackingUnshared` and `CopyNeverFaults` are invariants. The
first needs to know what `protect` and `deallocate` leave of a mapping: a *piece* with a part
of its cells at the offset that belongs to them (`PieceOf`), and what the map calls add: mappings
of host objects nobody uses (`Adds`). The second needs the history of a running access: `AInv`
says that every cell a write has validated so far still lies in a mapping that allows it, is
transformed, and has raised the executable flag if it is code, and that what a read has collected
so far is what the cells show. It survives because no mapping changes between the chunks of an access
and because materializing a page changes no cell as a program sees it (`MaterializeCell`), which
in turn rests on `BackingUnshared`.

**AddressSpaceProofs, refinement.** The address space implements `FlatMemory`, and `CodeVersioned`
holds of every step. By `IInv` each address is held by at most one mapping, so each cell of the
flat memory is the view of that mapping (`CellsViewed`). A step that changes no mapping, no
contents and no version is quiet and changes no cell. A read answers with the cells because `AInv`
ties the collected data to them; a multi-mapping write takes its effect when the validation
loop ends (`CommitFlat`), and each chunk of the copy loop then only replaces cells that already show the
payload (`CopiedMemory`); a piece of a mapping shows what the mapping showed at the same
address (`PieceShows`), which gives protect and deallocate. `CodeVersioned` follows from what the flat
steps say of the version; the one step they say nothing about is the end of the process in the middle of a
write, where a range with executable cells has raised the visible version and loses it.

**DispatcherProofs.** All safety properties of `Dispatcher` are theorems, for every program, memory, number of
dispatch slots, storage, limits, warm-ups and ring capacity. The inductive invariant relates four things
that only agree at certain points: the version a block was made of against the versions of index and
dispatch slots (an entry of the current version names a live block, an older one is never followed),
the source of every block against its decoded shape, the counters of a batch against the
limit and the warm-up, and the records of the cache file against the dirty flag. `RecentIsTail`
relates the ring, written once per batch, to the history of single executions.
`StaleOnlyUnchecked` is the exact statement of what holds of stale code: it is executed only by a repetition, with the stop
flag set, of a loop with a byte store that goes back without the stop check, because it holds a direct-write window
or because its read span counts as valid. The invariant behind it is that code which is not in memory any more has set the flag, and
that a validated write span implies the window. `NoStaleBlock` is therefore proved for instances
without byte stores, or with neither byte loads nor a data segment (`"store8" \notin Cell`, or `Data = {}` and `"load8" \notin Cell`),
the instances `selfmodify` and `restart` check; `bytestores` shows that the hypothesis is needed.
`CountsEveryStart` relates the countdown of the generated code, which `executeRepeated` turns into a count at the
end of a batch, to the history of starts: begun is what was counted, what the running batch has done and the execution that is
under way. Only a fault drops a batch.

**PortSpaceProofs.** `TypeOK`, `ServiceIsUnique` and `ReceiversAreOwned` are
invariants; `NamesNeverReused`, `FailureLeavesNothing` and the refinement of
`IpcSpace` hold of every step. The inductive invariant says that every port has
a name below the next one, that the task's own port
stays, that the stable names are live and unique, that members of sets are receive
rights the task owns, and that every name reported was allocated.
Every trap has one of a few effects (nothing, a new port, one reference more or
less, the loss of a port, a member more, a new reference to a service); the invariant is
shown for each effect and each trap is shown to have one.

**FileSpaceProofs.** `TypeOK`, `HostOwned` and `WithinPolicy` are invariants,
`FailureConsumesNothing` and the refinement of `UnixFiles` hold of every step,
for every size of the tables, set of requests, offsets and directory sizes.
`HostOwned` is inductive together with the types: closing the last descriptor
closes the right host descriptor because no other description has it. The
calls are first shown to have one of seven effects (nothing, a new description, a
shared one, a descriptor gone, a flag, a host position, a resume index), then
each property is shown for each effect. `WithinPolicy` needs `ResolvedWithin` beside it, about the open that is
pending: in the tree it was resolved in, its path leads to nothing outside the working directory, also when
`O_NOFOLLOW` left a link at its end. If the host finds that tree again it opens something inside, and if it
does not, the descriptor is `raced`. The invariant is `IInv`: ownership, the policy and `ResolvedWithin`.

**GuestVmProofs.** `SysTypeOK` and `CallsNeverThrow` are invariants of the memory calls, and `VmKeepsMap`
says that the handlers keep all of the address space's invariants. The inductive invariant `VInv` is
`IInv` and `AInv` of the address space and, per stage, what the handler has established: the size is whole pages
and fits behind the address (`Asking`); the candidate of a search starts a page, and a chosen address passes
every check of `validateNewMapping` (`Choosing`); the pointer that a trap validated stays writable
until the copyout, because placing a mapping removes none (`Copying`); the region that was opened lies in the address
range and its pages are done in order (`Linking`). The key lemmas are `AlignedUp` (rounding up to a mask of whole
pages gives the start of a page, or the search ends) and `GapIsValid` (what the search accepts,
`validateNewMapping` accepts). `VmAssumption` adds that a guest cell holds an address and that the
regions of a list have the fields the source's structure gives them.

**GuestVmProofs, refinement.** `VmCallsRefinement`: the memory calls implement `VmCalls`. The invariant
`RInv`, on top of `VInv`, relates the memory of the moment to `seen`, the memory as the guest last
saw it, at every stage of every handler: they are equal until the call has an effect; while a search runs, no
address below the candidate fits (`NoneBelow`); once a placement is chosen it is the lowest fit (`Chosen`), and
afterwards memory is the old one with the pages laid out (`Installed`) and perhaps the address stored
(`Writing`). In `map_with_linking_np` the regions before the current one are finished (`RegionsDone`) and the current one is
open, with its first cells copied (`RegionOpen`). What an access of a handler does
is not proved again: `ReadStep`, `ValidateStep` and `WriteStep` take it from the steps of `FlatMemory`, which the
address space implements, so the proof never looks into a mapping except where a handler does. The search
rests on `AlignLeast` (`alignUp` yields the least aligned address), `Blocked` (nothing fits across a mapping that is in the way) and
`NoTopFit` (nothing fits above the last aligned address). The last one needs `AlignmentAssumption`: no aligned
address above the last one that `alignUp` yields leaves room for a page, which holds of an
address range of 2^64 and alignments that are powers of two, because there is no such address. The proof
corrected `VmCalls`: a chain cell that cannot be read (a sparse mapping) ends the call with
`EFAULT` and the region open, and overlapping regions are finished by the last one.

**DecoderInstructionProofs.** `InstructionsAreArchitectural`: for every encoding, and not only for the ones
the run enumerates, what `decodeInstruction` accepts is what `X86Format` gives the encoding, or `KnownMisdecode`
names it. There is a lemma for every branch of every family. Each shows that the operands the branch asks for
*fit* those of the architecture's table (`Fits`), and `MadeAgrees` turns that into equality of the decoded
instruction, length included. Immediates are compared behind the first operand (`Follows`), because
an immediate as wide as the operand it goes to may be extended either way. Memory operands need
`MemoryAgrees`: a policy of `MemoryForm` finds the architecture's operand or throws, unless it takes a form
without base for R13 or R12 (`Trusted`). The lemmas are then joined in the order of the families: a later family is only
asked about what the earlier ones passed on, and `GeneralRight` needs that of `decodeOperandOverride`.

**DecoderLengthProofs.** `InstructionsAreShort`: an accepted instruction has between one and fifteen bytes, and
`terminatesBlock` holds of it exactly when its encoding is a control transfer. Every family accepts few
prefixes (`Few`) and adds at most ten bytes behind the opcode (`Bounded`); the long NOP, which any number
of prefixes may pad, counts them itself (`LongNopLength`). `LengthsAreArchitectural` says what the
misdecodings do to a block: apart from `Derails` (REX.B taken for R13, and the word TEST) they
take the bytes of the instruction they misread, so the decoder stays in step behind them. The proof made
the list exact: UCOMISD and CVTSD2SS are on it when REX.B meets a RIP operand, and no other is.

**DecoderProofs.** `TypeOK`, `DecodesAsArchitecture`, `StaysInStep`, `BlockIsMaximal` and
`ReconstructsFromSource` are invariants for every program, window and limit. The inductive invariant `IndInv`
says where the decoder stands. `InStep`: until an encoding derails it, its nth instruction is what
`decodeInstruction` makes of the program's nth and its cursor is where the next one begins. `Ends`: only the last
instruction of a block is a transfer. `FirstPass` and `SecondPass` are about decoding the saved bytes again,
which must give the block even if the first pass was derailed: there are places p (`Along`)
at which the first pass found its instructions, and the second pass stands at one of them, with the
instructions before it decoded, until it reaches the last. It finds the same instruction at
each because no two instructions of a program start at the same byte (`BytesIncrease`). TLC was asked about `IndInv` first,
on the instances of the run `decoder`, with p computed from the lengths. What the recursive `BytesOf` computes is proved by
induction all the same: `SetInduction` is about a set of naturals instead of a predicate, and follows from the
well-foundedness of `<`. `ProgramsAssumption` is all that is assumed: programs are sequences of encodings, a
window ends inside its program, and the limit is not zero, which `decodeBlock` refuses.

Only model-checked: `RunTerminates` (liveness under fairness, out of the prover's reach), and the three
properties that runs refute. What the misdecodings make of the bytes behind them is not said by any
theorem: the decoder is then inside an instruction, where the model stops (`LoseStep`), unless it happens on
the start of another one.

## 5. Abstractions

- An instruction is one cell. Registers, flags and decoding tables are not in `Dispatcher`; a
  translation is its source. A call block always carries its return address, as
  the decoder produces it.
- Of the host registers of a loop, `Dispatcher` has the ones that steer it: the window (x20) of a
  write loop and the validity of the span (x4). What x4 holds after a call of a helper is left open. The
  addresses a validated span uses are not modelled (x3, which a store helper in a read loop clobbers,
  included), nor are the conditions on induction variable and exit that make a loop have one: a loop of the right
  accesses may or may not validate a span. The entry into the middle skips what stands before it, a
  byte store included.
- `LazyFilePageTransform::materialize` is total: the slide chains of a page are taken to be well formed.
  `parseSlideInfo2` checks page counts and page starts, but a chain that leaves its page or a pointer that overflows
  throws in the middle (`SharedCache.cpp:338`) before the page is marked (`AddressSpace.cpp:78`), and a retry after
  the caught exception would slide pointers twice. The flat-memory refinement is not claimed for such a file.
- The throw of `installLazyFilePageTransform` (`AddressSpace.cpp:623`) is left out: its only caller has passed
  `parseSlideInfo2` (`SharedCache.cpp:237`), which throws first.
- The LLVM tier is its two outcomes: it runs the loop as the first tier would,
  or its guard refuses and the first tier runs.
- A file's contents and the bytes of segments are one value per kind; the lazy
  transform is any operator that gives something else when applied twice.
- Contexts, guards and queue limits of ports decide nothing in the source and are left out.
- In `GuestVm` the flags and bits a call does not know are one Boolean of the request, and
  the arithmetic of a fixup is one value, `Linked`.
- Reports (timings, hot blocks, dumps, last construct call) are left out.

## 6. Findings

Each is a run that TLC must refute, with the quoted text in `PROJECT.json`.

1. `pagezero`: `protect` with a private copy does not look at the maximum
   protection. A no-access segment without bytes becomes readable and the next
   access goes through a null backing.
2. `bytestores`: a loop that holds a direct write window skips the test of the
   stop flag. A byte store of the same batch into executable memory takes the
   checked helper, which raises the flag in vain, and the old translation runs again.
3. `unsupported`: `F2 0F 5A` (CVTSD2SS) has no opcode in Rosa and should stop
   translation; it is decoded as CVTSS2SD with an m32 operand.

`DecodesAsArchitecture` holds apart from the encodings `KnownMisdecode` lists, and the proof
shows that there are no others. Each was found by TLC as a difference between the branch and the reference and then read in
the source; only the second and third, `Derails`, change the length of the instruction:

- `0B /r` with a register operand has its operands swapped
  (`DecodeGeneral.cpp:1350`), as has PEXTRD;
- `66 F7 /0` on memory is a TEST of a doubleword with a four-byte immediate, so
  the block loses step;
- REX.B with mode 0 and r/m 5 (RIP) or SIB base 5 (no base) is taken for
  `[r13]` in several branches, without the four displacement bytes; the comment at
  `DecodeGeneral.cpp:3986` says that REX.B does not matter there;
- LOCK OR and AND of a quadword do not sign-extend their immediate
  (`DecodeAtomic.cpp:271`), `66` with REX.W makes LOCK XADD 16 bits wide;
- LOCK XADD and the MOVQ load drop r12 as an index;
- `66 0F 14` and `66 0F 15` (UNPCKxPD) are decoded as the PS forms, and `0F 2E`
  and `66 0F 2E` (UCOMISS, UCOMISD) are exchanged;
- `F2 0F 5A`, above.

Other disagreements of code and text, without a run of their own:

- a call with a stack pointer below eight throws with RIP already at the target
  (`Dispatcher.cpp:124`), while `docs/guest-memory.md:21` promises that a fault
  leaves registers unchanged; only the other failure of the push restores RIP.
  Both are branches of `EndCall`, and no property restates them;
- `docs/darwin-boundary.md:36` says that opens of a controlled guest are confined to the working directory; that
  holds of the tree in which the path was resolved, and not if another process changes it before the host opens the path.
  `WithinPolicy` states it with that exception;
- a loop with byte loads and a byte store may go back through its read span (`Backend.cpp:3756`) without the
  test of the stop flag, the second way in which `docs/guest-memory.md:35` does not hold (`StaleOnlyUnchecked`);
- `mach_port_mod_refs` can take the last reference of the host right without
  erasing the port, after which `host_self_trap` returns `MACH_PORT_NULL` for ever,
  not only "on exhaustion" (`Mach.cpp:1736`). `CanCopyout` models it;
- `fgetattrlist` passes RDX as the size and R10 as the options
  (`SyscallFiles.cpp:783`), where `getattrlistbulk` documents RDX as the buffer and R10 as its size;
- a directory has two positions: `lseek` and `getdirentries64` move the resume
  index, `getattrlistbulk` the host's position, so seeking does not affect the latter;
- `getdirentries64` moves the index before it copies the position out; if that copy
  faults the entries are lost. It returns 0, as at the end, when the first
  record does not fit the buffer;
- a full descriptor table throws out of the handler instead of failing with `EMFILE`;
- the comment at `SyscallMemory.cpp:432` says that no guest thread can observe the
  intermediate state of `map_with_linking_np`; when the host file ends early the call
  returns `EIO` with the region open for writing and partly copied, and when a cell of a chain lies
  in a part of the sparse commpage that cannot be read (the guest first made the page a writable private copy with
  trap 14) it returns `EFAULT` with the region open and partly linked.
  `VmCalls!Link` states exactly that;
- `findMmapRange` and `findAnywhereRange` apply `maximumUserMapEnd` only above the
  highest mapping, so a fixed `mach_vm_map` above the user range makes placements
  there possible (`VmCalls!Fits`);
- `docs/darwin-boundary.md:24` and `:76` say that `mmap` covers only the read-only private mapping;
  `handleMmap` accepts writable private ones, and trap 15 accepts fixed placement
  besides `VM_FLAGS_ANYWHERE` (line 48);
- F_GETLK writes the answer outside the `try` that turns faults into `EFAULT`;
- `directMemoryView` refuses mappings with `fileBytes`, and `mapAnonymous` keeps
  anonymous memory there, so a loop over anonymous memory never gets the host
  span that `docs/guest-memory.md` describes.

## 7. Plan

In this order, the next modules are:

1. `PersistentFile`: the format of the cache file, its validation and the
   relocation of helper addresses over generations of processes.
2. `ExecutableArena`: chunks, batches and instruction-cache ranges; proof that
   programs are disjoint and published before they run.
3. `SharedCache`: version-2 slide chains as a recursive operator against a
   reference (TLC only); `MachOFile` and `StartupStack`: bounds checks and layout.
4. Algorithms against references: flag helpers, read-modify-write helpers and
   their fault-atomicity, the LLVM guard at a small word width, register
   forwarding in the IR, register allocation of the backend.
5. Signal actions and limits of the process calls; each module with its theorems.

## 8. Not modelled

The lowering and the assembler are stateless and as large as the instruction
set; that a lowered block computes what the instructions do is a statement about
64-bit data, which TLC cannot enumerate. Of the decoder, the values of
displacements and immediates are left out, with the checks that a relative target
does not overflow (`relativeTarget`) and that the guest RIP does not wrap; so are truncations
in the middle of an operand other than by where the instruction ends. Of the file
calls, those that only answer, and `write`, are left out: they change neither
descriptors nor positions that the guest can read back, standard streams that
are files excepted. Code generation inside LLVM is
external. The commpage and sysctl answers are constant tables. Diagnostics
change no state. Option parsing of the command line is left out.
