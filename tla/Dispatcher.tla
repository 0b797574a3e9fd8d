----------------------------- MODULE Dispatcher -----------------------------
(***************************************************************************)
(* dbt::Dispatcher with the dbt::BlockCache it owns and the                *)
(* dbt::TranslatedBlocks it runs.                                          *)
(*                                                                         *)
(* The guest program is a row of one-cell instructions.  Registers are     *)
(* abstracted: the address of a store, the target of an indirect jump or   *)
(* call and what a return pops are free choices.  A translation is its     *)
(* source bytes; the host code it stands for is a function of them.        *)
(* Translated blocks are heap objects with an identity, so that a pointer  *)
(* to a retired block is told from a pointer to its replacement, and the   *)
(* storage of a retired block may be given to the next one.                *)
(*                                                                         *)
(* Lookup, translation and the exit of a block run to completion on the    *)
(* one host thread; inside a block every instruction is a step, because a  *)
(* store may change the code that is running.                              *)
(***************************************************************************)
EXTENDS Integers, Sequences, FiniteSets

CONSTANTS
    CodeSize,      \* cells of guest memory that are writable and executable
    DataSize,      \* cells of a writable segment that holds its own bytes
    HoleSize,      \* addresses above them with no mapping
    Cell,          \* instructions that occur in guest memory
    Programs,      \* initial contents of the code cells
    Entries,       \* values of rip a run starts with
    Stacks,        \* values of rsp a run starts with
    Unmapped,
    Blocks,        \* storage for TranslatedBlock objects (bound)
    Null,
    DispatchSize,  \* dispatchCacheSize
    Capacity,      \* recentBlockCapacity
    MaximumBlocks, \* maximumBlocks of run
    Maxima,        \* maximumInstructionsPerBlock, one value per process
    Warmup,        \* optimizedLoopWarmupExecutions
    MemoryWarmup,  \* optimizedMemoryLoopWarmupExecutions
    MinimumLeft,   \* optimizedLoopMinimumRemainingExecutions
    HasLlvm,       \* llvmBackendAvailable
    HasPath,       \* persistentPath_.has_value()
    MaxVersion     \* bound on executableVersion

Code == 0 .. CodeSize - 1
Data == CodeSize .. CodeSize + DataSize - 1
Address == 0 .. CodeSize + DataSize + HoleSize - 1
Rip == 0 .. CodeSize + DataSize + HoleSize
Terminators == {"jump", "loop", "call", "ret", "syscall"}
Plain == {"op", "load8", "store", "store8"}
Instruction == Cell \ {"bad"}

\* A record of the cache file, and a TranslatedBlock: the decoder accepted
\* every instruction of their sources.
Record == [source : Seq(Instruction), maximum : Nat \ {0}]
BlockType ==
    [source : Seq(Instruction), maximum : Nat \ {0}, count : Nat, loop : BOOLEAN,
     candidate : BOOLEAN, warmup : Nat \ {0}]

ASSUME SizeAssumption ==
    /\ {CodeSize, DispatchSize, Capacity, MaximumBlocks, Warmup,
        MemoryWarmup} \subseteq Nat \ {0}
    /\ {DataSize, HoleSize, MinimumLeft, MaxVersion} \subseteq Nat
    /\ Maxima \subseteq Nat \ {0}

ASSUME CellAssumption ==
    /\ Cell \subseteq Plain \cup Terminators \cup {"bad"}
    /\ Unmapped \notin Cell
    /\ Programs \subseteq [Code -> Cell]
    /\ Null \notin Blocks \cup Record \cup BlockType
    /\ Entries \subseteq Code /\ Stacks \subseteq Rip
    /\ {HasLlvm, HasPath} \subseteq BOOLEAN

VARIABLES
    mem,        \* code cells of the guest address space
    version,    \* AddressSpace::executableVersion_
    heap,       \* TranslatedBlock objects
    blocks,     \* BlockCache::blocks_
    lookup,     \* BlockCache::lookup_
    persistent, \* BlockCache::persistentBlocks_
    dirty,      \* BlockCache::persistentDirty_
    file,       \* the persistent cache file
    maximum,    \* Dispatcher::maximumInstructionsPerBlock_
    dispatch,   \* Dispatcher::dispatchCache_
    rip,
    rsp,
    pc,         \* "idle", "fetch" or "block"
    cur,        \* the running block and its GuestExecutionContext
    executed,   \* DispatchResult::executedBlocks
    recent,     \* recentBlocks_, recentBlockCount_, nextRecentBlock_
    trace,      \* history: every block execution that run has counted
    begun,      \* history: how often a block began in this run, counted or not
    outcome     \* how the last run ended

guestVars == <<mem, version>>
cacheVars == <<heap, blocks, lookup, persistent, dirty>>
fileVars == <<file, maximum>>
registerVars == <<rip, rsp>>
countVars == <<executed, recent, trace>>
vars == <<guestVars, cacheVars, fileVars, dispatch, registerVars, pc, cur,
          countVars, begun, outcome>>

-----------------------------------------------------------------------------
(* Decoding and the shape of a block.                                      *)

\* Decoder::decodeBlock: s is the block that starts at a.
IsDecoded(m, a, limit, s) ==
    /\ Len(s) \in 1 .. limit
    /\ \A k \in 1 .. Len(s) :
          /\ a + k - 1 \in Code
          /\ s[k] = m[a + k - 1]
          /\ s[k] \notin {Unmapped, "bad"}
          /\ k < Len(s) => s[k] \notin Terminators
    /\ s[Len(s)] \in Terminators \/ Len(s) = limit

\* What decodeBlock returns at a: nothing when it throws.
Decodings(m, a, limit) ==
    LET lengths == {n \in 1 .. limit : a + n - 1 \in Code}
    IN  {s \in {[k \in 1 .. n |-> m[a + k - 1]] : n \in lengths} :
            IsDecoded(m, a, limit, s)}

\* ir::hasInternalSelfEdge: the block may branch back to its own start.
hasInternalSelfEdge(s) == s[Len(s)] = "loop"

Has(s, kind) == \E k \in 1 .. Len(s) : s[k] = kind

\* canCompileOptimizedLoop: the optimizing tier takes byte accesses only, and
\* all of them loads or all of them stores.
canCompileOptimizedLoop(s) ==
    /\ hasInternalSelfEdge(s)
    /\ ~Has(s, "store")
    /\ ~(Has(s, "load8") /\ Has(s, "store8"))

\* optimizedLoopUsesMemory
optimizedLoopUsesMemory(s) == Has(s, "load8") \/ Has(s, "store8")

\* Backend: the loop keeps the direct-read window in host registers, or the
\* direct-write window when it loads no byte.
pinsDirectRead(s) == hasInternalSelfEdge(s) /\ Has(s, "load8")
pinsDirectWrite(s) == hasInternalSelfEdge(s) /\ ~Has(s, "load8") /\ Has(s, "store8")

\* The loop may have a span: after a guard has proved the range of all its
\* repetitions it goes back into its own middle, to the first byte load or to
\* its one byte store.  Whether a loop of this kind has the right induction
\* variable and exit is left open.
directReadSpan(s) == pinsDirectRead(s) /\ ~Has(s, "store")
directWriteSpan(s) ==
    /\ pinsDirectWrite(s)
    /\ ~Has(s, "store")
    /\ \A j, k \in 1 .. Len(s) : s[j] = "store8" /\ s[k] = "store8" => j = k

\* directReadFastEntry and directWriteFastEntry: k is where a repetition starts
\* whose span has been validated.
IsFastEntry(s, k) ==
    IF pinsDirectRead(s)
    THEN s[k] = "load8" /\ \A j \in 1 .. k - 1 : s[j] # "load8"
    ELSE s[k] = "store8"

\* A block built by the translator, and one taken from the cache file, whose
\* IR is missing: there a self edge stands in for the full check.
Translated(s) ==
    LET candidate == HasLlvm /\ canCompileOptimizedLoop(s)
    IN  [source |-> s, maximum |-> maximum, count |-> 0, loop |-> FALSE,
         candidate |-> candidate,
         warmup |-> IF candidate /\ optimizedLoopUsesMemory(s)
                    THEN MemoryWarmup ELSE Warmup]

loadCached(s) ==
    [source |-> s, maximum |-> maximum, count |-> 0, loop |-> FALSE,
     candidate |-> HasLlvm /\ hasInternalSelfEdge(s), warmup |-> Warmup]

\* TranslatedBlock::promoteOptimizedLoopIfHot, when it does not throw.
promoteOptimizedLoopIfHot(block, left) ==
    CASE \/ ~block.candidate \/ block.loop
         \/ block.count < block.warmup \/ left < MinimumLeft -> block
      [] OTHER ->
    CASE ~canCompileOptimizedLoop(block.source) ->
            [block EXCEPT !.candidate = FALSE]
      [] /\ canCompileOptimizedLoop(block.source)
         /\ optimizedLoopUsesMemory(block.source)
         /\ block.count < MemoryWarmup ->
            [block EXCEPT !.warmup = MemoryWarmup]
      [] OTHER -> [block EXCEPT !.loop = TRUE]

\* Mutant: the rest of the warm-up, whatever is left of the block limit.
batchLimitIgnoresBudget(block, left) ==
    IF ~block.candidate \/ block.loop \/ block.count >= block.warmup
    THEN left
    ELSE block.warmup - block.count

\* TranslatedBlock::executionBatchLimit: stop where the warm-up ends.
executionBatchLimit(block, left) ==
    IF ~block.candidate \/ block.loop \/ block.count >= block.warmup
       \/ left < block.warmup - block.count
    THEN left
    ELSE block.warmup - block.count

NoEntry == [address |-> 0, version |-> 0, block |-> Null]
NoIndex == [block |-> Null, version |-> 0]
NoContext == [block |-> Null, address |-> 0, from |-> 1, at |-> 1, limit |-> 0,
              left |-> 0, optimized |-> FALSE, stop |-> FALSE,
              attempted |-> FALSE, direct |-> FALSE, span |-> FALSE]
NoRecent == [blocks |-> [k \in 0 .. Capacity - 1 |-> 0], count |-> 0, next |-> 0]

Source == heap[cur.block].source
NextRip == cur.address + Len(Source)

Init ==
    /\ mem \in Programs
    /\ version = 0
    /\ heap = [b \in Blocks |-> Null]
    /\ blocks = [a \in Code |-> Null]
    /\ lookup = [a \in Code |-> NoIndex]
    /\ persistent = [a \in Code |-> Null]
    /\ dirty = FALSE
    /\ file = [a \in Code |-> Null]
    /\ maximum \in Maxima
    /\ dispatch = [k \in 0 .. DispatchSize - 1 |-> NoEntry]
    /\ rip = 0
    /\ rsp = 0
    /\ pc = "idle"
    /\ cur = NoContext
    /\ executed = 0
    /\ recent = NoRecent
    /\ trace = << >>
    /\ begun = 0
    /\ outcome = "none"

-----------------------------------------------------------------------------
(* Dispatcher::run: the loop around the blocks.                            *)

\* run is entered: counters start afresh, the caches stay.
Run(r, s) ==
    /\ pc = "idle"
    /\ pc' = "fetch"
    /\ rip' = r /\ rsp' = s
    /\ executed' = 0 /\ trace' = << >> /\ begun' = 0
    /\ recent' = [recent EXCEPT !.count = 0, !.next = 0]
    /\ heap' = [b \in Blocks |->
                  IF heap[b] = Null THEN Null ELSE [heap[b] EXCEPT !.count = 0]]
    /\ outcome' = "none"
    /\ UNCHANGED <<guestVars, fileVars, blocks, lookup, persistent, dirty,
                   dispatch, cur>>

\* An exception leaves run, or run returns.
Leave(how) == pc' = "idle" /\ outcome' = how /\ cur' = NoContext

SlotOf(a) == (a \div 2) % DispatchSize

\* Mutant: the version of the entry is not compared.
DispatchHitAnyVersion ==
    LET entry == dispatch[SlotOf(rip)]
    IN  entry.block # Null /\ entry.address = rip

\* The dispatch cache entry for rip is usable.
DispatchHit ==
    LET entry == dispatch[SlotOf(rip)]
    IN  entry.block # Null /\ entry.address = rip /\ entry.version = version

\* BlockCache::findCurrent
findCurrent == 
    IF rip \in Code /\ lookup[rip].version = version THEN lookup[rip].block ELSE Null

\* run has a block: remember it in the dispatch cache, let a hot loop be
\* promoted, and enter the generated code with the batch it is allowed.
\* Compiling a hot loop may throw.
EnterBlock(objects, b) ==
    LET left == MaximumBlocks - executed
        block == promoteOptimizedLoopIfHot(objects[b], left)
        limit == executionBatchLimit(block, left)
    IN  /\ dispatch' = [dispatch EXCEPT ![SlotOf(rip)] =
                          [address |-> rip, version |-> version, block |-> b]]
        /\ \/ /\ heap' = [objects EXCEPT ![b] = block]
              /\ pc' = "block"
              /\ cur' = [NoContext EXCEPT !.block = b, !.address = rip,
                           !.limit = limit, !.left = limit,
                           !.optimized = block.loop]
              /\ begun' = begun + 1
              /\ UNCHANGED outcome
           \/ /\ block.loop /\ ~objects[b].loop
              /\ heap' = objects
              /\ Leave("error")
              /\ UNCHANGED begun
        /\ UNCHANGED <<guestVars, fileVars, registerVars, countVars>>

Fetching == pc = "fetch" /\ executed < MaximumBlocks

UseDispatchEntry ==
    /\ Fetching
    /\ DispatchHit
    /\ EnterBlock(heap, dispatch[SlotOf(rip)].block)
    /\ UNCHANGED <<blocks, lookup, persistent, dirty>>

UseCurrentBlock ==
    /\ Fetching /\ ~DispatchHit
    /\ findCurrent # Null
    /\ EnterBlock(heap, findCurrent)
    /\ UNCHANGED <<blocks, lookup, persistent, dirty>>

Missed == Fetching /\ ~DispatchHit /\ findCurrent = Null

\* codeAt: AddressSpace::executableBytes finds executable bytes at rip.
HasCode(a) == a \in Code /\ mem[a] # Unmapped

\* sourceMatches: the saved bytes are a prefix of the bytes at a.
sourceMatches(s, a) ==
    \A k \in 1 .. Len(s) : a + k - 1 \in Code /\ mem[a + k - 1] = s[k]

\* Storage for a new TranslatedBlock, while every older one is still alive.
IsFresh(b) == heap[b] = Null

\* getOrTranslate, the address is known and its bytes are the same.
ReuseBlock ==
    /\ Missed /\ HasCode(rip)
    /\ lookup[rip].block # Null
    /\ sourceMatches(heap[lookup[rip].block].source, rip)
    /\ lookup' = [lookup EXCEPT ![rip].version = version]
    /\ EnterBlock(heap, lookup[rip].block)
    /\ UNCHANGED <<blocks, persistent, dirty>>

\* getOrTranslate, the address is known and its bytes have changed.
MustReplace(old) ==
    /\ Missed /\ HasCode(rip)
    /\ old # Null
    /\ ~sourceMatches(heap[old].source, rip)

\* Mutants: the index keeps the retired block; the reference returned is to
\* the block that was swapped out; the cache is not marked dirty.
ReplaceLeavesIndex(b, s) ==
    LET old == lookup[rip].block
    IN  /\ MustReplace(old) /\ IsFresh(b)
        /\ dirty' = HasPath
        /\ blocks' = [blocks EXCEPT ![rip] = b]
        /\ lookup' = [lookup EXCEPT ![rip].version = version]
        /\ EnterBlock([heap EXCEPT ![b] = Translated(s), ![old] = Null], b)
        /\ UNCHANGED persistent

ReplaceReturnsOld(b, s) ==
    LET old == lookup[rip].block
    IN  /\ MustReplace(old) /\ IsFresh(b)
        /\ dirty' = HasPath
        /\ blocks' = [blocks EXCEPT ![rip] = b]
        /\ lookup' = [lookup EXCEPT ![rip] = [block |-> b, version |-> version]]
        /\ EnterBlock([heap EXCEPT ![b] = Translated(s)], old)
        /\ UNCHANGED persistent

ReplaceStaysClean(b, s) ==
    LET old == lookup[rip].block
    IN  /\ MustReplace(old) /\ IsFresh(b)
        /\ blocks' = [blocks EXCEPT ![rip] = b]
        /\ lookup' = [lookup EXCEPT ![rip] = [block |-> b, version |-> version]]
        /\ EnterBlock([heap EXCEPT ![b] = Translated(s), ![old] = Null], b)
        /\ UNCHANGED <<persistent, dirty>>

\* The replacement is complete before the old block is retired.
ReplaceBlock(b, s) ==
    LET old == lookup[rip].block
    IN  /\ MustReplace(old) /\ IsFresh(b)
        /\ dirty' = HasPath
        /\ blocks' = [blocks EXCEPT ![rip] = b]
        /\ lookup' = [lookup EXCEPT ![rip] = [block |-> b, version |-> version]]
        /\ EnterBlock([heap EXCEPT ![b] = Translated(s), ![old] = Null], b)
        /\ UNCHANGED persistent

\* Mutant: a record made under another instruction limit is accepted.
PersistentHitAnyLimit ==
    persistent[rip] # Null /\ sourceMatches(persistent[rip].source, rip)

\* The record of the cache file that getOrTranslate may use for rip.
PersistentHit ==
    /\ persistent[rip] # Null
    /\ persistent[rip].maximum = maximum
    /\ sourceMatches(persistent[rip].source, rip)

\* getOrTranslate, the address is new and the cache file had it.
InsertCached(b) ==
    /\ Missed /\ HasCode(rip)
    /\ lookup[rip].block = Null
    /\ PersistentHit
    /\ IsFresh(b)
    /\ persistent' = [persistent EXCEPT ![rip] = Null]
    /\ blocks' = [blocks EXCEPT ![rip] = b]
    /\ lookup' = [lookup EXCEPT ![rip] = [block |-> b, version |-> version]]
    /\ EnterBlock([heap EXCEPT ![b] = loadCached(persistent[rip].source)], b)
    /\ UNCHANGED dirty

\* getOrTranslate, the address is new: translate it.
InsertTranslated(b, s) ==
    /\ Missed /\ HasCode(rip)
    /\ lookup[rip].block = Null
    /\ ~PersistentHit
    /\ IsFresh(b)
    /\ dirty' = HasPath
    /\ blocks' = [blocks EXCEPT ![rip] = b]
    /\ lookup' = [lookup EXCEPT ![rip] = [block |-> b, version |-> version]]
    /\ EnterBlock([heap EXCEPT ![b] = Translated(s)], b)
    /\ UNCHANGED persistent

\* Nothing executable at rip, or the decoder rejects it: run throws, and the
\* caches are as they were.
FetchFault ==
    /\ Missed
    /\ \/ ~HasCode(rip)
       \/ /\ HasCode(rip)
          /\ Decodings(mem, rip, maximum) = {}
          /\ lookup[rip].block # Null =>
                ~sourceMatches(heap[lookup[rip].block].source, rip)
          /\ lookup[rip].block = Null => ~PersistentHit
    /\ Leave("error")
    /\ UNCHANGED <<guestVars, cacheVars, fileVars, dispatch, registerVars, countVars,
                   begun>>

\* The block limit is reached before the guest exits.
LimitReached ==
    /\ pc = "fetch" /\ executed >= MaximumBlocks
    /\ Leave("limit")
    /\ UNCHANGED <<guestVars, cacheVars, fileVars, dispatch, registerVars, countVars,
                   begun>>

-----------------------------------------------------------------------------
(* TranslatedBlock::executeRepeated and the exits of run.                  *)

\* AddressSpace::find succeeds for a one-cell access.
IsMapped(a) == a \in Data \/ HasCode(a)

\* Mutant: the version is not bumped.
WriteCellUnversioned(a, v) ==
    IF a \in Code
    THEN mem' = [mem EXCEPT ![a] = v] /\ UNCHANGED version
    ELSE UNCHANGED <<mem, version>>

\* AddressSpace::writeBytes on a mapped cell: a write to executable memory
\* bumps the version.  The contents of the data segment are abstracted.
WriteCell(a, v) ==
    IF a \in Code
    THEN mem' = [mem EXCEPT ![a] = v] /\ version' = version + 1
    ELSE UNCHANGED <<mem, version>>

CanWrite(a) == IsMapped(a) /\ (a \in Code => version < MaxVersion)

\* Entries next, next + 1, ... of the ring become a.
Refill(a, n) ==
    [k \in 0 .. Capacity - 1 |->
       IF \E j \in 0 .. n - 1 : k = ((recent.next + j) % Capacity)
       THEN a ELSE recent.blocks[k]]

CountAfter(n) == IF recent.count + n < Capacity THEN recent.count + n ELSE Capacity

\* Mutants: next does not wrap; filling the ring forgets its count.
recordRecentUnwrapped(a, n) ==
    [blocks |-> Refill(a, n), count |-> CountAfter(n), next |-> recent.next + n]

recordRecentKeepsCount(a, n) ==
    IF n >= Capacity
    THEN [recent EXCEPT !.blocks = [k \in 0 .. Capacity - 1 |-> a], !.next = 0]
    ELSE [blocks |-> Refill(a, n), count |-> CountAfter(n),
          next |-> (recent.next + n) % Capacity]

\* The ring buffer after n executions of the block at a.
recordRecent(a, n) ==
    IF n >= Capacity
    THEN [blocks |-> [k \in 0 .. Capacity - 1 |-> a], count |-> Capacity, next |-> 0]
    ELSE [blocks |-> Refill(a, n), count |-> CountAfter(n),
          next |-> (recent.next + n) % Capacity]

\* Dispatcher::recentBlocks, oldest first.
recentBlocks ==
    LET first == (recent.next + Capacity - recent.count) % Capacity
    IN  [k \in 1 .. recent.count |-> recent.blocks[(first + k - 1) % Capacity]]

\* The generated code returned after n executions: run counts them.
CountExecutions(n) ==
    /\ executed' = executed + n
    /\ heap' = [heap EXCEPT ![cur.block].count = @ + n]
    /\ recent' = recordRecent(cur.address, n)
    /\ trace' = trace \o [k \in 1 .. n |-> cur.address]
    /\ UNCHANGED <<blocks, lookup, persistent, dirty, fileVars, dispatch>>

\* The next iteration of run.
Dispatch == pc' = "fetch" /\ cur' = NoContext /\ UNCHANGED outcome

\* BlockExit::Continue
Continue(n, target) ==
    /\ CountExecutions(n)
    /\ rip' = target
    /\ Dispatch
    /\ UNCHANGED <<guestVars, rsp>>

\* A helper faulted: rip is the faulting instruction, nothing is counted.
BlockFault ==
    /\ rip' = cur.address + cur.at - 1
    /\ Leave("fault")
    /\ UNCHANGED <<guestVars, cacheVars, fileVars, dispatch, rsp, countVars, begun>>

InBlock == pc = "block"

\* The optimized loop runs the whole batch, or leaves the loop early.  Its
\* stores have been proved to stay in one window of the data segment, its loads
\* in one window of any mapping.
RunOptimized(n) ==
    /\ InBlock /\ cur.optimized
    /\ n \in 1 .. cur.limit
    /\ Has(Source, "store8") => Data # {}
    /\ begun' = begun + n - 1
    /\ \/ Continue(n, NextRip)
       \/ n = cur.limit /\ Continue(n, cur.address)

\* A memory loop whose range is not provably safe stays on the baseline.
FallBack ==
    /\ InBlock /\ cur.optimized
    /\ optimizedLoopUsesMemory(Source)
    /\ cur' = [cur EXCEPT !.optimized = FALSE]
    /\ UNCHANGED <<guestVars, cacheVars, fileVars, dispatch, registerVars, pc,
                   countVars, begun, outcome>>

Executing == InBlock /\ ~cur.optimized

\* The instruction the baseline code is about to execute.
AtInstruction(kind) == Executing /\ cur.at <= Len(Source) /\ Source[cur.at] = kind

StepOp ==
    /\ AtInstruction("op")
    /\ cur' = [cur EXCEPT !.at = @ + 1]
    /\ UNCHANGED <<guestVars, cacheVars, fileVars, dispatch, registerVars, pc,
                   countVars, begun, outcome>>

\* storeGuest16/32/64: always the checked path.
StepStore(a, v) ==
    /\ AtInstruction("store")
    /\ IF IsMapped(a)
       THEN /\ CanWrite(a)
            /\ WriteCell(a, v)
            /\ cur' = [cur EXCEPT !.at = @ + 1, !.stop = @ \/ a \in Code]
            /\ UNCHANGED <<cacheVars, fileVars, dispatch, registerVars, pc,
                           countVars, begun, outcome>>
       ELSE BlockFault

\* loadGuest8 and the direct loads.  The first byte load of a span loop tries
\* to validate the span; until then every load is checked.  The helper of a
\* later load leaves anything in the register that says so.
StepLoad8(a) ==
    /\ AtInstruction("load8")
    /\ LET validated == cur.span /\ IsFastEntry(Source, cur.at)
       IN  IF validated \/ IsMapped(a)
           THEN /\ \E span \in IF validated THEN {TRUE}
                                ELSE IF directReadSpan(Source) THEN BOOLEAN
                                ELSE {FALSE} :
                      cur' = [cur EXCEPT !.at = @ + 1, !.span = span]
                /\ UNCHANGED <<guestVars, cacheVars, fileVars, dispatch,
                               registerVars, pc, countVars, begun, outcome>>
           ELSE BlockFault

\* The register that says the span is valid, after a byte store: the helper
\* leaves anything in it in a read loop; in a write loop the guard that follows
\* the helper may accept a range that lies in the window.
SpansAfterStore(a, window) ==
    CASE directReadSpan(Source) -> BOOLEAN
      [] directWriteSpan(Source) /\ cur.span -> {TRUE}
      [] directWriteSpan(Source) /\ ~cur.span -> {FALSE, window /\ a \in Data}
      [] OTHER -> {FALSE}

\* storeGuest8: inside a batch the first byte store tries to obtain a direct
\* window on its mapping, which only the data segment grants; a later store
\* that falls into the window bypasses the checked path, and one of a validated
\* span does nothing else.
StepStore8(a, v) ==
    /\ AtInstruction("store8")
    /\ directWriteSpan(Source) /\ cur.span => a \in Data
    /\ LET tries == hasInternalSelfEdge(Source) /\ ~cur.attempted
           window == cur.direct \/ (tries /\ a \in Data)
       IN  IF IsMapped(a)
           THEN /\ CanWrite(a)
                /\ WriteCell(a, v)
                /\ \E span \in SpansAfterStore(a, window) :
                      cur' = [cur EXCEPT !.at = @ + 1,
                                !.attempted = @ \/ tries,
                                !.direct = window,
                                !.stop = @ \/ a \in Code,
                                !.span = span]
                /\ UNCHANGED <<cacheVars, fileVars, dispatch, registerVars, pc,
                               countVars, begun, outcome>>
           ELSE BlockFault

\* The instruction limit ended the block: go on behind it.
EndAtLimit ==
    /\ Executing /\ cur.at > Len(Source)
    /\ Continue(1, NextRip)
    /\ UNCHANGED begun

\* An indirect jump.
EndJump(target) ==
    /\ AtInstruction("jump")
    /\ Continue(1, target)
    /\ UNCHANGED begun

\* Mutant: the flag is never looked at.
stopsNever == FALSE

\* emitStopRepeatingCheck: code that keeps the direct-write window in a
\* register skips the check while it has a window.
stopsRepeating == cur.stop /\ ~(pinsDirectWrite(Source) /\ cur.direct)

\* The next repetition starts: at the first instruction, or in the middle when
\* the span of the loop is valid.
Repeat(left) ==
    /\ \E k \in 1 .. Len(Source) :
          /\ IF cur.span THEN IsFastEntry(Source, k) ELSE k = 1
          /\ cur' = [cur EXCEPT !.left = left, !.from = k, !.at = k]
    /\ begun' = begun + 1
    /\ UNCHANGED <<guestVars, cacheVars, fileVars, dispatch, registerVars, pc,
                   countVars, outcome>>

\* Mutants: the repetitions are not counted down (nor in the history, which would
\* have no end); the last repetition is not counted.
EndLoopUncounted ==
    /\ AtInstruction("loop")
    /\ UNCHANGED begun
    /\ \/ Continue(1, NextRip)
       \/ ~cur.span /\ stopsRepeating /\ Continue(1, cur.address)
       \/ /\ cur.span \/ ~stopsRepeating
          /\ \E k \in 1 .. Len(Source) :
                /\ IF cur.span THEN IsFastEntry(Source, k) ELSE k = 1
                /\ cur' = [cur EXCEPT !.from = k, !.at = k]
          /\ UNCHANGED <<guestVars, cacheVars, fileVars, dispatch, registerVars, pc,
                         countVars, outcome>>

EndLoopMiscounts ==
    /\ AtInstruction("loop")
    /\ LET left == cur.left - 1
           done == cur.limit - left
       IN  \/ Continue(done, NextRip) /\ UNCHANGED begun
           \/ /\ left = 0 \/ (~cur.span /\ stopsRepeating)
              /\ Continue(cur.limit - cur.left, cur.address)
              /\ UNCHANGED begun
           \/ left # 0 /\ (cur.span \/ ~stopsRepeating) /\ Repeat(left)

\* The conditional branch of a self-looping block and emitSelfEdge: a loop with
\* a valid span goes back without the test of emitStopRepeatingCheck.
EndLoop ==
    /\ AtInstruction("loop")
    /\ LET left == cur.left - 1
           done == cur.limit - left
       IN  \/ Continue(done, NextRip) /\ UNCHANGED begun
           \/ /\ left = 0 \/ (~cur.span /\ stopsRepeating)
              /\ Continue(done, cur.address)
              /\ UNCHANGED begun
           \/ left # 0 /\ (cur.span \/ ~stopsRepeating) /\ Repeat(left)

\* BlockExit::Call: the generated code has already stored the target in rip.
EndCall(target, v) ==
    /\ AtInstruction("call")
    /\ CountExecutions(1)
    /\ UNCHANGED begun
    /\ CASE rsp < 1 ->
              /\ Leave("underflow")
              /\ rip' = target
              /\ UNCHANGED <<guestVars, rsp>>
         [] rsp >= 1 /\ ~IsMapped(rsp - 1) ->
              /\ Leave("callfault")
              /\ rip' = cur.address
              /\ UNCHANGED <<guestVars, rsp>>
         [] OTHER ->
              /\ CanWrite(rsp - 1)
              /\ WriteCell(rsp - 1, v)
              /\ rsp' = rsp - 1
              /\ rip' = target
              /\ Dispatch

\* BlockExit::Return: the target is read before rsp moves.
EndReturn(target) ==
    /\ AtInstruction("ret")
    /\ CountExecutions(1)
    /\ UNCHANGED <<guestVars, begun>>
    /\ IF IsMapped(rsp)
       THEN /\ rsp' = rsp + 1
            /\ \/ /\ rip' = target
                  /\ Dispatch
               \/ /\ rip' = cur.address + cur.at - 1
                  /\ Leave("sentinel")
       ELSE /\ rip' = cur.address + cur.at - 1
            /\ Leave("fault")
            /\ UNCHANGED rsp

\* BlockExit::Syscall: the guest exits, the call changes no code, it maps,
\* unmaps or writes code, or it is not supported and throws.
EndSyscall(a, v) ==
    /\ AtInstruction("syscall")
    /\ CountExecutions(1)
    /\ rip' = NextRip
    /\ UNCHANGED <<rsp, begun>>
    /\ \/ Leave("exit") /\ UNCHANGED guestVars
       \/ Leave("error") /\ UNCHANGED guestVars
       \/ Dispatch /\ UNCHANGED guestVars
       \/ /\ version < MaxVersion
          /\ mem' = [mem EXCEPT ![a] = v]
          /\ version' = version + 1
          /\ Dispatch

-----------------------------------------------------------------------------
(* The persistent translation cache.                                       *)

\* What savePersistent writes for each address.
Records ==
    [a \in Code |->
       IF blocks[a] = Null THEN persistent[a]
       ELSE [source |-> heap[blocks[a]].source,
             maximum |-> heap[blocks[a]].maximum]]

\* BlockCache::flushPersistent; a failed write or rename changes nothing.
flushPersistent ==
    /\ pc = "idle"
    /\ dirty
    /\ file' = Records
    /\ dirty' = FALSE
    /\ UNCHANGED <<guestVars, heap, blocks, lookup, persistent, maximum,
                   dispatch, registerVars, pc, cur, countVars, begun, outcome>>

\* A process ends and the next one starts with the same cache file.  The
\* destructor saves, unless the process was killed or the write failed; the
\* next process runs any program and may find the file unreadable.
NextProcess(program, limit) ==
    /\ \/ UNCHANGED file
       \/ pc = "idle" /\ dirty /\ file' = Records
    /\ persistent' \in {file', [a \in Code |-> Null]}
    /\ maximum' = limit
    /\ mem' = program /\ version' = 0
    /\ heap' = [b \in Blocks |-> Null]
    /\ blocks' = [a \in Code |-> Null]
    /\ lookup' = [a \in Code |-> NoIndex]
    /\ dirty' = FALSE
    /\ dispatch' = [k \in 0 .. DispatchSize - 1 |-> NoEntry]
    /\ rip' = 0 /\ rsp' = 0
    /\ pc' = "idle" /\ cur' = NoContext
    /\ executed' = 0 /\ recent' = NoRecent /\ trace' = << >> /\ begun' = 0
    /\ outcome' = "none"

-----------------------------------------------------------------------------
FetchNext ==
    \/ UseDispatchEntry \/ UseCurrentBlock \/ ReuseBlock
    \/ \E b \in Blocks :
          \/ InsertCached(b)
          \/ \E s \in Decodings(mem, rip, maximum) :
                ReplaceBlock(b, s) \/ InsertTranslated(b, s)
    \/ FetchFault \/ LimitReached

BlockNext ==
    \/ \E n \in 1 .. MaximumBlocks : RunOptimized(n)
    \/ FallBack \/ StepOp \/ EndAtLimit \/ EndLoop
    \/ \E a \in Address : StepLoad8(a)
    \/ \E a \in Address, v \in Cell : StepStore(a, v) \/ StepStore8(a, v)
    \/ \E t \in Code : EndJump(t) \/ EndReturn(t)
    \/ \E t \in Code, v \in Cell : EndCall(t, v)
    \/ \E a \in Code, v \in Cell \cup {Unmapped} : EndSyscall(a, v)

EnvironmentNext ==
    \/ \E r \in Entries, s \in Stacks : Run(r, s)
    \/ flushPersistent
    \/ \E program \in Programs, limit \in Maxima : NextProcess(program, limit)

Next == FetchNext \/ BlockNext \/ EnvironmentNext

\* The host thread keeps running the dispatcher and the generated code.
Fairness == WF_vars(FetchNext \/ BlockNext)

Spec == Init /\ [][Next]_vars /\ Fairness

-----------------------------------------------------------------------------
(* Properties.                                                             *)

\* Types of the state of the dispatcher, its caches and the guest.
TypeOK ==
    /\ mem \in [Code -> Cell \cup {Unmapped}]
    /\ version \in 0 .. MaxVersion
    /\ heap \in [Blocks -> BlockType \cup {Null}]
    /\ \A b \in Blocks : heap[b] # Null =>
          heap[b].source # << >> /\ heap[b].count <= MaximumBlocks
    /\ blocks \in [Code -> Blocks \cup {Null}]
    /\ lookup \in [Code -> [block : Blocks \cup {Null}, version : 0 .. MaxVersion]]
    /\ {persistent, file} \subseteq [Code -> Record \cup {Null}]
    /\ dirty \in BOOLEAN
    /\ maximum \in Maxima
    /\ dispatch \in [0 .. DispatchSize - 1 ->
          [address : Rip, version : 0 .. MaxVersion, block : Blocks \cup {Null}]]
    /\ {rip, rsp} \subseteq Rip
    /\ pc \in {"idle", "fetch", "block"}
    /\ executed \in 0 .. MaximumBlocks
    /\ recent.count \in 0 .. Capacity /\ recent.next \in 0 .. Capacity - 1

\* A block that starts, or starts again inside a batch, is the translation of
\* the guest code that is in memory at that moment: no store, system call,
\* remapping, dispatch-cache hit or cached translation of an earlier process
\* makes run execute code that is no longer there (run, getOrTranslate and
\* the repeated entry of the generated code).
NoStaleBlock ==
    pc = "block" /\ cur.at = cur.from =>
        IsDecoded(mem, cur.address, maximum, Source)

\* Code that is no longer in memory is started in two ways only, both of them
\* repetitions of a loop with a byte store that went back without looking at the
\* flag stopRepeating, which is set: the loop keeps a direct-write window in a
\* register and has one (emitStopRepeatingCheck), or it loads bytes and the
\* register that holds the validity of its read span is not zero
\* (directReadFastEntry of emitSelfEdge).  The first execution of a batch, a loop
\* with a wide store and every other block run what is in memory.
StaleOnlyUnchecked ==
    pc = "block" /\ cur.at = cur.from =>
        \/ IsDecoded(mem, cur.address, maximum, Source)
        \/ /\ cur.stop /\ cur.left < cur.limit /\ Has(Source, "store8")
           /\ \/ pinsDirectWrite(Source) /\ cur.direct
              \/ directReadSpan(Source) /\ cur.span

\* Every cache entry that the current version makes usable names a live block
\* with the code that is in memory: the pointers the dispatch cache keeps to
\* retired blocks are never followed, although getOrTranslate clears none of
\* them and the storage of a retired block is used again.
UsableEntriesAreLive ==
    /\ \A k \in DOMAIN dispatch :
          LET entry == dispatch[k]
          IN  entry.block # Null /\ entry.version = version =>
                /\ entry.block = blocks[entry.address]
                /\ heap[entry.block] # Null
    /\ pc = "block" => blocks[cur.address] = cur.block /\ heap[cur.block] # Null

\* blocks_ owns exactly the blocks that exist and lookup_ indexes exactly
\* those, so that "translated block ownership/index disagree" cannot happen,
\* whatever translation failed before.
OwnershipMatchesIndex ==
    /\ \A a \in Code : lookup[a].block = blocks[a]
    /\ \A a, c \in Code : a # c /\ blocks[a] # Null => blocks[a] # blocks[c]
    /\ {b \in Blocks : heap[b] # Null} = {blocks[a] : a \in Code} \ {Null}

\* The report of recent blocks is the tail of the executions that were
\* counted, however they were batched (recentBlocks and the ring buffer).
RecentIsTail ==
    LET n == IF Len(trace) < Capacity THEN Len(trace) ELSE Capacity
    IN  recentBlocks = [k \in 1 .. n |-> trace[Len(trace) - n + k]]

\* The block limit bounds the executions whatever batches the generated code
\* runs, and a loop below its warm-up is never run past it (executionBatchLimit).
WithinBudget ==
    /\ executed <= MaximumBlocks
    /\ pc = "block" =>
          /\ executed + cur.limit <= MaximumBlocks
          /\ cur.left \in 1 .. cur.limit
          /\ LET block == heap[cur.block]
             IN  block.candidate /\ ~block.loop /\ block.count < block.warmup =>
                    block.count + cur.limit <= block.warmup

\* A translation that the cache file does not hold keeps the cache dirty, so
\* that the next save writes it: a block read from the file, replaced later or
\* retained from a failed save is never dropped (savePersistent).
CleanMeansSaved ==
    HasPath /\ ~dirty => \A a \in Code : blocks[a] # Null => file[a] = Records[a]

\* run counts a block as often as it began, through every batch of the generated
\* code, its entry in the middle, the optimizing tier and the fall-back from it;
\* only the batch that a fault ends is not counted (executionCount of
\* executeRepeated and executedBlocks of run).
CountsEveryStart ==
    /\ pc = "block" => begun = executed + (cur.limit - cur.left) + 1
    /\ pc # "block" /\ outcome # "fault" => begun = executed

\* run comes back, because every batch is bounded by what is left of the
\* block limit: a self-looping block cannot hold the dispatcher for ever.
RunTerminates == pc = "fetch" ~> pc = "idle"
=============================================================================
