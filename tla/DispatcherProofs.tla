-------------------------- MODULE DispatcherProofs --------------------------
(***************************************************************************)
(* Proofs about Dispatcher.                                                *)
(*                                                                         *)
(* No property of interest is inductive alone.  A usable dispatch entry    *)
(* names a live block because the index has the same version for its       *)
(* address; an index entry of the current version has its bytes in memory  *)
(* because memory never changes without the version; a block whose bytes   *)
(* are compared again is a decoding because its shape was right when it    *)
(* was made.  IInv joins these facts, the batch of the running block, the  *)
(* relation between the blocks, the records and the file, and the ring as  *)
(* a tail of the trace.                                                    *)
(*                                                                         *)
(* A step does one of few things: enter a block (EnterKeeps), leave with   *)
(* nothing counted (FaultKeeps), go on inside a batch (StepKeeps), or      *)
(* count a batch (CountKeeps).  The invariant is shown for each of these   *)
(* and every action is shown to be one of them.                            *)
(***************************************************************************)
EXTENDS Dispatcher, TLAPS

-----------------------------------------------------------------------------
(* The inductive invariant.                                                *)

\* A source that decodeBlock can have returned under an instruction limit.
Shaped(s, limit) ==
    /\ Len(s) \in 1 .. limit
    /\ \A k \in 1 .. Len(s) : k < Len(s) => s[k] \notin Terminators
    /\ s[Len(s)] \in Terminators \/ Len(s) = limit

\* sourceMatches, of any memory.
Matches(m, s, a) == \A k \in 1 .. Len(s) : a + k - 1 \in Code /\ m[a + k - 1] = s[k]

\* A block that was made for address a by this process.
Fits(block, a, limit) ==
    /\ block.maximum = limit
    /\ Shaped(block.source, limit)
    /\ a + Len(block.source) - 1 \in Code

\* The guest, the registers and the flags have their types.
GuestOK ==
    /\ mem \in [Code -> Cell \cup {Unmapped}]
    /\ version \in 0 .. MaxVersion
    /\ maximum \in Maxima
    /\ rip \in Rip /\ rsp \in Rip
    /\ pc \in {"idle", "fetch", "block"}
    /\ dirty \in BOOLEAN

\* Blocks are typed and none was executed more often than run has counted.
HeapOK(h, n) ==
    /\ h \in [Blocks -> BlockType \cup {Null}]
    /\ \A b \in Blocks : h[b] # Null => h[b].count <= n

\* Ownership and index agree, and no block has two addresses.
IndexOK(h, bl, lk) ==
    /\ bl \in [Code -> Blocks \cup {Null}]
    /\ lk \in [Code -> [block : Blocks \cup {Null}, version : 0 .. MaxVersion]]
    /\ \A a \in Code : lk[a].block = bl[a]
    /\ \A a, c \in Code : a # c /\ bl[a] # Null => bl[a] # bl[c]
    /\ \A b \in Blocks : h[b] # Null <=> \E a \in Code : bl[a] = b

\* Every block fits its address; one whose index entry is current is in memory.
CodeOK(h, bl, lk, m, v, limit) ==
    /\ \A a \in Code : lk[a].version <= v
    /\ \A a \in Code : bl[a] # Null => Fits(h[bl[a]], a, limit)
    /\ \A a \in Code : bl[a] # Null /\ lk[a].version = v => Matches(m, h[bl[a]].source, a)

\* A dispatch entry of the current version repeats a current entry of the index.
DispatchOK ==
    /\ dispatch \in [0 .. DispatchSize - 1 ->
          [address : Code, version : 0 .. MaxVersion, block : Blocks \cup {Null}]]
    /\ \A k \in 0 .. DispatchSize - 1 :
          /\ dispatch[k].version <= version
          /\ dispatch[k].block # Null /\ dispatch[k].version = version =>
                /\ dispatch[k].block = blocks[dispatch[k].address]
                /\ lookup[dispatch[k].address].version = version

\* The running block and its GuestExecutionContext.
ContextType ==
    [block : Blocks \cup {Null}, address : Code, from : Nat \ {0}, at : Nat \ {0},
     limit : Nat, left : Nat, optimized : BOOLEAN, stop : BOOLEAN, attempted : BOOLEAN,
     direct : BOOLEAN, span : BOOLEAN]

\* The register that holds the validity of a span is set in loops that may have
\* one, and in a write loop only with a window.
SpanOK(c, s) ==
    c.span => directReadSpan(s) \/ (directWriteSpan(s) /\ c.direct)

\* The loop goes back without looking at the stop flag.
Unchecked(c, s) ==
    (pinsDirectWrite(s) /\ c.direct) \/ (directReadSpan(s) /\ c.span)

\* A repetition starts with the flag set only where nobody looked at it.
StartOK(c, s) ==
    c.at = c.from /\ c.stop => c.left < c.limit /\ Unchecked(c, s)

\* The running block is owned; it is in memory unless the stop flag is set; its
\* batch is within the limits.
RunOK ==
    /\ cur \in ContextType
    /\ pc = "block" =>
        /\ cur.block # Null /\ blocks[cur.address] = cur.block
        /\ cur.from <= cur.at /\ cur.at <= Len(Source) + 1
        /\ cur.stop \/ Matches(mem, Source, cur.address)
        /\ cur.stop => Has(Source, "store") \/ Has(Source, "store8")
        /\ SpanOK(cur, Source) /\ StartOK(cur, Source)
        /\ cur.direct => Data # {}
        /\ executed + cur.limit <= MaximumBlocks
        /\ cur.left \in 1 .. cur.limit
        /\ LET block == heap[cur.block]
           IN  block.candidate /\ ~block.loop /\ block.count < block.warmup =>
                  block.count + cur.limit <= block.warmup

\* Records, of the file or not yet used, are of well-shaped blocks.
RecordsOK(r) ==
    /\ r \in [Code -> Record \cup {Null}]
    /\ \A a \in Code : r[a] # Null => Shaped(r[a].source, r[a].maximum)

\* A record not used yet is still in the file, and so is every block of a clean cache.
SavedOK ==
    /\ RecordsOK(persistent) /\ RecordsOK(file)
    /\ \A a \in Code : blocks[a] = Null /\ persistent[a] # Null => file[a] = persistent[a]
    /\ CleanMeansSaved

\* A position of the ring after at most one turn.
Wrap(x) == IF x < Capacity THEN x ELSE x - Capacity

\* The ring holds the tail of the trace, counted back from the next position.
TraceOK ==
    /\ trace \in Seq(Code)
    /\ executed = Len(trace)
    /\ executed <= MaximumBlocks
    /\ recent \in [blocks : [0 .. Capacity - 1 -> Nat], count : 0 .. Capacity,
                   next : 0 .. Capacity - 1]
    /\ recent.count = IF executed < Capacity THEN executed ELSE Capacity
    /\ \A j \in 1 .. recent.count :
         recent.blocks[Wrap(recent.next + Capacity - j)] = trace[Len(trace) + 1 - j]

\* The inductive invariant.
IInv ==
    /\ GuestOK /\ HeapOK(heap, executed)
    /\ IndexOK(heap, blocks, lookup)
    /\ CodeOK(heap, blocks, lookup, mem, version, maximum)
    /\ DispatchOK /\ RunOK /\ SavedOK /\ TraceOK

-----------------------------------------------------------------------------
\* The assumption on the sizes, constant by constant.
LEMMA Sizes ==
    /\ CodeSize \in Nat \ {0} /\ DispatchSize \in Nat \ {0} /\ Capacity \in Nat \ {0}
    /\ MaximumBlocks \in Nat \ {0} /\ Warmup \in Nat \ {0} /\ MemoryWarmup \in Nat \ {0}
    /\ DataSize \in Nat /\ HoleSize \in Nat /\ MinimumLeft \in Nat /\ MaxVersion \in Nat
    /\ Maxima \subseteq Nat \ {0}
  BY SizeAssumption

\* promoteOptimizedLoopIfHot changes the tier of a block, never its source or its count.
LEMMA PromoteKeeps ==
    ASSUME NEW block \in BlockType, NEW left \in Nat
    PROVE  LET p == promoteOptimizedLoopIfHot(block, left)
           IN  /\ p \in BlockType
               /\ p.source = block.source /\ p.maximum = block.maximum
               /\ p.count = block.count
  BY Sizes DEF promoteOptimizedLoopIfHot, BlockType

\* executionBatchLimit allows at least one execution, at most what is left, and
\* none past the end of the warm-up.
LEMMA LimitBounds ==
    ASSUME NEW block \in BlockType, NEW left \in Nat \ {0}
    PROVE  LET limit == executionBatchLimit(block, left)
           IN  /\ limit \in 1 .. left
               /\ block.candidate /\ ~block.loop /\ block.count < block.warmup =>
                     block.count + limit <= block.warmup
  BY DEF executionBatchLimit, BlockType

\* Every address has a slot of the dispatch cache.
LEMMA SlotInRange ==
    ASSUME NEW a \in Nat
    PROVE  SlotOf(a) \in 0 .. DispatchSize - 1
  <1>1. a \div 2 \in Nat
    OBVIOUS
  <1>2. QED
    BY <1>1, Sizes DEF SlotOf

\* What decodeBlock returns has the shape of a block and is in memory where it was decoded.
LEMMA DecodingFits ==
    ASSUME GuestOK, NEW a \in Code, NEW limit \in Nat \ {0}, NEW s \in Decodings(mem, a, limit)
    PROVE  /\ s \in Seq(Instruction)
           /\ Shaped(s, limit)
           /\ a + Len(s) - 1 \in Code
           /\ Matches(mem, s, a)
  <1>1. PICK n \in {n \in 1 .. limit : a + n - 1 \in Code} :
           s = [k \in 1 .. n |-> mem[a + k - 1]]
    BY DEF Decodings
  <1>2. IsDecoded(mem, a, limit, s)
    BY DEF Decodings
  <1>3. Len(s) = n /\ n \in 1 .. limit
    BY <1>1
  <1>4. \A k \in 1 .. n : a + k - 1 \in Code /\ s[k] = mem[a + k - 1] /\ s[k] \in Instruction
    BY <1>1, <1>2, <1>3, CellAssumption DEF IsDecoded, GuestOK, Instruction
  <1>5. s \in Seq(Instruction)
    BY <1>1, <1>3, <1>4
  <1>6. QED
    BY <1>2, <1>3, <1>4, <1>5 DEF IsDecoded, Shaped, Matches

-----------------------------------------------------------------------------
\* g has the blocks of h with the same code, perhaps other counts and tiers.
SameBlocks(h, g) ==
    /\ g \in [Blocks -> BlockType \cup {Null}]
    /\ \A x \in Blocks : h[x] = Null <=> g[x] = Null
    /\ \A x \in Blocks : h[x] # Null => g[x].source = h[x].source /\ g[x].maximum = h[x].maximum

\* The index and the code of the cache do not depend on counts and tiers.
LEMMA SameBlocksKeep ==
    ASSUME NEW h, NEW g, NEW bl, NEW lk, NEW m, NEW v, NEW limit,
           SameBlocks(h, g), IndexOK(h, bl, lk), CodeOK(h, bl, lk, m, v, limit)
    PROVE  IndexOK(g, bl, lk) /\ CodeOK(g, bl, lk, m, v, limit)
  <1>1. \A a \in Code : bl[a] # Null => bl[a] \in Blocks /\ h[bl[a]] # Null
    BY DEF IndexOK
  <1>2. IndexOK(g, bl, lk)
    BY DEF IndexOK, SameBlocks
  <1>3. \A a \in Code : bl[a] # Null =>
           g[bl[a]].source = h[bl[a]].source /\ g[bl[a]].maximum = h[bl[a]].maximum
    BY <1>1 DEF SameBlocks
  <1>4. QED
    BY <1>2, <1>3 DEF CodeOK, Fits

\* The entries of the dispatch cache that are usable agree with bl and lk.
DispatchSound(bl, lk) ==
    \A k \in 0 .. DispatchSize - 1 :
       dispatch[k].block # Null /\ dispatch[k].version = version =>
          /\ dispatch[k].block = bl[dispatch[k].address]
          /\ lk[dispatch[k].address].version = version

\* run enters a block that is owned, indexed and current: every part of the
\* invariant holds with the block running.
LEMMA EnterKeeps ==
    ASSUME NEW objects, NEW b,
           GuestOK, DispatchOK, TraceOK, Fetching, rip \in Code,
           HeapOK(objects, executed), IndexOK(objects, blocks', lookup'),
           CodeOK(objects, blocks', lookup', mem, version, maximum),
           DispatchSound(blocks', lookup'), dirty' \in BOOLEAN,
           b # Null, b = blocks'[rip], lookup'[rip].version = version,
           EnterBlock(objects, b)
    PROVE  /\ GuestOK' /\ HeapOK(heap', executed') /\ IndexOK(heap', blocks', lookup')
           /\ CodeOK(heap', blocks', lookup', mem', version', maximum')
           /\ DispatchOK' /\ RunOK' /\ TraceOK'
           /\ SameBlocks(objects, heap')
  <1> DEFINE left == MaximumBlocks - executed
             block == promoteOptimizedLoopIfHot(objects[b], left)
             limit == executionBatchLimit(block, left)
  <1>1. left \in Nat \ {0} /\ executed \in Nat
    BY Sizes DEF TraceOK, Fetching
  <1>2. b \in Blocks /\ objects[b] \in BlockType
    BY DEF IndexOK, HeapOK
  <1>3. /\ block \in BlockType /\ block.source = objects[b].source
        /\ block.maximum = objects[b].maximum /\ block.count = objects[b].count
    BY <1>1, <1>2, PromoteKeeps
  <1>4. /\ limit \in 1 .. left
        /\ block.candidate /\ ~block.loop /\ block.count < block.warmup =>
              block.count + limit <= block.warmup
    BY <1>1, <1>3, LimitBounds
  <1>5. /\ dispatch' = [dispatch EXCEPT ![SlotOf(rip)] =
                          [address |-> rip, version |-> version, block |-> b]]
        /\ mem' = mem /\ version' = version /\ maximum' = maximum /\ rip' = rip /\ rsp' = rsp
        /\ executed' = executed /\ recent' = recent /\ trace' = trace
    BY DEF EnterBlock, guestVars, fileVars, registerVars, countVars
  <1>6. \/ /\ heap' = [objects EXCEPT ![b] = block]
           /\ pc' = "block"
           /\ cur' = [NoContext EXCEPT !.block = b, !.address = rip,
                        !.limit = limit, !.left = limit, !.optimized = block.loop]
        \/ heap' = objects /\ pc' = "idle" /\ cur' = NoContext
    BY DEF EnterBlock, Leave
  <1>7. SameBlocks(objects, heap') /\ HeapOK(heap', executed')
    <2>1. block # Null /\ objects[b] # Null
      BY <1>2, <1>3, CellAssumption
    <2>2. CASE heap' = [objects EXCEPT ![b] = block]
      BY <2>1, <2>2, <1>1, <1>2, <1>3, <1>5 DEF SameBlocks, HeapOK
    <2>3. CASE heap' = objects
      BY <2>3, <1>5 DEF SameBlocks, HeapOK
    <2>4. QED
      BY <2>2, <2>3, <1>6
  <1>8. IndexOK(heap', blocks', lookup') /\ CodeOK(heap', blocks', lookup', mem', version', maximum')
    BY <1>5, <1>7, SameBlocksKeep
  <1>9. GuestOK'
    BY <1>5, <1>6 DEF GuestOK
  <1>10. TraceOK'
    BY <1>5 DEF TraceOK
  <1>11. DispatchOK'
    <2>1. SlotOf(rip) \in 0 .. DispatchSize - 1
      BY SlotInRange DEF Code
    <2>2. dispatch' \in [0 .. DispatchSize - 1 ->
             [address : Code, version : 0 .. MaxVersion, block : Blocks \cup {Null}]]
      BY <2>1, <1>2, <1>5 DEF DispatchOK, GuestOK
    <2>3. ASSUME NEW k \in 0 .. DispatchSize - 1
          PROVE  /\ dispatch'[k].version <= version'
                 /\ dispatch'[k].block # Null /\ dispatch'[k].version = version' =>
                      /\ dispatch'[k].block = blocks'[dispatch'[k].address]
                      /\ lookup'[dispatch'[k].address].version = version'
      <3>1. CASE k = SlotOf(rip)
        <4>1. dispatch'[k] = [address |-> rip, version |-> version, block |-> b]
          BY <3>1, <2>1, <1>5 DEF DispatchOK
        <4>2. QED
          BY <4>1, <1>5 DEF GuestOK
      <3>2. CASE k # SlotOf(rip)
        <4>1. dispatch'[k] = dispatch[k]
          BY <3>2, <2>1, <1>5 DEF DispatchOK
        <4>2. QED
          BY <4>1, <1>5 DEF DispatchOK, DispatchSound
      <3>3. QED
        BY <3>1, <3>2
    <2>4. QED
      BY <2>2, <2>3 DEF DispatchOK
  <1>12. RunOK'
    <2>1. CASE cur' = NoContext /\ pc' = "idle"
      BY <2>1, Sizes DEF RunOK, NoContext, ContextType, Code
    <2>2. CASE /\ heap' = [objects EXCEPT ![b] = block]
               /\ pc' = "block"
               /\ cur' = [NoContext EXCEPT !.block = b, !.address = rip,
                            !.limit = limit, !.left = limit, !.optimized = block.loop]
      <3>1. /\ cur'.block = b /\ cur'.address = rip /\ cur'.limit = limit /\ cur'.left = limit
            /\ cur'.at = 1 /\ cur'.from = 1 /\ cur'.stop = FALSE /\ cur'.direct = FALSE
            /\ cur'.span = FALSE
        BY <2>2 DEF NoContext
      <3>2. block.loop \in BOOLEAN
        BY <1>3 DEF BlockType
      <3>3. cur' \in ContextType
        <4> HIDE DEF left, block, limit
        <4>1. cur' = [block |-> b, address |-> rip, from |-> 1, at |-> 1, limit |-> limit,
                      left |-> limit, optimized |-> block.loop, stop |-> FALSE,
                      attempted |-> FALSE, direct |-> FALSE, span |-> FALSE]
          BY <2>2 DEF NoContext
        <4>2. limit \in Nat
          BY <1>1, <1>4
        <4>3. QED
          BY <4>1, <4>2, <3>2, <1>2 DEF ContextType
      <3>4. heap'[b] = block
        BY <2>2, <1>2 DEF HeapOK
      <3>5. Matches(mem', Source', cur'.address)
        BY <1>8, <1>5, <3>1 DEF CodeOK, Source
      <3>6. cur'.at <= Len(Source') + 1
        BY <3>1, <3>4, <1>3 DEF Source, BlockType
      <3>7. executed' + cur'.limit <= MaximumBlocks
        BY <3>1, <1>1, <1>4, <1>5, Sizes
      <3>8. cur'.left \in 1 .. cur'.limit
        BY <3>1, <1>4, <1>1
      <3>9. heap'[cur'.block].candidate /\ ~heap'[cur'.block].loop
               /\ heap'[cur'.block].count < heap'[cur'.block].warmup =>
              heap'[cur'.block].count + cur'.limit <= heap'[cur'.block].warmup
        BY <3>1, <3>4, <1>4
      <3>10. QED
        BY <3>1, <3>3, <3>5, <3>6, <3>7, <3>8, <3>9 DEF RunOK, SpanOK, StartOK
    <2>3. QED
      BY <2>1, <2>2, <1>6
  <1>13. QED
    BY <1>7, <1>8, <1>9, <1>10, <1>11, <1>12

-----------------------------------------------------------------------------
\* What is saved stays saved while blocks keep their sources.
LEMMA SavedKeeps ==
    ASSUME SavedOK, IndexOK(heap, blocks, lookup), SameBlocks(heap, heap'),
           UNCHANGED <<blocks, persistent, dirty, file>>
    PROVE  SavedOK'
  <1>1. \A a \in Code : blocks[a] # Null => blocks[a] \in Blocks /\ heap[blocks[a]] # Null
    BY DEF IndexOK
  <1>2. \A a \in Code : blocks[a] # Null => Records'[a] = Records[a]
    BY <1>1 DEF Records, SameBlocks
  <1>3. CleanMeansSaved'
    BY <1>2 DEF SavedOK, CleanMeansSaved
  <1>4. QED
    BY <1>3 DEF SavedOK, RecordsOK

\* The usable entries of the dispatch cache are sound before a step.
LEMMA DispatchIsSound ==
    ASSUME DispatchOK
    PROVE  DispatchSound(blocks, lookup)
  BY DEF DispatchOK, DispatchSound

\* A hit in the dispatch cache.
LEMMA UseDispatchEntryKeeps ==
    ASSUME IInv, UseDispatchEntry
    PROVE  IInv'
  <1> DEFINE entry == dispatch[SlotOf(rip)]
  <1> USE DEF IInv
  <1>1. rip \in Nat
    BY Sizes DEF GuestOK, Rip
  <1>2. SlotOf(rip) \in 0 .. DispatchSize - 1
    BY <1>1, SlotInRange
  <1>3. entry.block # Null /\ entry.address = rip /\ entry.version = version
    BY DEF UseDispatchEntry, DispatchHit
  <1>4. /\ rip \in Code /\ entry.block = blocks[rip] /\ lookup[rip].version = version
    BY <1>2, <1>3 DEF DispatchOK
  <1>5. UNCHANGED <<blocks, lookup, persistent, dirty>> /\ Fetching /\ EnterBlock(heap, entry.block)
    BY DEF UseDispatchEntry
  <1>6. /\ IndexOK(heap, blocks', lookup') /\ DispatchSound(blocks', lookup')
        /\ CodeOK(heap, blocks', lookup', mem, version, maximum)
    BY <1>5, DispatchIsSound
  <1>7. file' = file /\ dirty' \in BOOLEAN
    BY <1>5 DEF EnterBlock, fileVars, GuestOK
  <1>8. /\ GuestOK' /\ HeapOK(heap', executed') /\ IndexOK(heap', blocks', lookup')
        /\ CodeOK(heap', blocks', lookup', mem', version', maximum')
        /\ DispatchOK' /\ RunOK' /\ TraceOK'
        /\ SameBlocks(heap, heap')
    BY <1>3, <1>4, <1>5, <1>6, <1>7, EnterKeeps
  <1>9. SavedOK'
    BY <1>5, <1>7, <1>8, SavedKeeps
  <1>10. QED
    BY <1>8, <1>9

\* A hit in the index of the block cache.
LEMMA UseCurrentBlockKeeps ==
    ASSUME IInv, UseCurrentBlock
    PROVE  IInv'
  <1> USE DEF IInv
  <1>1. rip \in Code /\ lookup[rip].version = version /\ findCurrent = lookup[rip].block
    BY DEF UseCurrentBlock, findCurrent
  <1>2. findCurrent # Null /\ findCurrent = blocks[rip]
    BY <1>1 DEF UseCurrentBlock, IndexOK
  <1>3. UNCHANGED <<blocks, lookup, persistent, dirty>> /\ Fetching /\ EnterBlock(heap, findCurrent)
    BY DEF UseCurrentBlock
  <1>4. /\ IndexOK(heap, blocks', lookup') /\ DispatchSound(blocks', lookup')
        /\ CodeOK(heap, blocks', lookup', mem, version, maximum)
    BY <1>3, DispatchIsSound
  <1>5. file' = file /\ dirty' \in BOOLEAN
    BY <1>3 DEF EnterBlock, fileVars, GuestOK
  <1>6. /\ GuestOK' /\ HeapOK(heap', executed') /\ IndexOK(heap', blocks', lookup')
        /\ CodeOK(heap', blocks', lookup', mem', version', maximum')
        /\ DispatchOK' /\ RunOK' /\ TraceOK'
        /\ SameBlocks(heap, heap')
    BY <1>1, <1>2, <1>3, <1>4, <1>5, EnterKeeps
  <1>7. SavedOK'
    BY <1>3, <1>5, <1>6, SavedKeeps
  <1>8. QED
    BY <1>6, <1>7

\* After a miss no usable entry of the dispatch cache is about rip.
LEMMA MissedIsSound ==
    ASSUME IInv, Missed, rip \in Code,
           \A a \in Code \ {rip} : blocks'[a] = blocks[a] /\ lookup'[a] = lookup[a]
    PROVE  DispatchSound(blocks', lookup')
  <1> USE DEF IInv
  <1>1. ASSUME NEW k \in 0 .. DispatchSize - 1, dispatch[k].block # Null,
               dispatch[k].version = version
        PROVE  dispatch[k].address \in Code \ {rip}
    <2>1. dispatch[k].address \in Code
      BY DEF DispatchOK
    <2>2. dispatch[k].address # rip
      BY <1>1 DEF DispatchOK, IndexOK, Missed, findCurrent
    <2>3. QED
      BY <2>1, <2>2
  <1>2. QED
    BY <1>1 DEF DispatchSound, DispatchOK

\* A block whose bytes were compared again.
LEMMA ReuseBlockKeeps ==
    ASSUME IInv, ReuseBlock
    PROVE  IInv'
  <1> USE DEF IInv
  <1> DEFINE b == lookup[rip].block
  <1>1. /\ rip \in Code /\ b # Null /\ Matches(mem, heap[b].source, rip) /\ Missed /\ Fetching
        /\ lookup' = [lookup EXCEPT ![rip].version = version]
        /\ UNCHANGED <<blocks, persistent, dirty>>
        /\ EnterBlock(heap, b)
    BY DEF ReuseBlock, HasCode, sourceMatches, Matches, Missed
  <1>2. version \in 0 .. MaxVersion
    BY DEF GuestOK
  <1>3. lookup' \in [Code -> [block : Blocks \cup {Null}, version : 0 .. MaxVersion]]
    BY <1>1, <1>2 DEF IndexOK
  <1>4. lookup'[rip].version = version /\ lookup'[rip].block = b
    BY <1>1 DEF IndexOK
  <1>5. \A a \in Code \ {rip} : lookup'[a] = lookup[a]
    BY <1>1 DEF IndexOK
  <1>6. IndexOK(heap, blocks', lookup')
    BY <1>1, <1>3, <1>4, <1>5 DEF IndexOK
  <1>7. b = blocks'[rip]
    BY <1>1 DEF IndexOK
  <1>8. CodeOK(heap, blocks', lookup', mem, version, maximum)
    <2>1. \A a \in Code : lookup'[a].version <= version
      BY <1>2, <1>4, <1>5 DEF CodeOK
    <2>2. \A a \in Code : blocks'[a] # Null => Fits(heap[blocks'[a]], a, maximum)
      BY <1>1 DEF CodeOK
    <2>3. ASSUME NEW a \in Code, blocks'[a] # Null, lookup'[a].version = version
          PROVE  Matches(mem, heap[blocks'[a]].source, a)
      BY <2>3, <1>1, <1>5, <1>7 DEF CodeOK
    <2>4. QED
      BY <2>1, <2>2, <2>3 DEF CodeOK
  <1>9. DispatchSound(blocks', lookup')
    BY <1>1, <1>5, MissedIsSound
  <1>10. file' = file /\ dirty' \in BOOLEAN
    BY <1>1 DEF EnterBlock, fileVars, GuestOK
  <1>11. /\ GuestOK' /\ HeapOK(heap', executed') /\ IndexOK(heap', blocks', lookup')
         /\ CodeOK(heap', blocks', lookup', mem', version', maximum')
         /\ DispatchOK' /\ RunOK' /\ TraceOK'
         /\ SameBlocks(heap, heap')
    BY <1>1, <1>4, <1>6, <1>7, <1>8, <1>9, <1>10, EnterKeeps
  <1>12. SavedOK'
    BY <1>1, <1>10, <1>11, SavedKeeps
  <1>13. QED
    BY <1>11, <1>12

\* The blocks with new in place of the one at rip, if there was one.
Inserted(b, new) ==
    [x \in Blocks |-> IF x = b THEN new ELSE IF x = lookup[rip].block THEN Null ELSE heap[x]]

\* getOrTranslate puts a new block at rip and retires the one that was there.
LEMMA InsertKeeps ==
    ASSUME IInv, Missed, rip \in Code, NEW b \in Blocks, IsFresh(b), NEW new \in BlockType,
           new.count = 0, Fits(new, rip, maximum), Matches(mem, new.source, rip),
           blocks' = [blocks EXCEPT ![rip] = b],
           lookup' = [lookup EXCEPT ![rip] = [block |-> b, version |-> version]],
           EnterBlock(Inserted(b, new), b), dirty' \in BOOLEAN
    PROVE  /\ GuestOK' /\ HeapOK(heap', executed') /\ IndexOK(heap', blocks', lookup')
           /\ CodeOK(heap', blocks', lookup', mem', version', maximum')
           /\ DispatchOK' /\ RunOK' /\ TraceOK'
           /\ SameBlocks(Inserted(b, new), heap')
  <1> USE DEF IInv
  <1> DEFINE h == Inserted(b, new)
  <1>1. version \in 0 .. MaxVersion /\ executed \in Nat /\ b # Null /\ new # Null
    BY CellAssumption DEF GuestOK, TraceOK
  <1>2. /\ \A a \in Code : blocks'[a] = IF a = rip THEN b ELSE blocks[a]
        /\ \A a \in Code : lookup'[a] = IF a = rip THEN [block |-> b, version |-> version]
                                                   ELSE lookup[a]
    BY DEF IndexOK
  <1>3. \A a \in Code : blocks[a] # b
    BY <1>1 DEF IndexOK, IsFresh
  <1>4. HeapOK(h, executed)
    BY <1>1 DEF HeapOK, Inserted
  <1>5. \A a \in Code \ {rip} : blocks[a] # Null => h[blocks[a]] = heap[blocks[a]]
    BY <1>3 DEF Inserted, IndexOK
  <1>6. IndexOK(h, blocks', lookup')
    <2>1. blocks' \in [Code -> Blocks \cup {Null}]
      BY DEF IndexOK
    <2>2. lookup' \in [Code -> [block : Blocks \cup {Null}, version : 0 .. MaxVersion]]
      BY <1>1 DEF IndexOK
    <2>3. \A a \in Code : lookup'[a].block = blocks'[a]
      BY <1>2 DEF IndexOK
    <2>4. \A a, c \in Code : a # c /\ blocks'[a] # Null => blocks'[a] # blocks'[c]
      BY <1>2, <1>3 DEF IndexOK
    <2>5. ASSUME NEW x \in Blocks
          PROVE  h[x] # Null <=> \E a \in Code : blocks'[a] = x
      <3>1. CASE x = b
        BY <3>1, <1>1, <1>2 DEF Inserted
      <3>2. CASE x # b /\ x = lookup[rip].block
        BY <3>2, <1>1, <1>2, CellAssumption DEF Inserted, IndexOK
      <3>3. CASE x # b /\ x # lookup[rip].block
        BY <3>3, <1>2 DEF Inserted, IndexOK
      <3>4. QED
        BY <3>1, <3>2, <3>3
    <2>6. QED
      BY <2>1, <2>2, <2>3, <2>4, <2>5 DEF IndexOK
  <1>7. h[b] = new /\ blocks'[rip] = b /\ lookup'[rip].version = version
    BY <1>2 DEF Inserted
  <1>8. CodeOK(h, blocks', lookup', mem, version, maximum)
    <2>1. \A a \in Code : lookup'[a].version <= version
      BY <1>1, <1>2 DEF CodeOK
    <2>2. ASSUME NEW a \in Code, blocks'[a] # Null
          PROVE  Fits(h[blocks'[a]], a, maximum)
      BY <2>2, <1>2, <1>5, <1>7 DEF CodeOK
    <2>3. ASSUME NEW a \in Code, blocks'[a] # Null, lookup'[a].version = version
          PROVE  Matches(mem, h[blocks'[a]].source, a)
      BY <2>3, <1>2, <1>5, <1>7 DEF CodeOK
    <2>4. QED
      BY <2>1, <2>2, <2>3 DEF CodeOK
  <1>9. DispatchSound(blocks', lookup')
    BY <1>2, MissedIsSound
  <1>10. QED
    BY <1>1, <1>4, <1>6, <1>7, <1>8, <1>9, EnterKeeps DEF Missed

\* A new translation fits the address it was made for.
LEMMA TranslatedFits ==
    ASSUME IInv, rip \in Code, NEW s \in Decodings(mem, rip, maximum)
    PROVE  /\ Translated(s) \in BlockType /\ Translated(s).count = 0
           /\ Fits(Translated(s), rip, maximum) /\ Matches(mem, Translated(s).source, rip)
  <1>1. maximum \in Nat \ {0}
    BY Sizes DEF IInv, GuestOK
  <1>2. /\ s \in Seq(Instruction) /\ Shaped(s, maximum) /\ rip + Len(s) - 1 \in Code
        /\ Matches(mem, s, rip)
    BY <1>1, DecodingFits DEF IInv
  <1>3. (HasLlvm /\ canCompileOptimizedLoop(s)) \in BOOLEAN
    BY DEF canCompileOptimizedLoop
  <1>4. Translated(s) \in BlockType /\ Translated(s).count = 0 /\ Translated(s).source = s
        /\ Translated(s).maximum = maximum
    BY <1>1, <1>2, <1>3, Sizes DEF Translated, BlockType
  <1>5. QED
    BY <1>2, <1>4 DEF Fits

\* A new translation marks the cache dirty, so nothing has to be saved yet.
LEMMA DirtySaved ==
    ASSUME IInv, rip \in Code, NEW b \in Blocks, blocks' = [blocks EXCEPT ![rip] = b],
           dirty' = HasPath, persistent' = persistent, file' = file
    PROVE  SavedOK'
  <1>1. \A a \in Code : blocks'[a] = Null => blocks[a] = Null
    BY CellAssumption DEF IInv, IndexOK
  <1>2. CleanMeansSaved'
    BY DEF CleanMeansSaved
  <1>3. QED
    BY <1>1, <1>2 DEF IInv, SavedOK, RecordsOK

\* A first translation.
LEMMA InsertTranslatedKeeps ==
    ASSUME IInv, NEW b \in Blocks, NEW s \in Decodings(mem, rip, maximum), InsertTranslated(b, s)
    PROVE  IInv'
  <1>1. /\ Missed /\ rip \in Code /\ lookup[rip].block = Null /\ IsFresh(b)
        /\ dirty' = HasPath /\ persistent' = persistent
        /\ blocks' = [blocks EXCEPT ![rip] = b]
        /\ lookup' = [lookup EXCEPT ![rip] = [block |-> b, version |-> version]]
        /\ EnterBlock([heap EXCEPT ![b] = Translated(s)], b)
    BY DEF InsertTranslated, HasCode
  <1>2. [heap EXCEPT ![b] = Translated(s)] = Inserted(b, Translated(s))
    BY <1>1, CellAssumption DEF IInv, HeapOK, Inserted
  <1>3. file' = file /\ dirty' \in BOOLEAN
    BY <1>1, CellAssumption DEF EnterBlock, fileVars
  <1>4. /\ GuestOK' /\ HeapOK(heap', executed') /\ IndexOK(heap', blocks', lookup')
        /\ CodeOK(heap', blocks', lookup', mem', version', maximum')
        /\ DispatchOK' /\ RunOK' /\ TraceOK'
    BY <1>1, <1>2, <1>3, TranslatedFits, InsertKeeps
  <1>5. SavedOK'
    BY <1>1, <1>3, DirtySaved
  <1>6. QED
    BY <1>4, <1>5 DEF IInv

\* A translation that replaces one whose bytes have changed.
LEMMA ReplaceBlockKeeps ==
    ASSUME IInv, NEW b \in Blocks, NEW s \in Decodings(mem, rip, maximum), ReplaceBlock(b, s)
    PROVE  IInv'
  <1> DEFINE old == lookup[rip].block
  <1>1. /\ Missed /\ rip \in Code /\ old # Null /\ IsFresh(b)
        /\ dirty' = HasPath /\ persistent' = persistent
        /\ blocks' = [blocks EXCEPT ![rip] = b]
        /\ lookup' = [lookup EXCEPT ![rip] = [block |-> b, version |-> version]]
        /\ EnterBlock([heap EXCEPT ![b] = Translated(s), ![old] = Null], b)
    BY DEF ReplaceBlock, MustReplace, HasCode
  <1>2. old \in Blocks /\ old # b
    BY <1>1 DEF IInv, IndexOK, IsFresh
  <1>3. [heap EXCEPT ![b] = Translated(s), ![old] = Null] = Inserted(b, Translated(s))
    BY <1>1, <1>2 DEF IInv, HeapOK, Inserted
  <1>4. file' = file /\ dirty' \in BOOLEAN
    BY <1>1, CellAssumption DEF EnterBlock, fileVars
  <1>5. /\ GuestOK' /\ HeapOK(heap', executed') /\ IndexOK(heap', blocks', lookup')
        /\ CodeOK(heap', blocks', lookup', mem', version', maximum')
        /\ DispatchOK' /\ RunOK' /\ TraceOK'
    BY <1>1, <1>3, <1>4, TranslatedFits, InsertKeeps
  <1>6. SavedOK'
    BY <1>1, <1>4, DirtySaved
  <1>7. QED
    BY <1>5, <1>6 DEF IInv

\* A translation from the cache file: it is what the file holds, so a clean
\* cache stays clean.
LEMMA InsertCachedKeeps ==
    ASSUME IInv, NEW b \in Blocks, InsertCached(b)
    PROVE  IInv'
  <1> DEFINE record == persistent[rip]
             new == loadCached(record.source)
  <1>1. /\ Missed /\ rip \in Code /\ lookup[rip].block = Null /\ IsFresh(b)
        /\ record # Null /\ record.maximum = maximum /\ Matches(mem, record.source, rip)
        /\ dirty' = dirty /\ persistent' = [persistent EXCEPT ![rip] = Null]
        /\ blocks' = [blocks EXCEPT ![rip] = b]
        /\ lookup' = [lookup EXCEPT ![rip] = [block |-> b, version |-> version]]
        /\ EnterBlock([heap EXCEPT ![b] = new], b)
    BY DEF InsertCached, HasCode, PersistentHit, sourceMatches, Matches
  <1>2. record \in Record /\ Shaped(record.source, maximum)
    BY <1>1 DEF IInv, SavedOK, RecordsOK
  <1>3. record.source \in Seq(Instruction) /\ maximum \in Nat \ {0}
    BY <1>1, <1>2 DEF Record
  <1>4. (HasLlvm /\ hasInternalSelfEdge(record.source)) \in BOOLEAN
    BY DEF hasInternalSelfEdge
  <1>5. /\ new \in BlockType /\ new.count = 0 /\ new.source = record.source
        /\ new.maximum = maximum
    <2> HIDE DEF record
    <2>1. QED
      BY <1>3, <1>4, Sizes DEF loadCached, BlockType
  <1>6. rip + Len(record.source) - 1 \in Code
    <2>1. Len(record.source) \in 1 .. Len(record.source)
      BY <1>2, <1>3 DEF Shaped
    <2>2. QED
      BY <2>1, <1>1 DEF Matches
  <1>7. Fits(new, rip, maximum) /\ Matches(mem, new.source, rip)
    BY <1>1, <1>2, <1>5, <1>6 DEF Fits
  <1>8. [heap EXCEPT ![b] = new] = Inserted(b, new)
    BY <1>1, CellAssumption DEF IInv, HeapOK, Inserted
  <1>9. file' = file /\ dirty' \in BOOLEAN
    BY <1>1 DEF EnterBlock, fileVars, IInv, GuestOK
  <1>10. /\ GuestOK' /\ HeapOK(heap', executed') /\ IndexOK(heap', blocks', lookup')
         /\ CodeOK(heap', blocks', lookup', mem', version', maximum')
         /\ DispatchOK' /\ RunOK' /\ TraceOK'
         /\ SameBlocks(Inserted(b, new), heap')
    BY <1>1, <1>5, <1>7, <1>8, <1>9, InsertKeeps
  <1>11. SavedOK'
    <2>1. RecordsOK(persistent') /\ RecordsOK(file')
      BY <1>1, <1>9 DEF IInv, SavedOK, RecordsOK
    <2>2. \A a \in Code : blocks'[a] = IF a = rip THEN b ELSE blocks[a]
      BY <1>1 DEF IInv, IndexOK
    <2>3. \A a \in Code : blocks'[a] = Null /\ persistent'[a] # Null => file'[a] = persistent'[a]
      BY <2>2, <1>1, <1>9, CellAssumption DEF IInv, SavedOK, RecordsOK
    <2>4. ASSUME HasPath, ~dirty, NEW a \in Code, blocks'[a] # Null
          PROVE  file'[a] = Records'[a]
      <3>1. CASE a = rip
        <4>1. file[rip] = record
          BY <1>1 DEF IInv, SavedOK, IndexOK
        <4>2. heap'[b].source = record.source /\ heap'[b].maximum = maximum
          <5>1. Inserted(b, new)[b] = new /\ new # Null
            BY <1>5, CellAssumption DEF Inserted
          <5>2. QED
            BY <5>1, <1>5, <1>10 DEF SameBlocks
        <4>3. Records'[rip] = [source |-> record.source, maximum |-> maximum]
          BY <4>2, <2>2, <1>1, CellAssumption DEF Records
        <4>4. record = [source |-> record.source, maximum |-> maximum]
          BY <1>1, <1>2 DEF Record
        <4>5. QED
          BY <3>1, <4>1, <4>3, <4>4, <1>9
      <3>2. CASE a # rip
        <4>1. blocks'[a] = blocks[a] /\ blocks[a] # Null
          BY <3>2, <2>2, <2>4
        <4>2. Inserted(b, new)[blocks[a]] = heap[blocks[a]] /\ blocks[a] \in Blocks
              /\ heap[blocks[a]] # Null
          BY <4>1, <1>1 DEF Inserted, IInv, IndexOK, IsFresh
        <4>3. Records'[a] = Records[a]
          BY <4>1, <4>2, <1>10 DEF Records, SameBlocks
        <4>4. QED
          BY <4>1, <4>3, <2>4, <1>9 DEF IInv, SavedOK, CleanMeansSaved
      <3>3. QED
        BY <3>1, <3>2
    <2>5. CleanMeansSaved'
      BY <2>4, <1>1 DEF CleanMeansSaved
    <2>6. QED
      BY <2>1, <2>3, <2>5 DEF SavedOK
  <1>12. QED
    BY <1>10, <1>11 DEF IInv

-----------------------------------------------------------------------------
\* The remainder by the capacity of a position that is less than two turns on.
LEMMA WrapOnce ==
    ASSUME NEW x \in Nat, x < Capacity + Capacity
    PROVE  x % Capacity = Wrap(x) /\ Wrap(x) \in 0 .. Capacity - 1
  <1>1. Capacity \in Nat \ {0}
    BY Sizes
  <1>2. CASE x < Capacity
    BY <1>1, <1>2 DEF Wrap
  <1>3. CASE ~(x < Capacity)
    BY <1>1, <1>3 DEF Wrap
  <1>4. QED
    BY <1>2, <1>3

\* n positions on and j back, when the n positions cover the j.
LEMMA WrapWithin ==
    ASSUME NEW p \in 0 .. Capacity - 1, NEW n \in 1 .. Capacity - 1, NEW j \in 1 .. n
    PROVE  Wrap(Wrap(p + n) + Capacity - j) = Wrap(p + (n - j))
  BY Sizes DEF Wrap

\* The same when they do not: the position is an old one and was not filled.
LEMMA WrapBeyond ==
    ASSUME NEW p \in 0 .. Capacity - 1, NEW n \in 1 .. Capacity - 1, NEW j \in n + 1 .. Capacity
    PROVE  /\ Wrap(Wrap(p + n) + Capacity - j) = Wrap(p + Capacity - (j - n))
           /\ \A i \in 0 .. n - 1 : Wrap(Wrap(p + n) + Capacity - j) # Wrap(p + i)
  BY Sizes DEF Wrap

\* Counting back from the next position or forth from the oldest is the same.
LEMMA WrapOldest ==
    ASSUME NEW p \in 0 .. Capacity - 1, NEW m \in 0 .. Capacity, NEW k \in 1 .. m
    PROVE  Wrap(Wrap(p + Capacity - m) + k - 1) = Wrap(p + Capacity - (m + 1 - k))
  BY Sizes DEF Wrap

\* n executions of one block keep the ring the tail of the trace, whether they
\* fit, wrap around or fill it.
LEMMA RingKeeps ==
    ASSUME TraceOK, NEW n \in Nat \ {0}, executed + n <= MaximumBlocks, NEW a \in Code,
           executed' = executed + n, recent' = recordRecent(a, n),
           trace' = trace \o [k \in 1 .. n |-> a]
    PROVE  TraceOK'
  <1> DEFINE added == [k \in 1 .. n |-> a]
  <1>1. Capacity \in Nat \ {0} /\ a \in Nat /\ MaximumBlocks \in Nat
    BY Sizes DEF Code
  <1>2. added \in Seq(Code) /\ Len(added) = n /\ \A k \in 1 .. n : added[k] = a
    OBVIOUS
  <1>3. /\ trace \in Seq(Code) /\ executed = Len(trace) /\ executed \in Nat
        /\ recent.blocks \in [0 .. Capacity - 1 -> Nat] /\ recent.count \in 0 .. Capacity
        /\ recent.next \in 0 .. Capacity - 1
        /\ recent.count = IF executed < Capacity THEN executed ELSE Capacity
    BY DEF TraceOK
  <1>4. \A j \in 1 .. recent.count :
              recent.blocks[Wrap(recent.next + Capacity - j)] = trace[Len(trace) + 1 - j]
    BY DEF TraceOK
  <1>5. trace' \in Seq(Code) /\ Len(trace') = Len(trace) + n
    BY <1>2, <1>3
  <1>6. \A i \in 1 .. Len(trace) : trace'[i] = trace[i]
    BY <1>2, <1>3
  <1>7. \A i \in Len(trace) + 1 .. Len(trace) + n : trace'[i] = a
    BY <1>2, <1>3
  <1>8. CASE n >= Capacity
    <2>1. recent' = [blocks |-> [k \in 0 .. Capacity - 1 |-> a], count |-> Capacity, next |-> 0]
      BY <1>8 DEF recordRecent
    <2>2. /\ recent'.count = Capacity /\ recent'.next = 0
          /\ \A k \in 0 .. Capacity - 1 : recent'.blocks[k] = a
      BY <2>1
    <2>3. ASSUME NEW j \in 1 .. Capacity
          PROVE  recent'.blocks[Wrap(recent'.next + Capacity - j)] = trace'[Len(trace') + 1 - j]
      <3>1. Wrap(0 + Capacity - j) \in 0 .. Capacity - 1
        BY <1>1 DEF Wrap
      <3>2. Len(trace') + 1 - j \in Len(trace) + 1 .. Len(trace) + n
        BY <1>1, <1>3, <1>5, <1>8
      <3>3. QED
        BY <3>1, <3>2, <2>2, <1>7
    <2>4. recent' \in [blocks : [0 .. Capacity - 1 -> Nat], count : 0 .. Capacity,
                       next : 0 .. Capacity - 1]
      BY <2>1, <1>1
    <2>5. Capacity = IF executed' < Capacity THEN executed' ELSE Capacity
      BY <1>1, <1>3, <1>8
    <2>6. executed' = Len(trace') /\ executed' <= MaximumBlocks
      BY <1>3, <1>5
    <2>7. QED
      BY <2>2, <2>3, <2>4, <2>5, <2>6, <1>5 DEF TraceOK
  <1>9. CASE n < Capacity
    <2>1. recent' = [blocks |-> Refill(a, n), count |-> CountAfter(n),
                     next |-> (recent.next + n) % Capacity]
      BY <1>1, <1>9 DEF recordRecent
    <2>2. recent'.blocks = Refill(a, n) /\ recent'.count = CountAfter(n)
          /\ recent'.next = (recent.next + n) % Capacity
      BY <2>1
    <2>3. recent'.next = Wrap(recent.next + n) /\ recent'.next \in 0 .. Capacity - 1
      <3>1. recent.next + n \in Nat /\ recent.next + n < Capacity + Capacity
        BY <1>1, <1>3, <1>9, SMTT(60)
      <3>2. QED
        BY <2>2, <3>1, WrapOnce
    <2>4. recent'.count = IF executed' < Capacity THEN executed' ELSE Capacity
      BY <2>2, <1>1, <1>3, <1>9, SMTT(60) DEF CountAfter
    <2>5. Refill(a, n) \in [0 .. Capacity - 1 -> Nat]
      BY <1>1, <1>3 DEF Refill
    <2>6. recent'.count \in 0 .. Capacity
      BY <2>4, <1>1, <1>3
    <2>7. recent' \in [blocks : [0 .. Capacity - 1 -> Nat], count : 0 .. Capacity,
                       next : 0 .. Capacity - 1]
      BY <2>1, <2>2, <2>3, <2>5, <2>6
    <2>8. ASSUME NEW i \in 0 .. n - 1
          PROVE  (recent.next + i) % Capacity = Wrap(recent.next + i)
      <3>1. recent.next \in Nat /\ recent.next < Capacity /\ i \in Nat /\ i < Capacity
        BY <1>1, <1>3, <1>9
      <3>2. recent.next + i \in Nat /\ recent.next + i < Capacity + Capacity
        BY <3>1, <1>1
      <3>3. QED
        BY <3>2, WrapOnce
    <2>9. \A x \in 0 .. Capacity - 1 : Refill(a, n)[x] =
             IF \E i \in 0 .. n - 1 : x = Wrap(recent.next + i) THEN a ELSE recent.blocks[x]
      BY <2>8 DEF Refill
    <2>10. ASSUME NEW j \in 1 .. recent'.count
           PROVE  recent'.blocks[Wrap(recent'.next + Capacity - j)] = trace'[Len(trace') + 1 - j]
      <3> DEFINE at == Wrap(recent'.next + Capacity - j)
      <3>1. j \in 1 .. Capacity /\ n \in 1 .. Capacity - 1
        BY <2>6, <1>1, <1>9
      <3>2. at \in 0 .. Capacity - 1
        BY <2>3, <3>1, <1>1, SMTT(60) DEF Wrap
      <3>3. CASE j <= n
        <4>1. n - j \in 0 .. n - 1 /\ j \in 1 .. n
          BY <3>3, <3>1
        <4>2. at = Wrap(recent.next + (n - j))
          BY <4>1, <2>3, <3>1, <1>3, WrapWithin, SMTT(60)
        <4>3. Refill(a, n)[at] = a
          BY <4>1, <4>2, <3>2, <2>9
        <4>4. Len(trace') + 1 - j \in Len(trace) + 1 .. Len(trace) + n
          BY <3>3, <3>1, <1>3, <1>5
        <4>5. QED
          BY <4>3, <4>4, <2>2, <1>7
      <3>4. CASE j > n
        <4>1. j \in n + 1 .. Capacity
          BY <3>4, <3>1
        <4>2. /\ at = Wrap(recent.next + Capacity - (j - n))
              /\ \A i \in 0 .. n - 1 : at # Wrap(recent.next + i)
          BY <4>1, <2>3, <3>1, <1>3, WrapBeyond
        <4>3. Refill(a, n)[at] = recent.blocks[at]
          BY <4>2, <3>2, <2>9
        <4>4. j - n \in 1 .. recent.count
          BY <2>4, <3>4, <3>1, <1>1, <1>3
        <4>5. recent.blocks[at] = trace[Len(trace) + 1 - (j - n)]
          BY <4>2, <4>4, <1>4
        <4>6. Len(trace) + 1 - (j - n) \in 1 .. Len(trace)
          BY <4>4, <1>1, <1>3
        <4>7. Len(trace') + 1 - j = Len(trace) + 1 - (j - n)
          BY <1>3, <1>5, <3>1
        <4>8. QED
          BY <4>3, <4>5, <4>6, <4>7, <2>2, <1>6
      <3>5. j <= n \/ j > n
        BY <3>1
      <3>6. QED
        BY <3>3, <3>4, <3>5
    <2>11. executed' = Len(trace') /\ executed' <= MaximumBlocks
      BY <1>3, <1>5
    <2>12. QED
      BY <2>4, <2>7, <2>10, <2>11, <1>5 DEF TraceOK
  <1>10. QED
    BY <1>8, <1>9, <1>1

\* The report is the tail of the trace.
LEMMA TailReported ==
    ASSUME TraceOK
    PROVE  RecentIsTail
  <1> DEFINE m == recent.count
             oldest == (recent.next + Capacity - m) % Capacity
  <1>1. Capacity \in Nat \ {0}
    BY Sizes
  <1>2. /\ trace \in Seq(Code) /\ executed = Len(trace) /\ m \in 0 .. Capacity
        /\ recent.next \in 0 .. Capacity - 1
        /\ m = IF executed < Capacity THEN executed ELSE Capacity
    BY DEF TraceOK
  <1>3. \A j \in 1 .. m :
           recent.blocks[Wrap(recent.next + Capacity - j)] = trace[Len(trace) + 1 - j]
    BY DEF TraceOK
  <1>4. oldest = Wrap(recent.next + Capacity - m) /\ oldest \in 0 .. Capacity - 1
    <2>1. recent.next + Capacity - m \in Nat /\ recent.next + Capacity - m < Capacity + Capacity
      BY <1>1, <1>2
    <2>2. QED
      BY <2>1, WrapOnce
  <1> HIDE DEF oldest
  <1>5. ASSUME NEW k \in 1 .. m
        PROVE  recent.blocks[(oldest + k - 1) % Capacity] = trace[Len(trace) - m + k]
    <2>1. m + 1 - k \in 1 .. m
      BY <1>2
    <2>2. oldest + k - 1 \in Nat /\ oldest + k - 1 < Capacity + Capacity
      BY <1>1, <1>2, <1>4
    <2>3. (oldest + k - 1) % Capacity = Wrap(oldest + k - 1)
      BY <2>2, WrapOnce
    <2>4. Wrap(oldest + k - 1) = Wrap(recent.next + Capacity - (m + 1 - k))
      BY <1>2, <1>4, WrapOldest
    <2>5. Len(trace) + 1 - (m + 1 - k) = Len(trace) - m + k
      BY <1>2
    <2>6. QED
      BY <2>1, <2>3, <2>4, <2>5, <1>3
  <1>6. recentBlocks = [k \in 1 .. m |-> recent.blocks[(oldest + k - 1) % Capacity]]
    BY DEF recentBlocks, oldest
  <1>7. [k \in 1 .. m |-> recent.blocks[(oldest + k - 1) % Capacity]]
            = [k \in 1 .. m |-> trace[Len(trace) - m + k]]
    <2> HIDE DEF m
    <2>1. QED
      BY <1>5
  <1>8. QED
    BY <1>2, <1>6, <1>7 DEF RecentIsTail

-----------------------------------------------------------------------------
\* What a step may do to guest memory: nothing, or a change the version tells.
GuestStep ==
    \/ UNCHANGED <<mem, version>>
    \/ /\ version < MaxVersion
       /\ version' = version + 1
       /\ mem' \in [Code -> Cell \cup {Unmapped}]

\* A change of memory that bumps the version makes every entry stale at once.
LEMMA GuestStepKeeps ==
    ASSUME GuestOK, GuestStep, DispatchOK, IndexOK(heap, blocks, lookup),
           CodeOK(heap, blocks, lookup, mem, version, maximum),
           UNCHANGED <<blocks, lookup, maximum, dispatch>>
    PROVE  /\ mem' \in [Code -> Cell \cup {Unmapped}] /\ version' \in 0 .. MaxVersion
           /\ CodeOK(heap, blocks', lookup', mem', version', maximum')
           /\ DispatchOK'
  <1>1. version \in 0 .. MaxVersion /\ MaxVersion \in Nat
    BY Sizes DEF GuestOK
  <1>2. mem' \in [Code -> Cell \cup {Unmapped}] /\ version' \in 0 .. MaxVersion
    BY <1>1 DEF GuestStep, GuestOK
  <1>3. CASE UNCHANGED <<mem, version>>
    BY <1>3, <1>2 DEF CodeOK, DispatchOK
  <1>4. CASE version' = version + 1
    <2>1. \A a \in Code : lookup'[a].version <= version' /\ lookup'[a].version # version'
      BY <1>1, <1>4 DEF CodeOK, IndexOK
    <2>2. CodeOK(heap, blocks', lookup', mem', version', maximum')
      BY <2>1 DEF CodeOK
    <2>3. \A k \in 0 .. DispatchSize - 1 :
             dispatch'[k].version <= version' /\ dispatch'[k].version # version'
      BY <1>1, <1>4 DEF DispatchOK
    <2>4. DispatchOK'
      BY <2>3 DEF DispatchOK
    <2>5. QED
      BY <1>2, <2>2, <2>4
  <1>5. QED
    BY <1>3, <1>4 DEF GuestStep

\* run is left and nothing was counted.
LEMMA FaultKeeps ==
    ASSUME IInv, rip' \in Rip, pc' = "idle", cur' = NoContext,
           UNCHANGED <<mem, version, heap, blocks, lookup, persistent, dirty, file, maximum,
                       dispatch, rsp, executed, recent, trace>>
    PROVE  IInv'
  <1> USE DEF IInv
  <1>1. GuestOK'
    BY DEF GuestOK
  <1>2. HeapOK(heap', executed') /\ IndexOK(heap', blocks', lookup')
        /\ CodeOK(heap', blocks', lookup', mem', version', maximum')
    OBVIOUS
  <1>3. DispatchOK'
    BY DEF DispatchOK
  <1>4. RunOK'
    BY Sizes DEF RunOK, NoContext, ContextType, Code
  <1>5. SavedOK'
    BY DEF SavedOK, CleanMeansSaved, Records
  <1>6. TraceOK'
    BY DEF TraceOK
  <1>7. QED
    BY <1>1, <1>2, <1>3, <1>4, <1>5, <1>6

\* The generated code goes on with the same batch.
LEMMA StepKeeps ==
    ASSUME IInv, pc = "block", GuestStep,
           UNCHANGED <<heap, blocks, lookup, persistent, dirty, file, maximum,
                       dispatch, rip, rsp, pc, executed, recent, trace>>,
           cur' \in ContextType,
           cur'.block = cur.block, cur'.address = cur.address, cur'.limit = cur.limit,
           cur'.left \in 1 .. cur.limit, cur'.from <= cur'.at, cur'.at <= Len(Source) + 1,
           cur.stop => cur'.stop,
           cur'.stop \/ UNCHANGED <<mem, version>>,
           cur'.stop => cur.stop \/ Has(Source, "store") \/ Has(Source, "store8"),
           SpanOK(cur', Source), StartOK(cur', Source),
           cur'.direct => cur.direct \/ Data # {}
    PROVE  IInv'
  <1> USE DEF IInv
  <1>1. /\ mem' \in [Code -> Cell \cup {Unmapped}] /\ version' \in 0 .. MaxVersion
        /\ CodeOK(heap', blocks', lookup', mem', version', maximum')
        /\ DispatchOK'
    BY GuestStepKeeps
  <1>2. GuestOK'
    BY <1>1 DEF GuestOK
  <1>3. HeapOK(heap', executed') /\ IndexOK(heap', blocks', lookup')
    OBVIOUS
  <1>4. Source' = Source
    BY DEF Source
  <1>5. RunOK'
    <2>1. cur'.block # Null /\ blocks'[cur'.address] = cur'.block
      BY DEF RunOK
    <2>2. cur'.stop \/ Matches(mem', Source', cur'.address)
      BY <1>4 DEF RunOK
    <2>3. executed' + cur'.limit <= MaximumBlocks
      BY DEF RunOK
    <2>4. heap'[cur'.block].candidate /\ ~heap'[cur'.block].loop
             /\ heap'[cur'.block].count < heap'[cur'.block].warmup =>
            heap'[cur'.block].count + cur'.limit <= heap'[cur'.block].warmup
      BY DEF RunOK
    <2>5. cur'.stop => Has(Source', "store") \/ Has(Source', "store8")
      BY <1>4 DEF RunOK
    <2>6. SpanOK(cur', Source') /\ StartOK(cur', Source')
      BY <1>4
    <2>7. QED
      BY <2>1, <2>2, <2>3, <2>4, <2>5, <2>6, <1>4 DEF RunOK
  <1>6. SavedOK'
    BY DEF SavedOK, CleanMeansSaved, Records
  <1>7. TraceOK'
    BY DEF TraceOK
  <1>8. QED
    BY <1>1, <1>2, <1>3, <1>5, <1>6, <1>7

\* The generated code returns and its executions are counted.
LEMMA CountKeeps ==
    ASSUME IInv, pc = "block", NEW n \in 1 .. cur.limit, CountExecutions(n), GuestStep,
           rip' \in Rip, rsp' \in Rip, pc' \in {"idle", "fetch"}, cur' = NoContext
    PROVE  IInv'
  <1> USE DEF IInv
  <1>1. /\ executed' = executed + n
        /\ heap' = [heap EXCEPT ![cur.block].count = @ + n]
        /\ recent' = recordRecent(cur.address, n)
        /\ trace' = trace \o [k \in 1 .. n |-> cur.address]
        /\ UNCHANGED <<blocks, lookup, persistent, dirty, file, maximum, dispatch>>
    BY DEF CountExecutions, fileVars
  <1>2. cur.limit \in Nat /\ cur.address \in Code /\ cur.block # Null
        /\ blocks[cur.address] = cur.block /\ executed + cur.limit <= MaximumBlocks
    BY DEF RunOK, ContextType
  <1>3. cur.block \in Blocks /\ heap[cur.block] \in BlockType /\ heap[cur.block] # Null
    BY <1>2 DEF IndexOK, HeapOK
  <1>4. executed \in Nat /\ n \in Nat \ {0} /\ executed + n <= MaximumBlocks
    BY <1>2, Sizes, SMTT(60) DEF TraceOK
  <1>5. TraceOK'
    BY <1>1, <1>2, <1>4, RingKeeps
  <1>6. SameBlocks(heap, heap') /\ HeapOK(heap', executed')
    <2> DEFINE old == heap[cur.block]
               new == [heap[cur.block] EXCEPT !.count = @ + n]
    <2>1. heap' = [heap EXCEPT ![cur.block] = new]
      BY <1>1
    <2>2. new \in BlockType /\ new.source = old.source /\ new.maximum = old.maximum
          /\ new.count = old.count + n
      BY <1>3, <1>4, SMTT(60) DEF BlockType
    <2>3. new # Null
      BY <2>2, CellAssumption
    <2>4. old.count <= executed /\ old.count \in Nat
      BY <1>3 DEF HeapOK, BlockType
    <2> HIDE DEF new
    <2>5. \A x \in Blocks : heap'[x] = IF x = cur.block THEN new ELSE heap[x]
      BY <2>1 DEF HeapOK
    <2>6. heap' \in [Blocks -> BlockType \cup {Null}]
      BY <2>1, <2>2 DEF HeapOK
    <2>7. SameBlocks(heap, heap')
      BY <2>2, <2>3, <2>5, <2>6, <1>3 DEF SameBlocks
    <2>8. ASSUME NEW x \in Blocks, heap'[x] # Null
          PROVE  heap'[x].count <= executed'
      <3>1. CASE x = cur.block
        BY <3>1, <2>2, <2>4, <2>5, <1>1, <1>4
      <3>2. CASE x # cur.block
        <4>1. heap'[x] = heap[x] /\ heap[x].count <= executed /\ heap[x].count \in Nat
          BY <3>2, <2>5, <2>8 DEF HeapOK, BlockType
        <4>2. QED
          BY <4>1, <1>1, <1>4
      <3>3. QED
        BY <3>1, <3>2
    <2>9. QED
      BY <2>6, <2>7, <2>8 DEF HeapOK
  <1>7. /\ mem' \in [Code -> Cell \cup {Unmapped}] /\ version' \in 0 .. MaxVersion
        /\ CodeOK(heap, blocks', lookup', mem', version', maximum')
        /\ DispatchOK'
    BY <1>1, GuestStepKeeps
  <1>8. IndexOK(heap', blocks', lookup')
        /\ CodeOK(heap', blocks', lookup', mem', version', maximum')
    BY <1>1, <1>6, <1>7, SameBlocksKeep
  <1>9. GuestOK'
    BY <1>1, <1>7 DEF GuestOK
  <1>10. RunOK'
    BY Sizes DEF RunOK, NoContext, ContextType, Code
  <1>11. SavedOK'
    BY <1>1, <1>6, SavedKeeps
  <1>12. QED
    BY <1>5, <1>6, <1>7, <1>8, <1>9, <1>10, <1>11

-----------------------------------------------------------------------------
(* One lemma per action of a running block.                                *)

\* Facts about the running block that its actions use.
LEMMA Running ==
    ASSUME IInv, pc = "block"
    PROVE  /\ cur \in ContextType /\ cur.address \in Code /\ cur.limit \in Nat
           /\ cur.left \in 1 .. cur.limit /\ 1 \in 1 .. cur.limit
           /\ Source \in Seq(Instruction) /\ Len(Source) >= 1
           /\ cur.at \in 1 .. Len(Source) + 1 /\ cur.from \in 1 .. cur.at
           /\ SpanOK(cur, Source) /\ StartOK(cur, Source)
           /\ NextRip \in Rip /\ cur.address \in Rip /\ cur.address + cur.at - 1 \in Rip
  <1>1. /\ cur \in ContextType /\ cur.block # Null /\ blocks[cur.address] = cur.block
        /\ cur.at <= Len(Source) + 1 /\ cur.left \in 1 .. cur.limit /\ cur.from <= cur.at
        /\ SpanOK(cur, Source) /\ StartOK(cur, Source)
    BY DEF IInv, RunOK
  <1>2. cur.address \in Code /\ cur.limit \in Nat /\ cur.at \in Nat \ {0}
        /\ cur.from \in Nat \ {0}
    BY <1>1 DEF ContextType
  <1>3. /\ heap[cur.block] \in BlockType /\ Shaped(Source, maximum)
        /\ cur.address + Len(Source) - 1 \in Code
    BY <1>1, <1>2 DEF IInv, IndexOK, HeapOK, CodeOK, Fits, Source
  <1>4. Source \in Seq(Instruction)
    BY <1>3 DEF Source, BlockType
  <1>5. Len(Source) >= 1 /\ Len(Source) \in Nat
    BY <1>3, <1>4 DEF Shaped
  <1>6. NextRip \in Rip /\ cur.address \in Rip /\ cur.address + cur.at - 1 \in Rip
    BY <1>1, <1>2, <1>3, <1>5, Sizes, SMTT(60) DEF NextRip, Rip, Code
  <1>7. QED
    BY <1>1, <1>2, <1>4, <1>5, <1>6

\* Addresses of code are values of rip.
LEMMA CodeIsRip == Code \subseteq Rip
  BY Sizes DEF Code, Rip

\* A batch ends and run goes on at a target.
LEMMA ContinueKeeps ==
    ASSUME IInv, pc = "block", NEW n \in 1 .. cur.limit, NEW target \in Rip, Continue(n, target)
    PROVE  IInv'
  <1>1. /\ CountExecutions(n) /\ GuestStep /\ rip' \in Rip /\ rsp' \in Rip
        /\ pc' \in {"idle", "fetch"} /\ cur' = NoContext
    BY DEF Continue, Dispatch, GuestStep, guestVars, IInv, GuestOK
  <1>2. QED
    BY <1>1, CountKeeps

\* A helper faults inside the block.
LEMMA BlockFaultKeeps ==
    ASSUME IInv, pc = "block", BlockFault
    PROVE  IInv'
  <1>1. cur.address + cur.at - 1 \in Rip
    BY Running
  <1>2. QED
    BY <1>1, FaultKeeps DEF BlockFault, Leave, guestVars, cacheVars, fileVars, countVars

\* The optimized loop runs a batch.
LEMMA RunOptimizedKeeps ==
    ASSUME IInv, NEW n \in 1 .. MaximumBlocks, RunOptimized(n)
    PROVE  IInv'
  <1>1. pc = "block" /\ n \in 1 .. cur.limit
    BY DEF RunOptimized, InBlock
  <1>2. Continue(n, NextRip) \/ Continue(n, cur.address)
    BY DEF RunOptimized
  <1>3. NextRip \in Rip /\ cur.address \in Rip
    BY <1>1, Running
  <1>4. QED
    BY <1>1, <1>2, <1>3, ContinueKeeps

\* The optimized loop refuses and the baseline code runs.
LEMMA FallBackKeeps ==
    ASSUME IInv, FallBack
    PROVE  IInv'
  <1>1. /\ pc = "block" /\ cur' = [cur EXCEPT !.optimized = FALSE]
        /\ UNCHANGED <<mem, version, heap, blocks, lookup, persistent, dirty, file, maximum,
                       dispatch, rip, rsp, pc, executed, recent, trace>>
    BY DEF FallBack, InBlock, guestVars, cacheVars, fileVars, registerVars, countVars
  <1>2. /\ cur \in ContextType /\ cur.left \in 1 .. cur.limit
        /\ cur.from <= cur.at /\ cur.at <= Len(Source) + 1
        /\ SpanOK(cur, Source) /\ StartOK(cur, Source)
    BY <1>1 DEF IInv, RunOK
  <1>3. cur' \in ContextType
    BY <1>1, <1>2 DEF ContextType
  <1>4. /\ cur'.block = cur.block /\ cur'.address = cur.address /\ cur'.limit = cur.limit
        /\ cur'.left = cur.left /\ cur'.from = cur.from /\ cur'.at = cur.at
        /\ cur'.stop = cur.stop /\ cur'.direct = cur.direct /\ cur'.span = cur.span
    BY <1>1, <1>2 DEF ContextType
  <1>5. GuestStep
    BY <1>1 DEF GuestStep
  <1>6. SpanOK(cur', Source) /\ StartOK(cur', Source)
    BY <1>2, <1>4 DEF SpanOK, StartOK, Unchecked
  <1>7. QED
    BY <1>1, <1>2, <1>3, <1>4, <1>5, <1>6, StepKeeps

\* An instruction without effect.
LEMMA StepOpKeeps ==
    ASSUME IInv, StepOp
    PROVE  IInv'
  <1>1. /\ pc = "block" /\ cur.at <= Len(Source) /\ cur' = [cur EXCEPT !.at = @ + 1]
        /\ UNCHANGED <<mem, version, heap, blocks, lookup, persistent, dirty, file, maximum,
                       dispatch, rip, rsp, pc, executed, recent, trace>>
    BY DEF StepOp, AtInstruction, Executing, InBlock, guestVars, cacheVars, fileVars,
           registerVars, countVars
  <1>2. /\ cur \in ContextType /\ cur.left \in 1 .. cur.limit
        /\ cur.at \in 1 .. Len(Source) + 1 /\ Source \in Seq(Instruction)
        /\ cur.from \in 1 .. cur.at /\ SpanOK(cur, Source)
    BY <1>1, Running
  <1>3. cur' \in ContextType
    BY <1>1, <1>2 DEF ContextType
  <1>4. /\ cur'.block = cur.block /\ cur'.address = cur.address /\ cur'.limit = cur.limit
        /\ cur'.left = cur.left /\ cur'.from = cur.from /\ cur'.at = cur.at + 1
        /\ cur'.stop = cur.stop /\ cur'.direct = cur.direct /\ cur'.span = cur.span
    BY <1>1, <1>2 DEF ContextType
  <1>5. cur'.at # cur'.from /\ cur'.from <= cur'.at /\ cur'.at <= Len(Source) + 1
    BY <1>1, <1>2, <1>4
  <1>6. GuestStep
    BY <1>1 DEF GuestStep
  <1>7. SpanOK(cur', Source) /\ StartOK(cur', Source)
    BY <1>2, <1>4, <1>5 DEF SpanOK, StartOK
  <1>8. QED
    BY <1>1, <1>2, <1>3, <1>4, <1>5, <1>6, <1>7, StepKeeps

\* A byte load: the span may be validated, and nothing else changes.
LEMMA StepLoad8Keeps ==
    ASSUME IInv, NEW a \in Address, StepLoad8(a)
    PROVE  IInv'
  <1> DEFINE validated == cur.span /\ IsFastEntry(Source, cur.at)
             spans == IF validated THEN {TRUE}
                      ELSE IF directReadSpan(Source) THEN BOOLEAN ELSE {FALSE}
  <1>1. pc = "block" /\ cur.at <= Len(Source) /\ Source[cur.at] = "load8"
    BY DEF StepLoad8, AtInstruction, Executing, InBlock
  <1>2. CASE BlockFault
    BY <1>1, <1>2, BlockFaultKeeps
  <1>3. CASE /\ \E span \in spans : cur' = [cur EXCEPT !.at = @ + 1, !.span = span]
             /\ UNCHANGED <<guestVars, cacheVars, fileVars, dispatch, registerVars, pc,
                            countVars, begun, outcome>>
    <2>1. UNCHANGED <<mem, version, heap, blocks, lookup, persistent, dirty, file, maximum,
                      dispatch, rip, rsp, pc, executed, recent, trace>>
      BY <1>3 DEF guestVars, cacheVars, fileVars, registerVars, countVars
    <2>2. PICK span \in spans : cur' = [cur EXCEPT !.at = @ + 1, !.span = span]
      BY <1>3
    <2>3. span \in BOOLEAN /\ (span => cur.span \/ directReadSpan(Source))
      OBVIOUS
    <2> HIDE DEF spans, validated
    <2>4. /\ cur \in ContextType /\ cur.left \in 1 .. cur.limit
          /\ cur.at \in 1 .. Len(Source) + 1 /\ Source \in Seq(Instruction)
          /\ cur.from \in 1 .. cur.at /\ SpanOK(cur, Source)
      BY <1>1, Running
    <2>5. cur' \in ContextType
      <3>1. cur.at + 1 \in Nat \ {0}
        BY <2>4
      <3>2. QED
        BY <3>1, <2>2, <2>3, <2>4 DEF ContextType
    <2>6. /\ cur'.block = cur.block /\ cur'.address = cur.address /\ cur'.limit = cur.limit
          /\ cur'.left = cur.left /\ cur'.from = cur.from /\ cur'.at = cur.at + 1
          /\ cur'.stop = cur.stop /\ cur'.direct = cur.direct /\ cur'.span = span
      BY <2>2, <2>4 DEF ContextType
    <2>7. cur'.at # cur'.from /\ cur'.from <= cur'.at /\ cur'.at <= Len(Source) + 1
      BY <1>1, <2>4, <2>6
    <2>8. GuestStep
      BY <2>1 DEF GuestStep
    <2>9. SpanOK(cur', Source) /\ StartOK(cur', Source)
      BY <2>3, <2>4, <2>6, <2>7 DEF SpanOK, StartOK
    <2>10. QED
      BY <1>1, <2>1, <2>4, <2>5, <2>6, <2>7, <2>8, <2>9, StepKeeps
  <1>4. QED
    BY <1>2, <1>3 DEF StepLoad8

\* A checked write is a guest step, and one the version tells when it is code.
LEMMA WriteIsGuestStep ==
    ASSUME IInv, NEW a, NEW v \in Cell, CanWrite(a), WriteCell(a, v)
    PROVE  GuestStep /\ (a \notin Code => UNCHANGED <<mem, version>>)
  BY DEF IInv, GuestOK, CanWrite, WriteCell, GuestStep

\* A checked store: code that was written sets the stop flag.
LEMMA StepStoreKeeps ==
    ASSUME IInv, NEW a \in Address, NEW v \in Cell, StepStore(a, v)
    PROVE  IInv'
  <1>1. pc = "block" /\ cur.at <= Len(Source) /\ Source[cur.at] = "store"
    BY DEF StepStore, AtInstruction, Executing, InBlock
  <1>2. CASE ~IsMapped(a)
    BY <1>1, <1>2, BlockFaultKeeps DEF StepStore
  <1>3. CASE IsMapped(a)
    <2>1. /\ CanWrite(a) /\ WriteCell(a, v)
          /\ cur' = [cur EXCEPT !.at = @ + 1, !.stop = @ \/ a \in Code]
          /\ UNCHANGED <<heap, blocks, lookup, persistent, dirty, file, maximum,
                         dispatch, rip, rsp, pc, executed, recent, trace>>
      BY <1>3 DEF StepStore, cacheVars, fileVars, registerVars, countVars
    <2>2. GuestStep /\ (a \notin Code => UNCHANGED <<mem, version>>)
      BY <2>1, WriteIsGuestStep
    <2>3. /\ cur \in ContextType /\ cur.left \in 1 .. cur.limit
          /\ cur.at \in 1 .. Len(Source) + 1 /\ Source \in Seq(Instruction)
          /\ cur.from \in 1 .. cur.at /\ SpanOK(cur, Source)
      BY <1>1, Running
    <2>4. /\ cur'.block = cur.block /\ cur'.address = cur.address /\ cur'.limit = cur.limit
          /\ cur'.left = cur.left /\ cur'.from = cur.from /\ cur'.at = cur.at + 1
          /\ cur'.stop = (cur.stop \/ a \in Code) /\ cur'.direct = cur.direct
          /\ cur'.span = cur.span
      BY <2>1, <2>3 DEF ContextType
    <2>5. cur' \in ContextType
      <3>1. (cur.stop \/ a \in Code) \in BOOLEAN /\ cur.at + 1 \in Nat \ {0}
        BY <2>3
      <3>2. QED
        BY <3>1, <2>1, <2>3 DEF ContextType
    <2>6. cur'.at # cur'.from /\ cur'.from <= cur'.at /\ cur'.at <= Len(Source) + 1
      BY <1>1, <2>3, <2>4
    <2>7. Has(Source, "store")
      BY <1>1, <2>3 DEF Has
    <2>8. SpanOK(cur', Source) /\ StartOK(cur', Source)
      BY <2>3, <2>4, <2>6 DEF SpanOK, StartOK
    <2>9. QED
      BY <1>1, <2>1, <2>2, <2>3, <2>4, <2>5, <2>6, <2>7, <2>8, StepKeeps
  <1>4. QED
    BY <1>2, <1>3

\* A byte store: only the data segment grants a direct window.
LEMMA StepStore8Keeps ==
    ASSUME IInv, NEW a \in Address, NEW v \in Cell, StepStore8(a, v)
    PROVE  IInv'
  <1> DEFINE tries == hasInternalSelfEdge(Source) /\ ~cur.attempted
             window == cur.direct \/ (tries /\ a \in Data)
  <1>1. pc = "block" /\ cur.at <= Len(Source) /\ Source[cur.at] = "store8"
    BY DEF StepStore8, AtInstruction, Executing, InBlock
  <1>2. CASE ~IsMapped(a)
    BY <1>1, <1>2, BlockFaultKeeps DEF StepStore8
  <1>3. CASE IsMapped(a)
    <2>1. /\ CanWrite(a) /\ WriteCell(a, v)
          /\ UNCHANGED <<heap, blocks, lookup, persistent, dirty, file, maximum,
                         dispatch, rip, rsp, pc, executed, recent, trace>>
      BY <1>3 DEF StepStore8, cacheVars, fileVars, registerVars, countVars
    <2>2. PICK span \in SpansAfterStore(a, window) :
             cur' = [cur EXCEPT !.at = @ + 1, !.attempted = @ \/ tries,
                       !.direct = window, !.stop = @ \/ a \in Code, !.span = span]
      BY <1>3 DEF StepStore8
    <2>3. GuestStep /\ (a \notin Code => UNCHANGED <<mem, version>>)
      BY <2>1, WriteIsGuestStep
    <2>4. /\ cur \in ContextType /\ cur.left \in 1 .. cur.limit
          /\ cur.at \in 1 .. Len(Source) + 1 /\ Source \in Seq(Instruction)
          /\ cur.from \in 1 .. cur.at /\ SpanOK(cur, Source)
      BY <1>1, Running
    <2>5. /\ window \in BOOLEAN /\ (window => cur.direct \/ a \in Data)
          /\ (cur.direct => window) /\ (cur.attempted \/ tries) \in BOOLEAN
      BY <2>4 DEF ContextType
    <2> HIDE DEF tries, window
    <2>6. /\ span \in BOOLEAN
          /\ span => directReadSpan(Source) \/ (directWriteSpan(Source) /\ window)
      <3>1. cur.span => directReadSpan(Source) \/ (directWriteSpan(Source) /\ window)
        BY <2>4, <2>5 DEF SpanOK
      <3>2. CASE directReadSpan(Source)
        BY <3>2, <2>2 DEF SpansAfterStore, directReadSpan, directWriteSpan, pinsDirectRead,
           pinsDirectWrite
      <3>3. CASE ~directReadSpan(Source) /\ directWriteSpan(Source) /\ cur.span
        BY <3>1, <3>3, <2>2 DEF SpansAfterStore
      <3>4. CASE ~directReadSpan(Source) /\ directWriteSpan(Source) /\ ~cur.span
        BY <3>4, <2>2, <2>5 DEF SpansAfterStore
      <3>5. CASE ~directReadSpan(Source) /\ ~directWriteSpan(Source)
        BY <3>5, <2>2 DEF SpansAfterStore
      <3>6. QED
        BY <3>2, <3>3, <3>4, <3>5
    <2>7. /\ cur'.block = cur.block /\ cur'.address = cur.address /\ cur'.limit = cur.limit
          /\ cur'.left = cur.left /\ cur'.from = cur.from /\ cur'.at = cur.at + 1
          /\ cur'.stop = (cur.stop \/ a \in Code)
          /\ cur'.direct = window /\ cur'.span = span
      BY <2>2, <2>4 DEF ContextType
    <2>8. cur' \in ContextType
      <3>1. (cur.stop \/ a \in Code) \in BOOLEAN /\ cur.at + 1 \in Nat \ {0}
        BY <2>4
      <3>2. QED
        BY <3>1, <2>2, <2>4, <2>5, <2>6 DEF ContextType
    <2>9. cur'.at # cur'.from /\ cur'.from <= cur'.at /\ cur'.at <= Len(Source) + 1
      BY <1>1, <2>4, <2>7
    <2>10. Has(Source, "store8")
      BY <1>1, <2>4 DEF Has
    <2>11. SpanOK(cur', Source) /\ StartOK(cur', Source)
      BY <2>6, <2>7, <2>9 DEF SpanOK, StartOK
    <2>12. QED
      BY <1>1, <2>1, <2>3, <2>4, <2>5, <2>7, <2>8, <2>9, <2>10, <2>11, StepKeeps
  <1>4. QED
    BY <1>2, <1>3

\* The instruction limit ends the block.
LEMMA EndAtLimitKeeps ==
    ASSUME IInv, EndAtLimit
    PROVE  IInv'
  BY Running, ContinueKeeps DEF EndAtLimit, Executing, InBlock

\* A jump ends the block.
LEMMA EndJumpKeeps ==
    ASSUME IInv, NEW t \in Code, EndJump(t)
    PROVE  IInv'
  BY Running, ContinueKeeps, CodeIsRip DEF EndJump, AtInstruction, Executing, InBlock

\* The loop leaves, stops or repeats: it repeats with the flag set only where
\* the check is left out.
LEMMA EndLoopKeeps ==
    ASSUME IInv, EndLoop
    PROVE  IInv'
  <1> DEFINE left == cur.left - 1
             done == cur.limit - left
  <1>1. pc = "block"
    BY DEF EndLoop, AtInstruction, Executing, InBlock
  <1>2. /\ cur \in ContextType /\ cur.left \in 1 .. cur.limit /\ cur.limit \in Nat
        /\ NextRip \in Rip /\ cur.address \in Rip /\ Len(Source) >= 1 /\ Len(Source) \in Nat
    BY <1>1, Running
  <1>3. done \in 1 .. cur.limit
    BY <1>2
  <1>4. CASE Continue(done, NextRip) \/ Continue(done, cur.address)
    BY <1>1, <1>2, <1>3, <1>4, ContinueKeeps
  <1>5. CASE left # 0 /\ (cur.span \/ ~stopsRepeating) /\ Repeat(left)
    <2>1. UNCHANGED <<mem, version, heap, blocks, lookup, persistent, dirty, file, maximum,
                      dispatch, rip, rsp, pc, executed, recent, trace>>
      BY <1>5 DEF Repeat, guestVars, cacheVars, fileVars, registerVars, countVars
    <2>2. left \in 1 .. cur.limit /\ left \in Nat /\ left < cur.limit
      BY <1>2, <1>5
    <2>3. PICK k \in 1 .. Len(Source) :
             cur' = [cur EXCEPT !.left = left, !.from = k, !.at = k]
      BY <1>5 DEF Repeat
    <2>4. k \in Nat \ {0} /\ k <= Len(Source) + 1
      BY <1>2
    <2>5. cur' \in ContextType
      <3> HIDE DEF left
      <3>1. QED
        BY <1>2, <2>2, <2>3, <2>4 DEF ContextType
    <2>6. /\ cur'.block = cur.block /\ cur'.address = cur.address /\ cur'.limit = cur.limit
          /\ cur'.left = left /\ cur'.from = k /\ cur'.at = k /\ cur'.stop = cur.stop
          /\ cur'.direct = cur.direct /\ cur'.span = cur.span
      BY <1>2, <2>3 DEF ContextType
    <2>7. SpanOK(cur, Source)
      BY <1>1, Running
    <2>8. cur.stop => Unchecked(cur, Source)
      BY <1>5, <2>7 DEF stopsRepeating, Unchecked, SpanOK, directWriteSpan
    <2>9. SpanOK(cur', Source) /\ StartOK(cur', Source)
      BY <2>2, <2>6, <2>7, <2>8 DEF SpanOK, StartOK, Unchecked
    <2>10. GuestStep
      BY <2>1 DEF GuestStep
    <2>11. QED
      BY <1>1, <2>1, <2>2, <2>4, <2>5, <2>6, <2>9, <2>10, StepKeeps
  <1>6. QED
    BY <1>4, <1>5 DEF EndLoop

\* A call: underflow, a failed push, or a push.
LEMMA EndCallKeeps ==
    ASSUME IInv, NEW t \in Code, NEW v \in Cell, EndCall(t, v)
    PROVE  IInv'
  <1>1. pc = "block" /\ CountExecutions(1)
    BY DEF EndCall, AtInstruction, Executing, InBlock
  <1>2. 1 \in 1 .. cur.limit /\ cur.address \in Rip /\ t \in Rip
    BY <1>1, Running, CodeIsRip
  <1>3. rsp \in Rip
    BY DEF IInv, GuestOK
  <1>4. rip' \in Rip /\ pc' \in {"idle", "fetch"} /\ cur' = NoContext
    BY <1>2 DEF EndCall, Leave, Dispatch
  <1>5. CASE UNCHANGED <<guestVars, rsp>>
    <2>1. GuestStep /\ rsp' \in Rip
      BY <1>3, <1>5 DEF GuestStep, guestVars
    <2>2. QED
      BY <1>1, <1>2, <1>4, <2>1, CountKeeps
  <1>6. CASE rsp >= 1 /\ CanWrite(rsp - 1) /\ WriteCell(rsp - 1, v) /\ rsp' = rsp - 1
    <2>1. rsp' \in Rip
      BY <1>3, <1>6, Sizes DEF Rip
    <2>2. GuestStep
      BY <1>6, WriteIsGuestStep
    <2>3. QED
      BY <1>1, <1>2, <1>4, <2>1, <2>2, CountKeeps
  <1>7. QED
    <2>1. rsp \in Int
      BY <1>3, Sizes DEF Rip
    <2>2. CASE rsp < 1
      BY <1>5, <2>1, <2>2 DEF EndCall
    <2>3. CASE rsp >= 1 /\ ~IsMapped(rsp - 1)
      BY <1>5, <2>1, <2>3 DEF EndCall
    <2>4. CASE rsp >= 1 /\ IsMapped(rsp - 1)
      BY <1>6, <2>1, <2>4 DEF EndCall
    <2>5. QED
      BY <2>1, <2>2, <2>3, <2>4

\* A return: a failed read, the sentinel, or a target.
LEMMA EndReturnKeeps ==
    ASSUME IInv, NEW t \in Code, EndReturn(t)
    PROVE  IInv'
  <1>1. pc = "block" /\ CountExecutions(1) /\ GuestStep
    BY DEF EndReturn, AtInstruction, Executing, InBlock, GuestStep, guestVars
  <1>2. 1 \in 1 .. cur.limit /\ cur.address + cur.at - 1 \in Rip /\ t \in Rip
    BY <1>1, Running, CodeIsRip
  <1>3. rip' \in Rip /\ pc' \in {"idle", "fetch"} /\ cur' = NoContext
    BY <1>2 DEF EndReturn, Leave, Dispatch
  <1>4. rsp' \in Rip
    <2>1. rsp \in Rip
      BY DEF IInv, GuestOK
    <2>2. CASE IsMapped(rsp) /\ rsp' = rsp + 1
      BY <2>1, <2>2, Sizes DEF IsMapped, HasCode, Data, Code, Rip
    <2>3. QED
      BY <2>1, <2>2 DEF EndReturn
  <1>5. QED
    BY <1>1, <1>2, <1>3, <1>4, CountKeeps

\* A system call.
LEMMA EndSyscallKeeps ==
    ASSUME IInv, NEW a \in Code, NEW v \in Cell \cup {Unmapped}, EndSyscall(a, v)
    PROVE  IInv'
  <1>1. pc = "block" /\ CountExecutions(1)
    BY DEF EndSyscall, AtInstruction, Executing, InBlock
  <1>2. 1 \in 1 .. cur.limit /\ NextRip \in Rip
    BY <1>1, Running
  <1>3. rip' \in Rip /\ rsp' \in Rip /\ pc' \in {"idle", "fetch"} /\ cur' = NoContext
    BY <1>2 DEF EndSyscall, Leave, Dispatch, IInv, GuestOK
  <1>4. GuestStep
    BY DEF EndSyscall, GuestStep, guestVars, IInv, GuestOK
  <1>5. QED
    BY <1>1, <1>2, <1>3, <1>4, CountKeeps

-----------------------------------------------------------------------------
(* The environment and the specification.                                  *)

\* run is entered: all counts start at zero.
LEMMA RunKeeps ==
    ASSUME IInv, NEW r \in Entries, NEW s \in Stacks, Run(r, s)
    PROVE  IInv'
  <1> USE DEF IInv
  <1>1. /\ pc' = "fetch" /\ rip' = r /\ rsp' = s /\ executed' = 0 /\ trace' = << >>
        /\ recent' = [recent EXCEPT !.count = 0, !.next = 0]
        /\ heap' = [b \in Blocks |->
                      IF heap[b] = Null THEN Null ELSE [heap[b] EXCEPT !.count = 0]]
        /\ UNCHANGED <<mem, version, blocks, lookup, persistent, dirty, file, maximum,
                       dispatch, cur>>
    BY DEF Run, guestVars, fileVars
  <1>2. GuestOK'
    BY <1>1, CodeIsRip, CellAssumption DEF GuestOK
  <1>3. SameBlocks(heap, heap') /\ HeapOK(heap', executed')
    <2>1. ASSUME NEW x \in Blocks, heap[x] # Null
          PROVE  /\ heap'[x] \in BlockType /\ heap'[x].source = heap[x].source
                 /\ heap'[x].maximum = heap[x].maximum /\ heap'[x].count = 0
                 /\ heap'[x] # Null
      <3>1. heap[x] \in BlockType /\ heap'[x] = [heap[x] EXCEPT !.count = 0]
        BY <1>1, <2>1 DEF HeapOK
      <3>2. QED
        BY <3>1, CellAssumption DEF BlockType
    <2>2. \A x \in Blocks : heap[x] = Null => heap'[x] = Null
      BY <1>1
    <2>3. heap' \in [Blocks -> BlockType \cup {Null}]
      BY <2>1, <2>2, <1>1
    <2>4. QED
      BY <2>1, <2>2, <2>3, <1>1 DEF SameBlocks, HeapOK
  <1>4. IndexOK(heap', blocks', lookup')
        /\ CodeOK(heap', blocks', lookup', mem', version', maximum')
    BY <1>1, <1>3, SameBlocksKeep
  <1>5. DispatchOK'
    BY <1>1 DEF DispatchOK
  <1>6. RunOK'
    BY <1>1 DEF RunOK
  <1>7. SavedOK'
    BY <1>1, <1>3, SavedKeeps
  <1>8. TraceOK'
    <2>1. recent' \in [blocks : [0 .. Capacity - 1 -> Nat], count : 0 .. Capacity,
                       next : 0 .. Capacity - 1]
          /\ recent'.count = 0
      <3>1. recent \in [blocks : [0 .. Capacity - 1 -> Nat], count : 0 .. Capacity,
                        next : 0 .. Capacity - 1]
        BY DEF TraceOK
      <3>2. 0 \in 0 .. Capacity /\ 0 \in 0 .. Capacity - 1
        BY Sizes
      <3>3. QED
        BY <3>1, <3>2, <1>1
    <2>2. trace' \in Seq(Code) /\ Len(trace') = 0 /\ executed' = 0
      BY <1>1
    <2>3. recent'.count = IF executed' < Capacity THEN executed' ELSE Capacity
      BY <2>1, <2>2, Sizes
    <2>4. 1 .. recent'.count = {}
      BY <2>1
    <2>5. executed' <= MaximumBlocks
      BY <2>2, Sizes
    <2>6. QED
      BY <2>1, <2>2, <2>3, <2>4, <2>5 DEF TraceOK
  <1>9. QED
    BY <1>2, <1>3, <1>4, <1>5, <1>6, <1>7, <1>8

\* What savePersistent writes are records of well-shaped blocks.
LEMMA RecordsAreOK ==
    ASSUME IInv
    PROVE  RecordsOK(Records)
  <1> USE DEF IInv
  <1>1. ASSUME NEW a \in Code
        PROVE  /\ Records[a] \in Record \cup {Null}
               /\ Records[a] # Null => Shaped(Records[a].source, Records[a].maximum)
    <2>1. CASE blocks[a] = Null
      BY <2>1 DEF Records, SavedOK, RecordsOK
    <2>2. CASE blocks[a] # Null
      <3>1. /\ blocks[a] \in Blocks /\ heap[blocks[a]] \in BlockType
            /\ Shaped(heap[blocks[a]].source, heap[blocks[a]].maximum)
        BY <2>2 DEF IndexOK, HeapOK, CodeOK, Fits
      <3>2. Records[a] = [source |-> heap[blocks[a]].source,
                          maximum |-> heap[blocks[a]].maximum]
        BY <2>2 DEF Records
      <3>3. QED
        BY <3>1, <3>2 DEF BlockType, Record
    <2>3. QED
      BY <2>1, <2>2
  <1>2. Records \in [Code -> Record \cup {Null}]
    BY <1>1 DEF Records
  <1>3. QED
    BY <1>1, <1>2 DEF RecordsOK

\* A save makes the file what the blocks are.
LEMMA FlushKeeps ==
    ASSUME IInv, flushPersistent
    PROVE  IInv'
  <1> USE DEF IInv
  <1>1. /\ file' = Records /\ dirty' = FALSE
        /\ UNCHANGED <<mem, version, heap, blocks, lookup, persistent, maximum,
                       dispatch, rip, rsp, pc, cur, executed, recent, trace>>
    BY DEF flushPersistent, guestVars, registerVars, countVars
  <1>2. GuestOK'
    BY <1>1 DEF GuestOK
  <1>3. /\ HeapOK(heap', executed') /\ IndexOK(heap', blocks', lookup')
        /\ CodeOK(heap', blocks', lookup', mem', version', maximum')
    BY <1>1
  <1>4. DispatchOK'
    BY <1>1 DEF DispatchOK
  <1>5. RunOK'
    BY <1>1 DEF RunOK, Source
  <1>6. TraceOK'
    BY <1>1 DEF TraceOK
  <1>7. SavedOK'
    <2>1. RecordsOK(persistent') /\ RecordsOK(file')
      BY <1>1, RecordsAreOK DEF SavedOK
    <2>2. \A a \in Code : blocks'[a] = Null => file'[a] = persistent'[a]
      BY <1>1 DEF Records
    <2>3. Records' = Records
      BY <1>1 DEF Records
    <2>4. CleanMeansSaved'
      BY <1>1, <2>3 DEF CleanMeansSaved
    <2>5. QED
      BY <2>1, <2>2, <2>4 DEF SavedOK
  <1>8. QED
    BY <1>2, <1>3, <1>4, <1>5, <1>6, <1>7

\* A process starts: with Init, and again with NextProcess.
LEMMA FreshKeeps ==
    ASSUME mem' \in Programs, version' = 0, maximum' \in Maxima,
           heap' = [b \in Blocks |-> Null], blocks' = [a \in Code |-> Null],
           lookup' = [a \in Code |-> NoIndex], dirty' = FALSE,
           dispatch' = [k \in 0 .. DispatchSize - 1 |-> NoEntry],
           rip' = 0, rsp' = 0, pc' = "idle", cur' = NoContext,
           executed' = 0, recent' = NoRecent, trace' = << >>
    PROVE  /\ GuestOK' /\ HeapOK(heap', executed') /\ IndexOK(heap', blocks', lookup')
           /\ CodeOK(heap', blocks', lookup', mem', version', maximum')
           /\ DispatchOK' /\ RunOK' /\ TraceOK' /\ CleanMeansSaved'
  <1>1. 0 \in Code /\ 0 \in Rip
    BY Sizes DEF Code, Rip
  <1>2. GuestOK'
    BY <1>1, Sizes, CellAssumption, SMTT(60) DEF GuestOK
  <1>3. HeapOK(heap', executed')
    BY DEF HeapOK
  <1>4. IndexOK(heap', blocks', lookup')
    BY Sizes, CellAssumption DEF IndexOK, NoIndex
  <1>5. CodeOK(heap', blocks', lookup', mem', version', maximum')
    BY DEF CodeOK, NoIndex
  <1>6. DispatchOK'
    BY <1>1, Sizes DEF DispatchOK, NoEntry
  <1>7. RunOK'
    BY <1>1 DEF RunOK, NoContext, ContextType
  <1>8. TraceOK'
    BY Sizes DEF TraceOK, NoRecent
  <1>9. CleanMeansSaved'
    BY DEF CleanMeansSaved
  <1>10. QED
    BY <1>2, <1>3, <1>4, <1>5, <1>6, <1>7, <1>8, <1>9

\* The next process starts with nothing but the file.
LEMMA NextProcessKeeps ==
    ASSUME IInv, NEW program \in Programs, NEW limit \in Maxima, NextProcess(program, limit)
    PROVE  IInv'
  <1>1. /\ GuestOK' /\ HeapOK(heap', executed') /\ IndexOK(heap', blocks', lookup')
        /\ CodeOK(heap', blocks', lookup', mem', version', maximum')
        /\ DispatchOK' /\ RunOK' /\ TraceOK' /\ CleanMeansSaved'
    BY FreshKeeps DEF NextProcess
  <1>2. file' = file \/ file' = Records
    BY DEF NextProcess
  <1>3. RecordsOK(file')
    BY <1>2, RecordsAreOK DEF IInv, SavedOK
  <1>4. persistent' = file' \/ persistent' = [a \in Code |-> Null]
    BY DEF NextProcess
  <1>5. RecordsOK(persistent')
    BY <1>3, <1>4 DEF RecordsOK
  <1>6. \A a \in Code : persistent'[a] # Null => file'[a] = persistent'[a]
    BY <1>4
  <1>7. SavedOK'
    BY <1>1, <1>3, <1>5, <1>6 DEF SavedOK
  <1>8. QED
    BY <1>1, <1>7 DEF IInv

\* run is left without a block.
LEMMA FetchFaultKeeps ==
    ASSUME IInv, FetchFault \/ LimitReached
    PROVE  IInv'
  <1>1. rip \in Rip
    BY DEF IInv, GuestOK
  <1>2. QED
    BY <1>1, FaultKeeps DEF FetchFault, LimitReached, Leave, guestVars, cacheVars, fileVars,
                            registerVars, countVars

\* The invariant holds when the first process starts.
LEMMA InitInv == Init => IInv
  <1> SUFFICES ASSUME Init PROVE IInv
    OBVIOUS
  <1> USE DEF Init
  <1>1. 0 \in Code /\ 0 \in Rip
    BY Sizes DEF Code, Rip
  <1>2. GuestOK
    BY <1>1, Sizes, CellAssumption DEF GuestOK
  <1>3. HeapOK(heap, executed)
    BY DEF HeapOK
  <1>4. IndexOK(heap, blocks, lookup)
    BY Sizes, CellAssumption DEF IndexOK, NoIndex
  <1>5. CodeOK(heap, blocks, lookup, mem, version, maximum)
    BY DEF CodeOK, NoIndex
  <1>6. DispatchOK
    BY <1>1, Sizes DEF DispatchOK, NoEntry
  <1>7. RunOK
    BY <1>1 DEF RunOK, NoContext, ContextType
  <1>8. TraceOK
    BY Sizes DEF TraceOK, NoRecent
  <1>9. SavedOK
    BY DEF SavedOK, RecordsOK, CleanMeansSaved
  <1>10. QED
    BY <1>2, <1>3, <1>4, <1>5, <1>6, <1>7, <1>8, <1>9 DEF IInv

\* Every step of the specification keeps the invariant.
LEMMA NextKeeps ==
    ASSUME IInv, Next
    PROVE  IInv'
  <1>1. CASE FetchNext
    BY <1>1, UseDispatchEntryKeeps, UseCurrentBlockKeeps, ReuseBlockKeeps, InsertCachedKeeps,
       ReplaceBlockKeeps, InsertTranslatedKeeps, FetchFaultKeeps DEF FetchNext
  <1>2. CASE BlockNext
    BY <1>2, RunOptimizedKeeps, FallBackKeeps, StepOpKeeps, EndAtLimitKeeps, EndLoopKeeps,
       StepLoad8Keeps, StepStoreKeeps, StepStore8Keeps, EndJumpKeeps, EndReturnKeeps, EndCallKeeps,
       EndSyscallKeeps DEF BlockNext
  <1>3. CASE EnvironmentNext
    BY <1>3, RunKeeps, FlushKeeps, NextProcessKeeps DEF EnvironmentNext
  <1>4. QED
    BY <1>1, <1>2, <1>3 DEF Next

\* So does a step that changes nothing.
LEMMA StutterKeeps ==
    ASSUME IInv, UNCHANGED vars
    PROVE  IInv'
  <1>1. UNCHANGED <<mem, version, heap, blocks, lookup, persistent, dirty, file, maximum,
                    dispatch, rip, rsp, pc, cur, executed, recent, trace>>
    BY DEF vars, guestVars, cacheVars, fileVars, registerVars, countVars
  <1> USE DEF IInv
  <1>2. GuestOK' /\ DispatchOK' /\ TraceOK'
    BY <1>1 DEF GuestOK, DispatchOK, TraceOK
  <1>3. RunOK'
    BY <1>1 DEF RunOK, Source
  <1>4. SavedOK'
    BY <1>1 DEF SavedOK, CleanMeansSaved, Records
  <1>5. QED
    BY <1>1, <1>2, <1>3, <1>4

\* Every reachable state satisfies the inductive invariant of Dispatcher::run,
\* BlockCache and the cache file.
THEOREM Inductive == Spec => []IInv
  <1>1. IInv /\ [Next]_vars => IInv'
    BY NextKeeps, StutterKeeps
  <1>2. QED
    BY InitInv, <1>1, PTL DEF Spec

-----------------------------------------------------------------------------
(* The theorems.                                                           *)

\* The state of the dispatcher, its caches and the guest always has its type,
\* for every program, size and limit (Dispatcher and BlockCache members).
THEOREM TypeCorrect == Spec => []TypeOK
  <1>1. ASSUME IInv
        PROVE  TypeOK
    <2> USE <1>1 DEF IInv
    <2>1. /\ mem \in [Code -> Cell \cup {Unmapped}] /\ version \in 0 .. MaxVersion
          /\ maximum \in Maxima /\ {rip, rsp} \subseteq Rip /\ dirty \in BOOLEAN
          /\ pc \in {"idle", "fetch", "block"}
      BY DEF GuestOK
    <2>2. executed \in 0 .. MaximumBlocks /\ recent.count \in 0 .. Capacity
          /\ recent.next \in 0 .. Capacity - 1
      BY DEF TraceOK
    <2>3. /\ blocks \in [Code -> Blocks \cup {Null}]
          /\ lookup \in [Code -> [block : Blocks \cup {Null}, version : 0 .. MaxVersion]]
      BY DEF IndexOK
    <2>4. heap \in [Blocks -> BlockType \cup {Null}]
      BY DEF HeapOK
    <2>5. ASSUME NEW b \in Blocks, heap[b] # Null
          PROVE  heap[b].source # << >> /\ heap[b].count <= MaximumBlocks
      <3>1. heap[b].count \in Nat /\ heap[b].count <= executed /\ heap[b].source \in Seq(Instruction)
        BY <2>5 DEF HeapOK, BlockType
      <3>2. PICK a \in Code : blocks[a] = b
        BY <2>5 DEF IndexOK
      <3>3. b # Null
        BY CellAssumption
      <3>4. Shaped(heap[b].source, maximum)
        BY <3>2, <3>3 DEF CodeOK, Fits
      <3>5. Len(heap[b].source) # 0
        BY <3>1, <3>4 DEF Shaped
      <3>6. QED
        BY <3>1, <3>5, <2>2, Sizes
    <2>6. {persistent, file} \subseteq [Code -> Record \cup {Null}]
      BY DEF SavedOK, RecordsOK
    <2>7. dispatch \in [0 .. DispatchSize - 1 ->
             [address : Rip, version : 0 .. MaxVersion, block : Blocks \cup {Null}]]
      BY CodeIsRip DEF DispatchOK
    <2>8. QED
      BY <2>1, <2>2, <2>3, <2>4, <2>5, <2>6, <2>7 DEF TypeOK
  <1>2. QED
    BY <1>1, Inductive, PTL

\* blocks_ and lookup_ never disagree: the exception "ownership/index disagree"
\* of getOrTranslate is unreachable.
THEOREM OwnershipHolds == Spec => []OwnershipMatchesIndex
  <1>1. ASSUME IInv
        PROVE  OwnershipMatchesIndex
    <2>1. IndexOK(heap, blocks, lookup)
      BY <1>1 DEF IInv
    <2>2. {b \in Blocks : heap[b] # Null} = {blocks[a] : a \in Code} \ {Null}
      BY <2>1, CellAssumption DEF IndexOK
    <2>3. QED
      BY <2>1, <2>2 DEF IndexOK, OwnershipMatchesIndex
  <1>2. QED
    BY <1>1, Inductive, PTL

\* run never follows a pointer of the dispatch cache to a retired block, for
\* every size of the cache and every amount of storage.
THEOREM UsableEntriesHold == Spec => []UsableEntriesAreLive
  <1>1. ASSUME IInv
        PROVE  UsableEntriesAreLive
    <2> USE <1>1 DEF IInv
    <2>1. \A a \in Code : blocks[a] # Null => heap[blocks[a]] # Null
      BY DEF IndexOK
    <2>2. ASSUME NEW k \in DOMAIN dispatch, dispatch[k].block # Null,
                 dispatch[k].version = version
          PROVE  /\ dispatch[k].block = blocks[dispatch[k].address]
                 /\ heap[dispatch[k].block] # Null
      BY <2>1, <2>2 DEF DispatchOK
    <2>3. pc = "block" => blocks[cur.address] = cur.block /\ heap[cur.block] # Null
      BY <2>1 DEF RunOK, ContextType
    <2>4. QED
      BY <2>2, <2>3 DEF UsableEntriesAreLive
  <1>2. QED
    BY <1>1, Inductive, PTL

\* No batch takes run past its block limit or a loop past its warm-up
\* (executionBatchLimit).
THEOREM WithinBudgetHolds == Spec => []WithinBudget
  <1>1. IInv => WithinBudget
    BY DEF IInv, TraceOK, RunOK, WithinBudget
  <1>2. QED
    BY <1>1, Inductive, PTL

\* recentBlocks reports the tail of the counted executions for every capacity,
\* limit and sequence of batches.
THEOREM RecentIsTailHolds == Spec => []RecentIsTail
  <1>1. IInv => RecentIsTail
    BY TailReported DEF IInv
  <1>2. QED
    BY <1>1, Inductive, PTL

\* A clean cache has every translation in its file (savePersistent), across any
\* number of processes and failed saves.
THEOREM CleanMeansSavedHolds == Spec => []CleanMeansSaved
  <1>1. IInv => CleanMeansSaved
    BY DEF IInv, SavedOK
  <1>2. QED
    BY <1>1, Inductive, PTL

\* The invariant says when a block that starts may be stale.
LEMMA Staleness ==
    ASSUME IInv
    PROVE  StaleOnlyUnchecked
  <1> SUFFICES ASSUME pc = "block", cur.at = cur.from
               PROVE  \/ IsDecoded(mem, cur.address, maximum, Source)
                      \/ /\ cur.stop /\ cur.left < cur.limit /\ Has(Source, "store8")
                         /\ \/ pinsDirectWrite(Source) /\ cur.direct
                            \/ directReadSpan(Source) /\ cur.span
    BY DEF StaleOnlyUnchecked
  <1>1. /\ cur.block # Null /\ cur.address \in Code /\ blocks[cur.address] = cur.block
        /\ cur.stop \/ Matches(mem, Source, cur.address)
        /\ cur.stop => Has(Source, "store") \/ Has(Source, "store8")
        /\ StartOK(cur, Source)
    BY DEF IInv, RunOK, ContextType
  <1>2. Shaped(Source, maximum)
    BY <1>1 DEF IInv, CodeOK, Fits, Source
  <1>3. Source \in Seq(Instruction)
    BY Running
  <1>4. \A k \in 1 .. Len(Source) : Source[k] \notin {Unmapped, "bad"}
    BY <1>3, CellAssumption DEF Instruction
  <1>5. CASE Matches(mem, Source, cur.address)
    BY <1>2, <1>4, <1>5 DEF IsDecoded, Shaped, Matches
  <1>6. CASE cur.stop
    <2>1. cur.left < cur.limit /\ Unchecked(cur, Source)
      BY <1>1, <1>6 DEF StartOK
    <2>2. Has(Source, "store8")
      BY <1>1, <1>6, <2>1 DEF Unchecked, pinsDirectWrite, directReadSpan
    <2>3. QED
      BY <1>6, <2>1, <2>2 DEF Unchecked
  <1>7. QED
    BY <1>1, <1>5, <1>6

\* Code that is no longer in memory is started only by a repetition that does not
\* look at the stop flag: a byte-store loop with a direct-write window, or a
\* byte-load loop with a byte store and a nonzero span register (the two ways of
\* emitSelfEdge).
THEOREM StaleOnlyUncheckedHolds == Spec => []StaleOnlyUnchecked
  BY Staleness, Inductive, PTL

\* Without byte stores, or without both byte loads and a data segment that could
\* grant a window, run never starts a stale block: no wide store, byte store,
\* system call, dispatch-cache hit or cached translation makes it.
THEOREM NoStaleBlockHolds ==
    ASSUME \/ "store8" \notin Cell
           \/ Data = {} /\ "load8" \notin Cell
    PROVE  Spec => []NoStaleBlock
  <1>1. ASSUME IInv
        PROVE  NoStaleBlock
    <2>1. ASSUME pc = "block"
          PROVE  ~(/\ Has(Source, "store8")
                   /\ \/ pinsDirectWrite(Source) /\ cur.direct
                      \/ directReadSpan(Source) /\ cur.span)
      <3>1. cur.direct => Data # {}
        BY <1>1, <2>1 DEF IInv, RunOK
      <3>2. Source \in Seq(Instruction)
        BY <1>1, <2>1, Running
      <3>3. "store8" \notin Cell => ~Has(Source, "store8")
        BY <3>2 DEF Has, Instruction
      <3>4. "load8" \notin Cell => ~directReadSpan(Source)
        BY <3>2 DEF directReadSpan, pinsDirectRead, Has, Instruction
      <3>5. QED
        BY <3>1, <3>3, <3>4
    <2>2. QED
      BY <1>1, <2>1, Staleness DEF StaleOnlyUnchecked, NoStaleBlock
  <1>2. QED
    BY <1>1, Inductive, PTL

-----------------------------------------------------------------------------
(* Counting.                                                               *)

\* What CountsEveryStart rests on: only a baseline loop has counted down, only
\* its last cell is a branch, and a run that goes on has not faulted.
CountOK ==
    /\ CountsEveryStart
    /\ pc # "idle" => outcome # "fault"
    /\ pc = "block" =>
        /\ cur.left < cur.limit => hasInternalSelfEdge(Source) /\ ~cur.optimized
        /\ cur.at > Len(Source) => ~hasInternalSelfEdge(Source)

\* Only the last instruction of a running block is a terminator.
LEMMA TerminatorIsLast ==
    ASSUME IInv, pc = "block", cur.at <= Len(Source), Source[cur.at] \in Terminators
    PROVE  cur.at = Len(Source)
  <1>1. cur.block # Null /\ cur.address \in Code /\ blocks[cur.address] = cur.block
    BY DEF IInv, RunOK, ContextType
  <1>2. Shaped(Source, maximum)
    BY <1>1 DEF IInv, CodeOK, Fits, Source
  <1>3. cur.at \in 1 .. Len(Source) + 1 /\ Source \in Seq(Instruction)
    BY Running
  <1>4. QED
    BY <1>2, <1>3 DEF Shaped

\* A block is entered.
LEMMA EnterCounts ==
    ASSUME IInv', CountOK, pc = "fetch", NEW objects, NEW b, EnterBlock(objects, b)
    PROVE  CountOK'
  <1>1. begun = executed /\ outcome # "fault" /\ executed' = executed
    BY DEF CountOK, CountsEveryStart, EnterBlock, countVars
  <1>2. CASE pc' = "idle" /\ begun' = begun
    BY <1>1, <1>2 DEF CountOK, CountsEveryStart
  <1>3. CASE /\ pc' = "block" /\ begun' = begun + 1 /\ outcome' = outcome
             /\ cur'.left = cur'.limit /\ cur'.at = 1
    <2>1. /\ cur'.limit \in Nat /\ executed' \in Nat /\ Source' \in Seq(Instruction)
          /\ Len(Source') >= 1 /\ Len(Source') \in Nat
      <3>1. executed' \in Nat
        BY DEF IInv, TraceOK
      <3>2. /\ cur' \in ContextType /\ cur'.block # Null /\ cur'.address \in Code
            /\ blocks'[cur'.address] = cur'.block
        BY <1>3 DEF IInv, RunOK, ContextType
      <3>3. heap'[cur'.block] \in BlockType /\ Shaped(Source', maximum')
        BY <3>2 DEF IInv, IndexOK, HeapOK, CodeOK, Fits, Source
      <3>4. Source' \in Seq(Instruction)
        BY <3>3 DEF Source, BlockType
      <3>5. QED
        BY <3>1, <3>2, <3>3, <3>4 DEF ContextType, Shaped
    <2>2. QED
      BY <1>1, <1>3, <2>1 DEF CountOK, CountsEveryStart
  <1>4. QED
    BY <1>2, <1>3 DEF EnterBlock, Leave, NoContext

\* The code goes on inside a repetition.
LEMMA StepCounts ==
    ASSUME IInv, CountOK, pc = "block", pc' = "block", cur.at <= Len(Source),
           Source[cur.at] \notin Terminators, cur'.at = cur.at + 1,
           cur'.limit = cur.limit, cur'.left = cur.left, cur'.optimized = cur.optimized,
           cur'.block = cur.block,
           UNCHANGED <<heap, executed, begun, outcome>>
    PROVE  CountOK'
  <1>1. /\ cur.at \in 1 .. Len(Source) + 1 /\ Source \in Seq(Instruction)
        /\ Len(Source) \in Nat /\ Source' = Source
    BY Running DEF Source
  <1>2. cur'.at > Len(Source') => ~hasInternalSelfEdge(Source')
    BY <1>1 DEF hasInternalSelfEdge, Terminators
  <1>3. QED
    BY <1>1, <1>2 DEF CountOK, CountsEveryStart

\* A batch of n executions is counted.
LEMMA BatchCounts ==
    ASSUME IInv, CountOK, pc = "block", pc' # "block", NEW n \in Nat, CountExecutions(n),
           n = cur.limit - cur.left + 1, UNCHANGED begun,
           pc' # "idle" => outcome' = outcome
    PROVE  CountOK'
  <1>1. executed \in Nat /\ cur.limit \in Nat /\ cur.left \in Nat
    BY Running DEF IInv, TraceOK
  <1>2. executed' = executed + n
    BY DEF CountExecutions
  <1>3. QED
    BY <1>1, <1>2 DEF CountOK, CountsEveryStart

\* A block without a self edge is counted once.
LEMMA OnceCounts ==
    ASSUME IInv, CountOK, pc = "block", pc' # "block", CountExecutions(1), UNCHANGED begun,
           ~hasInternalSelfEdge(Source), pc' # "idle" => outcome' = outcome
    PROVE  CountOK'
  <1>1. cur.limit \in Nat /\ cur.left \in 1 .. cur.limit
    BY Running
  <1>2. cur.limit - cur.left + 1 = 1
    BY <1>1 DEF CountOK
  <1>3. QED
    BY <1>2, BatchCounts

\* A fault ends the run, and its batch is not counted.
LEMMA FaultCounts ==
    ASSUME BlockFault
    PROVE  CountOK'
  BY DEF BlockFault, Leave, CountOK, CountsEveryStart

\* A block that is left at a terminator other than a loop.
LEMMA EndCounts ==
    ASSUME IInv, CountOK, NEW kind \in Terminators \ {"loop"}, AtInstruction(kind),
           pc' # "block", CountExecutions(1), UNCHANGED begun,
           pc' # "idle" => outcome' = outcome
    PROVE  CountOK'
  <1>1. pc = "block" /\ cur.at <= Len(Source) /\ Source[cur.at] = kind
    BY DEF AtInstruction, Executing, InBlock
  <1>2. ~hasInternalSelfEdge(Source)
    BY <1>1, TerminatorIsLast DEF hasInternalSelfEdge
  <1>3. QED
    BY <1>1, <1>2, OnceCounts

\* Every step of a running block keeps the count.
LEMMA BlockCounts ==
    ASSUME IInv, IInv', CountOK, BlockNext
    PROVE  CountOK'
  <1>1. CASE \E n \in 1 .. MaximumBlocks : RunOptimized(n)
    <2>1. PICK n \in 1 .. MaximumBlocks : RunOptimized(n)
      BY <1>1
    <2>2. /\ pc = "block" /\ cur.optimized /\ begun' = begun + n - 1 /\ n \in Nat
          /\ CountExecutions(n) /\ pc' = "fetch" /\ outcome' = outcome
      BY <2>1, Sizes DEF RunOptimized, InBlock, Continue, Dispatch
    <2>3. cur.limit \in Nat /\ cur.left \in 1 .. cur.limit /\ executed \in Nat
      BY <2>2, Running DEF IInv, TraceOK
    <2>4. begun = executed + 1
      BY <2>2, <2>3 DEF CountOK, CountsEveryStart
    <2>5. QED
      BY <2>2, <2>3, <2>4 DEF CountOK, CountsEveryStart, CountExecutions
  <1>2. CASE FallBack
    <2>1. /\ pc = "block" /\ cur' = [cur EXCEPT !.optimized = FALSE]
          /\ UNCHANGED <<heap, pc, executed, begun, outcome>>
      BY <1>2 DEF FallBack, InBlock, cacheVars, countVars
    <2>2. cur \in ContextType
      BY <2>1, Running
    <2>3. /\ cur'.left = cur.left /\ cur'.limit = cur.limit /\ cur'.at = cur.at
          /\ cur'.optimized = FALSE /\ Source' = Source
      BY <2>1, <2>2 DEF ContextType, Source
    <2>4. QED
      BY <2>1, <2>3 DEF CountOK, CountsEveryStart
  <1>3. CASE StepOp
    <2>1. /\ pc = "block" /\ pc' = "block" /\ cur.at <= Len(Source) /\ Source[cur.at] = "op"
          /\ cur' = [cur EXCEPT !.at = @ + 1]
          /\ UNCHANGED <<heap, executed, begun, outcome>>
      BY <1>3 DEF StepOp, AtInstruction, Executing, InBlock, cacheVars, countVars
    <2>2. cur \in ContextType
      BY <2>1, Running
    <2>3. QED
      BY <2>1, <2>2, StepCounts DEF ContextType, Terminators
  <1>4. CASE \E a \in Address : StepLoad8(a)
    <2>1. PICK a \in Address : StepLoad8(a)
      BY <1>4
    <2>2. CASE BlockFault
      BY <2>2, FaultCounts
    <2>3. CASE ~BlockFault
      <3>1. /\ pc = "block" /\ pc' = "block" /\ cur.at <= Len(Source)
            /\ Source[cur.at] = "load8"
            /\ \E span : cur' = [cur EXCEPT !.at = @ + 1, !.span = span]
            /\ UNCHANGED <<heap, executed, begun, outcome>>
        BY <2>1, <2>3 DEF StepLoad8, AtInstruction, Executing, InBlock, cacheVars, countVars
      <3>2. cur \in ContextType
        BY <3>1, Running
      <3>3. QED
        BY <3>1, <3>2, StepCounts DEF ContextType, Terminators
    <2>4. QED
      BY <2>2, <2>3
  <1>5. CASE \E a \in Address, v \in Cell : StepStore(a, v)
    <2>1. PICK a \in Address, v \in Cell : StepStore(a, v)
      BY <1>5
    <2>2. CASE BlockFault
      BY <2>2, FaultCounts
    <2>3. CASE ~BlockFault
      <3>1. /\ pc = "block" /\ pc' = "block" /\ cur.at <= Len(Source)
            /\ Source[cur.at] = "store"
            /\ \E stop : cur' = [cur EXCEPT !.at = @ + 1, !.stop = stop]
            /\ UNCHANGED <<heap, executed, begun, outcome>>
        BY <2>1, <2>3 DEF StepStore, AtInstruction, Executing, InBlock, cacheVars, countVars
      <3>2. cur \in ContextType
        BY <3>1, Running
      <3>3. QED
        BY <3>1, <3>2, StepCounts DEF ContextType, Terminators
    <2>4. QED
      BY <2>2, <2>3
  <1>6. CASE \E a \in Address, v \in Cell : StepStore8(a, v)
    <2>1. PICK a \in Address, v \in Cell : StepStore8(a, v)
      BY <1>6
    <2>2. CASE BlockFault
      BY <2>2, FaultCounts
    <2>3. CASE ~BlockFault
      <3>1. /\ pc = "block" /\ pc' = "block" /\ cur.at <= Len(Source)
            /\ Source[cur.at] = "store8"
            /\ UNCHANGED <<heap, executed, begun, outcome>>
        BY <2>1, <2>3 DEF StepStore8, AtInstruction, Executing, InBlock, cacheVars, countVars
      <3> DEFINE tries == hasInternalSelfEdge(Source) /\ ~cur.attempted
                 window == cur.direct \/ (tries /\ a \in Data)
      <3>2. PICK span \in SpansAfterStore(a, window) :
               cur' = [cur EXCEPT !.at = @ + 1, !.attempted = @ \/ tries,
                         !.direct = window, !.stop = @ \/ a \in Code, !.span = span]
        BY <2>1, <2>3 DEF StepStore8
      <3> HIDE DEF tries, window
      <3>3. cur \in ContextType
        BY <3>1, Running
      <3>4. QED
        BY <3>1, <3>2, <3>3, StepCounts DEF ContextType, Terminators
    <2>4. QED
      BY <2>2, <2>3
  <1>7. CASE EndAtLimit
    <2>1. /\ pc = "block" /\ cur.at > Len(Source) /\ CountExecutions(1)
          /\ pc' = "fetch" /\ UNCHANGED <<begun, outcome>>
      BY <1>7 DEF EndAtLimit, Executing, InBlock, Continue, Dispatch
    <2>2. QED
      BY <2>1, OnceCounts DEF CountOK
  <1>8. CASE EndLoop
    <2>1. pc = "block" /\ cur.at <= Len(Source) /\ Source[cur.at] = "loop" /\ ~cur.optimized
      BY <1>8 DEF EndLoop, AtInstruction, Executing, InBlock
    <2>2. cur \in ContextType /\ cur.limit \in Nat /\ cur.left \in 1 .. cur.limit
          /\ executed \in Nat /\ Source \in Seq(Instruction)
      BY <2>1, Running DEF IInv, TraceOK
    <2>3. hasInternalSelfEdge(Source)
      BY <2>1, TerminatorIsLast DEF hasInternalSelfEdge, Terminators
    <2>4. CASE Repeat(cur.left - 1)
      <3>1. PICK k \in 1 .. Len(Source) :
               cur' = [cur EXCEPT !.left = cur.left - 1, !.from = k, !.at = k]
        BY <2>4 DEF Repeat
      <3>2. /\ cur'.left = cur.left - 1 /\ cur'.limit = cur.limit /\ cur'.at = k
            /\ cur'.optimized = cur.optimized /\ cur'.block = cur.block
        BY <3>1, <2>2 DEF ContextType
      <3>3. /\ pc' = "block" /\ begun' = begun + 1
            /\ UNCHANGED <<heap, executed, outcome>>
        BY <2>1, <2>4 DEF Repeat, cacheVars, countVars
      <3>4. Source' = Source /\ ~(k > Len(Source))
        BY <3>2, <3>3, <2>2 DEF Source
      <3>5. begun' = executed' + (cur'.limit - cur'.left) + 1
        BY <2>1, <2>2, <3>2, <3>3 DEF CountOK, CountsEveryStart
      <3>6. QED
        BY <2>1, <2>3, <3>2, <3>3, <3>4, <3>5 DEF CountOK, CountsEveryStart
    <2>5. CASE ~Repeat(cur.left - 1)
      <3> DEFINE n == cur.limit - (cur.left - 1)
      <3>1. n \in Nat /\ n = cur.limit - cur.left + 1
        BY <2>2
      <3>2. Continue(n, NextRip) \/ Continue(n, cur.address)
        BY <1>8, <2>5 DEF EndLoop
      <3>3. UNCHANGED begun
        BY <1>8, <2>5 DEF EndLoop
      <3>4. CountExecutions(n) /\ pc' = "fetch" /\ outcome' = outcome
        BY <3>2 DEF Continue, Dispatch
      <3> HIDE DEF n
      <3>5. QED
        BY <2>1, <3>1, <3>3, <3>4, BatchCounts
    <2>6. QED
      BY <2>4, <2>5
  <1>9. CASE \E t \in Code : EndJump(t)
    BY <1>9, EndCounts DEF EndJump, Continue, Dispatch, Terminators
  <1>10. CASE \E t \in Code : EndReturn(t)
    BY <1>10, EndCounts DEF EndReturn, Leave, Dispatch, Terminators
  <1>11. CASE \E t \in Code, v \in Cell : EndCall(t, v)
    BY <1>11, EndCounts DEF EndCall, Leave, Dispatch, Terminators
  <1>12. CASE \E a \in Code, v \in Cell \cup {Unmapped} : EndSyscall(a, v)
    BY <1>12, EndCounts DEF EndSyscall, Leave, Dispatch, Terminators
  <1>13. QED
    BY <1>1, <1>2, <1>3, <1>4, <1>5, <1>6, <1>7, <1>8, <1>9, <1>10, <1>11, <1>12 DEF BlockNext

\* executedBlocks is the number of blocks that began, for every limit, warm-up
\* and program, whichever tier and entry ran them (run and executeRepeated).
THEOREM CountsEveryStartHolds == Spec => []CountsEveryStart
  <1>1. Init => CountOK
    BY DEF Init, CountOK, CountsEveryStart
  <1>2. ASSUME IInv, IInv', CountOK, FetchNext
        PROVE  CountOK'
    <2>1. CASE FetchFault \/ LimitReached
      BY <1>2, <2>1 DEF FetchFault, LimitReached, Missed, Fetching, Leave, countVars, CountOK,
         CountsEveryStart
    <2>2. CASE ~(FetchFault \/ LimitReached)
      <3>1. pc = "fetch"
        BY <1>2, <2>2 DEF FetchNext, UseDispatchEntry, UseCurrentBlock, ReuseBlock,
           InsertCached, ReplaceBlock, MustReplace, InsertTranslated, Missed, Fetching
      <3>2. \E objects, b : EnterBlock(objects, b)
        BY <1>2, <2>2 DEF FetchNext, UseDispatchEntry, UseCurrentBlock, ReuseBlock,
           InsertCached, ReplaceBlock, InsertTranslated
      <3>3. QED
        BY <1>2, <3>1, <3>2, EnterCounts
    <2>3. QED
      BY <2>1, <2>2
  <1>3. ASSUME IInv, CountOK, EnvironmentNext
        PROVE  CountOK'
    <2>1. CASE \E r \in Entries, s \in Stacks : Run(r, s)
      BY <2>1 DEF Run, CountOK, CountsEveryStart
    <2>2. CASE flushPersistent
      BY <1>3, <2>2 DEF flushPersistent, countVars, CountOK, CountsEveryStart
    <2>3. CASE \E program \in Programs, limit \in Maxima : NextProcess(program, limit)
      BY <2>3 DEF NextProcess, CountOK, CountsEveryStart
    <2>4. QED
      BY <1>3, <2>1, <2>2, <2>3 DEF EnvironmentNext
  <1>4. ASSUME CountOK, UNCHANGED vars
        PROVE  CountOK'
    BY <1>4 DEF vars, cacheVars, countVars, CountOK, CountsEveryStart, Source
  <1>5. IInv /\ IInv' /\ CountOK /\ [Next]_vars => CountOK'
    BY <1>2, <1>3, <1>4, BlockCounts DEF Next
  <1>6. CountOK => CountsEveryStart
    BY DEF CountOK
  <1>7. QED
    BY <1>1, <1>5, <1>6, Inductive, PTL DEF Spec
=============================================================================
