------------------------------ MODULE VmCalls -------------------------------
(***************************************************************************)
(* What the memory calls of the Darwin boundary promise the guest that     *)
(* makes them: each takes effect in one step, an error changes nothing,    *)
(* and a call that chooses an address chooses the lowest one that fits.    *)
(* The two calls the source lets end half done have an action of their     *)
(* own: mach_vm_map whose address cannot be copied out, and                *)
(* map_with_linking_np whose host file ends early or which meets a cell of *)
(* a chain it cannot read.                                                 *)
(* GuestVm implements it (VmCallsRefinement).                              *)
(***************************************************************************)
EXTENDS Integers, Sequences

CONSTANTS PageSize, Limit, Zero, FileByte, Linked, MinimumMap, MaximumUserMapEnd,
          RegionLists, SharedRegion

VARIABLES
    cells,    \* address -> what the guest can see there
    request,  \* the placement asked for by the call that is running
    returned  \* what the last call returned

avars == <<cells, request, returned>>

Addresses == 0 .. Limit
Extent(from, size) == {a \in Addresses : from <= a /\ a < from + size}
Page(a) == a \div PageSize
IsFree(range) == \A a \in range : ~cells[a].mapped
Allows(a, required) == cells[a].mapped /\ required \subseteq cells[a].permissions
Fresh(p, mx, value, backed) ==
    [mapped |-> TRUE, permissions |-> p, maximum |-> mx, backed |-> backed,
     value |-> value, readable |-> TRUE]
Stored(c, pointer, value) == [c EXCEPT ![pointer].value = value]
Running == returned \notin {"loading", "stopped"}

AInit == returned = "loading" /\ cells = [a \in Addresses |-> [mapped |-> FALSE]]

\* The loader builds the first map; no guest instruction runs before it is done.
Load == returned = "loading" /\ returned' \in {"loading", "none"}

\* Calls are made one after the other, and a caller may ask for anything.
Ask == UNCHANGED <<cells, returned>>

\* An unsupported call or a host failure ends the emulation.
Stop == returned # "stopped" /\ returned' = "stopped" /\ UNCHANGED cells

\* The lowest aligned address at or above `from' with room for size cells.  The end of the user
\* range bounds the search only above the highest mapping.
Fits(c, from, size, mask) ==
    /\ c >= from
    /\ c % (mask + 1) = 0
    /\ IsFree(Extent(c, size))
    /\ \/ c + size <= MaximumUserMapEnd
       \/ \E a \in Addresses : a >= c + size /\ cells[a].mapped
IsLowestFit(c, from, size, mask) ==
    /\ Fits(c, from, size, mask)
    /\ \A d \in Addresses : d < c => ~Fits(d, from, size, mask)

\* Where the search for the request begins: at the hint its pointer holds, if it has one.
Start == IF request.op = "mmap" \/ cells[request.pointer].value < MinimumMap
         THEN MinimumMap ELSE cells[request.pointer].value
Anywhere == request.op \in {"allocate", "map", "mmap"} /\ ~request.fixed

\* An error, or a call that only answers, leaves all of memory alone; there is no space only
\* when nothing fits.
Answer ==
    /\ Running
    /\ returned' \notin {"loading", "stopped"}
    /\ Anywhere /\ returned' \in {"noSpace", "ENOMEM"} =>
         \A c \in Addresses : ~Fits(c, Start, request.size, request.mask)
    /\ UNCHANGED cells

\* Pages that were not mapped, and now are: all alike, and nothing else changed but the cell the
\* caller asked the address to be stored in.
New == {a \in Addresses : ~cells[a].mapped /\ cells'[a].mapped}
Base == CHOOSE a \in New : \A b \in New : a <= b
Mapped(c, cell) == [a \in Addresses |-> IF a \in New THEN cell ELSE c[a]]

\* mach_vm_allocate and mach_vm_map: zero-filled pages of the size asked for, at the lowest fit
\* above the hint or at the page of the hint; the address is copied out.  When trap 15 cannot
\* copy it out, the call fails and the mapping stays.
Place ==
    LET pointer == request.pointer
        hint == cells[pointer].value
        placed == Mapped(cells, Fresh(request.permissions, {"R", "W", "X"}, Zero, TRUE))
    IN  /\ Running
        /\ request.op \in {"allocate", "map"}
        /\ New # {}
        /\ New = Extent(Base, request.size)
        /\ Allows(pointer, {"R"})
        /\ IF request.fixed THEN Base = hint - (hint % PageSize)
                            ELSE IsLowestFit(Base, Start, request.size, request.mask)
        /\ \/ /\ returned' = "success"
              /\ cells' = Stored(placed, pointer, Base)
           \/ /\ request.op = "map"
              /\ returned' = "invalidAddress"
              /\ ~Allows(pointer, {"W"})
              /\ cells' = placed

\* mmap of a file at the lowest fit.
PlaceFile ==
    /\ Running
    /\ request.op = "mmap"
    /\ returned' = "success"
    /\ New # {}
    /\ New = Extent(Base, request.size)
    /\ IsLowestFit(Base, Start, request.size, request.mask)
    /\ cells' = Mapped(cells, Fresh(request.permissions, {"R", "W"}, FileByte, TRUE))

\* The mach_vm_map message: a reservation nothing may access, or a reply that says no.
Reserve ==
    LET range == Extent(request.address, request.size) IN
    /\ Running
    /\ request.op = "reserve"
    /\ Allows(request.pointer, {"W"})
    /\ returned' = IF IsFree(range) THEN "success" ELSE "noSpace"
    /\ New = IF IsFree(range) THEN range ELSE {}
    /\ cells' = Stored(Mapped(cells, Fresh({}, {}, Zero, FALSE)), request.pointer,
                       request.address)

\* shared_region_check_np, and any store of the guest itself.
Store ==
    /\ Running
    /\ returned' \in {"success", "stored"}
    /\ \E pointer, value \in Addresses :
        /\ Allows(pointer, {"W"})
        /\ returned' = "success" => value = SharedRegion
        /\ cells' = Stored(cells, pointer, value)

Pages == {Page(a) : a \in Addresses}
PagesFrom(first, last) == {a \in Addresses : first <= Page(a) /\ Page(a) <= last}

\* protect acts on whole pages, on all of them or on none, within the maximum unless it copies.
Protect ==
    /\ Running
    /\ returned' = "success"
    /\ \E first, last \in Pages, copy \in BOOLEAN :
        LET range == PagesFrom(first, last)
            p == cells'[first * PageSize].permissions
        IN  /\ range # {}
            /\ \A a \in range :
                  cells[a].mapped /\ cells'[a].mapped /\ (copy \/ p \subseteq cells[a].maximum)
            /\ cells' = [a \in Addresses |-> IF a \in range
                            THEN [cells[a] EXCEPT !.permissions = p,
                                                  !.maximum = IF copy THEN p ELSE @]
                            ELSE cells[a]]

Deallocate ==
    /\ Running
    /\ returned' = "success"
    /\ \E first, last \in Pages :
          cells' = [a \in Addresses |-> IF a \in PagesFrom(first, last) THEN [mapped |-> FALSE]
                                                                       ELSE cells[a]]

\* A region of map_with_linking_np: finished with its own protection, or left open with what
\* was copied so far.
RegionCells(r) == Extent(r.address, r.size)
Rewritten(a, p, values) ==
    /\ cells'[a].mapped
    /\ cells'[a].value \in values
    /\ cells'[a] = [cells[a] EXCEPT !.permissions = p, !.value = cells'[a].value]

\* The regions before the k-th are finished, a cell of several of them by the last one, and the
\* ones after it untouched.  The k-th is left open only when the host file ends early or a cell
\* of its chain cannot be read: no other error comes after the region was opened.
Link ==
    /\ Running
    /\ returned' \in {"success", "EINVAL", "EACCES", "EIO", "EFAULT"}
    /\ \E regions \in RegionLists : \E k \in 1 .. Len(regions) + 1 :
        LET Done(i) == UNION {RegionCells(regions[j]) : j \in i .. k - 1}
            open == IF k <= Len(regions) /\ returned' \in {"EIO", "EFAULT"}
                    THEN RegionCells(regions[k]) ELSE {}
        IN  /\ returned' = "success" <=> k = Len(regions) + 1
            /\ returned' = "EFAULT" => \E a \in open : ~cells[a].readable
            /\ \A a \in Done(1) \cup open :
                  Allows(a, {"R"}) /\ {"R", "W"} \subseteq cells[a].maximum
            /\ \A i \in 1 .. k - 1 : \A a \in RegionCells(regions[i]) \ (Done(i + 1) \cup open) :
                  Rewritten(a, regions[i].permissions, {FileByte, Linked})
            /\ \A a \in open :
                  Rewritten(a, {"R", "W"}, {FileByte, Linked, cells[a].value})
            /\ \A a \in Addresses \ (Done(1) \cup open) : cells'[a] = cells[a]
            /\ DOMAIN cells' = Addresses

ANext ==
    \/ Load \/ Ask \/ Answer \/ Stop \/ Place \/ PlaceFile \/ Reserve \/ Store
    \/ Protect \/ Deallocate \/ Link

ASpec == AInit /\ [][ANext]_avars
=============================================================================
