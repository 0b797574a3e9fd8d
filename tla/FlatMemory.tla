----------------------------- MODULE FlatMemory -----------------------------
(***************************************************************************)
(* What guest::AddressSpace promises its callers, with no mappings, no     *)
(* lookup table, no host backing, no lazy pages and no loop over chunks:   *)
(* an array of cells, each mapped or not, and calls that take effect in    *)
(* one step.  AddressSpace implements it (FlatMemoryRefinement).           *)
(***************************************************************************)
EXTENDS Integers, Sequences

CONSTANTS PageSize, Limit, Value

VARIABLES
    cells,    \* address -> what a program at that address can see
    version,  \* executableVersion(), as its callers may rely on it
    request,  \* the access a caller is waiting for
    result    \* what the last call returned

fvars == <<cells, version, request, result>>

Addresses == 0 .. Limit
Unmapped == [mapped |-> FALSE]
Range(from, to) == {a \in Addresses : from <= a /\ a < to}
IsMapped(a) == cells[a].mapped
Allows(a, required) == IsMapped(a) /\ required \subseteq cells[a].permissions
Page(a) == a \div PageSize

\* What instruction fetch sees: permission and contents of the executable cells.
Code(c) == [a \in {x \in DOMAIN c : c[x].mapped /\ "X" \in c[x].permissions} |-> c[a].value]

NoRequest == [op |-> "none", address |-> 0, size |-> 0, required |-> {}, data |-> << >>]
Answer(status, data) == result' = [status |-> status, data |-> data] /\ request' = NoRequest

\* The version may grow at any change and has to when the code is not the same any more.
Versioned ==
    /\ version' >= version
    /\ Code(cells') # Code(cells) => version' > version

FInit ==
    /\ cells = [a \in Addresses |-> Unmapped]
    /\ version = 0
    /\ request = NoRequest
    /\ result = [status |-> "none", data |-> << >>]

\* The cells of `range', and no others, change as `f' says.
ChangeCells(range, f) == cells' = [a \in Addresses |-> IF a \in range THEN f[a] ELSE cells[a]]

\* A call that fails changes nothing, and neither does one of size zero.
Refuse ==
    /\ request = NoRequest
    /\ \E status \in {"rejected", "success", "invalidArgument", "invalidAddress",
                      "protectionFailure"} : Answer(status, << >>)
    /\ UNCHANGED <<cells, version>>

\* Whole unmapped pages become mapped; nothing else changes.
Map ==
    /\ request = NoRequest
    /\ Answer("success", << >>)
    /\ LET range == {a \in Addresses : cells'[a] # cells[a]} IN
        /\ \A a \in range : ~IsMapped(a) /\ cells'[a].mapped
        /\ \A a \in range : cells'[a].permissions \subseteq cells'[a].maximum
        /\ \A a \in range, b \in Addresses : Page(a) = Page(b) => b \in range
    /\ Versioned

Pages == {Page(a) : a \in Addresses}
PagesOf(first, last) == {a \in Addresses : first <= Page(a) /\ Page(a) <= last}

\* Protect acts on every page it touches, or on none.
Protect ==
    /\ request = NoRequest
    /\ Answer("success", << >>)
    /\ \E first, last \in Pages :
        LET range == PagesOf(first, last)
            permissions == cells'[first * PageSize].permissions
        IN  /\ range # {}
            /\ \A a \in range : IsMapped(a) /\ cells'[a].mapped
            /\ \E copy \in BOOLEAN :
                /\ \A a \in range : copy \/ permissions \subseteq cells[a].maximum
                /\ ChangeCells(range, [a \in range |->
                     [cells[a] EXCEPT !.permissions = permissions,
                                      !.maximum = IF copy THEN permissions ELSE @]])
    /\ Versioned

Deallocate ==
    /\ request = NoRequest
    /\ Answer("success", << >>)
    /\ \E first, last \in Pages :
        ChangeCells(PagesOf(first, last), [a \in Addresses |-> Unmapped])
    /\ Versioned

Begin ==
    /\ request = NoRequest
    /\ request' # NoRequest
    /\ result' = [status |-> "none", data |-> << >>]
    /\ UNCHANGED <<cells, version>>

Asked == Range(request.address, request.address + request.size)
Permitted ==
    /\ request.address + request.size <= Limit + 1
    /\ \A a \in Asked : Allows(a, request.required)

\* A read returns what the cells hold, all of it or a fault.
Read ==
    /\ request.op = "read"
    /\ \/ /\ Permitted
          /\ \A a \in Asked : cells[a].readable
          /\ Answer("success", [i \in 1 .. request.size |->
                                  cells[request.address + i - 1].value])
       \/ /\ ~Permitted \/ \E a \in Asked : IsMapped(a) /\ ~cells[a].readable
          /\ Answer("fault", << >>)
    /\ UNCHANGED <<cells, version>>

Validate ==
    /\ request.op = "validate"
    /\ Answer(IF Permitted THEN "success" ELSE "fault", << >>)
    /\ UNCHANGED <<cells, version>>

\* A write stores its whole payload or faults and stores nothing.
Write ==
    /\ request.op = "write"
    /\ \/ /\ Permitted
          /\ ChangeCells(Asked, [a \in Asked |->
                [cells[a] EXCEPT !.value = request.data[a - request.address + 1]]])
          /\ Versioned
          /\ Answer("success", << >>)
       \/ /\ ~Permitted
          /\ Answer("fault", << >>)
          /\ UNCHANGED <<cells, version>>

\* A fetch returns a run of executable cells that starts where it was asked.
Fetch ==
    /\ request.op = "fetch"
    /\ \/ /\ Permitted
          /\ \E to \in Addresses :
                /\ to > request.address
                /\ \A a \in Range(request.address, to) : Allows(a, {"X"})
                /\ Answer("success", [i \in 1 .. to - request.address |->
                                        cells[request.address + i - 1].value])
       \/ ~Permitted /\ Answer("fault", << >>)
    /\ UNCHANGED <<cells, version>>

\* A mapping without storage that became accessible: any access to it may end the process.
Abort ==
    /\ \E a \in Addresses : IsMapped(a) /\ ~cells[a].backed /\ cells[a].permissions # {}
    /\ result' = [status |-> "crash", data |-> << >>]
    /\ request' = [NoRequest EXCEPT !.op = "crashed"]

FNext ==
    \/ Refuse \/ Map \/ Protect \/ Deallocate
    \/ Begin \/ Read \/ Validate \/ Write \/ Fetch \/ Abort

FSpec == FInit /\ [][FNext]_fvars
=============================================================================
