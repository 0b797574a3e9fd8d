----------------------------- MODULE MCGuestVm ------------------------------
(* A finite instance of GuestVm for TLC.                                   *)
EXTENDS GuestVm

\* No mapping of these runs has a lazy transform.
MCSlid(v) == v

\* A region of two chunks; two regions, the first with fixups; code; a chain that leaves its page.
MCRegion(address, size, permissions, chain) ==
    [address |-> address, size |-> size, permissions |-> permissions, chain |-> chain]
MCRegionLists ==
    {<< >>,
     <<MCRegion(2, 4, {"R"}, <<1>>)>>,
     <<MCRegion(2, 2, {"R"}, <<0, 1>>), MCRegion(6, 2, {"R", "W"}, << >>)>>,
     <<MCRegion(2, 2, {"R"}, <<0>>), MCRegion(2, 2, {"R", "W"}, << >>)>>,
     <<MCRegion(2, 2, {"R", "X"}, << >>)>>,
     <<MCRegion(6, 2, {"R"}, <<0, 2>>)>>}
=============================================================================
