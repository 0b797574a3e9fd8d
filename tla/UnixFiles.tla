------------------------------ MODULE UnixFiles ------------------------------
(***************************************************************************)
(* What a guest may rely on about its descriptors: a descriptor names a    *)
(* description, several descriptors may name the same one, the position    *)
(* belongs to the description and close-on-exec to the descriptor.  A new  *)
(* descriptor is the lowest free one its maker asked for, and what a       *)
(* description holds of the host is given back with its last descriptor,   *)
(* not earlier and not later.                                              *)
(***************************************************************************)
EXTENDS Naturals

CONSTANTS Fds, Ids  \* Ids without 0, which is no description

VARIABLES table,    \* descriptor -> [file, cloexec], file 0 when closed
          cursor,   \* description -> position
          held      \* the descriptions that hold a host file
vars == <<table, cursor, held>>

Named(d) == \E fd \in Fds : table[fd].file = d
LowestFree(fd, minimum) ==
    /\ fd >= minimum /\ table[fd].file = 0
    /\ \A other \in Fds : other >= minimum /\ other < fd => table[other].file # 0

Init ==
    /\ table \in [Fds -> [file : Ids \union {0}, cloexec : {FALSE}]]
    /\ \A a, b \in Fds : table[a].file = table[b].file /\ table[a].file # 0 => a = b
    /\ cursor = [d \in Ids |-> 0]
    /\ held = {d \in Ids : Named(d)}

New(fd, d, cloexec, holds) ==
    /\ LowestFree(fd, 0)
    /\ ~Named(d)
    /\ table' = [table EXCEPT ![fd] = [file |-> d, cloexec |-> cloexec]]
    /\ cursor' = [cursor EXCEPT ![d] = 0]
    /\ held' = IF holds THEN held \union {d} ELSE held \ {d}

Duplicate(old, fd, minimum, cloexec) ==
    /\ table[old].file # 0
    /\ LowestFree(fd, minimum)
    /\ table' = [table EXCEPT ![fd] = [file |-> table[old].file, cloexec |-> cloexec]]
    /\ UNCHANGED <<cursor, held>>

Close(fd) ==
    /\ table[fd].file # 0
    /\ table' = [table EXCEPT ![fd] = [file |-> 0, cloexec |-> FALSE]]
    /\ IF \E other \in Fds \ {fd} : table[other].file = table[fd].file
       THEN UNCHANGED <<cursor, held>>
       ELSE /\ held' = held \ {table[fd].file}
            /\ cursor' = [cursor EXCEPT ![table[fd].file] = 0]

Move(fd) ==
    /\ table[fd].file # 0
    /\ cursor'[table[fd].file] \in Nat
    /\ cursor' = [cursor EXCEPT ![table[fd].file] = cursor'[table[fd].file]]
    /\ UNCHANGED <<table, held>>

Mark(fd, cloexec) ==
    /\ table[fd].file # 0
    /\ table' = [table EXCEPT ![fd].cloexec = cloexec]
    /\ UNCHANGED <<cursor, held>>

Next ==
    \E fd \in Fds :
        \/ \E d \in Ids, c, h \in BOOLEAN : New(fd, d, c, h)
        \/ \E old \in Fds, m \in Fds, c \in BOOLEAN : Duplicate(old, fd, m, c)
        \/ Close(fd)
        \/ Move(fd)
        \/ \E c \in BOOLEAN : Mark(fd, c)

Spec == Init /\ [][Next]_vars
=============================================================================
