------------------------------ MODULE IpcSpace ------------------------------
(***************************************************************************)
(* What the Mach port namespace promises a guest: a name is granted with   *)
(* its rights once, a receive right is kept for ever, the send references  *)
(* of a name that has some go up and down, and the rights of a name that   *)
(* has lost its last one are gone for good.  Only the task's own name may  *)
(* be granted again.  PortSpace implements it (IpcSpaceRefinement).        *)
(***************************************************************************)
EXTENDS Integers

CONSTANTS Name, Self, PortType, MaxUrefs

VARIABLES rights, issued

ivars == <<rights, issued>>

Nothing == [type |-> "None", receive |-> FALSE, send |-> 0]
Granted == [type : PortType, receive : BOOLEAN, send : 0 .. 1]

IInit == rights = [n \in Name |-> Nothing] /\ issued = {}

Grant(n) ==
    /\ rights[n] = Nothing
    /\ n \notin issued \/ n = Self
    /\ rights'[n] \in Granted
    /\ rights'[n].receive \/ rights'[n].send = 1
    /\ rights' = [rights EXCEPT ![n] = rights'[n]]
    /\ issued' = issued \cup {n}

\* The references that are left, or nothing when the last right is gone.
Recount(n) ==
    /\ rights[n].send # 0
    /\ rights'[n].send # rights[n].send
    /\ \E send \in 0 .. MaxUrefs :
          rights' = [rights EXCEPT ![n] =
                       IF send = 0 /\ ~rights[n].receive THEN Nothing
                       ELSE [rights[n] EXCEPT !.send = send]]
    /\ UNCHANGED issued

INext == \E n \in Name : Grant(n) \/ Recount(n)

ISpec == IInit /\ [][INext]_ivars
=============================================================================
