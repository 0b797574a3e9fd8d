------------------------- MODULE PortSpaceRefinement -------------------------
(***************************************************************************)
(* PortSpace implements IpcSpace.  The rights of a name are those of its   *)
(* port; a port that mod_refs left without any right counts as none.       *)
(***************************************************************************)
EXTENDS PortSpace

RightsOf(p) ==
    IF p # NoPort /\ (p.receive \/ p.send # 0)
    THEN [type |-> p.type, receive |-> p.receive, send |-> p.send]
    ELSE [type |-> "None", receive |-> FALSE, send |-> 0]

Ipc == INSTANCE IpcSpace WITH
    Self <- taskSelfName,
    rights <- [n \in Name |-> RightsOf(portSpace.ports[n])]

\* Every trap changes the rights of at most one name, and only in the ways an
\* IPC space allows: whatever copyout, deallocation and mod_refs do to a port,
\* a name without rights never gets one back and a receive right never goes.
IpcSpaceRefinement == Ipc!ISpec
=============================================================================
