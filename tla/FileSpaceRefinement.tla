------------------------- MODULE FileSpaceRefinement -------------------------
(***************************************************************************)
(* What the guest sees of FileSpace is UnixFiles: the position of a        *)
(* directory is its resume index, that of anything else on the host is     *)
(* the host descriptor's.                                                  *)
(***************************************************************************)
EXTENDS FileSpace

Position(d) ==
    IF files[d].host = 0 THEN 0
    ELSE IF hosts[files[d].host].object \in Directories THEN files[d].index
    ELSE hosts[files[d].host].pos

Unix == INSTANCE UnixFiles WITH
            table <- descriptors,
            cursor <- [d \in Ids |-> Position(d)],
            held <- {d \in Ids : files[d].host # 0}

(***************************************************************************)
(* Every call is a step of a UNIX descriptor table or changes nothing a    *)
(* guest can see: duplicates share the position (Files.cpp:162), close and *)
(* dup touch one descriptor, new descriptors are the lowest free ones, and *)
(* a host file is held exactly as long as a descriptor names it.           *)
(***************************************************************************)
UnixFilesRefinement == Unix!Spec

TypeOK ==
    /\ descriptors \in [Fds -> [file : Ids \union {0}, cloexec : BOOLEAN]]
    /\ files \in [Ids -> [kind : Kinds, index : Nat, host : HostFds \union {0}]]
    /\ hosts \in [HostFds -> [object : Objects, pos : Nat, raced : BOOLEAN]]
    /\ access \in {"Controlled", "HostReadOnly"}
    /\ opening \in [path : Paths \union {"none"}, flags : SUBSET hostedReadOnlyFlags, tree : Trees]

(***************************************************************************)
(* The host descriptors Rosa has open are the ones its live descriptions   *)
(* own, each owned once, and a description lives exactly while a           *)
(* descriptor names it: nothing leaks when a table that is full, or a      *)
(* failing call, gives up half way, and nothing is closed under a          *)
(* duplicate.                                                              *)
(***************************************************************************)
HostOwned ==
    /\ \A d \in Ids : (files[d].kind # "none") <=> (\E fd \in Fds : descriptors[fd].file = d)
    /\ \A h \in HostFds : (hosts[h].object # "none") <=> (\E d \in Ids : files[d].host = h)
    /\ \A a, b \in Ids : files[a].host = files[b].host /\ files[a].host # 0 => a = b

(***************************************************************************)
(* What a controlled guest holds of the host lies in its working directory *)
(* unless another process of the host changed the tree between the         *)
(* resolution of the path that led there and its open (SyscallFiles.cpp:   *)
(* 438 and 451: the policy is applied to a path, the open follows it       *)
(* again).  A link that stood there before, or that the guest asked not to *)
(* follow (436), does not do it.                                           *)
(***************************************************************************)
WithinPolicy ==
    access = "Controlled" =>
        \A h \in HostFds : hosts[h].object \in {"outside", "root"} => hosts[h].raced

(***************************************************************************)
(* A call that does not succeed leaves the descriptors alone and consumes  *)
(* no byte of a file or stream: the buffer is validated before the host    *)
(* reads (SyscallFiles.cpp:1240).  Directory positions are not included:   *)
(* they move before the last copy to the guest.                            *)
(***************************************************************************)
FailureConsumesNothing ==
    [][result' # "ok" =>
          /\ descriptors' = descriptors
          /\ \A d \in Ids : files[d].kind # "none" /\ files[d].host # 0 =>
                /\ files'[d].host = files[d].host
                /\ hosts[files[d].host].object \notin Directories =>
                      hosts'[files[d].host] = hosts[files[d].host]]_vars
=============================================================================
