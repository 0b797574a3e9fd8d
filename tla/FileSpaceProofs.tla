-------------------------- MODULE FileSpaceProofs --------------------------
(***************************************************************************)
(* Proofs about FileSpace for every number of descriptors, every set of    *)
(* requests and every host.  A call is one of seven steps on the table     *)
(* (or none); each theorem is proved step by step.                         *)
(***************************************************************************)
EXTENDS FileSpaceRefinement, TLAPS

(***************************************************************************)
(* HostOwned is inductive once a description that is gone is known to own  *)
(* nothing.                                                                *)
(***************************************************************************)
GoneIsEmpty == \A d \in Ids : files[d].kind = "none" => files[d] = NoFile
Owned == TypeOK /\ HostOwned /\ GoneIsEmpty

(***************************************************************************)
(* The path of a pending open lies in the working directory and, in the    *)
(* tree it was resolved in, leads to something there.                      *)
(***************************************************************************)
ResolvedWithin ==
    access = "Controlled" /\ opening # NotOpening =>
        HostOpened(opening.tree, opening.path, opening.flags) \notin {"outside", "root"}
OpeningOK ==
    /\ opening \in [path : Paths \union {"none"}, flags : SUBSET hostedReadOnlyFlags, tree : Trees]
    /\ ResolvedWithin

Permitted(object, raced) == access = "Controlled" /\ object \in {"outside", "root"} => raced

Stutters == UNCHANGED <<descriptors, files, hosts, access>>

Adds(fd, d, kind, h, object, raced, c) ==
    /\ IsLowestFree(fd, 0)
    /\ files[d].kind = "none"
    /\ h # 0 => h \in HostFds /\ hosts[h].object = "none" /\ object \in Objects \ {"none"} /\ Permitted(object, raced)
    /\ descriptors' = [descriptors EXCEPT ![fd] = [file |-> d, cloexec |-> c]]
    /\ files' = [files EXCEPT ![d] = [kind |-> kind, index |-> 0, host |-> h]]
    /\ hosts' = IF h = 0 THEN hosts ELSE [hosts EXCEPT ![h] = [object |-> object, pos |-> 0, raced |-> raced]]
    /\ access' = access /\ result' = "ok"

Shares(old, fd, m, c) ==
    /\ IsOpen(old)
    /\ IsLowestFree(fd, m)
    /\ descriptors' = [descriptors EXCEPT ![fd] = [file |-> descriptors[old].file, cloexec |-> c]]
    /\ UNCHANGED <<files, hosts, access>> /\ result' = "ok"

Drops(fd) == IsOpen(fd) /\ close(fd)

Marks(fd, c) ==
    /\ IsOpen(fd)
    /\ descriptors' = [descriptors EXCEPT ![fd].cloexec = c]
    /\ UNCHANGED <<files, hosts, access>> /\ result' = "ok"

MovesHost(fd, p) ==
    /\ IsOpen(fd) /\ hostBacked(lookup(fd))
    /\ MoveHost(fd, p)
    /\ result' # "ok" => isHostDirectory(fd)

MovesIndex(fd, p) == IsOpen(fd) /\ isHostDirectory(fd) /\ MoveIndex(fd, p)

Step ==
    \/ Stutters
    \/ \E fd \in Fds, d \in Ids, kind \in Kinds \ {"none"}, h \in HostFds \union {0}, o \in Objects, r, c \in BOOLEAN :
          Adds(fd, d, kind, h, o, r, c)
    \/ \E old \in Fds, fd \in Fds, m \in Fds, c \in BOOLEAN : Shares(old, fd, m, c)
    \/ \E fd \in Fds : Drops(fd)
    \/ \E fd \in Fds, c \in BOOLEAN : Marks(fd, c)
    \/ \E fd \in Fds, p \in Nat : MovesHost(fd, p)
    \/ \E fd \in Fds, p \in Nat : MovesIndex(fd, p)

-----------------------------------------------------------------------------
(* Every call is one of these steps *)

LEMMA FailStutters ==
    ASSUME TypeOK, NEW r, Fail(r)
    PROVE  Stutters
BY DEF Fail, CallEnds, table, Stutters

LEMMA InstallAdds ==
    ASSUME TypeOK, NEW kind \in Kinds \ {"none"}, NEW h \in HostFds \union {0}, NEW o \in Objects,
           NEW r \in BOOLEAN, NEW c \in BOOLEAN, install(kind, h, o, r, c),
           h # 0 => hosts[h].object = "none" /\ o # "none" /\ Permitted(o, r)
    PROVE  Step
<1>1. CASE lowestFreeDescriptor(0) = {}
  BY <1>1, FailStutters DEF install, Step
<1>2. CASE lowestFreeDescriptor(0) # {}
  <2>1. PICK fd \in lowestFreeDescriptor(0), d \in NextDescription :
            /\ descriptors' = [descriptors EXCEPT ![fd] = [file |-> d, cloexec |-> c]]
            /\ files' = [files EXCEPT ![d] = [kind |-> kind, index |-> 0, host |-> h]]
            /\ hosts' = IF h = 0 THEN hosts
                        ELSE [hosts EXCEPT ![h] = [object |-> o, pos |-> 0, raced |-> r]]
            /\ result' = "ok"
            /\ UNCHANGED access
    BY <1>2 DEF install, CallEnds
  <2>2. fd \in Fds /\ IsLowestFree(fd, 0)
    BY DEF lowestFreeDescriptor
  <2>3. d \in Ids /\ files[d].kind = "none"
    BY DEF NextDescription
  <2>4. Adds(fd, d, kind, h, o, r, c)
    BY <2>1, <2>2, <2>3 DEF Adds
  <2> QED BY <2>2, <2>3, <2>4 DEF Step
<1> QED BY <1>1, <1>2

LEMMA DuplicateShares ==
    ASSUME TypeOK, NEW fd \in Fds, IsOpen(fd), NEW m \in Nat, NEW c \in BOOLEAN, duplicate(fd, m, c)
    PROVE  Step
<1>1. CASE lowestFreeDescriptor(m) = {}
  BY <1>1, FailStutters DEF duplicate, Step
<1>2. CASE lowestFreeDescriptor(m) # {}
  <2>1. PICK new \in lowestFreeDescriptor(m) :
            /\ descriptors' = [descriptors EXCEPT ![new] = [file |-> descriptors[fd].file, cloexec |-> c]]
            /\ result' = "ok"
            /\ UNCHANGED <<files, hosts, access>>
    BY <1>2 DEF duplicate, CallEnds
  <2>2. new \in Fds /\ IsLowestFree(new, m)
    BY DEF lowestFreeDescriptor
  <2>3. m \in Fds
    BY <2>2, FileSpaceAssumption DEF IsLowestFree, Fds
  <2>4. Shares(fd, new, m, c)
    BY <2>1, <2>2 DEF Shares
  <2> QED BY <2>2, <2>3, <2>4 DEF Step
<1> QED BY <1>1, <1>2

LEMMA OpenIsStep ==
    ASSUME TypeOK, NEW path, NEW flags, NEW mode, handleOpen(path, flags, mode)
    PROVE  Step
<1>1. ASSUME NEW r, Fail(r) PROVE Step
  BY <1>1, FailStutters DEF Step
<1>2. ASSUME NEW kind \in Kinds \ {"none"}, install(kind, 0, "none", FALSE, FALSE) PROVE Step
  <2>1. 0 \in HostFds \union {0} /\ "none" \in Objects /\ FALSE \in BOOLEAN
    BY DEF Objects
  <2> QED BY <1>2, <2>1, InstallAdds
<1>3. ASSUME ResolveHosted(path, flags) PROVE Step
  <2>1. CASE \E r : Fail(r)
    BY <2>1, <1>1
  <2>2. CASE ~ \E r : Fail(r)
    BY <1>3, <2>2 DEF ResolveHosted, table, Stutters, Step
  <2> QED BY <2>1, <2>2
<1>4. "RandomDevice" \in Kinds \ {"none"} /\ "RootDirectory" \in Kinds \ {"none"}
  BY DEF Kinds
<1> QED BY <1>1, <1>2, <1>3, <1>4 DEF handleOpen

\* What the host opens is what was permitted, or the tree has changed.
LEMMA OpenHostedIsStep ==
    ASSUME TypeOK, ResolvedWithin, opening # NotOpening, OpenHosted
    PROVE  Step
<1>1. CASE \E r : Fail(r)
  BY <1>1, FailStutters DEF Step
<1>2. CASE ~ \E r : Fail(r)
  <2> DEFINE opened(t) == HostOpened(t, opening.path, opening.flags)
             kind == IF opening.path = "cwd" THEN "CurrentDirectory" ELSE "HostReadOnlyFile"
  <2>1. PICK tree \in Trees, h \in NextHost :
            /\ opened(tree) # "none"
            /\ openHostFile(opening.path, h, opened(tree), tree # opening.tree, "cloexec" \in opening.flags)
    BY <1>2 DEF OpenHosted
  <2>2. h \in HostFds /\ hosts[h].object = "none" /\ h # 0
    BY FileSpaceAssumption DEF NextHost, HostFds
  <2>3. opened(tree) \in Objects
    BY <2>1 DEF HostOpened, Objects, Paths, Trees, TypeOK
  <2>4. Permitted(opened(tree), tree # opening.tree)
    BY DEF Permitted, ResolvedWithin
  <2>5. kind \in Kinds \ {"none"}
    BY DEF Kinds
  <2>6. install(kind, h, opened(tree), tree # opening.tree, "cloexec" \in opening.flags)
    BY <2>1 DEF openHostFile
  <2>7. (tree # opening.tree) \in BOOLEAN /\ ("cloexec" \in opening.flags) \in BOOLEAN
    OBVIOUS
  <2>8. opened(tree) # "none"
    BY <2>1
  <2> HIDE DEF opened, kind
  <2> QED BY <2>2, <2>3, <2>4, <2>5, <2>6, <2>7, <2>8, InstallAdds
<1> QED BY <1>1, <1>2

LEMMA OpenatIsStep ==
    ASSUME TypeOK, NEW fd \in Fds, NEW cryptex \in BOOLEAN, handleOpenat(fd, cryptex)
    PROVE  Step
<1>1. CASE \E r : Fail(r)
  BY <1>1, FailStutters DEF Step
<1>2. CASE install("SyntheticDirectory", 0, "none", FALSE, FALSE)
  <2>1. /\ "SyntheticDirectory" \in Kinds \ {"none"} /\ "none" \in Objects
        /\ 0 \in HostFds \union {0} /\ FALSE \in BOOLEAN
    BY DEF Kinds, Objects
  <2> QED BY <1>2, <2>1, InstallAdds
<1> QED BY <1>1, <1>2 DEF handleOpenat

LEMMA SocketIsStep ==
    ASSUME TypeOK, NEW known \in BOOLEAN, handleSocket(known)
    PROVE  Step
<1>1. CASE known
  <2>1. /\ "UnixDatagramSocket" \in Kinds \ {"none"} /\ "none" \in Objects
        /\ 0 \in HostFds \union {0} /\ FALSE \in BOOLEAN
    BY DEF Kinds, Objects
  <2> QED BY <1>1, <2>1, InstallAdds DEF handleSocket
<1>2. CASE ~known
  BY <1>2, FailStutters DEF handleSocket, Step
<1> QED BY <1>1, <1>2

LEMMA TableCallIsStep ==
    ASSUME TypeOK, NEW fd \in Fds,
           \/ handleDup(fd)
           \/ handleClose(fd)
           \/ \E minimum \in -1 .. MaxDescriptors, cloexec \in BOOLEAN : handleFcntl(fd, "dup", minimum, cloexec)
           \/ \E command \in {"set", "query"}, cloexec \in BOOLEAN : handleFcntl(fd, command, 0, cloexec)
    PROVE  Step
<1>1. CASE \E r : Fail(r)
  BY <1>1, FailStutters DEF Step
<1>2. CASE (~ \E r : Fail(r)) /\ handleDup(fd)
  BY <1>2, DuplicateShares DEF handleDup
<1>3. CASE (~ \E r : Fail(r)) /\ handleClose(fd)
  BY <1>3 DEF handleClose, Drops, Step
<1>4. ASSUME ~ \E r : Fail(r), NEW command \in {"dup", "set", "query"}, NEW minimum \in (-1 .. MaxDescriptors) \union {0},
             NEW cloexec \in BOOLEAN, handleFcntl(fd, command, minimum, cloexec)
      PROVE  Step
  <2>1. CASE command = "set"
    <3>1. Marks(fd, cloexec)
      BY <1>4, <2>1 DEF handleFcntl, setCloseOnExec, CallEnds, Marks
    <3> QED BY <3>1 DEF Step
  <2>2. CASE command # "set"
    <3>1. IsOpen(fd) /\ ~(minimum < 0) /\ duplicate(fd, minimum, cloexec)
      BY <1>4, <2>2 DEF handleFcntl
    <3>2. minimum \in Nat
      BY <3>1, FileSpaceAssumption
    <3> QED BY <3>1, <3>2, DuplicateShares
  <2> QED BY <2>1, <2>2
<1> QED BY <1>1, <1>2, <1>3, <1>4

\* Positions never become negative.
LEMMA PositionCallIsStep ==
    ASSUME TypeOK, NEW fd \in Fds,
           \/ \E count \in Sizes, faults \in BOOLEAN : handleRead(fd, count, faults)
           \/ \E offset \in Offsets, whence \in {"SET", "CUR", "END"} : handleLseek(fd, offset, whence)
           \/ \E room \in Sizes, f1, f2 \in BOOLEAN : handleGetdirentries64(fd, room, f1, f2)
           \/ \E room \in Sizes, f1, f2 \in BOOLEAN : handleGetattrlistbulk(fd, room, f1, f2)
    PROVE  Step
<1>1. CASE \E r : Fail(r)
  BY <1>1, FailStutters DEF Step
<1> SUFFICES ASSUME ~ \E r : Fail(r), IsOpen(fd) PROVE Step
  BY <1>1 DEF handleRead, handleLseek, handleGetdirentries64, handleGetattrlistbulk
<1>2. hostBacked(lookup(fd)) => HostOf(fd).pos \in Nat
  BY DEF TypeOK, hostBacked, lookup, HostOf, IsOpen
<1>3. lookup(fd).index \in Nat
  BY DEF TypeOK, lookup, IsOpen
<1>4. ASSUME NEW entries \in DirectorySizes, NEW start \in Nat, NEW room \in Sizes
      PROVE  ResumeIndex(entries, start, room) \in Nat
  BY FileSpaceAssumption DEF ResumeIndex, Least
<1>5. ASSUME NEW count \in Sizes, NEW faults \in BOOLEAN, handleRead(fd, count, faults) PROVE Step
  <2> DEFINE p == HostOf(fd).pos + Readable(HostOf(fd).pos, count)
  <2>1. hostBacked(lookup(fd)) /\ MoveHost(fd, p) /\ result' = "ok"
    BY <1>5 DEF handleRead
  <2>2. p \in Nat
    BY <1>2, <2>1, FileSpaceAssumption DEF Readable, Least
  <2> QED BY <2>1, <2>2 DEF MovesHost, Step
<1>6. ASSUME NEW offset \in Offsets, NEW whence \in {"SET", "CUR", "END"}, handleLseek(fd, offset, whence)
      PROVE  Step
  <2>1. CASE isHostDirectory(fd)
    <3>1. whence = "SET" /\ offset >= 0 /\ MoveIndex(fd, offset)
      BY <1>6, <2>1 DEF handleLseek, isHostDirectory
    <3>2. offset \in Nat
      BY <3>1, FileSpaceAssumption
    <3> QED BY <2>1, <3>1, <3>2 DEF MovesIndex, Step
  <2>2. CASE ~isHostDirectory(fd)
    <3>1. hostBacked(lookup(fd)) /\ HostSeek(fd, offset, whence)
      BY <1>6, <2>2 DEF handleLseek
    <3> DEFINE base == CASE whence = "SET" -> 0 [] whence = "CUR" -> HostOf(fd).pos [] OTHER -> MaxPosition
    <3>2. base \in Nat
      BY <1>2, <3>1, FileSpaceAssumption
    <3>3. ~(base + offset < 0) /\ MoveHost(fd, base + offset) /\ result' = "ok"
      BY <3>1 DEF HostSeek
    <3>4. base + offset \in Nat
      BY <3>2, <3>3, FileSpaceAssumption
    <3> HIDE DEF base
    <3> QED BY <3>1, <3>3, <3>4 DEF MovesHost, Step
  <2> QED BY <2>1, <2>2
<1>7. ASSUME NEW room \in Sizes, NEW f1 \in BOOLEAN, NEW f2 \in BOOLEAN, handleGetdirentries64(fd, room, f1, f2)
      PROVE  Step
  <2>1. PICK entries \in DirectorySizes :
            isHostDirectory(fd) /\ MoveIndex(fd, ResumeIndex(entries, lookup(fd).index, room))
    BY <1>7 DEF handleGetdirentries64
  <2>2. ResumeIndex(entries, lookup(fd).index, room) \in Nat
    BY <1>3, <1>4
  <2> QED BY <2>1, <2>2 DEF MovesIndex, Step
<1>8. ASSUME NEW room \in Sizes, NEW f1 \in BOOLEAN, NEW f2 \in BOOLEAN, handleGetattrlistbulk(fd, room, f1, f2)
      PROVE  Step
  <2>1. PICK entries \in DirectorySizes :
            isHostDirectory(fd) /\ MoveHost(fd, ResumeIndex(entries, HostOf(fd).pos, room))
    BY <1>8 DEF handleGetattrlistbulk
  <2>2. hostBacked(lookup(fd))
    BY <2>1 DEF isHostDirectory
  <2>3. ResumeIndex(entries, HostOf(fd).pos, room) \in Nat
    BY <1>2, <1>4, <2>2
  <2> QED BY <2>1, <2>2, <2>3 DEF MovesHost, Step
<1> QED BY <1>5, <1>6, <1>7, <1>8

LEMMA NextIsStep ==
    ASSUME TypeOK, ResolvedWithin, Next
    PROVE  Step
<1>1. CASE Call
  BY <1>1, OpenIsStep, OpenatIsStep, SocketIsStep, TableCallIsStep, PositionCallIsStep DEF Call
<1>2. CASE opening # NotOpening /\ OpenHosted
  BY <1>2, OpenHostedIsStep
<1> QED BY <1>1, <1>2 DEF Next

\* Every step ends the pending open, except the one that resolves a path.
LEMMA NextOpeningOK ==
    ASSUME TypeOK, ResolvedWithin, Next
    PROVE  OpeningOK'
<1>1. ASSUME opening' = NotOpening PROVE OpeningOK'
  <2>1. NotOpening \in [path : Paths \union {"none"}, flags : SUBSET hostedReadOnlyFlags, tree : Trees]
    BY DEF NotOpening, Trees
  <2> QED BY <1>1, <2>1 DEF OpeningOK, ResolvedWithin
<1>2. ASSUME NEW r, Fail(r) PROVE opening' = NotOpening
  BY <1>2 DEF Fail, CallEnds
<1>3. ASSUME NEW kind, NEW h, NEW o, NEW r, NEW c, install(kind, h, o, r, c) PROVE opening' = NotOpening
  BY <1>3, <1>2 DEF install, CallEnds
<1>4. ASSUME NEW fd, NEW m, NEW c, duplicate(fd, m, c) PROVE opening' = NotOpening
  BY <1>4, <1>2 DEF duplicate, CallEnds
<1>5. ASSUME NEW fd, NEW p, MoveHost(fd, p) \/ MoveIndex(fd, p) PROVE opening' = NotOpening
  BY <1>5 DEF MoveHost, MoveIndex, CallEnds
<1>6. ASSUME NEW path, NEW flags, ResolveHosted(path, flags) PROVE OpeningOK'
  <2>1. CASE \E r : Fail(r)
    BY <2>1, <1>2, <1>1
  <2>2. CASE ~ \E r : Fail(r)
    <3> DEFINE resolved(t) == canonicalGuestPathFrom(t, path, "nofollow" \notin flags)
    <3>1. PICK t \in Trees :
              /\ flags \subseteq hostedReadOnlyFlags /\ resolved(t) # "none" /\ permitsHostPath(resolved(t))
              /\ opening' = [path |-> resolved(t), flags |-> flags, tree |-> t]
              /\ access' = access
      BY <1>6, <2>2 DEF ResolveHosted
    <3>2. resolved(t) \in Paths
      BY <3>1 DEF canonicalGuestPathFrom, Paths
    <3>3. access = "Controlled" => HostOpened(t, resolved(t), flags) \notin {"outside", "root"}
      <4> SUFFICES ASSUME access = "Controlled" PROVE HostOpened(t, resolved(t), flags) \notin {"outside", "root"}
        OBVIOUS
      <4>1. resolved(t) \in {"cwd", "entry"}
        BY <3>1 DEF permitsHostPath
      <4>2. t # "away"
        BY <4>1 DEF canonicalGuestPathFrom
      <4>3. t = "link" /\ resolved(t) = "entry" => "nofollow" \in flags
        BY DEF canonicalGuestPathFrom
      <4> HIDE DEF resolved
      <4> QED BY <4>1, <4>2, <4>3 DEF HostOpened, Trees
    <3> HIDE DEF resolved
    <3> QED BY <3>1, <3>2, <3>3 DEF OpeningOK, ResolvedWithin
  <2> QED BY <2>1, <2>2
<1>7. ASSUME NEW path, NEW flags, NEW mode, handleOpen(path, flags, mode) PROVE OpeningOK'
  BY <1>1, <1>2, <1>3, <1>6, <1>7 DEF handleOpen
<1>8. ASSUME OpenHosted PROVE OpeningOK'
  BY <1>1, <1>2, <1>3, <1>8 DEF OpenHosted, openHostFile
<1>9. ASSUME NEW known, handleSocket(known) PROVE OpeningOK'
  BY <1>1, <1>2, <1>3, <1>9 DEF handleSocket
<1>10. ASSUME NEW fd, NEW cryptex, handleOpenat(fd, cryptex) PROVE OpeningOK'
  BY <1>1, <1>2, <1>3, <1>10 DEF handleOpenat
<1>11. ASSUME NEW fd, handleDup(fd) \/ handleClose(fd) PROVE OpeningOK'
  BY <1>1, <1>2, <1>4, <1>11 DEF handleDup, handleClose, close, CallEnds
<1>12. ASSUME NEW fd, NEW command, NEW minimum, NEW cloexec, handleFcntl(fd, command, minimum, cloexec)
       PROVE  OpeningOK'
  BY <1>1, <1>2, <1>4, <1>12 DEF handleFcntl, setCloseOnExec, CallEnds
<1>13. ASSUME NEW fd, NEW count, NEW faults, handleRead(fd, count, faults) PROVE OpeningOK'
  BY <1>1, <1>2, <1>5, <1>13 DEF handleRead
<1>14. ASSUME NEW fd, NEW offset, NEW whence, handleLseek(fd, offset, whence) PROVE OpeningOK'
  BY <1>1, <1>2, <1>5, <1>14 DEF handleLseek, HostSeek
<1>15. ASSUME NEW fd, NEW room, NEW f1, NEW f2,
              handleGetdirentries64(fd, room, f1, f2) \/ handleGetattrlistbulk(fd, room, f1, f2)
       PROVE  OpeningOK'
  BY <1>1, <1>2, <1>5, <1>15 DEF handleGetdirentries64, handleGetattrlistbulk
<1> QED BY <1>7, <1>8, <1>9, <1>10, <1>11, <1>12, <1>13, <1>14, <1>15 DEF Next, Call

-----------------------------------------------------------------------------
(* The table and the host descriptors it owns *)

LEMMA InitOwned ==
    ASSUME Init
    PROVE  Owned /\ WithinPolicy /\ ResolvedWithin
<1>1. PICK given \in SUBSET Streams, stream \in [Streams -> {"stream", "redirected"}] :
          /\ descriptors = [fd \in Fds |-> IF fd \in given THEN [file |-> fd + 1, cloexec |-> FALSE] ELSE Closed]
          /\ files = [d \in Ids |-> IF d - 1 \in given
                                    THEN [kind |-> "StandardStream", index |-> 0, host |-> d] ELSE NoFile]
          /\ hosts = [h \in HostFds |-> IF h - 1 \in given
                                       THEN [object |-> stream[h - 1], pos |-> 0, raced |-> FALSE] ELSE NoHost]
  BY DEF Init
<1>2. \A s \in given : s \in Fds /\ s + 1 \in Ids /\ s + 1 \in HostFds /\ s + 1 - 1 = s
  BY FileSpaceAssumption DEF Fds, Ids, HostFds
<1>3. \A d \in Ids : d \in Int /\ d # 0 /\ (d - 1 \in given => d = (d - 1) + 1 /\ d \in HostFds)
  <2> SUFFICES ASSUME NEW d \in Ids PROVE d \in Int /\ d # 0 /\ (d - 1 \in given => d = (d - 1) + 1 /\ d \in HostFds)
    OBVIOUS
  <2>1. d \in Int /\ d # 0 /\ d = (d - 1) + 1
    BY FileSpaceAssumption DEF Ids
  <2> QED BY <2>1, <1>2
<1>4. \A h \in HostFds : h \in Int /\ h # 0 /\ (h - 1 \in given => h \in Ids)
  <2> SUFFICES ASSUME NEW h \in HostFds PROVE h \in Int /\ h # 0 /\ (h - 1 \in given => h \in Ids)
    OBVIOUS
  <2>1. h \in Int /\ h # 0 /\ h = (h - 1) + 1
    BY FileSpaceAssumption DEF HostFds
  <2> QED BY <2>1, <1>2
<1>5. TypeOK
  <2>1. descriptors \in [Fds -> [file : Ids \union {0}, cloexec : BOOLEAN]]
    BY <1>1, <1>2 DEF Closed
  <2>2. files \in [Ids -> [kind : Kinds, index : Nat, host : HostFds \union {0}]]
    BY <1>1, <1>3 DEF NoFile, Kinds
  <2>3. hosts \in [HostFds -> [object : Objects, pos : Nat, raced : BOOLEAN]]
    BY <1>1 DEF NoHost, Objects
  <2>4. OpeningOK
    BY DEF Init, OpeningOK, ResolvedWithin, NotOpening, Trees
  <2> QED BY <2>1, <2>2, <2>3, <2>4 DEF Init, TypeOK, OpeningOK
<1>6. HostOwned
  <2>1. \A d \in Ids : (files[d].kind # "none") <=> (\E fd \in Fds : descriptors[fd].file = d)
    <3> SUFFICES ASSUME NEW d \in Ids
                 PROVE  (files[d].kind # "none") <=> (\E fd \in Fds : descriptors[fd].file = d)
      OBVIOUS
    <3>1. (files[d].kind # "none") <=> d - 1 \in given
      BY <1>1 DEF NoFile
    <3>2. d - 1 \in given => d - 1 \in Fds /\ descriptors[d - 1].file = d
      BY <1>1, <1>2, <1>3
    <3>3. ASSUME NEW fd \in Fds, descriptors[fd].file = d PROVE d - 1 \in given
      <4>1. fd \in given
        BY <1>1, <1>3, <3>3 DEF Closed
      <4>2. descriptors[fd].file = fd + 1
        BY <1>1, <4>1
      <4>3. fd \in Int /\ d = fd + 1
        BY <3>3, <4>2, FileSpaceAssumption DEF Fds
      <4>4. d - 1 = fd
        BY <4>3
      <4> QED BY <4>1, <4>4
    <3> QED BY <3>1, <3>2, <3>3
  <2>2. \A h \in HostFds : (hosts[h].object # "none") <=> (\E d \in Ids : files[d].host = h)
    <3> SUFFICES ASSUME NEW h \in HostFds
                 PROVE  (hosts[h].object # "none") <=> (\E d \in Ids : files[d].host = h)
      OBVIOUS
    <3>1. (hosts[h].object # "none") <=> h - 1 \in given
      BY <1>1 DEF NoHost
    <3>2. h - 1 \in given => h \in Ids /\ files[h].host = h
      BY <1>1, <1>4
    <3>3. ASSUME NEW d \in Ids, files[d].host = h PROVE h - 1 \in given
      BY <1>1, <1>4, <3>3 DEF NoFile
    <3> QED BY <3>1, <3>2, <3>3
  <2>3. \A d \in Ids : files[d].host # 0 => files[d].host = d
    BY <1>1 DEF NoFile
  <2> QED BY <2>1, <2>2, <2>3 DEF HostOwned
<1>7. GoneIsEmpty
  BY <1>1 DEF GoneIsEmpty
<1>8. WithinPolicy
  BY <1>1 DEF WithinPolicy, NoHost
<1>9. ResolvedWithin
  BY DEF Init, ResolvedWithin
<1> QED BY <1>5, <1>6, <1>7, <1>8, <1>9 DEF Owned

LEMMA AddsOwned ==
    ASSUME Owned, WithinPolicy, NEW fd \in Fds, NEW d \in Ids, NEW kind \in Kinds \ {"none"},
           NEW h \in HostFds \union {0}, NEW o \in Objects, NEW r \in BOOLEAN, NEW c \in BOOLEAN,
           Adds(fd, d, kind, h, o, r, c), OpeningOK'
    PROVE  Owned' /\ WithinPolicy'
<1>1. TypeOK'
  BY DEF Owned, TypeOK, OpeningOK, Adds, Objects
<1>2. 0 \notin HostFds /\ 0 \notin Ids
  BY FileSpaceAssumption DEF HostFds, Ids
<1>3. \A x \in Fds : descriptors'[x].file = IF x = fd THEN d ELSE descriptors[x].file
  BY DEF Owned, TypeOK, Adds
<1>4. \A x \in Ids : files'[x] = IF x = d THEN [kind |-> kind, index |-> 0, host |-> h] ELSE files[x]
  BY DEF Owned, TypeOK, Adds
<1>5. \A x \in HostFds : hosts'[x] = IF x = h THEN [object |-> o, pos |-> 0, raced |-> r] ELSE hosts[x]
  BY <1>2 DEF Owned, TypeOK, Adds
<1>6. descriptors[fd].file = 0
  BY DEF Adds, IsLowestFree, IsOpen
<1>7. (h # 0 => hosts[h].object = "none" /\ o # "none") /\ files[d].kind = "none"
  BY DEF Adds
<1>8. HostOwned'
  <2>1. \A x \in Ids : (files'[x].kind # "none") <=> (\E y \in Fds : descriptors'[y].file = x)
    BY <1>2, <1>3, <1>4, <1>6, <1>7 DEF Owned, HostOwned
  <2>2. \A x \in HostFds : (hosts'[x].object # "none") <=> (\E y \in Ids : files'[y].host = x)
    BY <1>2, <1>4, <1>5, <1>7 DEF Owned, HostOwned, GoneIsEmpty, NoFile
  <2>3. \A a, b \in Ids : files'[a].host = files'[b].host /\ files'[a].host # 0 => a = b
    BY <1>2, <1>4, <1>7 DEF Owned, HostOwned
  <2> QED BY <2>1, <2>2, <2>3 DEF HostOwned
<1>9. GoneIsEmpty'
  BY <1>4 DEF Owned, GoneIsEmpty
<1>10. WithinPolicy'
  BY <1>2, <1>5 DEF WithinPolicy, Adds, Permitted
<1> QED BY <1>1, <1>8, <1>9, <1>10 DEF Owned

LEMMA SharesOwned ==
    ASSUME Owned, WithinPolicy, NEW old \in Fds, NEW fd \in Fds, NEW m \in Fds, NEW c \in BOOLEAN,
           Shares(old, fd, m, c), OpeningOK'
    PROVE  Owned' /\ WithinPolicy'
<1>1. TypeOK'
  BY DEF Owned, TypeOK, OpeningOK, Shares
<1>2. 0 \notin Ids
  BY FileSpaceAssumption DEF Ids
<1>3. \A x \in Fds : descriptors'[x].file = IF x = fd THEN descriptors[old].file ELSE descriptors[x].file
  BY DEF Owned, TypeOK, Shares
<1>4. descriptors[fd].file = 0
  BY DEF Shares, IsLowestFree, IsOpen
<1>5. \A x \in Ids : (\E y \in Fds : descriptors[y].file = x) <=> (\E y \in Fds : descriptors'[y].file = x)
  BY <1>2, <1>3, <1>4
<1>6. files' = files /\ hosts' = hosts /\ access' = access
  BY DEF Shares
<1> QED BY <1>1, <1>5, <1>6 DEF Owned, HostOwned, GoneIsEmpty, WithinPolicy

LEMMA DropsOwned ==
    ASSUME Owned, WithinPolicy, NEW fd \in Fds, Drops(fd), OpeningOK'
    PROVE  Owned' /\ WithinPolicy'
<1> DEFINE d == descriptors[fd].file
           h == files[d].host
<1>1. 0 \notin HostFds /\ 0 \notin Ids
  BY FileSpaceAssumption DEF HostFds, Ids
<1>2. d \in Ids
  BY DEF Drops, IsOpen, Owned, TypeOK
<1>3. \A x \in Fds : descriptors'[x].file = IF x = fd THEN 0 ELSE descriptors[x].file
  BY DEF Owned, TypeOK, Drops, close, Closed
<1>4. access' = access
  BY DEF Drops, close, CallEnds
<1>5. descriptors' \in [Fds -> [file : Ids \union {0}, cloexec : BOOLEAN]]
  BY DEF Owned, TypeOK, Drops, close, Closed
<1>6. CASE Shared(fd)
  <2>1. files' = files /\ hosts' = hosts
    BY <1>6 DEF Drops, close
  <2>2. \A x \in Ids : (\E y \in Fds : descriptors[y].file = x) <=> (\E y \in Fds : descriptors'[y].file = x)
    BY <1>1, <1>3, <1>6 DEF Shared
  <2> QED BY <1>4, <1>5, <2>1, <2>2 DEF Owned, TypeOK, OpeningOK, HostOwned, GoneIsEmpty, WithinPolicy
<1>7. CASE ~Shared(fd)
  <2>1. \A x \in Ids : files'[x] = IF x = d THEN NoFile ELSE files[x]
    BY <1>7, <1>2 DEF Drops, close, Owned, TypeOK
  <2>2. \A x \in HostFds : hosts'[x] = IF x = h THEN NoHost ELSE hosts[x]
    BY <1>7, <1>1 DEF Drops, close, Owned, TypeOK, hostBacked, lookup
  <2>3. files' \in [Ids -> [kind : Kinds, index : Nat, host : HostFds \union {0}]]
    BY <1>7 DEF Drops, close, Owned, TypeOK, NoFile, Kinds
  <2>4. hosts' \in [HostFds -> [object : Objects, pos : Nat, raced : BOOLEAN]]
    <3>1. NoHost \in [object : Objects, pos : Nat, raced : BOOLEAN]
      BY DEF NoHost, Objects
    <3>2. hosts' = hosts \/ hosts' = [hosts EXCEPT ![lookup(fd).host] = NoHost]
      BY <1>7 DEF Drops, close
    <3> QED BY <3>1, <3>2 DEF Owned, TypeOK
  <2>5. HostOwned'
    <3>1. \A x \in Ids : (files'[x].kind # "none") <=> (\E y \in Fds : descriptors'[y].file = x)
      BY <1>1, <1>2, <1>3, <1>7, <2>1 DEF Owned, HostOwned, Shared, NoFile
    <3>2. \A x \in HostFds : (hosts'[x].object # "none") <=> (\E y \in Ids : files'[y].host = x)
      BY <1>1, <1>2, <2>1, <2>2 DEF Owned, HostOwned, NoFile, NoHost
    <3>3. \A a, b \in Ids : files'[a].host = files'[b].host /\ files'[a].host # 0 => a = b
      BY <2>1 DEF Owned, HostOwned, NoFile
    <3> QED BY <3>1, <3>2, <3>3 DEF HostOwned
  <2>6. GoneIsEmpty'
    BY <2>1 DEF Owned, GoneIsEmpty
  <2>7. WithinPolicy'
    BY <1>4, <2>2 DEF WithinPolicy, NoHost
  <2> QED BY <1>4, <1>5, <2>3, <2>4, <2>5, <2>6, <2>7 DEF Owned, TypeOK, OpeningOK
<1> QED BY <1>6, <1>7

LEMMA StepOwned ==
    ASSUME Owned, WithinPolicy, Step, OpeningOK'
    PROVE  Owned' /\ WithinPolicy'
<1>1. CASE Stutters
  BY <1>1 DEF Stutters, Owned, TypeOK, OpeningOK, HostOwned, GoneIsEmpty, WithinPolicy
<1>2. ASSUME NEW fd \in Fds, NEW c \in BOOLEAN, Marks(fd, c) PROVE Owned' /\ WithinPolicy'
  <2>1. TypeOK'
    BY <1>2 DEF Owned, TypeOK, OpeningOK, Marks
  <2>2. \A x \in Fds : descriptors'[x].file = descriptors[x].file
    BY <1>2 DEF Owned, TypeOK, Marks
  <2>3. files' = files /\ hosts' = hosts /\ access' = access
    BY <1>2 DEF Marks
  <2> QED BY <2>1, <2>2, <2>3 DEF Owned, HostOwned, GoneIsEmpty, WithinPolicy
<1>3. ASSUME NEW fd \in Fds, NEW p \in Nat, MovesHost(fd, p) PROVE Owned' /\ WithinPolicy'
  <2>1. lookup(fd).host \in HostFds
    BY <1>3 DEF MovesHost, hostBacked, lookup, IsOpen, Owned, TypeOK
  <2>2. \A x \in HostFds : hosts'[x].object = hosts[x].object /\ hosts'[x].raced = hosts[x].raced
    BY <1>3, <2>1 DEF MovesHost, MoveHost, Owned, TypeOK
  <2>3. TypeOK'
    BY <1>3, <2>1 DEF MovesHost, MoveHost, CallEnds, Owned, TypeOK, OpeningOK
  <2>4. descriptors' = descriptors /\ files' = files /\ access' = access
    BY <1>3 DEF MovesHost, MoveHost, CallEnds
  <2> QED BY <2>2, <2>3, <2>4 DEF Owned, HostOwned, GoneIsEmpty, WithinPolicy
<1>4. ASSUME NEW fd \in Fds, NEW p \in Nat, MovesIndex(fd, p) PROVE Owned' /\ WithinPolicy'
  <2> DEFINE d == descriptors[fd].file
  <2>1. d \in Ids /\ files[d].host # 0
    BY <1>4 DEF MovesIndex, isHostDirectory, hostBacked, lookup, IsOpen, Owned, TypeOK
  <2>2. \A x \in Ids : files'[x].host = files[x].host /\ files'[x].kind = files[x].kind
                        /\ (x # d => files'[x] = files[x])
    BY <1>4, <2>1 DEF MovesIndex, MoveIndex, Owned, TypeOK
  <2>3. TypeOK'
    BY <1>4, <2>1 DEF MovesIndex, MoveIndex, CallEnds, Owned, TypeOK, OpeningOK
  <2>4. descriptors' = descriptors /\ hosts' = hosts /\ access' = access
    BY <1>4 DEF MovesIndex, MoveIndex, CallEnds
  <2>5. files[d].kind # "none"
    BY <2>1 DEF Owned, GoneIsEmpty, NoFile
  <2> QED BY <2>1, <2>2, <2>3, <2>4, <2>5 DEF Owned, HostOwned, GoneIsEmpty, WithinPolicy
<1> QED BY <1>1, <1>2, <1>3, <1>4, AddsOwned, SharesOwned, DropsOwned DEF Step

\* The inductive invariant.
IInv == Owned /\ WithinPolicy /\ ResolvedWithin

LEMMA Safe == Spec => []IInv
<1>1. Init => IInv
  BY InitOwned DEF IInv
<1>2. IInv /\ [Next]_vars => IInv'
  <2>1. CASE Next
    BY <2>1, NextIsStep, NextOpeningOK, StepOwned DEF IInv, Owned, OpeningOK
  <2>2. CASE UNCHANGED vars
    BY <2>2 DEF vars, IInv, Owned, TypeOK, HostOwned, GoneIsEmpty, WithinPolicy, ResolvedWithin
  <2> QED BY <2>1, <2>2
<1> QED BY <1>1, <1>2, PTL DEF Spec

(* Descriptors, descriptions and host descriptors keep their types: in     *)
(* particular no sequence of reads, seeks and listings makes a position    *)
(* negative.                                                               *)
THEOREM TypeCorrect == Spec => []TypeOK
<1>1. IInv => TypeOK
  BY DEF IInv, Owned
<1> QED BY <1>1, Safe, PTL

(* However opens, duplicates and closes interleave, and wherever they run  *)
(* out of descriptors, the open host descriptors are those the live        *)
(* descriptions own (HostDescriptor, Files.cpp:18).                        *)
THEOREM HostDescriptorsOwned == Spec => []HostOwned
<1>1. IInv => HostOwned
  BY DEF IInv, Owned
<1> QED BY <1>1, Safe, PTL

(* A controlled guest comes to hold a host file outside its working        *)
(* directory only when another process changed the tree between the        *)
(* resolution and the open of its path (handleOpen, permitsHostPath): the  *)
(* tree in which a path was permitted never leads the same open outside.   *)
THEOREM PolicyHolds == Spec => []WithinPolicy
<1>1. IInv => WithinPolicy
  BY DEF IInv
<1> QED BY <1>1, Safe, PTL

-----------------------------------------------------------------------------
(* Calls that fail *)

(* No call that reports an error or stops the guest has changed a          *)
(* descriptor or consumed a byte (handleRead validates first).             *)
THEOREM FailuresConsumeNothing == Spec => FailureConsumesNothing
<1> DEFINE Quiet ==
        result' # "ok" =>
          /\ descriptors' = descriptors
          /\ \A d \in Ids : files[d].kind # "none" /\ files[d].host # 0 =>
                /\ files'[d].host = files[d].host
                /\ hosts[files[d].host].object \notin Directories =>
                      hosts'[files[d].host] = hosts[files[d].host]
<1>1. ASSUME IInv, [Next]_vars PROVE [Quiet]_vars
  <2>1. CASE UNCHANGED vars
    BY <2>1
  <2>2. CASE Next
    <3> SUFFICES ASSUME result' # "ok" PROVE Quiet
      OBVIOUS
    <3>1. Step
      BY <1>1, <2>2, NextIsStep DEF IInv, Owned
    <3>2. CASE Stutters
      BY <3>2 DEF Stutters
    <3>3. ASSUME NEW fd \in Fds, NEW p \in Nat, MovesHost(fd, p) PROVE Quiet
      <4> DEFINE own == descriptors[fd].file
      <4>1. own \in Ids /\ files[own].host \in HostFds /\ hosts[files[own].host].object \in Directories
        BY <1>1, <3>3 DEF MovesHost, isHostDirectory, HostOf, hostBacked, lookup, IsOpen, IInv, Owned, TypeOK
      <4>2. descriptors' = descriptors /\ files' = files
        BY <3>3 DEF MovesHost, MoveHost
      <4>3. \A h \in HostFds : h # files[own].host => hosts'[h] = hosts[h]
        BY <1>1, <3>3, <4>1 DEF MovesHost, MoveHost, lookup, IInv, Owned, TypeOK
      <4>4. \A d \in Ids : files[d].host # 0 => files[d].host \in HostFds
        BY <1>1 DEF IInv, Owned, TypeOK
      <4> QED BY <4>1, <4>2, <4>3, <4>4
    <3>4. ASSUME NEW fd \in Fds, NEW p \in Nat, MovesIndex(fd, p) PROVE Quiet
      <4>1. descriptors' = descriptors /\ hosts' = hosts
        BY <3>4 DEF MovesIndex, MoveIndex
      <4>2. \A d \in Ids : files'[d].host = files[d].host
        BY <1>1, <3>4 DEF MovesIndex, MoveIndex, IInv, Owned, TypeOK
      <4> QED BY <4>1, <4>2
    <3> QED BY <3>1, <3>2, <3>3, <3>4 DEF Step, Adds, Shares, Drops, close, Marks
  <2> QED BY <1>1, <2>1, <2>2
<1> QED BY <1>1, Safe, PTL DEF Spec, FailureConsumesNothing

-----------------------------------------------------------------------------
(* The refinement *)

cursorOf == [d \in Ids |-> Position(d)]
heldOf == {d \in Ids : files[d].host # 0}

LEMMA InitRefines ==
    ASSUME Init
    PROVE  Unix!Init
<1>1. PICK given \in SUBSET Streams, stream \in [Streams -> {"stream", "redirected"}] :
          /\ descriptors = [fd \in Fds |-> IF fd \in given THEN [file |-> fd + 1, cloexec |-> FALSE] ELSE Closed]
          /\ files = [d \in Ids |-> IF d - 1 \in given
                                    THEN [kind |-> "StandardStream", index |-> 0, host |-> d] ELSE NoFile]
          /\ hosts = [h \in HostFds |-> IF h - 1 \in given
                                       THEN [object |-> stream[h - 1], pos |-> 0, raced |-> FALSE] ELSE NoHost]
  BY DEF Init
<1>2. Owned
  BY InitOwned
<1>3. \A s \in given : s \in Int
  BY FileSpaceAssumption
<1>4. descriptors \in [Fds -> [file : Ids \union {0}, cloexec : {FALSE}]]
  <2>1. \A fd \in Fds : descriptors[fd] \in [file : Ids \union {0}, cloexec : BOOLEAN]
    BY <1>2 DEF Owned, TypeOK
  <2> QED BY <1>1, <2>1 DEF Closed
<1>5. \A a, b \in Fds : descriptors[a].file = descriptors[b].file /\ descriptors[a].file # 0 => a = b
  BY <1>1, <1>3 DEF Closed
<1>6. \A d \in Ids : Position(d) = 0
  <2> SUFFICES ASSUME NEW d \in Ids PROVE Position(d) = 0
    OBVIOUS
  <2>1. CASE files[d].host = 0
    BY <2>1 DEF Position
  <2>2. CASE files[d].host # 0
    <3>1. files[d].host \in HostFds /\ files[d].index = 0
      BY <1>1, <1>2, <2>2 DEF NoFile, Owned, TypeOK
    <3>2. hosts[files[d].host].pos = 0
      BY <1>1, <3>1 DEF NoHost
    <3> QED BY <3>1, <3>2 DEF Position
  <2> QED BY <2>1, <2>2
<1>7. {d \in Ids : files[d].host # 0} = {d \in Ids : Unix!Named(d)}
  <2>1. \A d \in Ids : files[d].host # 0 <=> files[d].kind # "none"
    BY <1>1, FileSpaceAssumption DEF NoFile, Ids
  <2> QED BY <1>2, <2>1 DEF Owned, HostOwned, Unix!Named
<1> QED BY <1>4, <1>5, <1>6, <1>7 DEF Unix!Init

\* The cursor of a description is a number, and stays where it is unless its
\* record or its host's does not.
LEMMA CursorKept ==
    ASSUME Owned, Owned', NEW d \in Ids, files'[d].host = files[d].host,
           files[d].host # 0 => /\ files'[d].index = files[d].index
                                /\ hosts'[files[d].host] = hosts[files[d].host]
    PROVE  Position(d)' = Position(d)
BY DEF Position

LEMMA StepRefines ==
    ASSUME Owned, WithinPolicy, Step, OpeningOK'
    PROVE  Unix!Next \/ UNCHANGED <<descriptors, cursorOf, heldOf>>
<1>0. Owned'
  BY StepOwned
<1>z. 0 \notin HostFds /\ 0 \notin Ids
  BY FileSpaceAssumption DEF HostFds, Ids
<1>1. CASE Stutters
  BY <1>1 DEF Stutters, cursorOf, heldOf, Position
<1>2. ASSUME NEW fd \in Fds, NEW d \in Ids, NEW kind \in Kinds \ {"none"}, NEW h \in HostFds \union {0},
             NEW o \in Objects, NEW r \in BOOLEAN, NEW c \in BOOLEAN, Adds(fd, d, kind, h, o, r, c)
      PROVE  Unix!Next
  <2>1. Unix!LowestFree(fd, 0)
    BY <1>2 DEF Adds, IsLowestFree, IsOpen, Unix!LowestFree
  <2>2. ~Unix!Named(d)
    BY <1>2 DEF Adds, Owned, HostOwned, Unix!Named
  <2>3. \A x \in Ids : files'[x] = IF x = d THEN [kind |-> kind, index |-> 0, host |-> h] ELSE files[x]
    BY <1>2 DEF Owned, TypeOK, Adds
  <2>4. \A x \in HostFds : hosts'[x] = IF x = h THEN [object |-> o, pos |-> 0, raced |-> r] ELSE hosts[x]
    BY <1>2, <1>z DEF Owned, TypeOK, Adds
  <2>5. \A x \in Ids : x # d => Position(x)' = Position(x)
    <3> SUFFICES ASSUME NEW x \in Ids, x # d PROVE Position(x)' = Position(x)
      OBVIOUS
    <3>1. files[x].host # 0 => files[x].host \in HostFds /\ files[x].host # h
      BY <1>2 DEF Owned, TypeOK, HostOwned, Adds
    <3> QED BY <1>0, <2>3, <2>4, <3>1, CursorKept
  <2>6. Position(d)' = 0
    BY <2>3, <2>4 DEF Position
  <2>7. cursorOf' = [cursorOf EXCEPT ![d] = 0]
    BY <2>5, <2>6 DEF cursorOf
  <2>8. heldOf' = IF h # 0 THEN heldOf \union {d} ELSE heldOf \ {d}
    BY <2>3 DEF heldOf
  <2>9. Unix!New(fd, d, c, h # 0)
    BY <1>2, <2>1, <2>2, <2>7, <2>8 DEF Unix!New, Adds, cursorOf, heldOf
  <2> QED BY <2>9 DEF Unix!Next
<1>3. ASSUME NEW old \in Fds, NEW fd \in Fds, NEW m \in Fds, NEW c \in BOOLEAN, Shares(old, fd, m, c)
      PROVE  Unix!Next
  <2>1. Unix!LowestFree(fd, m)
    BY <1>3 DEF Shares, IsLowestFree, IsOpen, Unix!LowestFree
  <2>2. Unix!Duplicate(old, fd, m, c)
    BY <1>3, <2>1 DEF Shares, IsOpen, Unix!Duplicate, Position
  <2> QED BY <2>2 DEF Unix!Next
<1>4. ASSUME NEW fd \in Fds, Drops(fd)
      PROVE  Unix!Next
  <2>0. descriptors[fd].file \in Ids
    BY <1>4 DEF Drops, IsOpen, Owned, TypeOK
  <2>a. PICK d \in Ids : d = descriptors[fd].file
    BY <2>0
  <2> DEFINE h == files[d].host
  <2>1. d \in Ids /\ d # 0 /\ d = descriptors[fd].file
    BY <1>4, <2>a DEF Drops, IsOpen
  <2>2. descriptors' = [descriptors EXCEPT ![fd] = [file |-> 0, cloexec |-> FALSE]]
    BY <1>4 DEF Drops, close, Closed
  <2>3. CASE Shared(fd)
    <3>1. files' = files /\ hosts' = hosts
      BY <1>4, <2>3 DEF Drops, close
    <3>2. Unix!Close(fd)
      BY <2>1, <2>2, <2>3, <3>1 DEF Unix!Close, Shared, Position
    <3> QED BY <3>2 DEF Unix!Next
  <2>4. CASE ~Shared(fd)
    <3>1. \A x \in Ids : files'[x] = IF x = d THEN NoFile ELSE files[x]
      BY <1>4, <2>4, <2>1 DEF Drops, close, Owned, TypeOK
    <3>2. \A x \in HostFds : hosts'[x] = IF x = h THEN NoHost ELSE hosts[x]
      BY <1>4, <2>4, <2>1, <1>z DEF Drops, close, Owned, TypeOK, hostBacked, lookup
    <3>3. \A x \in Ids : x # d => Position(x)' = Position(x)
      <4> SUFFICES ASSUME NEW x \in Ids, x # d PROVE Position(x)' = Position(x)
        OBVIOUS
      <4>1. files[x].host # 0 => files[x].host \in HostFds /\ files[x].host # h
        BY <2>1 DEF Owned, TypeOK, HostOwned
      <4> QED BY <1>0, <3>1, <3>2, <4>1, CursorKept
    <3>4. Position(d)' = 0
      BY <2>1, <3>1 DEF Position, NoFile
    <3>5. cursorOf' = [cursorOf EXCEPT ![d] = 0]
      BY <3>3, <3>4 DEF cursorOf
    <3>6. heldOf' = heldOf \ {d}
      BY <3>1 DEF heldOf, NoFile
    <3>7. Unix!Close(fd)
      BY <2>1, <2>2, <2>4, <3>5, <3>6 DEF Unix!Close, Shared, cursorOf, heldOf
    <3> QED BY <3>7 DEF Unix!Next
  <2> QED BY <2>3, <2>4
<1>5. ASSUME NEW fd \in Fds, NEW c \in BOOLEAN, Marks(fd, c)
      PROVE  Unix!Next
  <2>1. Unix!Mark(fd, c)
    BY <1>5 DEF Marks, IsOpen, Unix!Mark, Position
  <2> QED BY <2>1 DEF Unix!Next
<1>6. ASSUME NEW fd \in Fds, NEW p \in Nat, MovesHost(fd, p)
      PROVE  Unix!Next
  <2>0. descriptors[fd].file \in Ids
    BY <1>6 DEF MovesHost, hostBacked, lookup, IsOpen, Owned, TypeOK
  <2>a. PICK d \in Ids : d = descriptors[fd].file
    BY <2>0
  <2> DEFINE h == files[d].host
  <2>1. d \in Ids /\ d # 0 /\ d = descriptors[fd].file /\ h \in HostFds /\ h # 0
    BY <1>6, <2>a DEF MovesHost, hostBacked, lookup, IsOpen, Owned, TypeOK
  <2>2. files' = files /\ descriptors' = descriptors
    BY <1>6 DEF MovesHost, MoveHost
  <2>3. \A x \in HostFds : x # h => hosts'[x] = hosts[x]
    BY <1>6, <2>1 DEF MovesHost, MoveHost, lookup, Owned, TypeOK
  <2>4. \A x \in Ids : x # d => Position(x)' = Position(x)
    <3> SUFFICES ASSUME NEW x \in Ids, x # d PROVE Position(x)' = Position(x)
      OBVIOUS
    <3>1. files[x].host # 0 => files[x].host \in HostFds /\ files[x].host # h
      BY <2>1 DEF Owned, TypeOK, HostOwned
    <3> QED BY <1>0, <2>2, <2>3, <3>1, CursorKept
  <2>5. Position(d)' \in Nat
    BY <1>0, <2>1, <2>2 DEF Position, Owned, TypeOK
  <2>6. cursorOf' = [cursorOf EXCEPT ![d] = cursorOf'[d]] /\ cursorOf'[d] \in Nat
    BY <2>1, <2>4, <2>5 DEF cursorOf
  <2>7. Unix!Move(fd)
    BY <2>1, <2>2, <2>6 DEF Unix!Move, cursorOf
  <2> QED BY <2>7 DEF Unix!Next
<1>7. ASSUME NEW fd \in Fds, NEW p \in Nat, MovesIndex(fd, p)
      PROVE  Unix!Next
  <2>0. descriptors[fd].file \in Ids
    BY <1>7 DEF MovesIndex, isHostDirectory, hostBacked, lookup, IsOpen, Owned, TypeOK
  <2>a. PICK d \in Ids : d = descriptors[fd].file
    BY <2>0
  <2>1. d \in Ids /\ d # 0 /\ d = descriptors[fd].file /\ files[d].host # 0
    BY <1>7, <2>a DEF MovesIndex, isHostDirectory, hostBacked, lookup, IsOpen, Owned, TypeOK
  <2>2. hosts' = hosts /\ descriptors' = descriptors
    BY <1>7 DEF MovesIndex, MoveIndex
  <2>3. \A x \in Ids : files'[x].host = files[x].host /\ (x # d => files'[x] = files[x])
    BY <1>7, <2>1 DEF MovesIndex, MoveIndex, Owned, TypeOK
  <2>4. \A x \in Ids : x # d => Position(x)' = Position(x)
    BY <1>0, <2>2, <2>3, CursorKept
  <2>5. Position(d)' \in Nat
    BY <1>0, <2>1, <2>2 DEF Position, Owned, TypeOK
  <2>6. cursorOf' = [cursorOf EXCEPT ![d] = cursorOf'[d]] /\ cursorOf'[d] \in Nat
    BY <2>1, <2>4, <2>5 DEF cursorOf
  <2>7. heldOf' = heldOf
    BY <2>3 DEF heldOf
  <2>8. Unix!Move(fd)
    BY <2>1, <2>2, <2>6, <2>7 DEF Unix!Move, cursorOf, heldOf
  <2> QED BY <2>8 DEF Unix!Next
<1> QED BY <1>1, <1>2, <1>3, <1>4, <1>5, <1>6, <1>7 DEF Step

(* GuestFileSpace and the calls on it implement a UNIX descriptor table.   *)
THEOREM Refinement == Spec => UnixFilesRefinement
<1>1. Init => Unix!Init
  BY InitRefines
<1>2. IInv /\ [Next]_vars => [Unix!Next]_Unix!vars
  <2> SUFFICES ASSUME IInv, [Next]_vars PROVE [Unix!Next]_Unix!vars
    OBVIOUS
  <2>1. CASE UNCHANGED vars
    BY <2>1 DEF vars, Unix!vars, Position
  <2>2. CASE Next
    BY <2>2, NextIsStep, NextOpeningOK, StepRefines DEF Unix!vars, cursorOf, heldOf, IInv, Owned
  <2> QED BY <2>1, <2>2
<1> QED BY <1>1, <1>2, Safe, PTL DEF Spec, UnixFilesRefinement, Unix!Spec
=============================================================================
