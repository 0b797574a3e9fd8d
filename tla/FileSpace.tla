------------------------------ MODULE FileSpace ------------------------------
(***************************************************************************)
(* GuestFileSpace (Files.cpp) and the system calls that change it          *)
(* (SyscallFiles.cpp).  A descriptor is an entry of a map; its description *)
(* is a shared_ptr, gone with the last entry that points to it, and closes *)
(* the host descriptor it owns when it goes.                               *)
(*                                                                         *)
(* Absent things are zero: descriptors[fd].file = 0 is a closed            *)
(* descriptor, files[d].host = 0 a description without a host descriptor.  *)
(* Host calls, and guest memory that cannot be read or written, fail when  *)
(* the environment chooses to.  An exception that leaves a handler ends    *)
(* the guest: "unsupported" and "exhausted" are the two.                   *)
(*                                                                         *)
(* Other processes of the host change its directories at any time: what    *)
(* stands at a path, and how many entries a directory has, is chosen anew  *)
(* whenever a handler has the host look.  A call is one step, except the   *)
(* open of a host path, which looks twice: handleOpen resolves the path    *)
(* and applies the policy to what it got, then has the host open it.       *)
(***************************************************************************)
EXTENDS Integers

CONSTANTS MaxDescriptors,   \* maximumGuestDescriptors
          Streams,          \* the standard streams of a process
          HostLimit,        \* how many host descriptors Rosa may have open for the guest
          Requests,         \* what the guest opens: records of path, flags and mode
          Sizes,            \* arguments of read and of the directory calls
          MaxPosition,      \* how long files and streams are
          SeekLimit,        \* bound on how far a seek goes, past the end too
          DirectorySizes,   \* how many entries a directory may have
          Offsets           \* arguments of lseek

ASSUME FileSpaceAssumption ==
    /\ MaxDescriptors \in Nat /\ HostLimit \in Nat
    /\ MaxPosition \in Nat /\ SeekLimit \in Nat
    /\ Streams \subseteq 0 .. MaxDescriptors - 1 /\ Streams \subseteq 0 .. HostLimit - 1
    /\ Offsets \subseteq Int /\ Sizes \subseteq Nat /\ DirectorySizes \subseteq Nat

VARIABLES descriptors, files,
          hosts,    \* the host's table: what an open host descriptor stands for, and where it is
          access,   \* GuestHostAccess
          opening,  \* the open that has been resolved and permitted, not yet opened
          result    \* of the last call: "ok", "errno", "pending" or an exception
vars == <<descriptors, files, hosts, access, opening, result>>
table == <<descriptors, files, hosts>>

Fds == 0 .. MaxDescriptors - 1
Ids == 1 .. MaxDescriptors
HostFds == 1 .. HostLimit

Kinds == {"none", "CurrentDirectory", "RootDirectory", "SyntheticDirectory",
          "HostReadOnlyFile", "StandardStream", "RandomDevice", "UnixDatagramSocket"}
\* What a host descriptor may stand for: the working directory, a file in it,
\* a file and a directory elsewhere, an inherited stream that is a terminal
\* or a pipe, and one that is redirected to a file.
Objects == {"none", "cwd", "file", "outside", "root", "stream", "redirected"}
Directories == {"cwd", "root"}

\* The guest's path ends in a file, in a link that leads out of the working
\* directory or in nothing, or a directory on the way to it, the working
\* directory included, has been replaced by a link that leads away.
Trees == {"file", "link", "nothing", "away"}
\* Canonical paths: what canonicalGuestPathFrom may return.
Paths == {"cwd", "entry", "outside", "root"}

Closed == [file |-> 0, cloexec |-> FALSE]
NoFile == [kind |-> "none", index |-> 0, host |-> 0]
\* `raced': other processes changed the tree between the resolution of the
\* path and its open.  The code does not know; the properties do.
NoHost == [object |-> "none", pos |-> 0, raced |-> FALSE]
\* A pending open: its canonical path and flags, and (known to the
\* properties only) the tree the path was resolved in.
NotOpening == [path |-> "none", flags |-> {}, tree |-> "nothing"]

-----------------------------------------------------------------------------
(* GuestFileSpace *)

IsOpen(fd) == descriptors[fd].file # 0
lookup(fd) == files[descriptors[fd].file]
hostBacked(f) == f.host # 0
HostOf(fd) == hosts[lookup(fd).host]
isHostDirectory(fd) == hostBacked(lookup(fd)) /\ HostOf(fd).object \in Directories

IsLowestFree(fd, minimum) ==
    /\ fd >= minimum /\ ~IsOpen(fd)
    /\ \A other \in Fds : other >= minimum /\ other < fd => IsOpen(other)
lowestFreeDescriptor(minimum) == {fd \in Fds : IsLowestFree(fd, minimum)}

\* The policy compares canonical paths and asks nothing of the host.
permitsHostPath(path) == access = "HostReadOnly" \/ path \in {"cwd", "entry"}

Exceptions == {"unsupported", "exhausted"}
\* Which errno a call reports is not told apart.
Outcome(r) == IF r \in Exceptions \union {"ok"} THEN r ELSE "errno"
CallEnds == opening' = NotOpening /\ UNCHANGED access
Fail(r) == result' = Outcome(r) /\ UNCHANGED table /\ CallEnds

NextDescription ==
    {d \in Ids : /\ files[d].kind = "none"
                 /\ \A other \in Ids : other < d => files[other].kind # "none"}

\* Mutant: the host descriptor stays open when no guest descriptor is left.
installLeaks(kind, h, object, raced, cloexec) ==
    IF lowestFreeDescriptor(0) = {} THEN /\ hosts' = IF h = 0 THEN hosts ELSE [hosts EXCEPT ![h] = [object |-> object, pos |-> 0, raced |-> raced]]
         /\ result' = "exhausted"
         /\ UNCHANGED <<descriptors, files>> /\ CallEnds
    ELSE \E fd \in lowestFreeDescriptor(0), d \in NextDescription :
            /\ descriptors' = [descriptors EXCEPT ![fd] = [file |-> d, cloexec |-> cloexec]]
            /\ files' = [files EXCEPT ![d] = [kind |-> kind, index |-> 0, host |-> h]]
            /\ hosts' = IF h = 0 THEN hosts
                        ELSE [hosts EXCEPT ![h] = [object |-> object, pos |-> 0, raced |-> raced]]
            /\ result' = "ok"
            /\ CallEnds

\* install of a new description that owns host descriptor h, which stands
\* for the object.  When no descriptor is left the exception destroys the
\* description, and with it closes h.  A description is known by where it is
\* allocated (the number it is given is never looked at).
install(kind, h, object, raced, cloexec) ==
    IF lowestFreeDescriptor(0) = {} THEN Fail("exhausted")
    ELSE \E fd \in lowestFreeDescriptor(0), d \in NextDescription :
            /\ descriptors' = [descriptors EXCEPT ![fd] = [file |-> d, cloexec |-> cloexec]]
            /\ files' = [files EXCEPT ![d] = [kind |-> kind, index |-> 0, host |-> h]]
            /\ hosts' = IF h = 0 THEN hosts
                        ELSE [hosts EXCEPT ![h] = [object |-> object, pos |-> 0, raced |-> raced]]
            /\ result' = "ok"
            /\ CallEnds

\* The kind is told by the path that was resolved, not by what was opened.
openHostFile(path, h, object, raced, cloexec) ==
    install(IF path = "cwd" THEN "CurrentDirectory" ELSE "HostReadOnlyFile", h, object, raced, cloexec)

duplicate(fd, minimum, cloexec) ==
    IF lowestFreeDescriptor(minimum) = {} THEN Fail("exhausted")
    ELSE \E new \in lowestFreeDescriptor(minimum) :
            /\ descriptors' = [descriptors EXCEPT ![new] = [file |-> descriptors[fd].file, cloexec |-> cloexec]]
            /\ result' = "ok"
            /\ UNCHANGED <<files, hosts>> /\ CallEnds

Shared(fd) == \E other \in Fds \ {fd} : descriptors[other].file = descriptors[fd].file

\* Mutant: the host descriptor is closed with the first entry that goes.
closeForAll(fd) ==
    /\ descriptors' = [descriptors EXCEPT ![fd] = Closed]
    /\ files' = IF Shared(fd) THEN files ELSE [files EXCEPT ![descriptors[fd].file] = NoFile]
    /\ hosts' = IF hostBacked(lookup(fd)) THEN [hosts EXCEPT ![lookup(fd).host] = NoHost] ELSE hosts
    /\ result' = "ok"
    /\ CallEnds

\* close: the description and its host descriptor go with the last entry.
close(fd) ==
    /\ descriptors' = [descriptors EXCEPT ![fd] = Closed]
    /\ IF Shared(fd) THEN UNCHANGED <<files, hosts>>
       ELSE /\ files' = [files EXCEPT ![descriptors[fd].file] = NoFile]
            /\ hosts' = IF hostBacked(lookup(fd)) THEN [hosts EXCEPT ![lookup(fd).host] = NoHost]
                        ELSE hosts
    /\ result' = "ok"
    /\ CallEnds

\* Mutant: close-on-exec belongs to the description.
setCloseOnExecShared(fd, enabled) ==
    /\ descriptors' = [other \in Fds |-> IF descriptors[other].file = descriptors[fd].file
                                         THEN [descriptors[other] EXCEPT !.cloexec = enabled]
                                         ELSE descriptors[other]]
    /\ result' = "ok"
    /\ UNCHANGED <<files, hosts>> /\ CallEnds

setCloseOnExec(fd, enabled) ==
    /\ descriptors' = [descriptors EXCEPT ![fd].cloexec = enabled]
    /\ result' = "ok"
    /\ UNCHANGED <<files, hosts>> /\ CallEnds

-----------------------------------------------------------------------------
(* Opening *)

\* A final component that is not followed is not looked at either: the
\* canonical path then is its parent's with the name put back.
canonicalGuestPathFrom(tree, path, followFinal) ==
    CASE path = "." -> IF tree = "away" THEN "root" ELSE "cwd"
      [] path = "entry" /\ tree = "away" -> "outside"
      [] path = "entry" /\ tree # "away" /\ followFinal ->
            IF tree = "nothing" THEN "none" ELSE IF tree = "link" THEN "outside" ELSE "entry"
      [] path = "entry" /\ tree # "away" /\ ~followFinal -> "entry"
      [] path = "/" -> "root"
      [] path \in {"urandom", "passwd"} -> "outside"
      [] OTHER -> "none"

hostedReadOnlyFlags == {"directory", "cloexec", "nonblock", "nofollow"}

\* open(2) of the host: what a canonical path leads to in the tree, with
\* the flags the host is given.
HostOpened(tree, path, flags) ==
    LET target == CASE path = "cwd" -> IF tree = "away" THEN "root" ELSE "cwd"
                    [] path = "entry" /\ tree = "file" -> "file"
                    [] path = "entry" /\ tree = "nothing" -> "none"
                    [] path = "entry" /\ tree = "away" -> "outside"
                    [] path = "entry" /\ tree = "link" -> IF "nofollow" \in flags THEN "none" ELSE "outside"
                    [] OTHER -> path
    IN  IF "directory" \in flags /\ target \notin Directories THEN "none" ELSE target
NextHost ==
    {h \in HostFds : /\ hosts[h].object = "none"
                     /\ \A other \in HostFds : other < h => hosts[other].object # "none"}

\* The first half of a hosted open: the flags, the path, the policy.
ResolveHosted(path, flags) ==
    IF ~(flags \subseteq hostedReadOnlyFlags) THEN Fail("unsupported")
    ELSE \E tree \in Trees :
            LET resolved == canonicalGuestPathFrom(tree, path, "nofollow" \notin flags)
            IN  IF resolved = "none" THEN Fail("ENOENT")
                ELSE IF ~permitsHostPath(resolved) THEN Fail("unsupported")
                ELSE /\ opening' = [path |-> resolved, flags |-> flags, tree |-> tree]
                     /\ result' = "pending"
                     /\ UNCHANGED <<table, access>>

\* Mutant: the host does not see O_NOFOLLOW.
OpenHostedFollows ==
    \/ Fail("host")
    \/ \E tree \in Trees, h \in NextHost :
          LET opened == HostOpened(tree, opening.path, opening.flags \ {"nofollow"})
          IN  /\ opened # "none"
              /\ openHostFile(opening.path, h, opened, tree # opening.tree, "cloexec" \in opening.flags)

\* The second half: the host opens what the path leads to by then, and the
\* description is installed.
OpenHosted ==
    \/ Fail("host")
    \/ \E tree \in Trees, h \in NextHost :
          LET opened == HostOpened(tree, opening.path, opening.flags)
          IN  /\ opened # "none"
              /\ openHostFile(opening.path, h, opened, tree # opening.tree, "cloexec" \in opening.flags)

handleOpen(path, flags, mode) ==
    \/ Fail("EFAULT")
    \/ Fail("ENAMETOOLONG")
    \/ IF path = "urandom" /\ mode = 0 /\ flags \subseteq {"cloexec"}
       THEN install("RandomDevice", 0, "none", FALSE, FALSE)
       ELSE IF path = "passwd" /\ flags = {} /\ mode = 0 THEN Fail("ENOENT")
       ELSE IF path = "features" /\ "write" \notin flags THEN Fail("ENOENT")
       ELSE IF path = "/" /\ flags = {"directory", "nofollowAny"} /\ mode = 0
       THEN install("RootDirectory", 0, "none", FALSE, FALSE)
       ELSE ResolveHosted(path, flags)

handleOpenat(fd, cryptex) ==
    IF ~IsOpen(fd) \/ lookup(fd).kind # "RootDirectory" THEN Fail("EBADF")
    ELSE \/ Fail("EFAULT")
         \/ Fail("ENAMETOOLONG")
         \/ IF cryptex THEN install("SyntheticDirectory", 0, "none", FALSE, FALSE)
            ELSE Fail("unsupported")

handleSocket(unixDatagram) ==
    IF unixDatagram THEN install("UnixDatagramSocket", 0, "none", FALSE, FALSE) ELSE Fail("unsupported")

-----------------------------------------------------------------------------
(* Descriptors *)

handleDup(fd) == IF IsOpen(fd) THEN duplicate(fd, 0, FALSE) ELSE Fail("EBADF")

handleClose(fd) == IF IsOpen(fd) THEN close(fd) ELSE Fail("EBADF")

\* F_DUPFD, F_DUPFD_CLOEXEC and F_SETFD; "query" is any other command: the
\* ones that are known answer, change nothing here and may fail.
handleFcntl(fd, command, minimum, cloexec) ==
    IF ~IsOpen(fd) THEN Fail("EBADF")
    ELSE IF command = "query" THEN \E r \in {"ok", "host", "unsupported"} : Fail(r)
    ELSE IF command = "set" THEN setCloseOnExec(fd, cloexec)
    ELSE IF minimum < 0 THEN Fail("EINVAL")
    ELSE duplicate(fd, minimum, cloexec)

-----------------------------------------------------------------------------
(* Positions *)

Least(a, b) == IF a < b THEN a ELSE b
\* What can be read at a position: a file and what a stream will deliver
\* have MaxPosition bytes.
Readable(position, count) == IF position < MaxPosition THEN Least(count, MaxPosition - position) ELSE 0

MoveHost(fd, position) ==
    /\ hosts' = [hosts EXCEPT ![lookup(fd).host].pos = position]
    /\ UNCHANGED <<descriptors, files>> /\ CallEnds
MoveIndex(fd, position) ==
    /\ files' = [files EXCEPT ![descriptors[fd].file].index = position]
    /\ UNCHANGED <<descriptors, hosts>> /\ CallEnds

\* Mutant: the buffer is found out to be bad when the bytes are copied to it.
handleReadCopiesLate(fd, count, faults) ==
    IF ~IsOpen(fd) THEN Fail("EBADF")
    ELSE IF ~hostBacked(lookup(fd)) \/ isHostDirectory(fd) THEN Fail("unsupported")
    ELSE /\ MoveHost(fd, HostOf(fd).pos + Readable(HostOf(fd).pos, count))
         /\ result' = IF faults THEN "errno" ELSE "ok"

\* The guest's buffer is validated before the host is asked to read.  More
\* than 256 bytes are not asked of the random device.
handleRead(fd, count, faults) ==
    \/ /\ IsOpen(fd) /\ lookup(fd).kind = "RandomDevice"
       /\ Fail("unsupported")
    \/ IF ~IsOpen(fd) THEN Fail("EBADF")
       ELSE IF lookup(fd).kind # "RandomDevice" /\ ~hostBacked(lookup(fd)) THEN Fail("unsupported")
       ELSE IF count = 0 THEN Fail("ok")
       ELSE IF faults THEN Fail("EFAULT")
       ELSE \/ Fail("host")
            \/ /\ ~hostBacked(lookup(fd))
               /\ Fail("ok")
            \/ /\ hostBacked(lookup(fd)) /\ ~isHostDirectory(fd)
               /\ MoveHost(fd, HostOf(fd).pos + Readable(HostOf(fd).pos, count))
               /\ result' = "ok"

\* lseek(2) of the host on what is not a directory: a terminal or a pipe
\* does not seek, anything else does, past its end too.
HostSeek(fd, offset, whence) ==
    LET base == CASE whence = "SET" -> 0 [] whence = "CUR" -> HostOf(fd).pos [] OTHER -> MaxPosition
    IN  IF HostOf(fd).object = "stream" \/ base + offset < 0 THEN Fail("host")
        ELSE /\ base + offset <= SeekLimit
             /\ MoveHost(fd, base + offset)
             /\ result' = "ok"

\* Mutant: the offset of a directory is not checked.
handleLseekAnywhere(fd, offset, whence) ==
    IF ~IsOpen(fd) THEN Fail("EBADF")
    ELSE IF ~hostBacked(lookup(fd)) THEN Fail("unsupported")
    ELSE IF ~isHostDirectory(fd) THEN HostSeek(fd, offset, whence)
    ELSE MoveIndex(fd, offset) /\ result' = "ok"

\* Directory positions are resume indexes of getdirentries64.
handleLseek(fd, offset, whence) ==
    IF ~IsOpen(fd) THEN Fail("EBADF")
    ELSE IF ~hostBacked(lookup(fd)) THEN Fail("unsupported")
    ELSE IF ~isHostDirectory(fd) THEN HostSeek(fd, offset, whence)
    ELSE IF whence = "SET" /\ offset >= 0 THEN MoveIndex(fd, offset) /\ result' = "ok"
    ELSE IF whence = "CUR" /\ offset = 0 THEN Fail("ok")
    ELSE Fail("EINVAL")

\* The directory is read again from its start, by path; `room' records fit
\* the buffer.  The index moves before the new position is copied out.
ResumeIndex(entries, start, room) ==
    IF entries < start THEN entries ELSE start + Least(room, entries - start)
handleGetdirentries64(fd, room, faults, positionFaults) ==
    IF ~IsOpen(fd) THEN Fail("EBADF")
    ELSE IF ~isHostDirectory(fd) THEN Fail("unsupported")
    ELSE IF faults THEN Fail("EFAULT")
    ELSE \/ Fail("host")
         \/ /\ \E entries \in DirectorySizes : MoveIndex(fd, ResumeIndex(entries, lookup(fd).index, room))
            /\ result' = IF positionFaults THEN "errno" ELSE "ok"

\* The host's own position in the directory moves before the buffer is
\* written.
handleGetattrlistbulk(fd, room, attributesFault, faults) ==
    IF ~IsOpen(fd) THEN Fail("EBADF")
    ELSE IF ~hostBacked(lookup(fd)) THEN Fail("unsupported")
    ELSE IF attributesFault THEN Fail("EFAULT")
    ELSE \/ Fail("host")
         \/ /\ isHostDirectory(fd)
            /\ \E entries \in DirectorySizes : MoveHost(fd, ResumeIndex(entries, HostOf(fd).pos, room))
            /\ result' = IF faults /\ hosts' # hosts THEN "errno" ELSE "ok"

-----------------------------------------------------------------------------
(* inheritStandardStreams installs the streams Rosa was given *)

Init ==
    /\ \E given \in SUBSET Streams, stream \in [Streams -> {"stream", "redirected"}] :
          /\ descriptors = [fd \in Fds |-> IF fd \in given THEN [file |-> fd + 1, cloexec |-> FALSE] ELSE Closed]
          /\ files = [d \in Ids |-> IF d - 1 \in given
                                    THEN [kind |-> "StandardStream", index |-> 0, host |-> d] ELSE NoFile]
          /\ hosts = [h \in HostFds |-> IF h - 1 \in given
                                       THEN [object |-> stream[h - 1], pos |-> 0, raced |-> FALSE] ELSE NoHost]
    /\ access \in {"Controlled", "HostReadOnly"}
    /\ opening = NotOpening
    /\ result = "ok"

Call ==
    \/ \E r \in Requests : handleOpen(r.path, r.flags, r.mode)
    \/ \E known \in BOOLEAN : handleSocket(known)
    \/ \E fd \in Fds :
          \/ \E cryptex \in BOOLEAN : handleOpenat(fd, cryptex)
          \/ handleDup(fd)
          \/ handleClose(fd)
          \/ \E minimum \in -1 .. MaxDescriptors, cloexec \in BOOLEAN : handleFcntl(fd, "dup", minimum, cloexec)
          \/ \E command \in {"set", "query"}, cloexec \in BOOLEAN : handleFcntl(fd, command, 0, cloexec)
          \/ \E count \in Sizes, faults \in BOOLEAN : handleRead(fd, count, faults)
          \/ \E offset \in Offsets, whence \in {"SET", "CUR", "END"} : handleLseek(fd, offset, whence)
          \/ \E room \in Sizes, f1, f2 \in BOOLEAN : handleGetdirentries64(fd, room, f1, f2)
          \/ \E room \in Sizes, f1, f2 \in BOOLEAN : handleGetattrlistbulk(fd, room, f1, f2)

Running == result \notin Exceptions
Next ==
    /\ Running
    /\ \/ opening = NotOpening /\ Call
       \/ opening # NotOpening /\ OpenHosted

Spec == Init /\ [][Next]_vars
=============================================================================
