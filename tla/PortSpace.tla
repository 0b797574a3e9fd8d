------------------------------ MODULE PortSpace ------------------------------
(***************************************************************************)
(* darwin::GuestPortSpace and the traps of darwin::MachDispatcher that act *)
(* on it: the guest's Mach port names and rights.                          *)
(*                                                                         *)
(* Names are numbered in allocation order (the stride between synthetic    *)
(* names is one), so the order of candidate names and their exhaustion are *)
(* those of the source.  Contexts, guards, queue limits and option flags   *)
(* do not influence any decision and are left out; a message is the        *)
(* request it decodes to.  The guest pointers of a trap are readable or    *)
(* writable or not.                                                        *)
(***************************************************************************)
EXTENDS Integers, FiniteSets

CONSTANTS
    NameLimit,    \* the largest value nextSyntheticName_ can take
    MaxUrefs,     \* machPortUrefsMaximum
    Deltas,       \* reference deltas asked of mach_port_mod_refs
    Traps,        \* families of traps the guest uses
    MaxVouchers,  \* bound on the vouchers a guest creates
    NoPort        \* a name that is not in ports_

MACH_PORT_NULL == 0
taskSelfName == 1
Name == taskSelfName .. NameLimit - 1
AnyName == MACH_PORT_NULL .. NameLimit   \* NameLimit stands for MACH_PORT_DEAD

\* The objects whose send rights are copied out under one stable name.
Service == {"Host", "Thread", "Bootstrap", "Clock"}
PortType == Service \cup {"Ordinary", "Reply", "Semaphore", "PortSet", "Timer"}
Port == [type : PortType, receive : BOOLEAN, send : 0 .. MaxUrefs,
         sendOnce : 0 .. MaxUrefs, members : SUBSET Name]

ASSUME LimitAssumption ==
    /\ NameLimit \in Nat /\ NameLimit >= 2
    /\ MaxUrefs \in Nat \ {0}
    /\ Deltas \subseteq Int
    /\ MaxVouchers \in Nat

ASSUME NoPortAssumption == NoPort \notin Port

VARIABLES
    portSpace,            \* MachDispatcher::portSpace_
    specialReplyPort,     \* specialReplyPort_
    taskDebugControlPort, \* taskDebugControlPort_
    vouchers,             \* vouchers_
    nextVoucher,          \* nextVoucher_
    result,               \* rax of the last trap, and the name it reports
    issued                \* history: names that were reported to the guest

otherVars == <<specialReplyPort, taskDebugControlPort, vouchers, nextVoucher>>
vars == <<portSpace, otherVars, result, issued>>

-----------------------------------------------------------------------------
(* GuestPortSpace.  An operation takes the port space and gives the next.  *)

lookup(s, n) == n \in Name /\ s.ports[n] # NoPort
ownsReceiveRight(s, n) == lookup(s, n) /\ s.ports[n].receive

NewPort(type, receive, send) ==
    [type |-> type, receive |-> receive, send |-> send, sendOnce |-> 0, members |-> {}]
ReceiveRight(type) == NewPort(type, TRUE, 0)
SendRight(type) == NewPort(type, FALSE, 1)
AddSend(port, delta) == [port EXCEPT !.send = @ + delta]
AddMember(port, n) == [port EXCEPT !.members = @ \cup {n}]

\* The names the search of allocatePort goes through before it gives up.
Candidates(s) == {c \in s.next .. NameLimit - 1 : ~lookup(s, c)}
CanAllocate(s) == Candidates(s) # {}
candidate(s) == CHOOSE c \in Candidates(s) : \A d \in Candidates(s) : c <= d

\* Mutant: the search starts again at the same name.
allocatePortFromSame(s, attributes) ==
    [s EXCEPT !.ports[candidate(s)] = attributes, !.next = candidate(s)]

allocatePort(s, attributes) ==
    [s EXCEPT !.ports[candidate(s)] = attributes, !.next = candidate(s) + 1]

\* The stable names after the port n is erased.
Forget(s, n) ==
    [k \in Service |->
       IF \/ k # "Clock" /\ s.service[k] = n
          \/ k = "Clock" /\ s.ports[n].type = "Clock"
       THEN MACH_PORT_NULL ELSE s.service[k]]

Erase(s, n) ==
    [ports |-> [s.ports EXCEPT ![n] = NoPort], next |-> s.next, service |-> Forget(s, n)]

\* Mutant: the port is erased but its name stays used up.
rollbackKeepsName(s, n) ==
    IF ~lookup(s, n) \/ n = taskSelfName THEN s
    ELSE Erase(s, n)

rollbackLastAllocation(s, n) ==
    IF ~lookup(s, n) \/ n = taskSelfName THEN s
    ELSE [Erase(s, n) EXCEPT !.next = IF n + 1 = s.next THEN n ELSE s.next]

\* Mutant: a right without references is as good as any.
CanCopyoutUnreferenced(s, k) ==
    LET n == s.service[k]
    IN  IF n = MACH_PORT_NULL THEN CanAllocate(s)
        ELSE lookup(s, n) /\ s.ports[n].type = k /\ s.ports[n].send # MaxUrefs

\* copyoutHostSendRight, copyoutThreadSendRight, copyoutBootstrapSendRight and
\* copyoutClockSendRight: one more reference to the object, or a new name.
CanCopyout(s, k) ==
    LET n == s.service[k]
    IN  IF n = MACH_PORT_NULL THEN CanAllocate(s)
        ELSE /\ lookup(s, n) /\ s.ports[n].type = k
             /\ s.ports[n].send \notin {0, MaxUrefs}
CopyoutName(s, k) ==
    IF s.service[k] = MACH_PORT_NULL THEN candidate(s) ELSE s.service[k]
copyoutSendRight(s, k) ==
    IF s.service[k] = MACH_PORT_NULL
    THEN [allocatePort(s, SendRight(k)) EXCEPT !.service[k] = candidate(s)]
    ELSE [s EXCEPT !.ports[s.service[k]] = AddSend(@, 1)]

\* deallocateUref of a name that is in ports_ and has a send or send-once
\* right: drop one reference, and the port when it was the last right.
HasUref(s, n) == s.ports[n].send # 0 \/ s.ports[n].sendOnce # 0
Dropped(port) ==
    IF port.send # 0 THEN [port EXCEPT !.send = @ - 1]
                     ELSE [port EXCEPT !.sendOnce = @ - 1]
IsDead(n, port) ==
    n # taskSelfName /\ ~port.receive /\ port.send = 0 /\ port.sendOnce = 0

\* Mutants: a receive right does not keep the port; the stable names are kept.
deallocateReceiveToo(s, n) ==
    LET port == Dropped(s.ports[n])
    IN  IF n # taskSelfName /\ port.send = 0 /\ port.sendOnce = 0
        THEN Erase(s, n)
        ELSE [s EXCEPT !.ports[n] = port]
deallocateKeepsService(s, n) ==
    LET port == Dropped(s.ports[n])
    IN  [s EXCEPT !.ports[n] = IF IsDead(n, port) THEN NoPort ELSE port]

deallocateUref(s, n) ==
    LET port == Dropped(s.ports[n])
    IN  IF IsDead(n, port)
        THEN Erase(s, n)
        ELSE [s EXCEPT !.ports[n] = port]

-----------------------------------------------------------------------------
(* How a trap ends.                                                        *)

Init ==
    /\ portSpace = [ports |-> [n \in Name |-> IF n = taskSelfName
                                              THEN NewPort("Ordinary", FALSE, 0) ELSE NoPort],
                    next |-> taskSelfName + 1,
                    service |-> [k \in Service |-> MACH_PORT_NULL]]
    /\ specialReplyPort = MACH_PORT_NULL
    /\ taskDebugControlPort = MACH_PORT_NULL
    /\ vouchers = {}
    /\ nextVoucher = 1
    /\ result = [status |-> "none", name |-> MACH_PORT_NULL]
    /\ issued = {}

Answer(status) == result' = [status |-> status, name |-> MACH_PORT_NULL] /\ UNCHANGED issued

\* The name reaches the guest, in rax, in its memory or in a reply message.
Report(n) ==
    /\ result' = [status |-> "success", name |-> n]
    /\ issued' = issued \cup {n}

\* An error code, or MACH_PORT_NULL, and nothing else.
Refuse(status) == Answer(status) /\ UNCHANGED <<portSpace, otherVars>>

\* The trap throws "unsupported": the guest does not run on.
Unsupported == Refuse("unsupported")
Running == result.status # "unsupported"

\* A new port whose name is reported without copying it to guest memory.
Allocate(attributes) ==
    /\ CanAllocate(portSpace)
    /\ portSpace' = allocatePort(portSpace, attributes)
    /\ Report(candidate(portSpace))

\* The same where the name is copied out to guest memory afterwards.
AllocateAndCopyOut(attributes, writable) ==
    \/ ~CanAllocate(portSpace) /\ Refuse("noSpace")
    \/ writable /\ Allocate(attributes) /\ UNCHANGED otherVars
    \/ /\ ~writable /\ CanAllocate(portSpace)
       /\ portSpace' = rollbackLastAllocation(allocatePort(portSpace, attributes),
                                              candidate(portSpace))
       /\ Answer("invalidAddress")
       /\ UNCHANGED otherVars

\* The traps that name a task accept only the task's own name.
OnSelf(target, Trap) ==
    /\ Running
    /\ \/ target # taskSelfName /\ Refuse("invalidDestination")
       \/ target = taskSelfName /\ Trap

-----------------------------------------------------------------------------
(* The traps.                                                              *)

\* Trap 16.
mach_port_allocate(target, right, writable) ==
    OnSelf(target,
        \/ right \notin {"receive", "portSet"} /\ Refuse("invalidValue")
        \/ /\ right = "receive"
           /\ AllocateAndCopyOut(ReceiveRight("Ordinary"), writable)
        \/ /\ right = "portSet"
           /\ AllocateAndCopyOut(ReceiveRight("PortSet"), writable))

\* Trap 18.
mach_port_deallocate(target, n) ==
    OnSelf(target,
        \/ n \in {MACH_PORT_NULL, NameLimit} /\ Refuse("success")
        \/ n \in Name /\ ~lookup(portSpace, n) /\ Refuse("invalidName")
        \/ lookup(portSpace, n) /\ ~HasUref(portSpace, n) /\ Refuse("invalidRight")
        \/ /\ lookup(portSpace, n) /\ HasUref(portSpace, n)
           /\ portSpace' = deallocateUref(portSpace, n)
           /\ Answer("success")
           /\ UNCHANGED otherVars)

\* Mutant: the limit is checked before the delta is added.
modRefsChecksOld(target, n, right, delta) ==
    OnSelf(target,
        /\ right = "send" /\ lookup(portSpace, n)
        /\ portSpace.ports[n].send \in 1 .. MaxUrefs
        /\ portSpace.ports[n].send + delta >= 0
        /\ portSpace' = [portSpace EXCEPT !.ports[n] = AddSend(@, delta)]
        /\ Answer("success")
        /\ UNCHANGED otherVars)

\* Trap 19.  A count that reaches zero leaves the port in the port space.
mach_port_mod_refs(target, n, right, delta) ==
    OnSelf(target,
        IF right = "invalid" THEN Refuse("invalidValue")
        ELSE IF ~lookup(portSpace, n) \/ portSpace.ports[n].send = 0
        THEN Refuse("invalidName")
        ELSE IF right # "send" THEN Refuse("invalidRight")
        ELSE LET updated == portSpace.ports[n].send + delta
             IN  \/ updated < 0 /\ Refuse("invalidValue")
                 \/ updated > MaxUrefs /\ Refuse("urefsOverflow")
                 \/ /\ updated \in 0 .. MaxUrefs
                    /\ portSpace' = [portSpace EXCEPT !.ports[n] = AddSend(@, delta)]
                    /\ Answer("success")
                    /\ UNCHANGED otherVars)

\* Trap 22.
mach_port_insert_member(target, member, set) ==
    OnSelf(target,
        IF ~lookup(portSpace, member) \/ ~lookup(portSpace, set)
        THEN Refuse("invalidName")
        ELSE IF \/ portSpace.ports[set].type # "PortSet"
                \/ ~portSpace.ports[member].receive
                \/ portSpace.ports[member].type = "PortSet"
        THEN Refuse("invalidRight")
        ELSE /\ portSpace' = [portSpace EXCEPT !.ports[set] = AddMember(@, member)]
             /\ Answer("success")
             /\ UNCHANGED otherVars)

\* Trap 24.  Of the option flags, "reply" and "send" shape the port, "plain"
\* stands for the other modelled ones and "policy" for those that are not.
mach_port_construct(target, readable, flags, writable) ==
    OnSelf(target,
        \/ ~readable /\ Refuse("invalidAddress")
        \/ /\ readable
           /\ "policy" \in flags \/ ("reply" \in flags /\ flags # {"reply"})
           /\ Unsupported
        \/ /\ readable
           /\ "policy" \notin flags /\ ("reply" \in flags => flags = {"reply"})
           /\ \/ ~writable /\ Refuse("invalidAddress")
              \/ /\ writable
                 /\ AllocateAndCopyOut(
                      NewPort(IF "reply" \in flags THEN "Reply" ELSE "Ordinary",
                              TRUE, IF "send" \in flags THEN 1 ELSE 0),
                      TRUE))

\* Trap 26, and trap 91 with another type and error.
AllocateReported(type, failure) ==
    /\ Running
    /\ \/ ~CanAllocate(portSpace) /\ Refuse(failure)
       \/ Allocate(ReceiveRight(type)) /\ UNCHANGED otherVars
mach_reply_port == AllocateReported("Reply", "null")
mk_timer_create == AllocateReported("Timer", "noSpace")

\* Traps 27 and 29.
CopyoutReported(k) ==
    /\ CanCopyout(portSpace, k)
    /\ portSpace' = copyoutSendRight(portSpace, k)
    /\ Report(CopyoutName(portSpace, k))
    /\ UNCHANGED otherVars
thread_self == Running /\ (CopyoutReported("Thread") \/ (~CanCopyout(portSpace, "Thread") /\ Refuse("null")))
host_self == Running /\ (CopyoutReported("Host") \/ (~CanCopyout(portSpace, "Host") /\ Refuse("null")))

\* Trap 28.
task_self ==
    /\ Running
    /\ \/ portSpace.ports[taskSelfName].send = MaxUrefs /\ Refuse("null")
       \/ /\ portSpace.ports[taskSelfName].send # MaxUrefs
          /\ portSpace' = [portSpace EXCEPT !.ports[taskSelfName] = AddSend(@, 1)]
          /\ Report(taskSelfName)
          /\ UNCHANGED otherVars

\* Trap 50.
thread_get_special_reply_port ==
    /\ Running
    /\ \/ /\ specialReplyPort # MACH_PORT_NULL
          /\ Report(specialReplyPort)
          /\ UNCHANGED <<portSpace, otherVars>>
       \/ /\ specialReplyPort = MACH_PORT_NULL
          /\ \/ ~CanAllocate(portSpace) /\ Refuse("null")
             \/ /\ Allocate(ReceiveRight("Reply"))
                /\ specialReplyPort' = candidate(portSpace)
                /\ UNCHANGED <<taskDebugControlPort, vouchers, nextVoucher>>

IsHost(n) ==
    lookup(portSpace, n) /\ portSpace.ports[n].type = "Host" /\ portSpace.ports[n].send # 0
IsTask(n) == n = taskSelfName /\ portSpace.ports[n].send # 0
IsReplyPort(n) == ownsReceiveRight(portSpace, n) /\ portSpace.ports[n].type = "Reply"

\* Trap 70.
host_create_mach_voucher(n, readable, writable) ==
    /\ Running
    /\ \/ ~IsHost(n) /\ Refuse("invalidArgument")
       \/ IsHost(n) /\ ~(readable /\ writable) /\ Refuse("invalidAddress")
       \/ /\ IsHost(n) /\ readable /\ writable
          /\ nextVoucher <= MaxVouchers
          /\ vouchers' = vouchers \cup {nextVoucher}
          /\ nextVoucher' = nextVoucher + 1
          /\ Answer("success")
          /\ UNCHANGED <<portSpace, specialReplyPort, taskDebugControlPort>>

\* Trap 47 without MACH_SEND_MSG: no queue ever holds a message.
mach_msg2_receive(n) ==
    /\ Running
    /\ Refuse(IF ownsReceiveRight(portSpace, n) THEN "timedOut" ELSE "invalidName")

\* The requests of trap 47: information about the host or the task, which
\* changes no right, and those that create a right or name a port.
HostRequests == {"host_info", "host_get_clock_service", "host_get_special_port"}
TaskRequests == {"task_info", "task_get_special_port", "task_set_special_port",
                 "semaphore_create"}

\* decodeObserved...Request: the ports a request must name.
HasSend(n) == lookup(portSpace, n) /\ portSpace.ports[n].send # 0
Observed(request, remote, local, special) ==
    /\ IsReplyPort(local)
    /\ request \in HostRequests => IsHost(remote)
    /\ request \in TaskRequests => IsTask(remote)
    /\ request = "task_set_special_port" => HasSend(special)

CopyoutOrThrow(k) == CopyoutReported(k) \/ (~CanCopyout(portSpace, k) /\ Unsupported)

\* What a request does once its reply buffer is known to be writable.
Serve(request, special) ==
    \/ request \in {"host_info", "task_info"} /\ Refuse("success")
    \/ request = "host_get_clock_service" /\ CopyoutOrThrow("Clock")
    \/ request = "host_get_special_port" /\ CopyoutOrThrow("Host")
    \/ request = "task_get_special_port" /\ CopyoutOrThrow("Bootstrap")
    \/ /\ request = "task_set_special_port"
       /\ taskDebugControlPort' = special
       /\ Answer("success")
       /\ UNCHANGED <<portSpace, specialReplyPort, vouchers, nextVoucher>>
    \/ /\ request = "semaphore_create"
       /\ \/ ~CanAllocate(portSpace) /\ Unsupported
          \/ Allocate(SendRight("Semaphore")) /\ UNCHANGED otherVars

\* Trap 47 with MACH_SEND_MSG.  The guest can access its message buffer not
\* at all, only to read the request, or to receive the reply as well.
mach_msg2_send(request, remote, local, special, buffer) ==
    LET toBootstrap == lookup(portSpace, remote) /\ portSpace.ports[remote].type = "Bootstrap"
        served == Observed(request, remote, local, special) /\ buffer = "writable"
    IN  /\ Running
        /\ \/ buffer = "invalid" /\ Unsupported
           \/ buffer # "invalid" /\ toBootstrap /\ Refuse("invalidDestination")
           \/ buffer # "invalid" /\ ~toBootstrap /\ ~served /\ Unsupported
           \/ buffer # "invalid" /\ ~toBootstrap /\ served /\ Serve(request, special)

-----------------------------------------------------------------------------
Targets == {taskSelfName, MACH_PORT_NULL}
\* A trap on another task is refused whatever name it is given.
NamesIn(target) == IF target = taskSelfName THEN AnyName ELSE {taskSelfName}

RightTraps ==
    /\ "rights" \in Traps
    /\ \E target \in Targets :
        \/ \E right \in {"send", "receive"}, w \in BOOLEAN :
              mach_port_allocate(target, right, w)
        \/ \E r, w \in BOOLEAN, flags \in {{"reply"}, {"send", "plain"}, {"reply", "send"},
                                         {"policy"}} :
              mach_port_construct(target, r, flags, w)

UrefTraps ==
    \E target \in Targets : \E n \in NamesIn(target) :
        \/ "deallocate" \in Traps /\ mach_port_deallocate(target, n)
        \/ /\ "mod_refs" \in Traps
           /\ \E right \in {"send", "receive", "invalid"}, d \in Deltas :
                mach_port_mod_refs(target, n, right, d)

SetTraps ==
    /\ "sets" \in Traps
    /\ \/ \E w \in BOOLEAN : mach_port_allocate(taskSelfName, "portSet", w)
       \/ \E target \in Targets :
            \E m, s \in NamesIn(target) : mach_port_insert_member(target, m, s)

ReplyTraps ==
    \/ "reply" \in Traps /\ (mach_reply_port \/ thread_get_special_reply_port)
    \/ "timer" \in Traps /\ mk_timer_create

SelfTraps == "self" \in Traps /\ (thread_self \/ host_self \/ task_self)

VoucherTraps ==
    /\ "voucher" \in Traps
    /\ \E n \in AnyName, r, w \in BOOLEAN : host_create_mach_voucher(n, r, w)

\* A port is named in a descriptor of one request only, and a message whose
\* reply cannot be written is refused whatever it asks for.
MessageTraps ==
    /\ "message" \in Traps
    /\ \/ \E n \in AnyName : mach_msg2_receive(n)
       \/ \E remote \in Name, buffer \in {"invalid", "readable"} :
            mach_msg2_send("host_info", remote, taskSelfName, MACH_PORT_NULL, buffer)
       \/ \E request \in HostRequests \cup TaskRequests, remote, local \in Name :
            \E special \in IF request = "task_set_special_port" THEN AnyName
                           ELSE {MACH_PORT_NULL} :
                mach_msg2_send(request, remote, local, special, "writable")

Next == \/ RightTraps \/ UrefTraps \/ SetTraps \/ ReplyTraps
        \/ SelfTraps \/ VoucherTraps \/ MessageTraps

Spec == Init /\ [][Next]_vars

-----------------------------------------------------------------------------
(* Properties.                                                             *)

\* Types of the port space and of what the dispatcher remembers; the user
\* references of a right stay within machPortUrefsMaximum, whatever mixture of
\* copyouts and mod_refs produced them.
TypeOK ==
    /\ portSpace \in [ports : [Name -> Port \cup {NoPort}],
                      next : taskSelfName + 1 .. NameLimit,
                      service : [Service -> Name \cup {MACH_PORT_NULL}]]
    /\ specialReplyPort \in Name \cup {MACH_PORT_NULL}
    /\ taskDebugControlPort \in AnyName
    /\ vouchers \subseteq 1 .. nextVoucher - 1
    /\ nextVoucher \in Nat \ {0}
    /\ issued \subseteq Name

\* A name that was reported to the guest and has lost its last right never
\* names another port: a stale name a guest library keeps is an error, not
\* somebody else's right (allocatePort, deallocateUref, rollbackLastAllocation).
NamesNeverReused ==
    [][\A n \in issued : ~lookup(portSpace, n) => ~lookup(portSpace, n)']_vars

\* hostSelfName_, threadSelfName_, bootstrapName_ and clockServiceNames_ name a
\* port of their kind, and there is no second one: every copyout hands out the
\* same object, as thread_self_trap promises.
ServiceIsUnique ==
    \A k \in Service :
        /\ portSpace.service[k] # MACH_PORT_NULL => lookup(portSpace, portSpace.service[k])
        /\ \A n \in Name : lookup(portSpace, n) =>
              (portSpace.ports[n].type = k <=> portSpace.service[k] = n)

\* What a port set lists, and the thread's special reply port, are receive
\* rights the task still owns: deallocateUref erases no port behind their back.
ReceiversAreOwned ==
    /\ specialReplyPort # MACH_PORT_NULL => ownsReceiveRight(portSpace, specialReplyPort)
    /\ \A set \in Name : lookup(portSpace, set) =>
          \A m \in portSpace.ports[set].members :
              /\ portSpace.ports[set].type = "PortSet"
              /\ ownsReceiveRight(portSpace, m)
              /\ portSpace.ports[m].type # "PortSet"

\* A trap that reports an error leaves the port space as it found it: also
\* when the copyout of the new name faults after the port was allocated, so
\* that the next name is the one the failed call would have reported.
FailureLeavesNothing ==
    [][result'.status # "success" => UNCHANGED <<portSpace, otherVars>>]_vars
=============================================================================
