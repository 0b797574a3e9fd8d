--------------------------- MODULE PortSpaceProofs ---------------------------
(***************************************************************************)
(* Proofs about PortSpace for every number of names and references.        *)
(*                                                                         *)
(* IInv is inductive.  It adds to the properties that every name in use is *)
(* below nextSyntheticName_, so that the search of allocatePort ends where *)
(* it starts, and that every port but the task's was reported to the       *)
(* guest.  A trap has one of five effects on the port space                *)
(* (EffectOfStep); the invariant, the reuse of names and the refinement    *)
(* are proved from the effects.                                            *)
(***************************************************************************)
EXTENDS PortSpaceRefinement, TLAPS

SpaceType == [ports : [Name -> Port \cup {NoPort}],
              next : taskSelfName + 1 .. NameLimit,
              service : [Service -> Name \cup {MACH_PORT_NULL}]]

NamesBelowNext(s) == \A n \in Name : lookup(s, n) => n < s.next
SelfStays(s) ==
    /\ s.ports[taskSelfName] # NoPort
    /\ s.ports[taskSelfName].type = "Ordinary"
    /\ ~s.ports[taskSelfName].receive
ServicesLive(s) ==
    \A k \in Service : s.service[k] # MACH_PORT_NULL => lookup(s, s.service[k])
ServicesUnique(s) ==
    \A k \in Service, n \in Name : lookup(s, n) =>
        (s.ports[n].type = k <=> s.service[k] = n)
MembersOwned(s) ==
    \A set \in Name : lookup(s, set) =>
        \A m \in s.ports[set].members :
            /\ s.ports[set].type = "PortSet"
            /\ ownsReceiveRight(s, m)
            /\ s.ports[m].type # "PortSet"

GoodSpace(s) ==
    /\ s \in SpaceType
    /\ NamesBelowNext(s)
    /\ SelfStays(s)
    /\ ServicesLive(s)
    /\ ServicesUnique(s)
    /\ MembersOwned(s)

SpecialOwned ==
    specialReplyPort # MACH_PORT_NULL => ownsReceiveRight(portSpace, specialReplyPort)
OtherTypes ==
    /\ specialReplyPort \in Name \cup {MACH_PORT_NULL}
    /\ taskDebugControlPort \in AnyName
    /\ vouchers \subseteq 1 .. nextVoucher - 1
    /\ nextVoucher \in Nat \ {0}
IssuedNames ==
    /\ issued \subseteq Name
    /\ \A n \in issued : n < portSpace.next
    /\ \A n \in Name : lookup(portSpace, n) /\ n # taskSelfName => n \in issued
    /\ portSpace.ports[taskSelfName].send # 0 => taskSelfName \in issued

IInv == GoodSpace(portSpace) /\ SpecialOwned /\ OtherTypes /\ IssuedNames

\* The ports that the traps allocate directly.
Attributes == {a \in Port : a.type \notin Service /\ a.members = {}}

-----------------------------------------------------------------------------
(* The operations of the port space.                                       *)

\* The candidate of allocatePort is nextSyntheticName_ itself.
LEMMA CandidateIsNext ==
    ASSUME NEW s, GoodSpace(s), CanAllocate(s)
    PROVE  /\ candidate(s) = s.next
           /\ s.next \in Name
           /\ s.next + 1 \in taskSelfName + 1 .. NameLimit
           /\ s.ports[s.next] = NoPort
           /\ s.next # taskSelfName
<1>1. PICK c \in s.next .. NameLimit - 1 : ~lookup(s, c)
  BY DEF CanAllocate, Candidates
<1>2. s.next \in taskSelfName + 1 .. NameLimit /\ NameLimit \in Nat
  BY LimitAssumption DEF GoodSpace, SpaceType
<1>3. s.next \in Name /\ s.next < NameLimit
  BY <1>1, <1>2 DEF Name, taskSelfName
<1>4. ~lookup(s, s.next)
  BY <1>2, <1>3 DEF GoodSpace, NamesBelowNext, taskSelfName
<1>5. s.next \in Candidates(s) /\ \A d \in Candidates(s) : s.next <= d
  BY <1>2, <1>3, <1>4 DEF Candidates, taskSelfName
<1>6. \A d \in Candidates(s) : d \in Int
  BY <1>2 DEF Candidates, taskSelfName
<1>7. candidate(s) = s.next
  BY <1>5, <1>6 DEF candidate
<1> QED
  BY <1>2, <1>3, <1>4, <1>7 DEF lookup, taskSelfName

\* An update of one entry of ports_ stays in the type, field by field.
LEMMA SpaceUpdate ==
    ASSUME NEW s \in SpaceType, NEW n \in Name, NEW p \in Port \cup {NoPort},
           NEW next \in taskSelfName + 1 .. NameLimit,
           NEW service \in [Service -> Name \cup {MACH_PORT_NULL}]
    PROVE  /\ [ports |-> [s.ports EXCEPT ![n] = p], next |-> next, service |-> service]
                 \in SpaceType
           /\ \A m \in Name : [s.ports EXCEPT ![n] = p][m] = IF m = n THEN p ELSE s.ports[m]
           /\ s = [ports |-> s.ports, next |-> s.next, service |-> s.service]
  BY DEF SpaceType

\* The ports that are allocated.
LEMMA NewPorts ==
    ASSUME NEW type \in PortType, NEW receive \in BOOLEAN, NEW send \in {0, 1}
    PROVE  NewPort(type, receive, send) \in Port
  BY LimitAssumption DEF Port, NewPort

\* allocatePort keeps the port space good.
LEMMA AllocateGood ==
    ASSUME NEW s, GoodSpace(s), CanAllocate(s), NEW a \in Attributes
    PROVE  GoodSpace(allocatePort(s, a))
<1> DEFINE t == allocatePort(s, a)
<1> USE NoPortAssumption, LimitAssumption
<1>1. /\ t = [s EXCEPT !.ports[s.next] = a, !.next = s.next + 1]
      /\ s.next \in Name
      /\ s.next + 1 \in taskSelfName + 1 .. NameLimit
      /\ s.ports[s.next] = NoPort
      /\ s.next # taskSelfName
  BY CandidateIsNext DEF allocatePort
<1>2. /\ s \in SpaceType /\ a \in Port /\ a # NoPort
      /\ a.type \notin Service /\ a.members = {}
  BY DEF GoodSpace, Attributes
<1>3. /\ t.ports = [s.ports EXCEPT ![s.next] = a]
      /\ t.next = s.next + 1
      /\ t.service = s.service
      /\ t \in SpaceType
  <2>1. t = [ports |-> [s.ports EXCEPT ![s.next] = a], next |-> s.next + 1,
             service |-> s.service]
    BY <1>1, <1>2 DEF SpaceType
  <2> HIDE DEF t
  <2>2. s.service \in [Service -> Name \cup {MACH_PORT_NULL}]
    BY <1>2 DEF SpaceType
  <2>3. [ports |-> [s.ports EXCEPT ![s.next] = a], next |-> s.next + 1,
             service |-> s.service] \in SpaceType
    BY <1>1, <1>2, <2>2, SpaceUpdate
  <2> QED
    BY <2>1, <2>3
<1>4. \A n \in Name : t.ports[n] = IF n = s.next THEN a ELSE s.ports[n]
  BY <1>2, <1>3 DEF SpaceType
<1>5. \A n : lookup(t, n) <=> lookup(s, n) \/ n = s.next
  BY <1>1, <1>2, <1>4 DEF lookup
<1>6. NamesBelowNext(t)
  BY <1>2, <1>3, <1>5 DEF NamesBelowNext, GoodSpace, Name, SpaceType, taskSelfName
<1>7. SelfStays(t)
  BY <1>1, <1>4 DEF SelfStays, GoodSpace, Name, taskSelfName
<1>8. ServicesLive(t)
  BY <1>3, <1>5 DEF ServicesLive, GoodSpace
<1>9. \A k \in Service : s.service[k] # s.next
  BY <1>1 DEF ServicesLive, GoodSpace, lookup, Name, MACH_PORT_NULL, taskSelfName
<1>10. ServicesUnique(t)
  BY <1>2, <1>3, <1>4, <1>5, <1>9 DEF ServicesUnique, GoodSpace
<1>11. MembersOwned(t)
  <2> SUFFICES ASSUME NEW set \in Name, lookup(t, set), NEW m \in t.ports[set].members
               PROVE  /\ t.ports[set].type = "PortSet"
                      /\ ownsReceiveRight(t, m)
                      /\ t.ports[m].type # "PortSet"
    BY DEF MembersOwned
  <2>1. set # s.next /\ lookup(s, set) /\ m \in s.ports[set].members
    BY <1>2, <1>4, <1>5
  <2>2. /\ s.ports[set].type = "PortSet" /\ ownsReceiveRight(s, m)
        /\ s.ports[m].type # "PortSet"
    BY <2>1 DEF GoodSpace, MembersOwned
  <2>3. m \in Name /\ m # s.next
    BY <2>2, <1>1 DEF ownsReceiveRight, lookup
  <2> QED
    BY <2>1, <2>2, <2>3, <1>4, <1>5 DEF ownsReceiveRight
<1> QED
  BY <1>3, <1>6, <1>7, <1>8, <1>10, <1>11 DEF GoodSpace

\* A failed copyout takes back exactly what allocatePort did.
LEMMA RollbackUndoes ==
    ASSUME NEW s, GoodSpace(s), CanAllocate(s), NEW a \in Attributes
    PROVE  rollbackLastAllocation(allocatePort(s, a), candidate(s)) = s
<1> DEFINE t == allocatePort(s, a)
           n == s.next
<1> USE NoPortAssumption, LimitAssumption
<1>1. /\ t = [s EXCEPT !.ports[n] = a, !.next = n + 1]
      /\ candidate(s) = n
      /\ n \in Name
      /\ s.ports[n] = NoPort
      /\ n # taskSelfName
  BY CandidateIsNext DEF allocatePort
<1>2. /\ s \in SpaceType /\ a \in Port /\ a # NoPort /\ a.type \notin Service
  BY DEF GoodSpace, Attributes
<1>3. /\ t.ports = [s.ports EXCEPT ![n] = a] /\ t.next = n + 1 /\ t.service = s.service
  BY <1>1, <1>2 DEF SpaceType
<1>4. t.ports[n] = a /\ lookup(t, n)
  BY <1>1, <1>2, <1>3 DEF lookup, SpaceType
<1>5. \A k \in Service : s.service[k] # n
  BY <1>1 DEF ServicesLive, GoodSpace, lookup, Name, MACH_PORT_NULL, taskSelfName
<1>6. Forget(t, n) = s.service
  BY <1>2, <1>3, <1>4, <1>5 DEF Forget, SpaceType, Service
<1>7. [t.ports EXCEPT ![n] = NoPort] = s.ports
  BY <1>1, <1>2, <1>3 DEF SpaceType
<1>8. rollbackLastAllocation(t, n) = [ports |-> s.ports, next |-> s.next, service |-> s.service]
  BY <1>1, <1>2, <1>3, <1>4, <1>6, <1>7 DEF rollbackLastAllocation, Erase, SpaceType
<1> QED
  BY <1>1, <1>2, <1>8 DEF SpaceType

\* A live port may change its references.
LEMMA RecountGood ==
    ASSUME NEW s, GoodSpace(s), NEW n \in Name, lookup(s, n), NEW p \in Port,
           p.type = s.ports[n].type, p.receive = s.ports[n].receive,
           p.members = s.ports[n].members
    PROVE  /\ GoodSpace([s EXCEPT !.ports[n] = p])
           /\ [s EXCEPT !.ports[n] = p].next = s.next
           /\ \A m \in Name : [s EXCEPT !.ports[n] = p].ports[m] = IF m = n THEN p ELSE s.ports[m]
<1> DEFINE t == [s EXCEPT !.ports[n] = p]
<1>1. s \in SpaceType /\ p # NoPort
  BY NoPortAssumption DEF GoodSpace
<1>2. t = [ports |-> [s.ports EXCEPT ![n] = p], next |-> s.next, service |-> s.service]
  BY <1>1 DEF SpaceType
<1> HIDE DEF t
<1>3. s.next \in taskSelfName + 1 .. NameLimit /\ s.service \in [Service -> Name \cup {MACH_PORT_NULL}]
  BY <1>1 DEF SpaceType
<1>4. /\ t \in SpaceType /\ t.next = s.next /\ t.service = s.service
      /\ \A m \in Name : t.ports[m] = IF m = n THEN p ELSE s.ports[m]
  BY <1>1, <1>2, <1>3, SpaceUpdate
<1>5. \A m : lookup(t, m) <=> lookup(s, m)
  BY <1>1, <1>4 DEF lookup
<1>6. \A m \in Name : lookup(s, m) =>
        /\ t.ports[m].type = s.ports[m].type
        /\ t.ports[m].receive = s.ports[m].receive
        /\ t.ports[m].members = s.ports[m].members
  BY <1>4
<1>7. NamesBelowNext(t)
  BY <1>4, <1>5 DEF NamesBelowNext, GoodSpace
<1>8. SelfStays(t)
  <2>1. taskSelfName \in Name
    BY LimitAssumption DEF Name, taskSelfName
  <2>2. lookup(s, taskSelfName)
    BY <2>1 DEF GoodSpace, SelfStays, lookup
  <2> QED
    BY <2>1, <2>2, <1>5, <1>6 DEF SelfStays, GoodSpace, lookup
<1>9. ServicesLive(t)
  BY <1>4, <1>5 DEF ServicesLive, GoodSpace
<1>10. ServicesUnique(t)
  BY <1>4, <1>5, <1>6 DEF ServicesUnique, GoodSpace
<1>11. MembersOwned(t)
  <2> SUFFICES ASSUME NEW set \in Name, lookup(t, set), NEW m \in t.ports[set].members
               PROVE  /\ t.ports[set].type = "PortSet"
                      /\ ownsReceiveRight(t, m)
                      /\ t.ports[m].type # "PortSet"
    BY DEF MembersOwned
  <2>1. lookup(s, set) /\ m \in s.ports[set].members
    BY <1>5, <1>6
  <2>2. /\ s.ports[set].type = "PortSet" /\ ownsReceiveRight(s, m)
        /\ s.ports[m].type # "PortSet"
    BY <2>1 DEF GoodSpace, MembersOwned
  <2>3. m \in Name /\ lookup(s, m)
    BY <2>2 DEF ownsReceiveRight, lookup
  <2> QED
    BY <2>1, <2>2, <2>3, <1>5, <1>6 DEF ownsReceiveRight
<1>12. GoodSpace(t)
  BY <1>4, <1>7, <1>8, <1>9, <1>10, <1>11 DEF GoodSpace
<1> QED
  BY <1>4, <1>12 DEF t

\* A receive right may enter a port set.
LEMMA InsertGood ==
    ASSUME NEW s, GoodSpace(s), NEW set \in Name, lookup(s, set), s.ports[set].type = "PortSet",
           NEW new \in Name, ownsReceiveRight(s, new), s.ports[new].type # "PortSet"
    PROVE  LET t == [s EXCEPT !.ports[set] = AddMember(@, new)]
           IN  /\ GoodSpace(t) /\ t.next = s.next
               /\ \A m \in Name : lookup(t, m) <=> lookup(s, m)
               /\ \A m \in Name : lookup(s, m) =>
                     /\ t.ports[m].type = s.ports[m].type
                     /\ t.ports[m].receive = s.ports[m].receive
                     /\ t.ports[m].send = s.ports[m].send
<1> DEFINE t == [s EXCEPT !.ports[set] = AddMember(@, new)]
           p == AddMember(s.ports[set], new)
<1>1. s \in SpaceType /\ s.ports[set] \in Port
  BY DEF GoodSpace, SpaceType, lookup
<1>2. /\ p \in Port /\ p # NoPort
      /\ p.type = s.ports[set].type /\ p.receive = s.ports[set].receive
      /\ p.send = s.ports[set].send
      /\ p.members = s.ports[set].members \cup {new}
  BY <1>1, NoPortAssumption DEF Port, AddMember
<1>3. t = [ports |-> [s.ports EXCEPT ![set] = p], next |-> s.next, service |-> s.service]
  BY <1>1 DEF SpaceType
<1> HIDE DEF t, p
<1>4. s.next \in taskSelfName + 1 .. NameLimit /\ s.service \in [Service -> Name \cup {MACH_PORT_NULL}]
  BY <1>1 DEF SpaceType
<1>5. /\ t \in SpaceType /\ t.next = s.next /\ t.service = s.service
      /\ \A m \in Name : t.ports[m] = IF m = set THEN p ELSE s.ports[m]
  BY <1>1, <1>2, <1>3, <1>4, SpaceUpdate
<1>6. \A m : lookup(t, m) <=> lookup(s, m)
  BY <1>2, <1>5 DEF lookup
<1>7. \A m \in Name : /\ t.ports[m].type = s.ports[m].type
                       /\ t.ports[m].receive = s.ports[m].receive
                       /\ t.ports[m].send = s.ports[m].send
  BY <1>2, <1>5
<1>8. NamesBelowNext(t) /\ ServicesLive(t) /\ ServicesUnique(t)
  BY <1>5, <1>6, <1>7 DEF NamesBelowNext, ServicesLive, ServicesUnique, GoodSpace
<1>9. SelfStays(t)
  <2>1. taskSelfName \in Name
    BY LimitAssumption DEF Name, taskSelfName
  <2> QED
    BY <2>1, <1>6, <1>7 DEF SelfStays, GoodSpace, lookup
<1>10. MembersOwned(t)
  <2> SUFFICES ASSUME NEW x \in Name, lookup(t, x), NEW m \in t.ports[x].members
               PROVE  /\ t.ports[x].type = "PortSet"
                      /\ ownsReceiveRight(t, m)
                      /\ t.ports[m].type # "PortSet"
    BY DEF MembersOwned
  <2>1. lookup(s, x)
    BY <1>6
  <2>2. m \in s.ports[x].members \/ (x = set /\ m = new)
    BY <1>2, <1>5
  <2>3. /\ s.ports[x].type = "PortSet" /\ ownsReceiveRight(s, m)
        /\ s.ports[m].type # "PortSet"
    BY <2>1, <2>2 DEF GoodSpace, MembersOwned
  <2>4. m \in Name
    BY <2>3 DEF ownsReceiveRight, lookup
  <2> QED
    BY <2>1, <2>3, <2>4, <1>6, <1>7 DEF ownsReceiveRight
<1>11. GoodSpace(t)
  BY <1>5, <1>8, <1>9, <1>10 DEF GoodSpace
<1> QED
  BY <1>5, <1>6, <1>7, <1>11 DEF t

\* A port that lost its last right may go, and its stable name with it.
LEMMA EraseGood ==
    ASSUME NEW s, GoodSpace(s), NEW n \in Name, lookup(s, n), n # taskSelfName,
           ~s.ports[n].receive
    PROVE  LET t == Erase(s, n)
           IN  /\ GoodSpace(t) /\ t.next = s.next
               /\ \A m \in Name : t.ports[m] = IF m = n THEN NoPort ELSE s.ports[m]
<1> DEFINE t == Erase(s, n)
<1>1. s \in SpaceType
  BY DEF GoodSpace
<1>3. Forget(s, n) \in [Service -> Name \cup {MACH_PORT_NULL}]
  BY <1>1 DEF SpaceType, Forget
<1>2. t = [ports |-> [s.ports EXCEPT ![n] = NoPort], next |-> s.next, service |-> Forget(s, n)]
  BY DEF Erase
<1>4. s.next \in taskSelfName + 1 .. NameLimit
  BY <1>1 DEF SpaceType
<1>5. \A k \in Service : Forget(s, n)[k] = IF s.service[k] = n THEN MACH_PORT_NULL
                                          ELSE s.service[k]
  <2>1. s.ports[n].type = "Clock" <=> s.service["Clock"] = n
    BY DEF GoodSpace, ServicesUnique, Service
  <2> QED
    BY <2>1 DEF Forget
<1> HIDE DEF t
<1>6. /\ t \in SpaceType /\ t.next = s.next /\ t.service = Forget(s, n)
      /\ \A m \in Name : t.ports[m] = IF m = n THEN NoPort ELSE s.ports[m]
  BY <1>1, <1>2, <1>3, <1>4, SpaceUpdate
<1>7. \A m : lookup(t, m) <=> lookup(s, m) /\ m # n
  BY <1>6 DEF lookup
<1>8. NamesBelowNext(t)
  BY <1>6, <1>7 DEF NamesBelowNext, GoodSpace
<1>9. SelfStays(t)
  BY <1>6, LimitAssumption DEF SelfStays, GoodSpace, Name, taskSelfName
<1>10. ServicesLive(t)
  BY <1>5, <1>6, <1>7 DEF ServicesLive, GoodSpace
<1>11. ServicesUnique(t)
  <2> SUFFICES ASSUME NEW k \in Service, NEW m \in Name, lookup(t, m)
               PROVE  t.ports[m].type = k <=> t.service[k] = m
    BY DEF ServicesUnique
  <2>1. lookup(s, m) /\ m # n /\ t.ports[m] = s.ports[m]
    BY <1>6, <1>7
  <2>2. s.ports[m].type = k <=> s.service[k] = m
    BY <2>1 DEF GoodSpace, ServicesUnique
  <2>3. m # MACH_PORT_NULL
    BY DEF Name, taskSelfName, MACH_PORT_NULL
  <2> QED
    BY <2>1, <2>2, <2>3, <1>5, <1>6
<1>12. MembersOwned(t)
  <2> SUFFICES ASSUME NEW set \in Name, lookup(t, set), NEW m \in t.ports[set].members
               PROVE  /\ t.ports[set].type = "PortSet"
                      /\ ownsReceiveRight(t, m)
                      /\ t.ports[m].type # "PortSet"
    BY DEF MembersOwned
  <2>1. lookup(s, set) /\ t.ports[set] = s.ports[set]
    BY <1>6, <1>7
  <2>2. /\ s.ports[set].type = "PortSet" /\ ownsReceiveRight(s, m)
        /\ s.ports[m].type # "PortSet"
    BY <2>1 DEF GoodSpace, MembersOwned
  <2>3. m \in Name /\ m # n
    BY <2>2 DEF ownsReceiveRight, lookup
  <2> QED
    BY <2>1, <2>2, <2>3, <1>6, <1>7 DEF ownsReceiveRight
<1>13. GoodSpace(t)
  BY <1>6, <1>8, <1>9, <1>10, <1>11, <1>12 DEF GoodSpace
<1> QED
  BY <1>6, <1>13 DEF t

\* The first copyout of a kind allocates its port and remembers the name.
LEMMA FirstCopyoutGood ==
    ASSUME NEW s, GoodSpace(s), CanAllocate(s), NEW k \in Service,
           s.service[k] = MACH_PORT_NULL
    PROVE  LET t == copyoutSendRight(s, k)
           IN  /\ GoodSpace(t) /\ t.next = s.next + 1
               /\ \A m \in Name : t.ports[m] = IF m = s.next THEN SendRight(k) ELSE s.ports[m]
<1> DEFINE t == copyoutSendRight(s, k)
           a == SendRight(k)
           new == [s.service EXCEPT ![k] = s.next]
<1>1. /\ candidate(s) = s.next /\ s.next \in Name /\ s.ports[s.next] = NoPort
      /\ s.next + 1 \in taskSelfName + 1 .. NameLimit /\ s.next # taskSelfName
  BY CandidateIsNext
<1>2. s \in SpaceType
  BY DEF GoodSpace
<1>3. /\ a \in Port /\ a # NoPort /\ a.type = k /\ a.members = {}
  BY NewPorts, NoPortAssumption DEF PortType, SendRight, NewPort
<1>4. t = [ports |-> [s.ports EXCEPT ![s.next] = a], next |-> s.next + 1, service |-> new]
  BY <1>1, <1>2 DEF SpaceType, copyoutSendRight, allocatePort
<1>5. /\ new \in [Service -> Name \cup {MACH_PORT_NULL}]
      /\ \A j \in Service : new[j] = IF j = k THEN s.next ELSE s.service[j]
  BY <1>1, <1>2 DEF SpaceType
<1> HIDE DEF t, a, new
<1>6. /\ t \in SpaceType /\ t.next = s.next + 1 /\ t.service = new
      /\ \A m \in Name : t.ports[m] = IF m = s.next THEN a ELSE s.ports[m]
  BY <1>1, <1>2, <1>3, <1>4, <1>5, SpaceUpdate
<1>7. \A m : lookup(t, m) <=> lookup(s, m) \/ m = s.next
  BY <1>1, <1>3, <1>6 DEF lookup
<1>8. NamesBelowNext(t)
  BY <1>2, <1>6, <1>7 DEF NamesBelowNext, GoodSpace, Name, SpaceType, taskSelfName
<1>9. SelfStays(t)
  BY <1>1, <1>6, LimitAssumption DEF SelfStays, GoodSpace, Name, taskSelfName
<1>10. ServicesLive(t)
  BY <1>5, <1>6, <1>7 DEF ServicesLive, GoodSpace
<1>11. ServicesUnique(t)
  <2> SUFFICES ASSUME NEW j \in Service, NEW m \in Name, lookup(t, m)
               PROVE  t.ports[m].type = j <=> t.service[j] = m
    BY DEF ServicesUnique
  <2>1. \A i \in Service : s.service[i] # s.next
    BY <1>1 DEF ServicesLive, GoodSpace, lookup, Name, MACH_PORT_NULL, taskSelfName
  <2>2. CASE m = s.next
    BY <2>1, <2>2, <1>3, <1>5, <1>6
  <2>3. CASE m # s.next
    <3>1. lookup(s, m) /\ t.ports[m] = s.ports[m]
      BY <2>3, <1>6, <1>7
    <3>2. s.ports[m].type = j <=> s.service[j] = m
      BY <3>1 DEF GoodSpace, ServicesUnique
    <3>3. m # MACH_PORT_NULL
      BY DEF Name, taskSelfName, MACH_PORT_NULL
    <3> QED
      BY <2>3, <3>1, <3>2, <3>3, <1>5, <1>6
  <2> QED
    BY <2>2, <2>3
<1>12. MembersOwned(t)
  <2> SUFFICES ASSUME NEW set \in Name, lookup(t, set), NEW m \in t.ports[set].members
               PROVE  /\ t.ports[set].type = "PortSet"
                      /\ ownsReceiveRight(t, m)
                      /\ t.ports[m].type # "PortSet"
    BY DEF MembersOwned
  <2>1. set # s.next /\ lookup(s, set) /\ m \in s.ports[set].members
    BY <1>3, <1>6, <1>7
  <2>2. /\ s.ports[set].type = "PortSet" /\ ownsReceiveRight(s, m)
        /\ s.ports[m].type # "PortSet"
    BY <2>1 DEF GoodSpace, MembersOwned
  <2>3. m \in Name /\ m # s.next
    BY <2>2, <1>1 DEF ownsReceiveRight, lookup
  <2> QED
    BY <2>1, <2>2, <2>3, <1>6, <1>7 DEF ownsReceiveRight
<1>13. GoodSpace(t)
  BY <1>6, <1>8, <1>9, <1>10, <1>11, <1>12 DEF GoodSpace
<1> QED
  BY <1>6, <1>13 DEF t, a

-----------------------------------------------------------------------------
(* What a trap does to the port space.                                     *)

Keeps ==
    portSpace' = portSpace /\ issued' = issued /\ specialReplyPort' = specialReplyPort
Allocates(a) ==
    /\ CanAllocate(portSpace)
    /\ portSpace' = allocatePort(portSpace, a)
    /\ issued' = issued \cup {candidate(portSpace)}
    /\ a.send \in {0, 1} /\ (a.receive \/ a.send = 1)
    /\ \/ specialReplyPort' = specialReplyPort
       \/ specialReplyPort' = candidate(portSpace) /\ a.receive
CopiesOut(k) ==
    /\ CanCopyout(portSpace, k)
    /\ portSpace' = copyoutSendRight(portSpace, k)
    /\ issued' = issued \cup {CopyoutName(portSpace, k)}
    /\ specialReplyPort' = specialReplyPort
Drops(n) ==
    /\ lookup(portSpace, n) /\ HasUref(portSpace, n)
    /\ portSpace' = deallocateUref(portSpace, n)
    /\ issued' = issued /\ specialReplyPort' = specialReplyPort
Recounts(n, delta) ==
    /\ lookup(portSpace, n)
    /\ \/ portSpace.ports[n].send # 0 /\ issued' = issued
       \/ n = taskSelfName /\ delta = 1 /\ issued' = issued \cup {n}
    /\ portSpace.ports[n].send + delta \in 0 .. MaxUrefs
    /\ portSpace' = [portSpace EXCEPT !.ports[n] = AddSend(@, delta)]
    /\ specialReplyPort' = specialReplyPort
Inserts(set, m) ==
    /\ lookup(portSpace, set) /\ portSpace.ports[set].type = "PortSet"
    /\ ownsReceiveRight(portSpace, m) /\ portSpace.ports[m].type # "PortSet"
    /\ portSpace' = [portSpace EXCEPT !.ports[set] = AddMember(@, m)]
    /\ issued' = issued /\ specialReplyPort' = specialReplyPort

Effect ==
    \/ Keeps
    \/ \E a \in Attributes : Allocates(a)
    \/ \E k \in Service : CopiesOut(k)
    \/ \E n \in Name : Drops(n)
    \/ \E n \in Name, delta \in Int : Recounts(n, delta)
    \/ \E set, m \in Name : Inserts(set, m)

\* The ports that the traps allocate are attributes of a new name.
LEMMA AttributesOf ==
    ASSUME NEW type \in PortType \ Service, NEW receive \in BOOLEAN, NEW send \in {0, 1}
    PROVE  /\ NewPort(type, receive, send) \in Attributes
           /\ NewPort(type, receive, send).send = send
           /\ NewPort(type, receive, send).receive = receive
<1>1. NewPort(type, receive, send) \in Port
  BY NewPorts
<1>2. /\ NewPort(type, receive, send).type = type
      /\ NewPort(type, receive, send).send = send
      /\ NewPort(type, receive, send).members = {}
  BY DEF NewPort
<1>3. NewPort(type, receive, send).receive = receive
  BY DEF NewPort
<1> QED
  BY <1>1, <1>2, <1>3 DEF Attributes

\* What the branches of a trap amount to.
LEMMA RefuseKeeps ==
    ASSUME NEW status, Refuse(status)
    PROVE  Keeps /\ UNCHANGED otherVars
  BY DEF Refuse, Answer, Keeps, otherVars

\* A trap that reports a new port allocates it.
LEMMA AllocateEffect ==
    ASSUME IInv, NEW type \in PortType \ Service, NEW receive \in BOOLEAN, NEW send \in {0, 1},
           receive \/ send = 1, Allocate(NewPort(type, receive, send)),
           specialReplyPort' \in {specialReplyPort, candidate(portSpace)},
           specialReplyPort' = specialReplyPort \/ receive
    PROVE  Effect
  BY AttributesOf DEF Allocate, Allocates, Effect, Report

\* So does one that writes the name to guest memory, or nothing happens.
LEMMA AllocateAndCopyOutEffect ==
    ASSUME IInv, NEW type \in PortType \ Service, NEW receive \in BOOLEAN, NEW send \in {0, 1},
           NEW writable, receive \/ send = 1,
           AllocateAndCopyOut(NewPort(type, receive, send), writable)
    PROVE  Effect /\ UNCHANGED otherVars
<1> DEFINE a == NewPort(type, receive, send)
<1>1. a \in Attributes
  BY AttributesOf
<1>2. CASE Refuse("noSpace")
  BY <1>2, RefuseKeeps DEF Effect
<1>3. CASE Allocate(a) /\ UNCHANGED otherVars
  BY <1>3, AllocateEffect DEF otherVars
<1>4. CASE /\ CanAllocate(portSpace)
           /\ portSpace' = rollbackLastAllocation(allocatePort(portSpace, a), candidate(portSpace))
           /\ Answer("invalidAddress") /\ UNCHANGED otherVars
  BY <1>1, <1>4, RollbackUndoes DEF IInv, Effect, Keeps, Answer, otherVars
<1> QED
  BY <1>2, <1>3, <1>4 DEF AllocateAndCopyOut

\* thread_self, host_self and the message requests copy a service port out.
LEMMA CopyoutEffect ==
    ASSUME NEW k \in Service, CopyoutReported(k)
    PROVE  Effect /\ UNCHANGED otherVars
  BY DEF CopyoutReported, Effect, CopiesOut, Report, otherVars

\* mach_port_allocate and mach_port_construct allocate or change nothing.
LEMMA RightsEffect ==
    ASSUME IInv, RightTraps
    PROVE  Effect /\ UNCHANGED otherVars
<1>0. {"Ordinary", "PortSet", "Reply"} \subseteq PortType \ Service
  BY DEF PortType, Service
<1>1. ASSUME NEW target, NEW right, NEW w, mach_port_allocate(target, right, w)
      PROVE  Effect /\ UNCHANGED otherVars
  <2>1. CASE \E status : Refuse(status)
    BY <2>1, RefuseKeeps DEF Effect
  <2>2. CASE AllocateAndCopyOut(NewPort("Ordinary", TRUE, 0), w)
    BY <2>2, <1>0, AllocateAndCopyOutEffect
  <2>3. CASE AllocateAndCopyOut(NewPort("PortSet", TRUE, 0), w)
    BY <2>3, <1>0, AllocateAndCopyOutEffect
  <2> QED
    BY <1>1, <2>1, <2>2, <2>3 DEF mach_port_allocate, OnSelf, ReceiveRight
<1>2. ASSUME NEW target, NEW r, NEW flags, NEW w, mach_port_construct(target, r, flags, w)
      PROVE  Effect /\ UNCHANGED otherVars
  <2> DEFINE type == IF "reply" \in flags THEN "Reply" ELSE "Ordinary"
             send == IF "send" \in flags THEN 1 ELSE 0
  <2>1. CASE \E status : Refuse(status)
    BY <2>1, RefuseKeeps DEF Effect
  <2>2. CASE AllocateAndCopyOut(NewPort(type, TRUE, send), TRUE)
    <3>1. type \in PortType \ Service /\ send \in {0, 1}
      BY <1>0
    <3> QED
      BY <2>2, <3>1, AllocateAndCopyOutEffect
  <2> QED
    BY <1>2, <2>1, <2>2 DEF mach_port_construct, OnSelf, Unsupported
<1> QED
  BY <1>1, <1>2 DEF RightTraps

\* deallocate and mod_refs drop or recount the references of one name.
LEMMA UrefsEffect ==
    ASSUME IInv, UrefTraps
    PROVE  Effect /\ UNCHANGED otherVars
<1>1. ASSUME NEW target, NEW n, mach_port_deallocate(target, n)
      PROVE  Effect /\ UNCHANGED otherVars
  <2>1. CASE \E status : Refuse(status)
    BY <2>1, RefuseKeeps DEF Effect
  <2>2. CASE /\ lookup(portSpace, n) /\ HasUref(portSpace, n)
             /\ portSpace' = deallocateUref(portSpace, n)
             /\ Answer("success") /\ UNCHANGED otherVars
    <3>1. n \in Name
      BY <2>2 DEF lookup
    <3> QED
      BY <2>2, <3>1 DEF Effect, Drops, Answer, otherVars
  <2> QED
    BY <1>1, <2>1, <2>2 DEF mach_port_deallocate, OnSelf
<1>2. ASSUME NEW target, NEW n, NEW right, NEW d \in Int, mach_port_mod_refs(target, n, right, d)
      PROVE  Effect /\ UNCHANGED otherVars
  <2>1. CASE \E status : Refuse(status)
    BY <2>1, RefuseKeeps DEF Effect
  <2>2. CASE /\ lookup(portSpace, n) /\ portSpace.ports[n].send # 0
             /\ portSpace.ports[n].send + d \in 0 .. MaxUrefs
             /\ portSpace' = [portSpace EXCEPT !.ports[n] = AddSend(@, d)]
             /\ Answer("success") /\ UNCHANGED otherVars
    <3>1. n \in Name
      BY <2>2 DEF lookup
    <3>2. Recounts(n, d)
      BY <2>2 DEF Recounts, Answer, otherVars
    <3> QED
      BY <2>2, <3>1, <3>2 DEF Effect
  <2> QED
    BY <1>2, <2>1, <2>2 DEF mach_port_mod_refs, OnSelf
<1> QED
  BY <1>1, <1>2, LimitAssumption DEF UrefTraps

\* A port set is allocated, or gets a member.
LEMMA SetsEffect ==
    ASSUME IInv, SetTraps
    PROVE  Effect /\ UNCHANGED otherVars
<1>1. ASSUME NEW w, mach_port_allocate(taskSelfName, "portSet", w)
      PROVE  Effect /\ UNCHANGED otherVars
  <2>1. CASE \E status : Refuse(status)
    BY <2>1, RefuseKeeps DEF Effect
  <2>2. CASE AllocateAndCopyOut(NewPort("PortSet", TRUE, 0), w)
    BY <2>2, AllocateAndCopyOutEffect DEF PortType, Service
  <2> QED
    BY <1>1, <2>1, <2>2 DEF mach_port_allocate, OnSelf, ReceiveRight
<1>2. ASSUME NEW target, NEW m, NEW set, mach_port_insert_member(target, m, set)
      PROVE  Effect /\ UNCHANGED otherVars
  <2>1. CASE \E status : Refuse(status)
    BY <2>1, RefuseKeeps DEF Effect
  <2>2. CASE /\ lookup(portSpace, m) /\ lookup(portSpace, set)
             /\ portSpace.ports[set].type = "PortSet"
             /\ portSpace.ports[m].receive
             /\ portSpace.ports[m].type # "PortSet"
             /\ portSpace' = [portSpace EXCEPT !.ports[set] = AddMember(@, m)]
             /\ Answer("success") /\ UNCHANGED otherVars
    <3>1. m \in Name /\ set \in Name
      BY <2>2 DEF lookup
    <3>2. Inserts(set, m)
      BY <2>2 DEF Inserts, ownsReceiveRight, Answer, otherVars
    <3> QED
      BY <2>2, <3>1, <3>2 DEF Effect
  <2> QED
    BY <1>2, <2>1, <2>2 DEF mach_port_insert_member, OnSelf
<1> QED
  BY <1>1, <1>2 DEF SetTraps

\* Reply ports, timers and the special reply port are new receive rights.
LEMMA ReplyEffect ==
    ASSUME IInv, ReplyTraps
    PROVE  Effect /\ OtherTypes'
<1>1. ASSUME NEW type \in {"Reply", "Timer"}, NEW failure, AllocateReported(type, failure)
      PROVE  Effect /\ UNCHANGED otherVars
  <2>1. CASE Refuse(failure)
    BY <2>1, RefuseKeeps DEF Effect
  <2>2. CASE Allocate(NewPort(type, TRUE, 0)) /\ UNCHANGED otherVars
    BY <2>2, AllocateEffect DEF PortType, Service, otherVars
  <2> QED
    BY <1>1, <2>1, <2>2 DEF AllocateReported, ReceiveRight
<1>2. CASE mach_reply_port \/ mk_timer_create
  BY <1>1, <1>2 DEF mach_reply_port, mk_timer_create, IInv, OtherTypes, otherVars
<1>3. CASE thread_get_special_reply_port
  <2>1. CASE specialReplyPort # MACH_PORT_NULL /\ Report(specialReplyPort)
             /\ UNCHANGED <<portSpace, otherVars>>
    <3>1. lookup(portSpace, specialReplyPort) /\ specialReplyPort # taskSelfName
      BY <2>1 DEF IInv, SpecialOwned, ownsReceiveRight, GoodSpace, SelfStays
    <3>2. specialReplyPort \in issued
      BY <3>1 DEF IInv, IssuedNames, lookup
    <3> QED
      BY <2>1, <3>2 DEF Report, Effect, Keeps, IInv, OtherTypes, otherVars
  <2>2. CASE \E status : Refuse(status)
    BY <2>2, RefuseKeeps DEF Effect, IInv, OtherTypes, otherVars
  <2>3. CASE Allocate(NewPort("Reply", TRUE, 0)) /\ specialReplyPort' = candidate(portSpace)
             /\ UNCHANGED <<taskDebugControlPort, vouchers, nextVoucher>>
    <3>1. Effect
      BY <2>3, AllocateEffect DEF PortType, Service
    <3>2. candidate(portSpace) \in Name
      BY <2>3, CandidateIsNext DEF IInv, Allocate
    <3> QED
      BY <2>3, <3>1, <3>2 DEF IInv, OtherTypes
  <2> QED
    BY <1>3, <2>1, <2>2, <2>3 DEF thread_get_special_reply_port, ReceiveRight
<1> QED
  BY <1>2, <1>3 DEF ReplyTraps

\* task_self adds a reference to the task's own name.
LEMMA SelfEffect ==
    ASSUME IInv, SelfTraps
    PROVE  Effect /\ UNCHANGED otherVars
<1>1. CASE \E status : Refuse(status)
  BY <1>1, RefuseKeeps DEF Effect
<1>2. CASE CopyoutReported("Thread") \/ CopyoutReported("Host")
  BY <1>2, CopyoutEffect DEF Service
<1>3. CASE /\ portSpace.ports[taskSelfName].send # MaxUrefs
           /\ portSpace' = [portSpace EXCEPT !.ports[taskSelfName] = AddSend(@, 1)]
           /\ Report(taskSelfName)
           /\ UNCHANGED otherVars
  <2>1. taskSelfName \in Name
    BY LimitAssumption DEF Name, taskSelfName
  <2>2. lookup(portSpace, taskSelfName) /\ portSpace.ports[taskSelfName] \in Port
    BY <2>1 DEF IInv, GoodSpace, SelfStays, SpaceType, lookup
  <2>3. portSpace.ports[taskSelfName].send + 1 \in 0 .. MaxUrefs
    BY <1>3, <2>2, LimitAssumption DEF Port
  <2>4. Recounts(taskSelfName, 1)
    BY <1>3, <2>2, <2>3 DEF Recounts, Report, otherVars
  <2> QED
    BY <1>3, <2>1, <2>4 DEF Effect
<1> QED
  BY <1>1, <1>2, <1>3 DEF SelfTraps, thread_self, host_self, task_self

\* A voucher leaves the port space alone.
LEMMA VoucherEffect ==
    ASSUME IInv, VoucherTraps
    PROVE  Effect /\ OtherTypes'
<1>1. CASE \E status : Refuse(status)
  BY <1>1, RefuseKeeps DEF Effect, IInv, OtherTypes, otherVars
<1>2. CASE /\ vouchers' = vouchers \cup {nextVoucher}
           /\ nextVoucher' = nextVoucher + 1
           /\ Answer("success")
           /\ UNCHANGED <<portSpace, specialReplyPort, taskDebugControlPort>>
  BY <1>2 DEF Effect, Keeps, Answer, IInv, OtherTypes
<1> QED
  BY <1>1, <1>2 DEF VoucherTraps, host_create_mach_voucher

\* A message keeps the port space, copies a service out or creates a semaphore.
LEMMA MessageEffect ==
    ASSUME IInv, MessageTraps
    PROVE  Effect /\ OtherTypes'
<1>1. CASE \E status : Refuse(status)
  BY <1>1, RefuseKeeps DEF Effect, IInv, OtherTypes, otherVars
<1>2. ASSUME NEW request, NEW special \in AnyName, Serve(request, special)
      PROVE  Effect /\ OtherTypes'
  <2>1. CASE \E status : Refuse(status)
    BY <2>1, RefuseKeeps DEF Effect, IInv, OtherTypes, otherVars
  <2>2. CASE CopyoutReported("Clock") \/ CopyoutReported("Host") \/ CopyoutReported("Bootstrap")
    BY <2>2, CopyoutEffect DEF Service, IInv, OtherTypes, otherVars
  <2>3. CASE /\ taskDebugControlPort' = special /\ Answer("success")
             /\ UNCHANGED <<portSpace, specialReplyPort, vouchers, nextVoucher>>
    BY <2>3 DEF Effect, Keeps, Answer, IInv, OtherTypes
  <2>4. CASE Allocate(NewPort("Semaphore", FALSE, 1)) /\ UNCHANGED otherVars
    <3>1. Effect
      BY <2>4, AllocateEffect DEF PortType, Service, otherVars
    <3> QED
      BY <2>4, <3>1 DEF IInv, OtherTypes, otherVars
  <2> QED
    BY <1>2, <2>1, <2>2, <2>3, <2>4 DEF Serve, CopyoutOrThrow, Unsupported, SendRight
<1>3. ASSUME NEW request, NEW remote, NEW local, NEW special \in AnyName, NEW buffer,
             mach_msg2_send(request, remote, local, special, buffer)
      PROVE  Effect /\ OtherTypes'
  BY <1>1, <1>2, <1>3 DEF mach_msg2_send, Unsupported
<1>4. ASSUME NEW n, mach_msg2_receive(n)
      PROVE  Effect /\ OtherTypes'
  BY <1>1, <1>4 DEF mach_msg2_receive
<1>5. MACH_PORT_NULL \in AnyName
  BY LimitAssumption DEF AnyName, MACH_PORT_NULL
<1> QED
  BY <1>3, <1>4, <1>5 DEF MessageTraps

\* Every step has one of the effects and keeps the dispatcher's own names typed.
LEMMA EffectOfStep ==
    ASSUME IInv, [Next]_vars
    PROVE  Effect /\ OtherTypes'
<1>1. CASE UNCHANGED otherVars /\ Effect
  BY <1>1 DEF IInv, OtherTypes, otherVars
<1>2. CASE UNCHANGED vars
  BY <1>2 DEF vars, otherVars, Effect, Keeps, IInv, OtherTypes
<1> QED
  BY <1>1, <1>2, RightsEffect, UrefsEffect, SetsEffect, ReplyEffect, SelfEffect,
     VoucherEffect, MessageEffect DEF Next

-----------------------------------------------------------------------------
(* The effects on the entries of ports_.                                   *)

\* deallocateUref takes one reference and nothing else.
LEMMA DroppedPort ==
    ASSUME NEW port \in Port, port.send # 0 \/ port.sendOnce # 0
    PROVE  /\ Dropped(port) \in Port
           /\ Dropped(port).type = port.type
           /\ Dropped(port).receive = port.receive
           /\ Dropped(port).members = port.members
           /\ port.send # 0 => Dropped(port).send = port.send - 1
           /\ port.send = 0 => Dropped(port).send = 0
  BY LimitAssumption DEF Port, Dropped

\* One entry of ports_ becomes p, the others stay, and the port space is good.
OneEntry(n, p) ==
    /\ GoodSpace(portSpace')
    /\ \A m \in Name : portSpace'.ports[m] = IF m = n THEN p ELSE portSpace.ports[m]

\* An allocation fills the entry of nextSyntheticName_, which was empty.
LEMMA AllocatesEntry ==
    ASSUME IInv, NEW a \in Attributes, Allocates(a)
    PROVE  /\ OneEntry(portSpace.next, a)
           /\ portSpace'.next = portSpace.next + 1
           /\ candidate(portSpace) = portSpace.next
           /\ portSpace.next \in Name /\ portSpace.next # taskSelfName
           /\ portSpace.ports[portSpace.next] = NoPort
<1>1. /\ candidate(portSpace) = portSpace.next
      /\ portSpace.next \in Name /\ portSpace.next # taskSelfName
      /\ portSpace.ports[portSpace.next] = NoPort
  BY CandidateIsNext DEF IInv, Allocates
<1>2. GoodSpace(portSpace')
  BY AllocateGood DEF IInv, Allocates
<1>3. portSpace \in SpaceType
  BY DEF IInv, GoodSpace
<1>4. portSpace' = [portSpace EXCEPT !.ports[portSpace.next] = a, !.next = portSpace.next + 1]
  BY <1>1 DEF Allocates, allocatePort
<1>5. /\ portSpace'.ports = [portSpace.ports EXCEPT ![portSpace.next] = a]
      /\ portSpace'.next = portSpace.next + 1
  BY <1>3, <1>4 DEF SpaceType
<1>6. \A m \in Name : portSpace'.ports[m] = IF m = portSpace.next THEN a ELSE portSpace.ports[m]
  BY <1>3, <1>5 DEF SpaceType
<1> QED
  BY <1>1, <1>2, <1>5, <1>6 DEF OneEntry

\* A deallocation changes its own entry, or empties it when the port is dead.
LEMMA DropsEntry ==
    ASSUME IInv, NEW n \in Name, Drops(n)
    PROVE  /\ portSpace'.next = portSpace.next
           /\ portSpace.ports[n] \in Port
           /\ LET p == Dropped(portSpace.ports[n])
              IN  OneEntry(n, IF IsDead(n, p) THEN NoPort ELSE p)
<1> DEFINE old == portSpace.ports[n]
           p == Dropped(old)
<1>1. old \in Port /\ GoodSpace(portSpace) /\ lookup(portSpace, n)
  BY DEF IInv, GoodSpace, SpaceType, Drops, lookup
<1>2. /\ p \in Port /\ p.type = old.type /\ p.receive = old.receive /\ p.members = old.members
  BY <1>1, DroppedPort DEF Drops, HasUref
<1>3. CASE IsDead(n, p)
  <2>1. portSpace' = Erase(portSpace, n)
    BY <1>3 DEF Drops, deallocateUref
  <2>2. n # taskSelfName /\ ~old.receive
    BY <1>2, <1>3 DEF IsDead
  <2> QED
    BY <1>1, <1>3, <2>1, <2>2, EraseGood DEF OneEntry
<1>4. CASE ~IsDead(n, p)
  <2>1. portSpace' = [portSpace EXCEPT !.ports[n] = p]
    BY <1>4 DEF Drops, deallocateUref
  <2> HIDE DEF p
  <2>2. /\ GoodSpace(portSpace') /\ portSpace'.next = portSpace.next
        /\ \A m \in Name : portSpace'.ports[m] = IF m = n THEN p ELSE portSpace.ports[m]
    BY <1>1, <1>2, <2>1, RecountGood
  <2> QED
    BY <1>1, <1>4, <2>2 DEF OneEntry, p
<1> QED
  BY <1>3, <1>4

\* A port keeps its object when its send references change.
LEMMA AddSendPort ==
    ASSUME NEW port \in Port, NEW delta \in Int, port.send + delta \in 0 .. MaxUrefs
    PROVE  /\ AddSend(port, delta) \in Port
           /\ AddSend(port, delta).type = port.type
           /\ AddSend(port, delta).receive = port.receive
           /\ AddSend(port, delta).members = port.members
           /\ AddSend(port, delta).send = port.send + delta
  BY LimitAssumption DEF Port, AddSend

\* mod_refs and task_self change the references of one entry.
LEMMA RecountsEntry ==
    ASSUME IInv, NEW n \in Name, NEW delta \in Int, lookup(portSpace, n),
           portSpace.ports[n].send + delta \in 0 .. MaxUrefs,
           portSpace' = [portSpace EXCEPT !.ports[n] = AddSend(@, delta)]
    PROVE  /\ portSpace'.next = portSpace.next
           /\ portSpace.ports[n] \in Port
           /\ OneEntry(n, AddSend(portSpace.ports[n], delta))
<1> DEFINE old == portSpace.ports[n]
           p == AddSend(old, delta)
<1>1. old \in Port /\ GoodSpace(portSpace)
  BY DEF IInv, GoodSpace, SpaceType, lookup
<1>2. /\ p \in Port /\ p.type = old.type /\ p.receive = old.receive /\ p.members = old.members
  BY <1>1, AddSendPort
<1>3. portSpace' = [portSpace EXCEPT !.ports[n] = p]
  OBVIOUS
<1> HIDE DEF p
<1>4. /\ GoodSpace(portSpace') /\ portSpace'.next = portSpace.next
      /\ \A m \in Name : portSpace'.ports[m] = IF m = n THEN p ELSE portSpace.ports[m]
  <2>1. /\ GoodSpace([portSpace EXCEPT !.ports[n] = p])
        /\ [portSpace EXCEPT !.ports[n] = p].next = portSpace.next
        /\ \A m \in Name : [portSpace EXCEPT !.ports[n] = p].ports[m] =
                             IF m = n THEN p ELSE portSpace.ports[m]
    BY <1>1, <1>2, RecountGood
  <2> QED
    BY <1>3, <2>1, Zenon
<1> QED
  BY <1>1, <1>4 DEF OneEntry, p

\* A copyout either allocates the port of its kind or adds one reference.
LEMMA CopiesOutEntry ==
    ASSUME IInv, NEW k \in Service, CopiesOut(k)
    PROVE  \/ /\ OneEntry(portSpace.next, SendRight(k))
              /\ portSpace'.next = portSpace.next + 1
              /\ issued' = issued \cup {portSpace.next}
              /\ portSpace.next \in Name /\ portSpace.next # taskSelfName
              /\ portSpace.ports[portSpace.next] = NoPort
           \/ \E n \in Name :
                 /\ lookup(portSpace, n) /\ portSpace.ports[n].send # 0
                 /\ portSpace.ports[n] \in Port /\ n \in issued
                 /\ portSpace.ports[n].send + 1 \in 0 .. MaxUrefs
                 /\ OneEntry(n, AddSend(portSpace.ports[n], 1))
                 /\ portSpace'.next = portSpace.next
                 /\ issued' = issued
<1>1. CASE portSpace.service[k] = MACH_PORT_NULL
  <2>1. GoodSpace(portSpace) /\ CanAllocate(portSpace)
    BY <1>1 DEF IInv, CopiesOut, CanCopyout
  <2>2. /\ candidate(portSpace) = portSpace.next
        /\ portSpace.next \in Name /\ portSpace.next # taskSelfName
        /\ portSpace.ports[portSpace.next] = NoPort
    BY <2>1, CandidateIsNext
  <2>3. /\ GoodSpace(portSpace') /\ portSpace'.next = portSpace.next + 1
        /\ \A m \in Name : portSpace'.ports[m] = IF m = portSpace.next THEN SendRight(k)
                                                  ELSE portSpace.ports[m]
    BY <1>1, <2>1, FirstCopyoutGood DEF CopiesOut
  <2>4. issued' = issued \cup {portSpace.next}
    BY <1>1, <2>2 DEF CopiesOut, CopyoutName
  <2> QED
    BY <2>2, <2>3, <2>4 DEF OneEntry
<1>2. CASE portSpace.service[k] # MACH_PORT_NULL
  <2> DEFINE n == portSpace.service[k]
  <2>1. /\ lookup(portSpace, n) /\ portSpace.ports[n].type = k
        /\ portSpace.ports[n].send # 0 /\ portSpace.ports[n].send # MaxUrefs
    BY <1>2 DEF CopiesOut, CanCopyout
  <2>2. n \in Name /\ portSpace.ports[n] \in Port
    BY <2>1 DEF lookup, IInv, GoodSpace, SpaceType
  <2>3. portSpace.ports[n].send + 1 \in 0 .. MaxUrefs
    BY <2>1, <2>2, LimitAssumption DEF Port
  <2>4. n # taskSelfName
    BY <2>1 DEF IInv, GoodSpace, SelfStays, Service
  <2>5. n \in issued /\ issued' = issued
    BY <1>2, <2>1, <2>2, <2>4 DEF IInv, IssuedNames, CopiesOut, CopyoutName
  <2>6. portSpace' = [portSpace EXCEPT !.ports[n] = AddSend(@, 1)]
    BY <1>2 DEF CopiesOut, copyoutSendRight
  <2> HIDE DEF n
  <2>7. portSpace'.next = portSpace.next /\ OneEntry(n, AddSend(portSpace.ports[n], 1))
    BY <2>1, <2>2, <2>3, <2>6, RecountsEntry
  <2> QED
    BY <2>1, <2>2, <2>3, <2>5, <2>7
<1> QED
  BY <1>1, <1>2

-----------------------------------------------------------------------------
(* The inductive invariant.                                                *)

\* The constructor's port space, with the task's own name only.
LEMMA InitHolds == Init => IInv
<1> SUFFICES ASSUME Init PROVE IInv
  OBVIOUS
<1> DEFINE self == NewPort("Ordinary", FALSE, 0)
<1> USE LimitAssumption, NoPortAssumption
<1>1. self \in Port
  BY NewPorts DEF PortType
<1>2. /\ self.type = "Ordinary" /\ ~self.receive /\ self.send = 0 /\ self.members = {}
  BY DEF NewPort
<1>3. /\ portSpace.next = taskSelfName + 1
      /\ portSpace.ports = [n \in Name |-> IF n = taskSelfName THEN self ELSE NoPort]
      /\ portSpace.service = [k \in Service |-> MACH_PORT_NULL]
      /\ portSpace = [ports |-> portSpace.ports, next |-> portSpace.next,
                      service |-> portSpace.service]
  BY DEF Init
<1> HIDE DEF self
<1>4. taskSelfName \in Name /\ taskSelfName + 1 \in taskSelfName + 1 .. NameLimit
  BY DEF Name, taskSelfName
<1>5. \A n \in Name : portSpace.ports[n] = IF n = taskSelfName THEN self ELSE NoPort
  BY <1>3
<1>6. portSpace \in SpaceType
  BY <1>1, <1>3, <1>4 DEF SpaceType
<1>7. \A n : lookup(portSpace, n) <=> n = taskSelfName
  BY <1>1, <1>4, <1>5 DEF lookup
<1>8. NamesBelowNext(portSpace) /\ SelfStays(portSpace)
  BY <1>1, <1>2, <1>3, <1>4, <1>5, <1>7 DEF NamesBelowNext, SelfStays, Name, taskSelfName
<1>9. ServicesLive(portSpace)
  BY <1>3 DEF ServicesLive
<1>10. ServicesUnique(portSpace)
  BY <1>2, <1>3, <1>4, <1>5, <1>7
  DEF ServicesUnique, Service, MACH_PORT_NULL, taskSelfName
<1>11. MembersOwned(portSpace)
  BY <1>2, <1>5, <1>7 DEF MembersOwned
<1>12. SpecialOwned /\ OtherTypes
  BY DEF Init, SpecialOwned, OtherTypes, AnyName, MACH_PORT_NULL
<1>13. IssuedNames
  BY <1>2, <1>4, <1>5, <1>7 DEF Init, IssuedNames
<1> QED
  BY <1>6, <1>8, <1>9, <1>10, <1>11, <1>12, <1>13 DEF IInv, GoodSpace

\* A step on one entry keeps what refers to the names: n is the entry, p its
\* new value, and the name is issued when it is new.
LEMMA EntryKeepsInvariant ==
    ASSUME IInv, OtherTypes', NEW n \in Name, NEW p \in Port \cup {NoPort}, OneEntry(n, p),
           portSpace'.next \in {portSpace.next, portSpace.next + 1},
           issued' \in {issued, issued \cup {n}},
           n < portSpace'.next,
           p # NoPort /\ (n # taskSelfName \/ p.send # 0) => n \in issued',
           ownsReceiveRight(portSpace, n) => p # NoPort /\ p.receive,
           \/ specialReplyPort' = specialReplyPort
           \/ specialReplyPort' = n /\ p # NoPort /\ p.receive
    PROVE  IInv'
<1>1. GoodSpace(portSpace')
  BY DEF OneEntry
<1>2. \A m \in Name : portSpace'.ports[m] = IF m = n THEN p ELSE portSpace.ports[m]
  BY DEF OneEntry
<1>3. portSpace.next \in Int
  BY LimitAssumption DEF IInv, GoodSpace, SpaceType, taskSelfName
<1>4. \A m : lookup(portSpace', m) <=> IF m = n THEN p # NoPort ELSE lookup(portSpace, m)
  BY <1>2 DEF lookup
<1>5. SpecialOwned'
  BY <1>2, <1>4 DEF IInv, SpecialOwned, ownsReceiveRight, lookup
<1>6. /\ issued' \subseteq Name
      /\ \A m \in issued' : m < portSpace'.next
  <2>1. issued \subseteq Name /\ \A m \in issued : m < portSpace.next
    BY DEF IInv, IssuedNames
  <2>2. issued' \subseteq Name
    BY <2>1
  <2>3. ASSUME NEW m \in issued' PROVE m < portSpace'.next
    <3>1. m \in Int /\ (m = n \/ m < portSpace.next)
      BY <2>1, <2>2 DEF Name, taskSelfName
    <3> QED
      BY <1>3, <3>1
  <2> QED
    BY <2>2, <2>3
<1>7. \A m \in Name : lookup(portSpace', m) /\ m # taskSelfName => m \in issued'
  BY <1>4 DEF IInv, IssuedNames
<1>8. portSpace'.ports[taskSelfName].send # 0 => taskSelfName \in issued'
  <2>1. taskSelfName \in Name
    BY LimitAssumption DEF Name, taskSelfName
  <2>2. CASE n = taskSelfName
    <3>1. portSpace'.ports[taskSelfName] = p
      BY <1>2, <2>1, <2>2
    <3>2. p # NoPort
      BY <1>1, <3>1 DEF GoodSpace, SelfStays
    <3> QED
      BY <2>2, <3>1, <3>2
  <2>3. CASE n # taskSelfName
    BY <1>2, <2>1, <2>3 DEF IInv, IssuedNames
  <2> QED
    BY <2>2, <2>3
<1>9. IssuedNames'
  BY <1>6, <1>7, <1>8 DEF IssuedNames
<1> QED
  BY <1>1, <1>5, <1>9 DEF IInv

\* Each effect preserves the invariant.
LEMMA StepHolds == IInv /\ [Next]_vars => IInv'
<1> SUFFICES ASSUME IInv, [Next]_vars PROVE IInv'
  OBVIOUS
<1>0. Effect /\ OtherTypes'
  BY EffectOfStep
<1> USE NoPortAssumption
<1>a. /\ portSpace.next \in Int
      /\ \A n \in Name : n \in Int
      /\ \A n \in Name : lookup(portSpace, n) => n < portSpace.next
  BY LimitAssumption DEF IInv, GoodSpace, NamesBelowNext, SpaceType, Name, taskSelfName
<1>1. CASE Keeps
  BY <1>0, <1>1 DEF Keeps, IInv, SpecialOwned, IssuedNames
<1>2. ASSUME NEW a \in Attributes, Allocates(a) PROVE IInv'
  <2>1. /\ OneEntry(portSpace.next, a) /\ portSpace'.next = portSpace.next + 1
        /\ candidate(portSpace) = portSpace.next
        /\ portSpace.next \in Name /\ portSpace.next # taskSelfName
        /\ portSpace.ports[portSpace.next] = NoPort
    BY <1>2, AllocatesEntry
  <2>2. a \in Port /\ a # NoPort
    BY DEF Attributes
  <2>3. /\ issued' = issued \cup {portSpace.next}
        /\ specialReplyPort' = specialReplyPort \/ (specialReplyPort' = portSpace.next /\ a.receive)
    BY <1>2, <2>1 DEF Allocates
  <2>4. ~ownsReceiveRight(portSpace, portSpace.next)
    BY <2>1 DEF ownsReceiveRight, lookup
  <2> QED
    BY <1>0, <1>a, <2>1, <2>2, <2>3, <2>4, EntryKeepsInvariant
<1>3. ASSUME NEW k \in Service, CopiesOut(k) PROVE IInv'
  <2>0. specialReplyPort' = specialReplyPort
    BY <1>3 DEF CopiesOut
  <2>1. CASE /\ OneEntry(portSpace.next, SendRight(k)) /\ portSpace'.next = portSpace.next + 1
             /\ issued' = issued \cup {portSpace.next}
             /\ portSpace.next \in Name /\ portSpace.next # taskSelfName
             /\ portSpace.ports[portSpace.next] = NoPort
    <3>1. SendRight(k) \in Port
      BY NewPorts DEF SendRight, PortType
    <3>2. ~ownsReceiveRight(portSpace, portSpace.next)
      BY <2>1 DEF ownsReceiveRight, lookup
    <3> QED
      BY <1>0, <1>a, <2>0, <2>1, <3>1, <3>2, EntryKeepsInvariant
  <2>2. ASSUME NEW n \in Name, lookup(portSpace, n),
               portSpace.ports[n] \in Port, n \in issued,
               portSpace.ports[n].send + 1 \in 0 .. MaxUrefs,
               OneEntry(n, AddSend(portSpace.ports[n], 1)),
               portSpace'.next = portSpace.next, issued' = issued
        PROVE  IInv'
    <3> DEFINE p == AddSend(portSpace.ports[n], 1)
    <3>1. p \in Port /\ p.receive = portSpace.ports[n].receive
      BY <2>2, AddSendPort
    <3> HIDE DEF p
    <3>2. OneEntry(n, p)
      BY <2>2 DEF p
    <3>3. n < portSpace'.next
      BY <1>a, <2>2
    <3>4. ownsReceiveRight(portSpace, n) => p # NoPort /\ p.receive
      BY <3>1 DEF ownsReceiveRight
    <3> QED
      BY <1>0, <2>0, <2>2, <3>1, <3>2, <3>3, <3>4, EntryKeepsInvariant
  <2> QED
    BY <1>3, <2>1, <2>2, CopiesOutEntry
<1>4. ASSUME NEW n \in Name, Drops(n) PROVE IInv'
  <2> DEFINE old == portSpace.ports[n]
             q == Dropped(old)
             p == IF IsDead(n, q) THEN NoPort ELSE q
  <2>1. /\ portSpace'.next = portSpace.next /\ old \in Port /\ OneEntry(n, p)
    BY <1>4, DropsEntry
  <2>2. /\ lookup(portSpace, n) /\ issued' = issued /\ specialReplyPort' = specialReplyPort
        /\ old.send # 0 \/ old.sendOnce # 0
    BY <1>4 DEF Drops, HasUref
  <2>3. /\ q \in Port /\ q.receive = old.receive
        /\ q.send # 0 => old.send # 0
    BY <2>1, <2>2, DroppedPort
  <2>4. q.receive => p = q
    BY DEF IsDead
  <2>5. p \in Port \cup {NoPort} /\ (p # NoPort => p = q)
    BY <2>3
  <2>6. p # NoPort /\ (n # taskSelfName \/ p.send # 0) => n \in issued'
    BY <2>2, <2>3, <2>5 DEF IInv, IssuedNames
  <2>7. ownsReceiveRight(portSpace, n) => p # NoPort /\ p.receive
    BY <2>3, <2>4 DEF ownsReceiveRight
  <2> HIDE DEF p
  <2>8. n < portSpace'.next
    BY <1>a, <2>1, <2>2
  <2> QED
    BY <1>0, <2>1, <2>2, <2>5, <2>6, <2>7, <2>8, EntryKeepsInvariant
<1>5. ASSUME NEW n \in Name, NEW delta \in Int, Recounts(n, delta) PROVE IInv'
  <2> DEFINE p == AddSend(portSpace.ports[n], delta)
  <2>1. /\ lookup(portSpace, n) /\ portSpace.ports[n].send + delta \in 0 .. MaxUrefs
        /\ portSpace' = [portSpace EXCEPT !.ports[n] = AddSend(@, delta)]
        /\ specialReplyPort' = specialReplyPort
    BY <1>5 DEF Recounts
  <2>2. /\ portSpace'.next = portSpace.next /\ portSpace.ports[n] \in Port /\ OneEntry(n, p)
    BY <2>1, RecountsEntry
  <2>3. p \in Port /\ p.receive = portSpace.ports[n].receive
    BY <2>1, <2>2, AddSendPort
  <2>4. issued' \in {issued, issued \cup {n}}
    BY <1>5 DEF Recounts
  <2>5. n \in issued'
    BY <1>5 DEF Recounts, IInv, IssuedNames
  <2>6. n < portSpace'.next
    BY <1>a, <2>1, <2>2
  <2>7. ownsReceiveRight(portSpace, n) => p # NoPort /\ p.receive
    BY <2>3 DEF ownsReceiveRight
  <2> HIDE DEF p
  <2> QED
    BY <1>0, <2>1, <2>2, <2>3, <2>4, <2>5, <2>6, <2>7, EntryKeepsInvariant
<1>6. ASSUME NEW set \in Name, NEW m \in Name, Inserts(set, m) PROVE IInv'
  <2>1. /\ GoodSpace(portSpace') /\ portSpace'.next = portSpace.next
        /\ \A x \in Name : lookup(portSpace', x) <=> lookup(portSpace, x)
        /\ \A x \in Name : lookup(portSpace, x) =>
              /\ portSpace'.ports[x].receive = portSpace.ports[x].receive
              /\ portSpace'.ports[x].send = portSpace.ports[x].send
    BY <1>6, InsertGood DEF Inserts, IInv
  <2>2. issued' = issued /\ specialReplyPort' = specialReplyPort
    BY <1>6 DEF Inserts
  <2>3. SpecialOwned'
    BY <2>1, <2>2 DEF IInv, SpecialOwned, ownsReceiveRight, lookup
  <2>4. lookup(portSpace, taskSelfName) /\ taskSelfName \in Name
    BY LimitAssumption DEF IInv, GoodSpace, SelfStays, lookup, Name, taskSelfName
  <2>5. IssuedNames'
    BY <2>1, <2>2, <2>4 DEF IInv, IssuedNames
  <2> QED
    BY <1>0, <2>1, <2>3, <2>5 DEF IInv
<1> QED
  BY <1>0, <1>1, <1>2, <1>3, <1>4, <1>5, <1>6 DEF Effect

-----------------------------------------------------------------------------
(* The theorems.                                                           *)

\* The invariant holds in every state the traps reach.
THEOREM Invariance == Spec => []IInv
  BY InitHolds, StepHolds, PTL DEF Spec

\* The port space keeps its types and no right exceeds machPortUrefsMaximum.
THEOREM TypeCorrect == Spec => []TypeOK
<1>1. IInv => TypeOK
  BY DEF IInv, GoodSpace, OtherTypes, IssuedNames, SpaceType, TypeOK
<1> QED
  BY <1>1, Invariance, PTL

\* Each stable name of copyout names the one port of its kind.
THEOREM UniqueServices == Spec => []ServiceIsUnique
<1>1. IInv => ServiceIsUnique
  BY DEF IInv, GoodSpace, ServicesLive, ServicesUnique, ServiceIsUnique
<1> QED
  BY <1>1, Invariance, PTL

\* Port sets and the special reply port name receive rights that are still owned.
THEOREM OwnedReceivers == Spec => []ReceiversAreOwned
<1>1. IInv => ReceiversAreOwned
  BY DEF IInv, GoodSpace, MembersOwned, SpecialOwned, ReceiversAreOwned
<1> QED
  BY <1>1, Invariance, PTL

\* The name that an effect makes live is new or was live.
LEMMA NoReuse ==
    ASSUME IInv, [Next]_vars, NEW x \in issued, ~lookup(portSpace, x)
    PROVE  ~lookup(portSpace', x)
<1>0. Effect
  BY EffectOfStep
<1>a. x \in Name /\ x < portSpace.next /\ portSpace.next \in Int /\ x \in Int
  BY LimitAssumption DEF IInv, IssuedNames, GoodSpace, SpaceType, Name, taskSelfName
<1>b. ASSUME NEW n \in Name, NEW p, OneEntry(n, p), n # x
      PROVE  ~lookup(portSpace', x)
  BY <1>a, <1>b DEF OneEntry, lookup
<1>1. CASE Keeps
  BY <1>1 DEF Keeps
<1>2. ASSUME NEW a \in Attributes, Allocates(a) PROVE ~lookup(portSpace', x)
  BY <1>2, <1>a, <1>b, AllocatesEntry
<1>3. ASSUME NEW k \in Service, CopiesOut(k) PROVE ~lookup(portSpace', x)
  BY <1>3, <1>a, <1>b, CopiesOutEntry
<1>4. ASSUME NEW n \in Name, Drops(n) PROVE ~lookup(portSpace', x)
  BY <1>4, <1>a, <1>b, DropsEntry DEF Drops
<1>5. ASSUME NEW n \in Name, NEW delta \in Int, Recounts(n, delta) PROVE ~lookup(portSpace', x)
  BY <1>5, <1>a, <1>b, RecountsEntry DEF Recounts
<1>6. ASSUME NEW set \in Name, NEW m \in Name, Inserts(set, m) PROVE ~lookup(portSpace', x)
  BY <1>6, <1>a, InsertGood DEF Inserts, IInv
<1> QED
  BY <1>0, <1>1, <1>2, <1>3, <1>4, <1>5, <1>6 DEF Effect

\* A name the guest has seen never comes to name another port.
THEOREM NoNameIsReused == Spec => NamesNeverReused
<1>1. IInv /\ [Next]_vars =>
        [\A n \in issued : ~lookup(portSpace, n) => ~lookup(portSpace, n)']_vars
  BY NoReuse DEF lookup
<1> QED
  BY <1>1, Invariance, PTL DEF Spec, NamesNeverReused

-----------------------------------------------------------------------------
(* PortSpace implements IpcSpace.                                          *)

Rights == [n \in Name |-> RightsOf(portSpace.ports[n])]

\* A step on one entry changes the rights of that name only.
LEMMA RightsAfter ==
    ASSUME NEW n \in Name, NEW p, OneEntry(n, p)
    PROVE  Rights' = [Rights EXCEPT ![n] = RightsOf(p)]
  BY DEF Rights, OneEntry

\* The rights of a live port.
LEMMA RightsOfPort ==
    ASSUME NEW p \in Port
    PROVE  RightsOf(p) = IF p.receive \/ p.send # 0
                         THEN [type |-> p.type, receive |-> p.receive, send |-> p.send]
                         ELSE Ipc!Nothing
  BY NoPortAssumption DEF RightsOf, Ipc!Nothing

\* A new port of an unused name is a grant.
LEMMA GrantStep ==
    ASSUME NEW n \in Name, NEW p \in Port, OneEntry(n, p), issued' = issued \cup {n},
           n \notin issued \/ n = taskSelfName, RightsOf(portSpace.ports[n]) = Ipc!Nothing,
           p.send \in {0, 1}, p.receive \/ p.send = 1
    PROVE  Ipc!INext
<1> DEFINE r == [type |-> p.type, receive |-> p.receive, send |-> p.send]
<1>1. RightsOf(p) = r
  BY RightsOfPort
<1>2. r \in Ipc!Granted /\ (r.receive \/ r.send = 1)
  BY DEF Ipc!Granted, Port
<1>3. Rights' = [Rights EXCEPT ![n] = r]
  BY <1>1, RightsAfter
<1>4. Rights[n] = Ipc!Nothing
  BY DEF Rights
<1> HIDE DEF r
<1>5. Ipc!Grant(n)
  BY <1>2, <1>3, <1>4 DEF Ipc!Grant, Rights
<1> QED
  BY <1>5 DEF Ipc!INext

\* A change of references, down to losing the last right, is a recount; the same
\* number of references is no change.
LEMMA RecountStep ==
    ASSUME NEW n \in Name, NEW p \in Port \cup {NoPort}, OneEntry(n, p), issued' = issued,
           portSpace.ports[n] \in Port, portSpace.ports[n].send # 0,
           NEW send \in 0 .. MaxUrefs,
           p \in Port => /\ p.type = portSpace.ports[n].type
                         /\ p.receive = portSpace.ports[n].receive /\ p.send = send,
           p = NoPort => send = 0 /\ ~portSpace.ports[n].receive
    PROVE  [Ipc!INext]_(Ipc!ivars)
<1> DEFINE old == portSpace.ports[n]
           r == [type |-> old.type, receive |-> old.receive, send |-> old.send]
           new == IF send = 0 /\ ~old.receive THEN Ipc!Nothing ELSE [r EXCEPT !.send = send]
<1>1. RightsOf(old) = r
  BY RightsOfPort
<1>2. [r EXCEPT !.send = send] = [type |-> old.type, receive |-> old.receive, send |-> send]
  OBVIOUS
<1>3. RightsOf(p) = new
  <2>1. CASE p = NoPort
    BY <2>1 DEF RightsOf, Ipc!Nothing
  <2>2. CASE p \in Port
    BY <1>2, <2>2, RightsOfPort
  <2> QED
    BY <2>1, <2>2
<1>4. Rights[n] = r /\ r.send # 0 /\ r.receive = old.receive
  BY <1>1 DEF Rights
<1>5. Rights' = [Rights EXCEPT ![n] = new]
  BY <1>3, RightsAfter
<1>6. new.send = send
  BY <1>2 DEF Ipc!Nothing
<1> HIDE DEF r
<1>7. new = IF send = 0 /\ ~Rights[n].receive THEN Ipc!Nothing ELSE [Rights[n] EXCEPT !.send = send]
  BY <1>4
<1>8. Rights'[n] = new
  BY <1>5 DEF Rights
<1> HIDE DEF new
<1>9. CASE send # old.send
  <2>1. Rights'[n].send # Rights[n].send
    BY <1>4, <1>6, <1>8, <1>9 DEF r
  <2>2. Ipc!Recount(n)
    BY <1>4, <1>5, <1>7, <2>1 DEF Ipc!Recount, Rights
  <2> QED
    BY <2>2 DEF Ipc!INext
<1>10. CASE send = old.send
  <2>1. send # 0 /\ Rights[n] = [Rights[n] EXCEPT !.send = send]
    BY <1>4, <1>10 DEF r
  <2>2. new = Rights[n]
    BY <1>7, <2>1
  <2>3. Rights' = Rights
    BY <1>5, <2>2 DEF Rights
  <2> QED
    BY <2>3 DEF Ipc!ivars, Rights
<1> QED
  BY <1>9, <1>10

\* Every effect of a trap is a grant, a recount or nothing to the IPC space.
LEMMA StepRefines ==
    ASSUME IInv, [Next]_vars
    PROVE  [Ipc!INext]_(Ipc!ivars)
<1>0. Effect
  BY EffectOfStep
<1>a. /\ \A n \in issued : n < portSpace.next
      /\ portSpace.next \in Int
      /\ RightsOf(NoPort) = Ipc!Nothing
  BY LimitAssumption DEF IInv, IssuedNames, GoodSpace, SpaceType, taskSelfName, RightsOf,
                         Ipc!Nothing
<1>b. portSpace.next \notin issued
  BY <1>a
<1>c. Rights' = Rights /\ issued' = issued => UNCHANGED Ipc!ivars
  BY DEF Ipc!ivars, Rights
<1>1. CASE Keeps
  BY <1>1, <1>c DEF Keeps, Rights
<1>2. ASSUME NEW a \in Attributes, Allocates(a) PROVE Ipc!INext
  <2>1. a \in Port
    BY DEF Attributes
  <2>2. /\ OneEntry(portSpace.next, a) /\ portSpace.next \in Name
        /\ portSpace.ports[portSpace.next] = NoPort
        /\ candidate(portSpace) = portSpace.next
    BY <1>2, AllocatesEntry
  <2> QED
    BY <1>2, <1>a, <1>b, <2>1, <2>2, GrantStep DEF Allocates
<1>3. ASSUME NEW k \in Service, CopiesOut(k) PROVE [Ipc!INext]_(Ipc!ivars)
  <2>1. CASE /\ OneEntry(portSpace.next, SendRight(k)) /\ issued' = issued \cup {portSpace.next}
             /\ portSpace.next \in Name /\ portSpace.ports[portSpace.next] = NoPort
    <3>1. SendRight(k) \in Port /\ SendRight(k).send = 1
      BY NewPorts DEF SendRight, PortType, NewPort
    <3> QED
      BY <1>a, <1>b, <2>1, <3>1, GrantStep
  <2>2. ASSUME NEW n \in Name, portSpace.ports[n].send # 0, portSpace.ports[n] \in Port,
               portSpace.ports[n].send + 1 \in 0 .. MaxUrefs,
               OneEntry(n, AddSend(portSpace.ports[n], 1)), issued' = issued
        PROVE  [Ipc!INext]_(Ipc!ivars)
    <3> DEFINE p == AddSend(portSpace.ports[n], 1)
    <3>1. /\ p \in Port /\ p.type = portSpace.ports[n].type
          /\ p.receive = portSpace.ports[n].receive /\ p.send = portSpace.ports[n].send + 1
      BY <2>2, AddSendPort
    <3>2. OneEntry(n, p)
      BY <2>2
    <3> HIDE DEF p
    <3> QED
      BY <2>2, <3>1, <3>2, RecountStep, NoPortAssumption
  <2> QED
    BY <1>3, <2>1, <2>2, CopiesOutEntry
<1>4. ASSUME NEW n \in Name, Drops(n) PROVE [Ipc!INext]_(Ipc!ivars)
  <2> DEFINE old == portSpace.ports[n]
             q == Dropped(old)
             p == IF IsDead(n, q) THEN NoPort ELSE q
  <2>1. old \in Port /\ OneEntry(n, p) /\ issued' = issued
    BY <1>4, DropsEntry DEF Drops
  <2>2. /\ q \in Port /\ q.type = old.type /\ q.receive = old.receive
        /\ old.send # 0 => q.send = old.send - 1
        /\ old.send = 0 => q.send = 0
    BY <1>4, <2>1, DroppedPort DEF Drops, HasUref
  <2>3. /\ p \in Port \cup {NoPort}
        /\ p \in Port => p = q
        /\ p = NoPort => q.send = 0 /\ ~q.receive
    BY <2>2, NoPortAssumption DEF IsDead
  <2> HIDE DEF p, q
  <2>4. CASE old.send # 0
    <3>1. q.send \in 0 .. MaxUrefs
      BY <2>2 DEF Port
    <3> QED
      BY <2>1, <2>2, <2>3, <2>4, <3>1, RecountStep
  <2>5. CASE old.send = 0
    <3>1. RightsOf(p) = RightsOf(old)
      <4>1. CASE p = NoPort
        BY <1>a, <2>1, <2>2, <2>3, <2>5, <4>1, RightsOfPort
      <4>2. CASE p = q
        BY <2>1, <2>2, <2>5, <4>2, RightsOfPort
      <4> QED
        BY <2>3, <4>1, <4>2
    <3>2. Rights' = [Rights EXCEPT ![n] = RightsOf(old)]
      BY <2>1, <3>1, RightsAfter
    <3>3. Rights' = Rights
      BY <3>2 DEF Rights
    <3> QED
      BY <1>c, <2>1, <3>3
  <2> QED
    BY <2>4, <2>5
<1>5. ASSUME NEW n \in Name, NEW delta \in Int, Recounts(n, delta)
      PROVE  [Ipc!INext]_(Ipc!ivars)
  <2> DEFINE old == portSpace.ports[n]
             p == AddSend(old, delta)
  <2>1. /\ old.send + delta \in 0 .. MaxUrefs /\ lookup(portSpace, n)
        /\ portSpace' = [portSpace EXCEPT !.ports[n] = AddSend(@, delta)]
    BY <1>5 DEF Recounts
  <2>2. old \in Port /\ OneEntry(n, p)
    BY <2>1, RecountsEntry
  <2>3. /\ p \in Port /\ p.type = old.type /\ p.receive = old.receive
        /\ p.send = old.send + delta
    BY <2>1, <2>2, AddSendPort
  <2> HIDE DEF p
  <2>4. CASE old.send # 0
    <3>1. issued' = issued
      BY <1>5, <2>4 DEF Recounts, IInv, IssuedNames
    <3> QED
      BY <2>1, <2>2, <2>3, <2>4, <3>1, RecountStep, NoPortAssumption
  <2>5. CASE old.send = 0
    <3>1. n = taskSelfName /\ delta = 1 /\ issued' = issued \cup {n}
      BY <1>5, <2>5 DEF Recounts
    <3>2. ~old.receive
      BY <3>1 DEF IInv, GoodSpace, SelfStays
    <3>3. RightsOf(old) = Ipc!Nothing
      BY <2>2, <2>5, <3>2, RightsOfPort
    <3>4. p.send = 1
      BY <2>3, <2>5, <3>1
    <3> QED
      BY <2>2, <2>3, <3>1, <3>3, <3>4, GrantStep
  <2> QED
    BY <2>4, <2>5
<1>6. ASSUME NEW set \in Name, NEW m \in Name, Inserts(set, m) PROVE UNCHANGED Ipc!ivars
  <2>1. /\ \A x \in Name : lookup(portSpace', x) <=> lookup(portSpace, x)
        /\ \A x \in Name : lookup(portSpace, x) =>
              /\ portSpace'.ports[x].type = portSpace.ports[x].type
              /\ portSpace'.ports[x].receive = portSpace.ports[x].receive
              /\ portSpace'.ports[x].send = portSpace.ports[x].send
    BY <1>6, InsertGood DEF Inserts, IInv
  <2>2. \A x \in Name : RightsOf(portSpace'.ports[x]) = RightsOf(portSpace.ports[x])
    BY <2>1 DEF RightsOf, lookup
  <2> QED
    BY <1>6, <1>c, <2>2 DEF Inserts, Rights
<1> QED
  BY <1>0, <1>1, <1>2, <1>3, <1>4, <1>5, <1>6 DEF Effect

\* The traps implement an IPC space: no sequence of them revives a name,
\* takes a receive right away or changes the rights of two names at once.
THEOREM Refinement == Spec => IpcSpaceRefinement
<1>1. Init => Ipc!IInit
  <2> SUFFICES ASSUME Init PROVE Ipc!IInit
    OBVIOUS
  <2>1. NewPort("Ordinary", FALSE, 0) \in Port
    BY NewPorts DEF PortType
  <2>2. /\ ~NewPort("Ordinary", FALSE, 0).receive
        /\ NewPort("Ordinary", FALSE, 0).send = 0
    BY DEF NewPort
  <2>3. RightsOf(NewPort("Ordinary", FALSE, 0)) = Ipc!Nothing
    BY <2>1, <2>2, RightsOfPort
  <2>4. RightsOf(NoPort) = Ipc!Nothing
    BY DEF RightsOf, Ipc!Nothing
  <2>5. /\ portSpace.ports = [n \in Name |-> IF n = taskSelfName
                                            THEN NewPort("Ordinary", FALSE, 0) ELSE NoPort]
        /\ issued = {}
    BY DEF Init
  <2>6. \A n \in Name : RightsOf(portSpace.ports[n]) = Ipc!Nothing
    BY <2>3, <2>4, <2>5
  <2> QED
    BY <2>5, <2>6 DEF Ipc!IInit
<1>2. IInv /\ [Next]_vars => [Ipc!INext]_(Ipc!ivars)
  BY StepRefines
<1> QED
  BY <1>1, <1>2, Invariance, PTL DEF Spec, IpcSpaceRefinement, Ipc!ISpec

-----------------------------------------------------------------------------
(* Traps that fail.                                                        *)

CleanFailure == result'.status # "success" => UNCHANGED <<portSpace, otherVars>>

\* A refusal changes nothing, and only a success is reported with a change.
LEMMA EndsClean ==
    /\ \A status : Refuse(status) => CleanFailure
    /\ Answer("success") => CleanFailure
    /\ \A n : Report(n) => CleanFailure
    /\ \A a : Allocate(a) => CleanFailure
    /\ \A k : CopyoutReported(k) => CleanFailure
  BY DEF Refuse, Answer, Report, Allocate, CopyoutReported, CleanFailure

\* The failed copyout of a new name takes the port back.
LEMMA CopyOutClean ==
    ASSUME IInv, NEW type \in PortType \ Service, NEW receive \in BOOLEAN, NEW send \in {0, 1},
           NEW writable, AllocateAndCopyOut(NewPort(type, receive, send), writable)
    PROVE  CleanFailure
<1> DEFINE a == NewPort(type, receive, send)
<1>1. a \in Attributes
  BY AttributesOf
<1>2. CASE Refuse("noSpace") \/ Allocate(a)
  BY <1>2, EndsClean
<1>3. CASE /\ CanAllocate(portSpace)
           /\ portSpace' = rollbackLastAllocation(allocatePort(portSpace, a), candidate(portSpace))
           /\ UNCHANGED otherVars
  BY <1>1, <1>3, RollbackUndoes DEF IInv, CleanFailure
<1> QED
  BY <1>2, <1>3 DEF AllocateAndCopyOut

\* A trap that does not succeed leaves the port space as it was.
THEOREM FailuresAreClean == Spec => FailureLeavesNothing
<1>1. ASSUME IInv, Next PROVE CleanFailure
  <2> USE <1>1
  <2>0. {"Ordinary", "PortSet", "Reply"} \subseteq PortType \ Service
    BY DEF PortType, Service
  <2>1. ASSUME NEW target, NEW right, NEW w, mach_port_allocate(target, right, w)
        PROVE  CleanFailure
    BY <2>0, <2>1, EndsClean, CopyOutClean DEF mach_port_allocate, OnSelf, ReceiveRight
  <2>2. ASSUME NEW target, NEW r, NEW flags, NEW w, mach_port_construct(target, r, flags, w)
        PROVE  CleanFailure
    <3> DEFINE type == IF "reply" \in flags THEN "Reply" ELSE "Ordinary"
               send == IF "send" \in flags THEN 1 ELSE 0
    <3>1. type \in PortType \ Service /\ send \in {0, 1}
      BY <2>0
    <3>2. \/ \E status : Refuse(status)
          \/ AllocateAndCopyOut(NewPort(type, TRUE, send), TRUE)
      BY <2>2 DEF mach_port_construct, OnSelf, Unsupported
    <3> HIDE DEF type, send
    <3> QED
      BY <3>1, <3>2, EndsClean, CopyOutClean
  <2>3. ASSUME NEW target, NEW n, mach_port_deallocate(target, n) PROVE CleanFailure
    BY <2>3, EndsClean DEF mach_port_deallocate, OnSelf
  <2>4. ASSUME NEW target, NEW n, NEW right, NEW d, mach_port_mod_refs(target, n, right, d)
        PROVE  CleanFailure
    BY <2>4, EndsClean DEF mach_port_mod_refs, OnSelf
  <2>5. ASSUME NEW target, NEW m, NEW set, mach_port_insert_member(target, m, set)
        PROVE  CleanFailure
    BY <2>5, EndsClean DEF mach_port_insert_member, OnSelf
  <2>6. ReplyTraps => CleanFailure
    BY EndsClean DEF ReplyTraps, mach_reply_port, mk_timer_create, AllocateReported,
                     thread_get_special_reply_port
  <2>7. SelfTraps => CleanFailure
    BY EndsClean DEF SelfTraps, thread_self, host_self, task_self
  <2>8. VoucherTraps => CleanFailure
    BY EndsClean DEF VoucherTraps, host_create_mach_voucher
  <2>9. MessageTraps => CleanFailure
    BY EndsClean DEF MessageTraps, mach_msg2_receive, mach_msg2_send, Serve, CopyoutOrThrow,
                     Unsupported
  <2> QED
    BY <2>1, <2>2, <2>3, <2>4, <2>5, <2>6, <2>7, <2>8, <2>9
    DEF Next, RightTraps, UrefTraps, SetTraps
<1>2. IInv /\ [Next]_vars => [CleanFailure]_vars
  BY <1>1
<1> QED
  BY <1>2, Invariance, PTL DEF Spec, FailureLeavesNothing, CleanFailure
=============================================================================
