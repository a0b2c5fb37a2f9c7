-------------------------- MODULE ReceptionProofs --------------------------
(***************************************************************************)
(* Proofs about UDPSocket and Reception, for any groups, ports, numbers of *)
(* descriptors, messages and retries.                                      *)
(***************************************************************************)
EXTENDS Reception, FiniteSetTheorems, TLAPS

Sockets == [port : Nat \cup {Unbound}, member : Group \cup {NoGroup},
            queue : Seq(Message \cup Group)]

SocketTypes ==
    /\ DOMAIN open \subseteq Descriptor
    /\ open \in [DOMAIN open -> Sockets]
    /\ DOMAIN multicast \subseteq Group
    /\ multicast \in [DOMAIN multicast -> Descriptor]
    /\ unicast \in Descriptor \cup {None}
    /\ overwritten \subseteq Descriptor
    /\ life \in {"none", "live", "thrown", "destroyed"}

(* Which descriptors are open, and that each of them has one owner.         *)
Ownership ==
    /\ life = "none" => DOMAIN open = {} /\ DOMAIN multicast = {} /\ overwritten = {}
    /\ life = "live" =>
         /\ DOMAIN open = {unicast} \cup Range(multicast) \cup overwritten
         /\ unicast \notin Range(multicast) \cup overwritten
         /\ Range(multicast) \cap overwritten = {}
         /\ \A g, h \in DOMAIN multicast : g # h => multicast[g] # multicast[h]
         /\ open[unicast].port = Unbound
         /\ \A g \in DOMAIN multicast : open[multicast[g]].port \in Nat
         /\ \A s \in overwritten : open[s].port \in Nat
    /\ life = "destroyed" => DOMAIN open = overwritten

(* The recvfrom the thread is in is one of the object's, or one of a group  *)
(* that was joined again while the thread waited in it.                     *)
Waits ==
    /\ at \in {"none", "unicast", "multicast", "joined"}
    /\ waited \in BOOLEAN /\ running \in BOOLEAN
    /\ waited => at \in {"unicast", "multicast"}
    /\ at = "none" => life # "destroyed"
    /\ at = "none" \/ at = "joined" \/ life = "live"
    /\ at = "joined" => life \in {"live", "destroyed"} /\ ~running
    /\ at = "unicast" => fd = unicast
    /\ at = "multicast" => group \in DOMAIN multicast /\ fd \in Range(multicast) \cup overwritten

SocketInv == SocketTypes /\ Ownership /\ Waits

(* How many units it is since a message was first to be transmitted, and in *)
(* how many more at most the thread reads the unicast socket.               *)
Late(m) == attempts[m] + (IF m \in due THEN 1 ELSE 0) - 1

Above(g) == {h \in DOMAIN multicast : h > g}
Remaining ==
    IF at = "multicast" THEN Cardinality(Above(group)) + (IF waited THEN 0 ELSE 1) ELSE 0
Passes(m) == (reads[m] + 1) * Cardinality(DOMAIN multicast)

PeerTypes ==
    /\ fate \in [Message -> {"new", "queued", "acked", "givenup"}]
    /\ attempts \in [Message -> 0..kMaxRetries]
    /\ reads \in [Message -> 0..MaxReads]
    /\ due \subseteq Message
    /\ \A m \in due : attempts[m] < kMaxRetries
    /\ \A m \in Message : fate[m] = "new" => attempts[m] = 0 /\ m \notin due
    /\ life = "none" => \A m \in Message : fate[m] = "new"

(* A message that was transmitted and not acknowledged waits to be read.    *)
Copies ==
    \A m \in Message : fate[m] = "queued" =>
      /\ attempts[m] = 0 => m \in due
      /\ attempts[m] > 0 /\ life = "live" =>
           \E i \in 1..Len(open[unicast].queue) : open[unicast].queue[i] = m

(* Of the passes over the groups that the datagrams read since the message  *)
(* was queued have cost, as many units are left as it may get later.        *)
Lateness ==
    \A m \in Message :
      /\ fate[m] = "queued" =>
           /\ running /\ reads[m] < MaxReads => Late(m) + Remaining <= Passes(m)
           /\ at = "none" => Late(m) = 0
      /\ fate[m] = "givenup" =>
           /\ running /\ reads[m] < MaxReads => kMaxRetries - 1 <= Passes(m)
           /\ at = "none" => kMaxRetries = 1

ReceptionInv == SocketInv /\ PeerTypes /\ Copies /\ Lateness

-----------------------------------------------------------------------------
(* The constants: groups and descriptors are positive numbers, and what the *)
(* modules use beside them is none of these.                                *)
LEMMA Constants ==
    /\ Group \subseteq Nat /\ NoGroup \notin Group /\ IsFiniteSet(Group)
    /\ PortOf \in [Group -> Nat]
    /\ Descriptor \subseteq Nat /\ None \notin Descriptor
    /\ Messages \in Nat /\ kMaxRetries \in Nat /\ kMaxRetries >= 1 /\ MaxReads \in Nat
    /\ Unbound \notin Nat
BY UDPSocketAssumption, ReceptionAssumption DEF NoGroup, None, Unbound

(* Every set of numbers that is not empty has a least one.                  *)
LEMMA Least ==
    ASSUME NEW T \in SUBSET Nat, T # {}
    PROVE  \E x \in T : \A y \in T : x <= y
<1>1. PICK x \in T : \A y \in T : <<y, x>> \notin OpToRel(<, Nat)
  BY WFMin, NatLessThanWellFounded
<1>2. \A y \in T : ~(y < x)
  BY <1>1 DEF OpToRel
<1> QED BY <1>2

(* Min gives it.                                                            *)
LEMMA MinIs ==
    ASSUME NEW T \in SUBSET Nat, T # {}
    PROVE  Min(T) \in T /\ \A y \in T : Min(T) <= y
BY Least DEF Min

(* The descriptor the kernel gives is a free one.                           *)
LEMMA OpenedIsFree == Free # {} => Opened \in Descriptor /\ Opened \notin DOMAIN open
<1>1. Free \subseteq Nat
  BY Constants DEF Free
<1> QED BY <1>1, Least DEF Opened, Free

(* Sending and reading change the queues of sockets and nothing else.       *)
QueuesOnly ==
    /\ UNCHANGED <<unicast, multicast, life, overwritten>>
    /\ DOMAIN open' = DOMAIN open /\ open' \in [DOMAIN open -> Sockets]
    /\ \A s \in DOMAIN open : open'[s].port = open[s].port /\ open'[s].member = open[s].member

LEMMA EnqueueEffect ==
    ASSUME SocketTypes, NEW fds, NEW d \in Message \cup Group, Enqueue(fds, d),
           UNCHANGED <<unicast, multicast, life, overwritten>>
    PROVE  /\ QueuesOnly
           /\ \A s \in DOMAIN open :
                open'[s].queue = IF s \in fds THEN Append(open[s].queue, d) ELSE open[s].queue
<1>1. \A s \in DOMAIN open : open[s] \in Sockets
  BY DEF SocketTypes
<1>2. DOMAIN open' = DOMAIN open
  BY DEF Enqueue
<1>3. ASSUME NEW s \in DOMAIN open
      PROVE  /\ open'[s] \in Sockets /\ open'[s].port = open[s].port
             /\ open'[s].member = open[s].member
             /\ open'[s].queue = IF s \in fds THEN Append(open[s].queue, d) ELSE open[s].queue
  <2>1. CASE s \in fds
    <3>1. open'[s] = [open[s] EXCEPT !.queue = Append(@, d)]
      BY <2>1 DEF Enqueue
    <3>2. Append(open[s].queue, d) \in Seq(Message \cup Group)
      BY <1>1 DEF Sockets
    <3> QED BY <3>1, <3>2, <2>1, <1>1 DEF Sockets
  <2>2. CASE s \notin fds
    BY <2>2, <1>1 DEF Enqueue
  <2> QED BY <2>1, <2>2
<1>4. open' = [s \in DOMAIN open |-> open'[s]]
  BY DEF Enqueue
<1> QED BY <1>2, <1>3, <1>4 DEF QueuesOnly

LEMMA DequeueEffect ==
    ASSUME SocketTypes, NEW s \in DOMAIN open, open[s].queue # <<>>, Dequeue(s),
           UNCHANGED <<unicast, multicast, life, overwritten>>
    PROVE  /\ QueuesOnly
           /\ open'[s].queue = Tail(open[s].queue)
           /\ \A t \in DOMAIN open \ {s} : open'[t].queue = open[t].queue
<1>1. \A t \in DOMAIN open : open[t] \in Sockets
  BY DEF SocketTypes
<1>2. open' = [open EXCEPT ![s] = [open[s] EXCEPT !.queue = Tail(@)]]
  BY DEF Dequeue
<1>3. Tail(open[s].queue) \in Seq(Message \cup Group)
  BY <1>1 DEF Sockets
<1>4. /\ open'[s] = [open[s] EXCEPT !.queue = Tail(open[s].queue)]
      /\ \A t \in DOMAIN open \ {s} : open'[t] = open[t]
      /\ DOMAIN open' = DOMAIN open
  BY <1>2
<1>5. /\ open'[s] \in Sockets /\ open'[s].queue = Tail(open[s].queue)
      /\ open'[s].port = open[s].port /\ open'[s].member = open[s].member
  BY <1>1, <1>3, <1>4 DEF Sockets
<1>6. open' = [t \in DOMAIN open |-> open'[t]]
  BY <1>2
<1> QED BY <1>1, <1>4, <1>5, <1>6 DEF QueuesOnly

-----------------------------------------------------------------------------
(* The application's calls keep the owners of the descriptors apart.        *)
LEMMA NewSocket ==
    ASSUME NEW port \in Nat \cup {Unbound}, NEW g \in Group \cup {NoGroup}
    PROVE  Socket(port, g) \in Sockets /\ Socket(port, g).port = port
BY DEF Socket, Sockets

LEMMA OpenWith ==
    ASSUME SocketTypes, Free # {},
           NEW port \in Nat \cup {Unbound}, NEW g \in Group \cup {NoGroup},
           open' = With(open, Opened, Socket(port, g))
    PROVE  /\ DOMAIN open' = DOMAIN open \cup {Opened}
           /\ open' \in [DOMAIN open' -> Sockets]
           /\ DOMAIN open' \subseteq Descriptor
           /\ open'[Opened].port = port
           /\ open'[Opened].queue = <<>>
           /\ \A s \in DOMAIN open : open'[s] = open[s]
<1>1. Opened \in Descriptor /\ Opened \notin DOMAIN open
  BY OpenedIsFree
<1>2. /\ DOMAIN open' = DOMAIN open \cup {Opened}
      /\ open'[Opened] = Socket(port, g)
      /\ \A s \in DOMAIN open : s # Opened => open'[s] = open[s]
      /\ open' = [s \in DOMAIN open \cup {Opened} |-> open'[s]]
  BY DEF With
<1>3. Socket(port, g) \in Sockets /\ Socket(port, g).port = port /\ Socket(port, g).queue = <<>>
  BY NewSocket DEF Socket
<1>4. \A s \in DOMAIN open \cup {Opened} : open'[s] \in Sockets
  BY <1>1, <1>2, <1>3 DEF SocketTypes
<1> QED BY <1>1, <1>2, <1>3, <1>4 DEF SocketTypes

LEMMA ConstructorKeeps ==
    ASSUME SocketTypes, Ownership, Constructor
    PROVE  SocketTypes' /\ Ownership'
<1>1. /\ life = "none" /\ Free # {} /\ life' = "live" /\ unicast' = Opened
      /\ open' = With(open, Opened, Socket(Unbound, NoGroup))
      /\ multicast' = multicast /\ overwritten' = overwritten
  BY DEF Constructor
<1>2. Opened \in Descriptor
  BY <1>1, OpenedIsFree
<1>3. /\ DOMAIN open' = DOMAIN open \cup {Opened}
      /\ open' \in [DOMAIN open' -> Sockets] /\ DOMAIN open' \subseteq Descriptor
      /\ open'[Opened].port = Unbound
  BY <1>1, OpenWith
<1>4. DOMAIN open = {} /\ DOMAIN multicast = {} /\ overwritten = {}
  BY <1>1 DEF Ownership
<1>5. SocketTypes'
  BY <1>1, <1>2, <1>3 DEF SocketTypes
<1>6. Range(multicast') = {}
  BY <1>1, <1>4 DEF Range
<1>7. Ownership'
  BY <1>1, <1>3, <1>4, <1>6 DEF Ownership
<1> QED BY <1>5, <1>7

LEMMA JoinGroupKeeps ==
    ASSUME SocketTypes, Ownership, NEW g \in Group, JoinGroup(g)
    PROVE  SocketTypes' /\ Ownership'
<1>1. /\ life = "live" /\ Free # {} /\ life' = life /\ unicast' = unicast
      /\ open' = With(open, Opened, Socket(PortOf[g], g))
      /\ multicast' = With(multicast, g, Opened)
      /\ overwritten' = overwritten \cup {multicast[h] : h \in {g} \cap DOMAIN multicast}
  BY DEF JoinGroup
<1>2. Opened \in Descriptor /\ Opened \notin DOMAIN open
  BY <1>1, OpenedIsFree
<1>3. PortOf[g] \in Nat /\ PortOf[g] \in Nat \cup {Unbound}
  BY Constants
<1>4. /\ DOMAIN open' = DOMAIN open \cup {Opened}
      /\ open' \in [DOMAIN open' -> Sockets] /\ DOMAIN open' \subseteq Descriptor
      /\ open'[Opened].port = PortOf[g]
      /\ \A s \in DOMAIN open : open'[s] = open[s]
  BY <1>1, <1>3, OpenWith
<1>5. /\ DOMAIN multicast' = DOMAIN multicast \cup {g}
      /\ multicast'[g] = Opened
      /\ \A h \in DOMAIN multicast : h # g => multicast'[h] = multicast[h]
      /\ multicast' = [h \in DOMAIN multicast \cup {g} |-> multicast'[h]]
  BY <1>1 DEF With
<1>6. /\ DOMAIN open = {unicast} \cup Range(multicast) \cup overwritten
      /\ unicast \notin Range(multicast) \cup overwritten
      /\ Range(multicast) \cap overwritten = {}
      /\ \A h, k \in DOMAIN multicast : h # k => multicast[h] # multicast[k]
      /\ open[unicast].port = Unbound
      /\ \A h \in DOMAIN multicast : open[multicast[h]].port \in Nat
      /\ \A s \in overwritten : open[s].port \in Nat
  BY <1>1 DEF Ownership
<1>7. \A h \in DOMAIN multicast : multicast[h] \in Range(multicast)
  BY DEF Range
<1>8. Range(multicast') = {multicast[h] : h \in DOMAIN multicast \ {g}} \cup {Opened}
  BY <1>5 DEF Range
<1>9. Range(multicast) = {multicast[h] : h \in DOMAIN multicast}
  BY DEF Range
<1>10. SocketTypes'
  <2>1. DOMAIN multicast' \subseteq Group /\ multicast' \in [DOMAIN multicast' -> Descriptor]
    BY <1>2, <1>5 DEF SocketTypes
  <2>2. overwritten' \subseteq Descriptor
    BY <1>1 DEF SocketTypes
  <2> QED BY <2>1, <2>2, <1>1, <1>4 DEF SocketTypes
<1>11. /\ DOMAIN open' = {unicast'} \cup Range(multicast') \cup overwritten'
       /\ unicast' \notin Range(multicast') \cup overwritten'
       /\ Range(multicast') \cap overwritten' = {}
  BY <1>1, <1>2, <1>4, <1>6, <1>8, <1>9
<1>12. \A h, k \in DOMAIN multicast' : h # k => multicast'[h] # multicast'[k]
  BY <1>2, <1>5, <1>6, <1>7
<1>13. /\ open'[unicast'].port = Unbound
       /\ \A h \in DOMAIN multicast' : open'[multicast'[h]].port \in Nat
       /\ \A s \in overwritten' : open'[s].port \in Nat
  <2>1. unicast \in DOMAIN open /\ \A h \in DOMAIN multicast : multicast[h] \in DOMAIN open
    BY <1>6, <1>7
  <2>2. \A h \in DOMAIN multicast' : open'[multicast'[h]].port \in Nat
    <3> SUFFICES ASSUME NEW h \in DOMAIN multicast' PROVE open'[multicast'[h]].port \in Nat
      OBVIOUS
    <3>1. CASE h = g
      BY <3>1, <1>3, <1>4, <1>5
    <3>2. CASE h # g
      BY <3>2, <2>1, <1>4, <1>5, <1>6
    <3> QED BY <3>1, <3>2
  <2>3. \A s \in overwritten' : open'[s].port \in Nat
    BY <2>1, <1>1, <1>4, <1>6
  <2> QED BY <2>1, <2>2, <2>3, <1>1, <1>4, <1>6
<1> QED BY <1>1, <1>10, <1>11, <1>12, <1>13 DEF Ownership

LEMMA LeaveGroupKeeps ==
    ASSUME SocketTypes, Ownership, NEW g \in Group, LeaveGroup(g)
    PROVE  SocketTypes' /\ Ownership'
<1>1. /\ life = "live" /\ g \in DOMAIN multicast /\ life' = life /\ unicast' = unicast
      /\ open' = Without(open, {multicast[g]})
      /\ multicast' = Without(multicast, {g})
      /\ overwritten' = overwritten
  BY DEF LeaveGroup
<1>2. /\ DOMAIN open' = DOMAIN open \ {multicast[g]}
      /\ open' = [s \in DOMAIN open \ {multicast[g]} |-> open[s]]
      /\ \A s \in DOMAIN open \ {multicast[g]} : open'[s] = open[s]
  BY <1>1 DEF Without, Restrict
<1>3. /\ DOMAIN multicast' = DOMAIN multicast \ {g}
      /\ multicast' = [h \in DOMAIN multicast \ {g} |-> multicast[h]]
      /\ \A h \in DOMAIN multicast \ {g} : multicast'[h] = multicast[h]
  BY <1>1 DEF Without, Restrict
<1>4. /\ DOMAIN open = {unicast} \cup Range(multicast) \cup overwritten
      /\ unicast \notin Range(multicast) \cup overwritten
      /\ Range(multicast) \cap overwritten = {}
      /\ \A h, k \in DOMAIN multicast : h # k => multicast[h] # multicast[k]
      /\ open[unicast].port = Unbound
      /\ \A h \in DOMAIN multicast : open[multicast[h]].port \in Nat
      /\ \A s \in overwritten : open[s].port \in Nat
  BY <1>1 DEF Ownership
<1>5. /\ Range(multicast) = {multicast[h] : h \in DOMAIN multicast}
      /\ Range(multicast') = {multicast[h] : h \in DOMAIN multicast \ {g}}
  BY <1>3 DEF Range
<1>6. SocketTypes'
  BY <1>1, <1>2, <1>3 DEF SocketTypes
<1>7. Range(multicast') = Range(multicast) \ {multicast[g]}
  BY <1>1, <1>4, <1>5
<1>8. /\ DOMAIN open' = {unicast'} \cup Range(multicast') \cup overwritten'
      /\ unicast' \notin Range(multicast') \cup overwritten'
      /\ Range(multicast') \cap overwritten' = {}
  <2>1. multicast[g] \in Range(multicast)
    BY <1>1, <1>5
  <2>2. multicast[g] # unicast /\ multicast[g] \notin overwritten
    BY <2>1, <1>4
  <2>3. DOMAIN open' = {unicast} \cup (Range(multicast) \ {multicast[g]}) \cup overwritten
    BY <2>2, <1>2, <1>4
  <2>4. unicast' = unicast /\ overwritten' = overwritten
    BY <1>1
  <2> QED BY <2>3, <2>4, <1>4, <1>7
<1>9. \A h, k \in DOMAIN multicast' : h # k => multicast'[h] # multicast'[k]
  BY <1>3, <1>4
<1>10. /\ open'[unicast'].port = Unbound
       /\ \A h \in DOMAIN multicast' : open'[multicast'[h]].port \in Nat
       /\ \A s \in overwritten' : open'[s].port \in Nat
  <2>1. unicast \in DOMAIN open' /\ \A s \in overwritten : s \in DOMAIN open'
    BY <1>1, <1>8
  <2>2. \A h \in DOMAIN multicast' : multicast[h] \in DOMAIN open'
    BY <1>3, <1>5, <1>8
  <2> QED BY ZenonT(40), <2>1, <2>2, <1>1, <1>2, <1>3, <1>4
<1> QED BY <1>1, <1>6, <1>8, <1>9, <1>10 DEF Ownership

LEMMA DestructorKeeps ==
    ASSUME SocketTypes, Ownership, Destructor
    PROVE  SocketTypes' /\ Ownership'
<1>1. /\ life = "live" /\ life' = "destroyed" /\ unicast' = unicast
      /\ open' = Without(open, {unicast} \cup Range(multicast))
      /\ multicast' = multicast /\ overwritten' = overwritten
  BY DEF Destructor
<1>2. /\ DOMAIN open' = DOMAIN open \ ({unicast} \cup Range(multicast))
      /\ open' = [s \in DOMAIN open \ ({unicast} \cup Range(multicast)) |-> open[s]]
  BY <1>1 DEF Without, Restrict
<1>3. DOMAIN open' = overwritten
  BY <1>1, <1>2 DEF Ownership
<1>4. SocketTypes'
  BY <1>1, <1>2 DEF SocketTypes
<1> QED BY <1>1, <1>3, <1>4 DEF Ownership

LEMMA ConstructorFailsKeeps ==
    ASSUME SocketTypes, Ownership, NEW step \in ConstructorSteps, ConstructorFails(step)
    PROVE  SocketTypes' /\ Ownership'
<1>1. /\ life' = "thrown" /\ UNCHANGED <<unicast, multicast, overwritten>>
      /\ \/ open' = open
         \/ Free # {} /\ open' = With(open, Opened, Socket(Unbound, NoGroup))
  BY DEF ConstructorFails
<1>2. /\ open' \in [DOMAIN open' -> Sockets]
      /\ DOMAIN open' \subseteq Descriptor
  BY <1>1, OpenWith DEF SocketTypes
<1> QED BY <1>1, <1>2 DEF SocketTypes, Ownership

(* Datagrams come and go without a change of owners.                        *)
LEMMA QueuesKeep ==
    ASSUME SocketTypes, Ownership, QueuesOnly
    PROVE  SocketTypes' /\ Ownership'
<1>1. SocketTypes'
  BY DEF SocketTypes, QueuesOnly
<1>2. CASE life = "live"
  <2>1. /\ unicast \in DOMAIN open /\ Range(multicast) \subseteq DOMAIN open
        /\ overwritten \subseteq DOMAIN open
    BY <1>2 DEF Ownership
  <2>2. \A g \in DOMAIN multicast : multicast[g] \in Range(multicast)
    BY DEF Range
  <2>3. /\ life' = life /\ unicast' = unicast /\ multicast' = multicast
        /\ overwritten' = overwritten /\ DOMAIN open' = DOMAIN open
        /\ \A s \in DOMAIN open : open'[s].port = open[s].port
    BY DEF QueuesOnly
  <2> QED BY <1>1, <1>2, <2>1, <2>2, <2>3 DEF Ownership
<1>3. CASE life # "live"
  BY <1>1, <1>3 DEF Ownership, QueuesOnly
<1> QED BY <1>2, <1>3

-----------------------------------------------------------------------------
(* The descriptors, and the thread that reads them: the inductive invariant *)
(* of NoLeak.                                                               *)
LEMMA SocketInvInit == Init => SocketInv
<1> SUFFICES ASSUME Init PROVE SocketInv
  OBVIOUS
<1>1. /\ open = <<>> /\ multicast = <<>> /\ unicast = None /\ life = "none"
      /\ overwritten = {} /\ running = TRUE /\ at = "none" /\ waited = FALSE
  BY DEF Init, SocketInit
<1>2. DOMAIN open = {} /\ DOMAIN multicast = {}
  BY <1>1
<1>3. open \in [DOMAIN open -> Sockets] /\ multicast \in [DOMAIN multicast -> Descriptor]
  BY <1>1, <1>2
<1>4. SocketTypes
  BY <1>1, <1>2, <1>3 DEF SocketTypes
<1>5. Ownership /\ Waits
  BY <1>1, <1>2 DEF Ownership, Waits
<1> QED BY <1>4, <1>5 DEF SocketInv

(* What is unchanged when the sockets are.                                  *)
LEMMA SocketsUnchanged ==
    ASSUME SocketTypes, Ownership, UNCHANGED socketVars
    PROVE  SocketTypes' /\ Ownership'
BY DEF SocketTypes, Ownership, socketVars

LEMMA ApplicationKeepsSockets ==
    ASSUME SocketInv, Application
    PROVE  SocketInv'
<1> USE DEF SocketInv
<1>1. /\ UNCHANGED <<at, group, fd, waited, running>>
  BY DEF Application, threadVars
<1>2. CASE Constructor
  <2>1. SocketTypes' /\ Ownership'
    BY <1>2, ConstructorKeeps
  <2>2. Waits'
    BY <1>1, <1>2 DEF Waits, Constructor
  <2> QED BY <2>1, <2>2
<1>3. ASSUME NEW step \in ConstructorSteps, ConstructorFails(step)
      PROVE  SocketInv'
  <2>1. SocketTypes' /\ Ownership'
    BY <1>3, ConstructorFailsKeeps
  <2>2. Waits'
    BY <1>1, <1>3 DEF Waits, ConstructorFails
  <2> QED BY <2>1, <2>2
<1>4. ASSUME at # "joined", NEW g \in Group, JoinGroup(g)
      PROVE  SocketInv'
  <2>1. SocketTypes' /\ Ownership'
    BY <1>4, JoinGroupKeeps
  <2>2. /\ Range(multicast) \cup overwritten \subseteq Range(multicast') \cup overwritten'
        /\ DOMAIN multicast \subseteq DOMAIN multicast'
        /\ life = "live" /\ life' = life /\ unicast' = unicast
    <3>1. /\ DOMAIN multicast' = DOMAIN multicast \cup {g}
          /\ \A h \in DOMAIN multicast : h # g => multicast'[h] = multicast[h]
          /\ overwritten' = overwritten \cup {multicast[h] : h \in {g} \cap DOMAIN multicast}
          /\ life = "live" /\ life' = life /\ unicast' = unicast
      BY <1>4 DEF JoinGroup, With
    <3> QED BY <3>1 DEF Range
  <2>3. Waits'
    BY <1>1, <2>2 DEF Waits
  <2> QED BY <2>1, <2>3
<1>5. ASSUME NEW g \in Group, NEW step \in JoinSteps, JoinGroupFails(g, step)
      PROVE  SocketInv'
  <2>1. UNCHANGED socketVars
    BY <1>5 DEF JoinGroupFails
  <2>2. SocketTypes' /\ Ownership'
    BY <2>1, SocketsUnchanged
  <2>3. Waits'
    BY <1>1, <2>1 DEF Waits, socketVars
  <2> QED BY <2>2, <2>3
<1>6. ASSUME at = "none", NEW g \in Group, LeaveGroup(g)
      PROVE  SocketInv'
  <2>1. SocketTypes' /\ Ownership'
    BY <1>6, LeaveGroupKeeps
  <2>2. Waits'
    BY <1>1, <1>6 DEF Waits, LeaveGroup
  <2> QED BY <2>1, <2>2
<1>7. ASSUME at = "joined", Destructor
      PROVE  SocketInv'
  <2>1. SocketTypes' /\ Ownership'
    BY <1>7, DestructorKeeps
  <2>2. Waits'
    BY <1>1, <1>7 DEF Waits, Destructor
  <2> QED BY <2>1, <2>2
<1> QED BY <1>2, <1>3, <1>4, <1>5, <1>6, <1>7 DEF Application

(* Where the thread waits after a pass over these groups.                   *)
LEMMA WaitAfterEffect ==
    ASSUME NEW g, NEW groups \in SUBSET DOMAIN multicast, SocketTypes, WaitAfter(g, groups)
    PROVE  /\ waited' = FALSE
           /\ \/ /\ at' = "multicast" /\ group' \in groups /\ group' > g
                 /\ \A h \in groups : h > g => group' <= h
                 /\ fd' = multicast[group']
              \/ /\ at' = "unicast" /\ fd' = unicast /\ running
                 /\ \A h \in groups : ~(h > g)
              \/ at' = "joined" /\ ~running
<1>1. CASE \E h \in groups : h > g
  <2> DEFINE above == {k \in groups : k > g}
  <2>1. above \in SUBSET Nat /\ above # {}
    BY <1>1, Constants DEF SocketTypes
  <2>2. Min(above) \in above /\ \A h \in above : Min(above) <= h
    BY <2>1, MinIs
  <2>3. at' = "multicast" /\ group' = Min(above) /\ fd' = multicast[Min(above)] /\ waited' = FALSE
    BY <1>1 DEF WaitAfter, Wait
  <2> QED BY <2>2, <2>3
<1>2. CASE ~\E h \in groups : h > g
  BY <1>2 DEF WaitAfter, Wait
<1> QED BY <1>1, <1>2

LEMMA WaitsAgain ==
    ASSUME SocketInv, life = "live", UNCHANGED <<running, unicast, multicast, life, overwritten>>,
           NEW g, NEW groups \in SUBSET DOMAIN multicast, WaitAfter(g, groups)
    PROVE  Waits'
<1> USE DEF SocketInv
<1>1. \A h \in DOMAIN multicast : multicast[h] \in Range(multicast)
  BY DEF Range
<1> QED BY <1>1, WaitAfterEffect DEF Waits

LEMMA ReceiverKeepsSockets ==
    ASSUME SocketInv, Receiver
    PROVE  SocketInv'
<1> USE DEF SocketInv
<1>1. CASE BackgroundReceive \/ ReceiveMulticast
  <2>1. /\ Waiting(fd) # <<>> /\ Dequeue(fd) /\ at \in {"unicast", "multicast"}
        /\ UNCHANGED <<unicast, multicast, life, overwritten, running>>
        /\ WaitAfter(NoGroup, DOMAIN multicast)
    BY <1>1 DEF BackgroundReceive, ReceiveMulticast, FirstGroup
  <2>2. fd \in DOMAIN open /\ open[fd].queue # <<>>
    BY <2>1 DEF Waiting
  <2>3. QueuesOnly
    BY <2>1, <2>2, DequeueEffect
  <2>4. SocketTypes' /\ Ownership'
    BY <2>3, QueuesKeep
  <2>5. life = "live"
    BY <2>1 DEF Waits
  <2>6. Waits'
    BY <2>1, <2>5, WaitsAgain
  <2> QED BY <2>4, <2>6
<1>2. CASE TimesOut
  <2>1. /\ UNCHANGED <<open, unicast, multicast, life, overwritten>> /\ running' = running /\ waited
        /\ \E g : \E groups \in SUBSET DOMAIN multicast : WaitAfter(g, groups)
    <3>1. FirstGroup \/ NextGroup
      BY <1>2 DEF TimesOut
    <3>2. \E g : \E groups \in SUBSET DOMAIN multicast : WaitAfter(g, groups)
      BY <3>1 DEF FirstGroup, NextGroup
    <3> QED BY <1>2, <3>2 DEF TimesOut, socketVars
  <2>2. SocketTypes' /\ Ownership'
    BY <2>1, SocketsUnchanged DEF socketVars
  <2>3. life = "live"
    BY <2>1 DEF Waits
  <2>4. Waits'
    BY <2>1, <2>3, WaitsAgain
  <2> QED BY <2>2, <2>4
<1> QED BY <1>1, <1>2 DEF Receiver

(* The other actions send something, or leave the sockets alone.            *)
LEMMA TransmitEffect ==
    ASSUME SocketTypes, NEW m \in Message, Transmit(m)
    PROVE  /\ QueuesOnly
           /\ \A s \in DOMAIN open :
                open'[s].queue = IF s = unicast THEN Append(open[s].queue, m) ELSE open[s].queue
<1>1. Enqueue({unicast}, m) /\ UNCHANGED <<unicast, multicast, life, overwritten>>
  BY DEF Transmit
<1> QED BY <1>1, EnqueueEffect

LEMMA MulticastEffect ==
    ASSUME SocketTypes, NEW g \in Group, Multicast(g)
    PROVE  /\ QueuesOnly
           /\ \A s \in DOMAIN open :
                open[s].port \notin Nat => open'[s].queue = open[s].queue
<1>1. Enqueue(Targets(g), g) /\ UNCHANGED <<unicast, multicast, life, overwritten>>
  BY DEF Multicast
<1>2. \A s \in Targets(g) : open[s].port \in Nat
  BY Constants DEF Targets
<1> QED BY <1>1, <1>2, EnqueueEffect

LEMMA SocketInvNext == SocketInv /\ [Next]_vars => SocketInv'
<1> SUFFICES ASSUME SocketInv, [Next]_vars PROVE SocketInv'
  OBVIOUS
<1> USE DEF SocketInv
<1>1. CASE Application
  BY <1>1, ApplicationKeepsSockets
<1>2. CASE AsyncMailbox
  <2>1. UNCHANGED socketVars /\ life = "live" /\ at' = "unicast" /\ fd' = unicast
        /\ waited' = waited /\ running' = running
    BY <1>2 DEF AsyncMailbox
  <2>2. SocketTypes' /\ Ownership'
    BY <2>1, SocketsUnchanged
  <2>3. Waits'
    BY <2>1 DEF Waits, socketVars
  <2> QED BY <2>2, <2>3
<1>3. CASE Close
  <2>1. UNCHANGED <<socketVars, threadVars>> /\ running' = FALSE
    BY <1>3 DEF Close
  <2>2. SocketTypes' /\ Ownership'
    BY <2>1, SocketsUnchanged
  <2>3. Waits'
    BY <2>1 DEF Waits, socketVars, threadVars
  <2> QED BY <2>2, <2>3
<1>4. CASE Receiver
  BY <1>4, ReceiverKeepsSockets
<1>5. ASSUME QueuesOnly, UNCHANGED <<threadVars, running>>
      PROVE  SocketInv'
  <2>1. SocketTypes' /\ Ownership'
    BY <1>5, QueuesKeep
  <2>2. Waits'
    BY <1>5 DEF Waits, threadVars, QueuesOnly
  <2> QED BY <2>1, <2>2
<1>6. ASSUME UNCHANGED <<socketVars, threadVars, running>>
      PROVE  SocketInv'
  <2>1. SocketTypes' /\ Ownership'
    BY <1>6, SocketsUnchanged
  <2>2. Waits'
    BY <1>6 DEF Waits, threadVars, socketVars
  <2> QED BY <2>1, <2>2
<1>7. ASSUME NEW m \in Message, Transmit(m) PROVE SocketInv'
  <2>1. UNCHANGED <<threadVars, running>>
    BY <1>7 DEF Transmit
  <2> QED BY <2>1, <1>5, <1>7, TransmitEffect
<1>8. ASSUME NEW m \in Message, GiveUp(m) PROVE SocketInv'
  BY <1>6, <1>8 DEF GiveUp
<1>9. ASSUME NEW m \in Message, Queue(m) PROVE SocketInv'
  BY <1>6, <1>9 DEF Queue
<1>10. ASSUME NEW g \in Group, Multicast(g) PROVE SocketInv'
  <2>1. UNCHANGED <<threadVars, running>>
    BY <1>10 DEF Multicast
  <2> QED BY <2>1, <1>5, <1>10, MulticastEffect
<1>11. CASE Tick
  <2>1. UNCHANGED <<socketVars, at, group, fd, running>> /\ at # "none" /\ waited' = (at # "joined")
    BY <1>11 DEF Tick
  <2>2. SocketTypes' /\ Ownership'
    BY <2>1, SocketsUnchanged
  <2>3. Waits'
    BY <2>1 DEF Waits, socketVars
  <2> QED BY <2>2, <2>3
<1>12. CASE UNCHANGED vars
  BY <1>6, <1>12 DEF vars
<1> QED BY <1>1, <1>2, <1>3, <1>4, <1>7, <1>8, <1>9, <1>10, <1>11, <1>12 DEF Next, Peer

LEMMA SocketInvAlways == Spec => []SocketInv
BY SocketInvInit, SocketInvNext, PTL DEF Spec

(* Whatever the program does and whatever the kernel refuses, each open     *)
(* descriptor is the unicast's, one of the map's, or one that a second      *)
(* JoinGroup of its group has lost; the destructor closes all the others.   *)
THEOREM NoLeakHolds == Spec => []NoLeak
<1>1. SocketInv => NoLeak
  BY DEF SocketInv, Ownership, NoLeak
<1> QED BY <1>1, SocketInvAlways, PTL

-----------------------------------------------------------------------------
(* How many groups there are, and how many are left in a pass.              *)
LEMMA GroupCounts ==
    ASSUME SocketTypes
    PROVE  /\ Cardinality(DOMAIN multicast) \in Nat
           /\ \A g : /\ Cardinality(Above(g)) \in Nat
                     /\ Cardinality(Above(g)) <= Cardinality(DOMAIN multicast)
                     /\ g \in DOMAIN multicast =>
                          Cardinality(Above(g)) + 1 <= Cardinality(DOMAIN multicast)
<1>1. IsFiniteSet(DOMAIN multicast)
  BY Constants, FS_Subset DEF SocketTypes
<1>2. \A g : Above(g) \subseteq DOMAIN multicast
  BY DEF Above
<1>3. \A g \in DOMAIN multicast : g \notin Above(g)
  BY Constants DEF Above, SocketTypes
<1>4. ASSUME NEW g \in DOMAIN multicast
      PROVE  Cardinality(Above(g)) + 1 <= Cardinality(DOMAIN multicast)
  <2>1. /\ Cardinality(DOMAIN multicast \ {g}) = Cardinality(DOMAIN multicast) - 1
        /\ IsFiniteSet(DOMAIN multicast \ {g})
    BY <1>1, FS_RemoveElement
  <2>2. Above(g) \subseteq DOMAIN multicast \ {g}
    BY <1>2, <1>3
  <2>3. /\ Cardinality(Above(g)) \in Nat /\ Cardinality(DOMAIN multicast) \in Nat
        /\ Cardinality(Above(g)) <= Cardinality(DOMAIN multicast \ {g})
    BY <1>1, <1>2, <2>1, <2>2, FS_Subset, FS_CardinalityType
  <2> QED BY <2>1, <2>3
<1> QED BY <1>1, <1>2, <1>4, FS_Subset, FS_CardinalityType

RemainingBounds ==
    /\ Cardinality(DOMAIN multicast) \in Nat
    /\ Remaining \in Nat /\ Remaining <= Cardinality(DOMAIN multicast)

LEMMA RemainingBound == SocketInv => RemainingBounds
<1> SUFFICES ASSUME SocketInv PROVE RemainingBounds
  OBVIOUS
<1> USE DEF RemainingBounds
<1>1. CASE at = "multicast"
  <2>1. group \in DOMAIN multicast
    BY <1>1 DEF SocketInv, Waits
  <2> QED BY <1>1, <2>1, GroupCounts DEF Remaining, SocketInv
<1>2. CASE at # "multicast"
  BY <1>2, GroupCounts DEF Remaining, SocketInv
<1> QED BY <1>1, <1>2

LEMMA RemainingBoundNext == SocketInv' => RemainingBounds'
BY RemainingBound, PTL

(* The passes of one datagram more, and of one group more.                  *)
LEMMA PassesGrow ==
    ASSUME NEW r \in Nat, NEW n \in Nat
    PROVE  /\ (r + 1) * n \in Nat
           /\ (r + 1 + 1) * n = (r + 1) * n + n
           /\ n <= (r + 1) * n
           /\ (r + 1) * n + 1 <= (r + 1) * (n + 1)
<1>1. r * n \in Nat
  OBVIOUS
<1>2. (r + 1) * n = r * n + n
  OBVIOUS
<1>3. (r + 1 + 1) * n = r * n + n + n
  OBVIOUS
<1>4. (r + 1) * (n + 1) = r * n + n + r + 1
  OBVIOUS
<1> QED BY <1>1, <1>2, <1>3, <1>4

LEMMA LateType ==
    ASSUME PeerTypes, NEW m \in Message
    PROVE  /\ attempts[m] \in Nat /\ reads[m] \in Nat
           /\ Late(m) \in Int
           /\ fate[m] \in {"new", "queued", "acked", "givenup"}
BY Constants DEF PeerTypes, Late

-----------------------------------------------------------------------------
(* One lemma per action: what it does to the messages of the peer.          *)
LEMMA ApplicationKeepsPeer ==
    ASSUME ReceptionInv, SocketInv', Application
    PROVE  PeerTypes' /\ Copies' /\ Lateness'
<1> USE DEF ReceptionInv, SocketInv
<1>1. UNCHANGED <<at, group, fd, waited, running, fate, attempts, due, reads>>
  BY DEF Application, threadVars, peerVars
<1>2. /\ life' = "none" => life = "none"
      /\ life' = "live" => \/ life = "none"
                           \/ life = "live" /\ unicast' = unicast /\ open'[unicast] = open[unicast]
      /\ \/ multicast' = multicast
         \/ \E g \in Group : DOMAIN multicast' = DOMAIN multicast \cup {g}
         \/ at = "none"
  <2>1. CASE Constructor
    BY <2>1 DEF Constructor
  <2>2. ASSUME NEW step \in ConstructorSteps, ConstructorFails(step)
        PROVE  life' = "thrown" /\ multicast' = multicast
    BY <2>2 DEF ConstructorFails
  <2>3. ASSUME NEW g \in Group, JoinGroup(g)
        PROVE  /\ life = "live" /\ life' = "live" /\ unicast' = unicast
               /\ open'[unicast] = open[unicast]
               /\ DOMAIN multicast' = DOMAIN multicast \cup {g}
    <3>1. unicast \in DOMAIN open /\ Opened \notin DOMAIN open
      BY <2>3, OpenedIsFree DEF JoinGroup, Ownership
    <3> QED BY <2>3, <3>1 DEF JoinGroup, With
  <2>4. ASSUME NEW g \in Group, NEW step \in JoinSteps, JoinGroupFails(g, step)
        PROVE  UNCHANGED socketVars /\ life = "live"
    BY <2>4 DEF JoinGroupFails
  <2>5. ASSUME at = "none", NEW g \in Group, LeaveGroup(g)
        PROVE  /\ life = "live" /\ life' = "live" /\ unicast' = unicast
               /\ open'[unicast] = open[unicast]
    <3>1. unicast \in DOMAIN open /\ unicast # multicast[g]
      BY <2>5 DEF LeaveGroup, Ownership, Range
    <3> QED BY <2>5, <3>1 DEF LeaveGroup, Without, Restrict
  <2>6. CASE Destructor
    BY <2>6 DEF Destructor
  <2> QED BY <2>1, <2>2, <2>3, <2>4, <2>5, <2>6 DEF Application, socketVars
<1>3. PeerTypes'
  BY <1>1, <1>2 DEF PeerTypes
<1>4. Copies'
  BY <1>1, <1>2 DEF Copies, PeerTypes
<1>5. \A m \in Message : Late(m)' = Late(m)
  BY <1>1 DEF Late
<1>6. CASE at = "none"
  <2>1. ASSUME NEW m \in Message
        PROVE  Passes(m)' \in Nat /\ Remaining' = 0
    <3>1. Cardinality(DOMAIN multicast') \in Nat
      BY RemainingBoundNext DEF RemainingBounds
    <3>2. reads'[m] \in Nat
      BY <1>1, LateType
    <3> QED BY <1>1, <1>6, <3>1, <3>2, PassesGrow DEF Passes, Remaining
  <2> QED BY <1>1, <1>3, <1>4, <1>5, <1>6, <2>1, Constants DEF Lateness
<1>7. CASE at # "none"
  <2>1. /\ Cardinality(DOMAIN multicast) \in Nat
        /\ \/ /\ DOMAIN multicast' = DOMAIN multicast
              /\ Remaining' = Remaining
           \/ /\ Cardinality(DOMAIN multicast') = Cardinality(DOMAIN multicast) + 1
              /\ Remaining' <= Remaining + 1
    <3>1. CASE multicast' = multicast
      BY <1>1, <3>1, GroupCounts DEF Remaining, Above
    <3>2. ASSUME NEW g \in Group, DOMAIN multicast' = DOMAIN multicast \cup {g}, g \in DOMAIN multicast
          PROVE  DOMAIN multicast' = DOMAIN multicast
      BY <3>2
    <3>3. ASSUME DOMAIN multicast' = DOMAIN multicast
          PROVE  Remaining' = Remaining
      <4>1. Above(group)' = Above(group)
        BY <1>1, <3>3 DEF Above
      <4> QED BY <1>1, <4>1 DEF Remaining
    <3>4. ASSUME NEW g \in Group, DOMAIN multicast' = DOMAIN multicast \cup {g}, g \notin DOMAIN multicast
          PROVE  /\ Cardinality(DOMAIN multicast') = Cardinality(DOMAIN multicast) + 1
                 /\ Remaining' <= Remaining + 1
      <4>1. IsFiniteSet(DOMAIN multicast) /\ IsFiniteSet(Above(group))
        BY Constants, FS_Subset DEF SocketTypes, Above
      <4>2. Above(group)' \subseteq Above(group) \cup {g}
        BY <1>1, <3>4 DEF Above
      <4>3. g \notin Above(group)
        BY <3>4 DEF Above
      <4>4. /\ Cardinality(Above(group) \cup {g}) = Cardinality(Above(group)) + 1
            /\ IsFiniteSet(Above(group) \cup {g})
        BY <4>1, <4>3, FS_AddElement
      <4>5. Cardinality(Above(group)') <= Cardinality(Above(group)) + 1
        BY <4>2, <4>4, FS_Subset
      <4>6. Cardinality(Above(group)') \in Nat /\ Cardinality(Above(group)) \in Nat
        BY <4>1, <4>2, <4>4, FS_Subset, FS_CardinalityType
      <4>7. Cardinality(DOMAIN multicast') = Cardinality(DOMAIN multicast) + 1
        BY <3>4, <4>1, FS_AddElement
      <4> QED BY <1>1, <4>5, <4>6, <4>7 DEF Remaining
    <3> QED BY <1>2, <1>7, <3>1, <3>2, <3>3, <3>4, GroupCounts
  <2>2. ASSUME NEW m \in Message
        PROVE  /\ Passes(m) \in Nat /\ Passes(m)' \in Nat /\ Passes(m) <= Passes(m)'
               /\ Remaining' - Remaining <= Passes(m)' - Passes(m)
               /\ Remaining \in Nat /\ Remaining' \in Nat
    <3>1. reads[m] \in Nat /\ reads'[m] = reads[m]
      BY <1>1, LateType
    <3>2. Remaining \in Nat /\ Remaining' \in Nat
      BY RemainingBound, RemainingBoundNext DEF RemainingBounds
    <3>3. CASE DOMAIN multicast' = DOMAIN multicast /\ Remaining' = Remaining
      <4>1. Passes(m)' = Passes(m)
        BY <3>1, <3>3 DEF Passes
      <4>2. Passes(m) \in Nat
        BY <2>1, <3>1, PassesGrow DEF Passes
      <4> QED BY <3>2, <3>3, <4>1, <4>2
    <3>4. CASE /\ Cardinality(DOMAIN multicast') = Cardinality(DOMAIN multicast) + 1
               /\ Remaining' <= Remaining + 1
      <4> DEFINE n == Cardinality(DOMAIN multicast)
      <4>1. /\ (reads[m] + 1) * n + 1 <= (reads[m] + 1) * (n + 1)
            /\ (reads[m] + 1) * n \in Nat /\ (reads[m] + 1) * (n + 1) \in Nat
        BY <2>1, <3>1, PassesGrow
      <4>2. Passes(m) = (reads[m] + 1) * n /\ Passes(m)' = (reads[m] + 1) * (n + 1)
        BY <3>1, <3>4 DEF Passes
      <4> QED BY <3>2, <3>4, <4>1, <4>2
    <3> QED BY <2>1, <3>3, <3>4
  <2>3. ASSUME NEW m \in Message
        PROVE  /\ fate'[m] = "queued" /\ running' /\ reads'[m] < MaxReads =>
                     Late(m)' + Remaining' <= Passes(m)'
               /\ fate'[m] = "givenup" /\ running' /\ reads'[m] < MaxReads =>
                     kMaxRetries - 1 <= Passes(m)'
    BY <1>1, <1>5, <2>2, LateType, Constants DEF Lateness
  <2> QED BY <1>1, <1>3, <1>4, <1>7, <2>3 DEF Lateness
<1> QED BY <1>6, <1>7

LEMMA AsyncMailboxKeepsPeer ==
    ASSUME ReceptionInv, SocketInv', AsyncMailbox
    PROVE  PeerTypes' /\ Copies' /\ Lateness'
<1> USE DEF ReceptionInv, SocketInv
<1>1. /\ UNCHANGED <<open, unicast, multicast, life, fate, attempts, due, reads, running>>
      /\ at = "none" /\ at' = "unicast"
  BY DEF AsyncMailbox, socketVars, peerVars
<1>2. PeerTypes' /\ Copies'
  BY <1>1 DEF PeerTypes, Copies
<1>3. ASSUME NEW m \in Message
      PROVE  Late(m)' = Late(m) /\ Remaining' = 0 /\ Passes(m)' \in Nat
  <2>1. Cardinality(DOMAIN multicast') \in Nat /\ reads'[m] \in Nat
    BY <1>1, RemainingBoundNext, LateType DEF RemainingBounds
  <2> QED BY <1>1, <2>1, PassesGrow DEF Late, Remaining, Passes
<1> QED BY <1>1, <1>2, <1>3, Constants DEF Lateness

LEMMA CloseKeepsPeer ==
    ASSUME ReceptionInv, SocketInv', Close
    PROVE  PeerTypes' /\ Copies' /\ Lateness'
<1>1. /\ UNCHANGED <<open, unicast, multicast, life, fate, attempts, due, reads, at>>
      /\ at # "none" /\ ~running'
  BY DEF Close, socketVars, peerVars, threadVars
<1> QED BY <1>1 DEF PeerTypes, Copies, Lateness, ReceptionInv

(* Where a message was read, another is read no sooner than after all the   *)
(* groups, which is the price of one datagram.                              *)
LEMMA ReadingKeepsPeer ==
    ASSUME ReceptionInv, SocketInv',
           BackgroundReceive \/ ReceiveMulticast
    PROVE  PeerTypes' /\ Copies' /\ Lateness'
<1> USE DEF ReceptionInv, SocketInv
<1> DEFINE m0 == Head(open[fd].queue)
<1>1. /\ UNCHANGED <<unicast, multicast, life, overwritten, running, attempts, due>>
      /\ at \in {"unicast", "multicast"} /\ life = "live"
      /\ fd \in DOMAIN open /\ open[fd].queue # <<>> /\ Dequeue(fd)
      /\ Count(Queued)
  BY DEF BackgroundReceive, ReceiveMulticast, Waiting, Waits, peerVars
<1>2. /\ fate' \in [Message -> {"new", "queued", "acked", "givenup"}]
      /\ \A m \in Message : fate'[m] # fate[m] => fate[m] = "queued" /\ fate'[m] = "acked"
      /\ at = "unicast" => \A m \in Message : m = m0 => fate'[m] # "queued"
  <2>1. CASE BackgroundReceive
    <3>1. fate' = [fate EXCEPT ![m0] = IF @ = "queued" THEN "acked" ELSE @]
      BY <1>1, <2>1 DEF BackgroundReceive, Waiting
    <3> QED BY <3>1 DEF PeerTypes
  <2>2. CASE ReceiveMulticast
    BY <2>2 DEF ReceiveMulticast, PeerTypes, peerVars
  <2> QED BY <2>1, <2>2
<1>3. /\ reads' \in [Message -> 0..MaxReads]
      /\ \A m \in Message :
           /\ fate[m] = "queued" /\ reads[m] < MaxReads => reads'[m] = reads[m] + 1
           /\ fate[m] = "queued" /\ reads[m] = MaxReads => reads'[m] = MaxReads
           /\ fate[m] # "queued" => reads'[m] = reads[m]
  BY <1>1, Constants DEF Count, Queued, PeerTypes
<1>4. PeerTypes'
  BY <1>1, <1>2, <1>3 DEF PeerTypes
<1>5. Copies'
  <2>1. unicast \in DOMAIN open /\ open \in [DOMAIN open -> Sockets]
    BY <1>1 DEF Ownership, SocketTypes
  <2>2. open[unicast].queue \in Seq(Message \cup Group)
    BY <2>1 DEF Sockets
  <2>3. /\ open'[fd].queue = Tail(open[fd].queue)
        /\ \A t \in DOMAIN open \ {fd} : open'[t].queue = open[t].queue
    BY <1>1, DequeueEffect
  <2>4. at = "multicast" => fd # unicast
    BY <1>1 DEF Waits, Ownership
  <2>5. at = "unicast" => fd = unicast
    BY DEF Waits
  <2> SUFFICES ASSUME NEW m \in Message, fate'[m] = "queued"
               PROVE  /\ attempts[m] = 0 => m \in due
                      /\ attempts[m] > 0 =>
                           \E i \in 1..Len(open'[unicast].queue) : open'[unicast].queue[i] = m
    BY <1>1 DEF Copies
  <2>6. fate[m] = "queued"
    BY <1>2
  <2>7. attempts[m] = 0 => m \in due
    BY <2>6 DEF Copies
  <2>8. ASSUME attempts[m] > 0
        PROVE  \E i \in 1..Len(open'[unicast].queue) : open'[unicast].queue[i] = m
    <3>1. PICK i \in 1..Len(open[unicast].queue) : open[unicast].queue[i] = m
      BY <1>1, <2>6, <2>8 DEF Copies
    <3>2. CASE at = "multicast"
      BY <2>1, <2>3, <2>4, <3>1, <3>2
    <3>3. CASE at = "unicast"
      <4>1. m0 # m /\ fd = unicast
        BY <1>2, <2>5, <3>3
      <4>2. i # 1
        BY <2>2, <3>1, <4>1
      <4>3. /\ i - 1 \in 1..Len(Tail(open[unicast].queue))
            /\ Tail(open[unicast].queue)[i - 1] = m
        BY <2>2, <3>1, <4>2
      <4> QED BY <2>3, <4>1, <4>3
    <3> QED BY <1>1, <3>2, <3>3
  <2> QED BY <2>7, <2>8
<1>6. ASSUME NEW m \in Message
      PROVE  /\ Late(m)' = Late(m)
             /\ fate'[m] = "queued" /\ running' /\ reads'[m] < MaxReads =>
                     Late(m)' + Remaining' <= Passes(m)'
             /\ fate'[m] = "givenup" /\ running' /\ reads'[m] < MaxReads =>
                     kMaxRetries - 1 <= Passes(m)'
  <2> DEFINE n == Cardinality(DOMAIN multicast)
  <2>1. Late(m)' = Late(m) /\ Late(m) \in Int /\ reads[m] \in 0..MaxReads
    BY <1>1, LateType DEF Late, PeerTypes
  <2>2. /\ n \in Nat /\ Remaining \in Nat /\ Remaining' \in Nat /\ Remaining' <= n
        /\ Passes(m) = (reads[m] + 1) * n /\ Passes(m)' = (reads'[m] + 1) * n
    BY <1>1, RemainingBound, RemainingBoundNext DEF RemainingBounds, Passes
  <2>3. ASSUME fate'[m] = "queued", running', reads'[m] < MaxReads
        PROVE  Late(m)' + Remaining' <= Passes(m)'
    <3>1. fate[m] = "queued" /\ reads[m] < MaxReads /\ reads'[m] = reads[m] + 1 /\ running
      BY <1>1, <1>2, <1>3, <2>1, <2>3, Constants
    <3>2. Late(m) + Remaining <= Passes(m)
      BY <3>1 DEF Lateness
    <3>3. (reads[m] + 1 + 1) * n = (reads[m] + 1) * n + n /\ (reads[m] + 1) * n \in Nat
      BY <2>1, <2>2, PassesGrow
    <3>4. Passes(m)' = Passes(m) + n /\ Passes(m) \in Nat
      BY <2>2, <3>1, <3>3
    <3> QED BY <2>1, <2>2, <3>2, <3>4
  <2>4. ASSUME fate'[m] = "givenup", running', reads'[m] < MaxReads
        PROVE  kMaxRetries - 1 <= Passes(m)'
    <3>1. fate[m] = "givenup" /\ reads'[m] = reads[m] /\ running
      BY <1>1, <1>2, <1>3, <2>4
    <3> QED BY <2>2, <2>4, <3>1 DEF Lateness
  <2> QED BY <2>1, <2>3, <2>4
<1>7. at' # "none"
  <2>1. WaitAfter(NoGroup, DOMAIN multicast)
    BY DEF BackgroundReceive, ReceiveMulticast, FirstGroup
  <2> QED BY <2>1, WaitAfterEffect
<1> QED BY <1>4, <1>5, <1>6, <1>7 DEF Lateness

(* Where nothing was read, the pass is shorter by a group; a unicast that   *)
(* was transmitted would have been read.                                    *)
LEMMA TimesOutKeepsPeer ==
    ASSUME ReceptionInv, SocketInv', TimesOut
    PROVE  PeerTypes' /\ Copies' /\ Lateness'
<1> USE DEF ReceptionInv, SocketInv
<1>1. /\ UNCHANGED <<open, unicast, multicast, life, running, fate, attempts, due, reads>>
      /\ waited /\ Waiting(fd) = <<>> /\ at \in {"unicast", "multicast"} /\ life = "live"
  BY DEF TimesOut, socketVars, peerVars, Waits
<1>2. PeerTypes' /\ Copies'
  BY <1>1 DEF PeerTypes, Copies
<1>3. \A m \in Message : Late(m)' = Late(m) /\ Passes(m)' = Passes(m)
  BY <1>1 DEF Late, Passes
<1>4. Remaining \in Nat /\ Remaining' \in Nat /\ Remaining' <= Cardinality(DOMAIN multicast)
  BY <1>1, RemainingBound, RemainingBoundNext DEF RemainingBounds
<1>5. CASE at = "unicast"
  <2>1. fd = unicast /\ unicast \in DOMAIN open
    BY <1>1, <1>5 DEF Waits, Ownership
  <2>2. open[unicast].queue = <<>>
    BY <1>1, <2>1 DEF Waiting
  <2>3. ASSUME NEW m \in Message, fate[m] = "queued"
        PROVE  Late(m) = 0 /\ Passes(m) >= Cardinality(DOMAIN multicast) /\ Passes(m) \in Nat
    <3>1. ~(attempts[m] > 0)
      BY <1>1, <2>2, <2>3 DEF Copies
    <3>2. attempts[m] = 0 /\ m \in due
      BY <2>3, <3>1, LateType DEF Copies
    <3>3. Cardinality(DOMAIN multicast) \in Nat /\ reads[m] \in Nat
      BY RemainingBound, LateType DEF RemainingBounds
    <3> QED BY <3>2, <3>3, PassesGrow DEF Late, Passes
  <2>4. WaitAfter(NoGroup, DOMAIN multicast)
    BY <1>5 DEF TimesOut, FirstGroup
  <2>5. at' # "none"
    BY <2>4, WaitAfterEffect
  <2>6. ASSUME NEW m \in Message, fate[m] = "queued"
        PROVE  Late(m) + Remaining' <= Passes(m)
    <3>1. Cardinality(DOMAIN multicast) \in Nat
      BY RemainingBound DEF RemainingBounds
    <3> QED BY <1>4, <2>3, <2>6, <3>1
  <2> QED BY <1>1, <1>2, <1>3, <2>5, <2>6 DEF Lateness
<1>6. CASE at = "multicast"
  <2>1. PICK groups \in SUBSET DOMAIN multicast : WaitAfter(group, groups)
    BY <1>6 DEF TimesOut, NextGroup
  <2>2. /\ waited' = FALSE
        /\ \/ at' = "multicast" /\ group' \in groups /\ group' > group
           \/ at' \in {"unicast", "joined"}
    BY <2>1, WaitAfterEffect
  <2>3. Remaining = Cardinality(Above(group)) /\ group \in DOMAIN multicast
    BY <1>1, <1>6, GroupCounts DEF Remaining, Waits
  <2>4. Remaining' <= Remaining
    <3>1. CASE at' = "multicast" /\ group' \in groups /\ group' > group
      <4>1. IsFiniteSet(Above(group))
        BY Constants, FS_Subset DEF SocketTypes, Above
      <4>2. group' \in Above(group)
        BY <2>1, <3>1 DEF Above
      <4>3. DOMAIN multicast \subseteq Nat
        BY Constants DEF SocketTypes
      <4>4. Above(group)' \subseteq Above(group) \ {group'}
        BY <1>1, <2>1, <2>3, <3>1, <4>3 DEF Above
      <4>5. /\ Cardinality(Above(group) \ {group'}) = Cardinality(Above(group)) - 1
            /\ IsFiniteSet(Above(group) \ {group'})
        BY <4>1, <4>2, FS_RemoveElement
      <4>6. /\ Cardinality(Above(group)') <= Cardinality(Above(group) \ {group'})
            /\ Cardinality(Above(group)') \in Nat /\ Cardinality(Above(group)) \in Nat
        BY <4>1, <4>4, <4>5, FS_Subset, FS_CardinalityType
      <4>7. Remaining' = Cardinality(Above(group)') + 1
        BY <2>2, <3>1 DEF Remaining
      <4> QED BY <2>3, <4>5, <4>6, <4>7
    <3>2. CASE at' \in {"unicast", "joined"}
      BY <1>4, <3>2 DEF Remaining
    <3> QED BY <2>2, <3>1, <3>2
  <2>5. ASSUME NEW m \in Message, fate[m] = "queued", running, reads[m] < MaxReads
        PROVE  Late(m) + Remaining' <= Passes(m)
    <3>1. Late(m) + Remaining <= Passes(m) /\ Late(m) \in Int
      BY <2>5, LateType DEF Lateness
    <3>2. Passes(m) \in Nat
      BY RemainingBound, LateType, PassesGrow DEF RemainingBounds, Passes
    <3> QED BY <1>4, <2>4, <3>1, <3>2
  <2> QED BY <1>1, <1>2, <1>3, <2>2, <2>5 DEF Lateness
<1> QED BY <1>1, <1>5, <1>6

LEMMA QueueKeepsPeer ==
    ASSUME ReceptionInv, SocketInv', NEW m \in Message, Queue(m)
    PROVE  PeerTypes' /\ Copies' /\ Lateness'
<1> USE DEF ReceptionInv, SocketInv
<1>1. /\ UNCHANGED <<open, unicast, multicast, life, at, group, waited, running, attempts, reads>>
      /\ life = "live" /\ fate[m] = "new"
      /\ fate' = [fate EXCEPT ![m] = "queued"] /\ due' = due \cup {m}
  BY DEF Queue, socketVars, threadVars
<1>2. /\ attempts[m] = 0 /\ m \notin due /\ fate'[m] = "queued"
      /\ \A n \in Message : n # m => fate'[n] = fate[n]
      /\ fate' \in [Message -> {"new", "queued", "acked", "givenup"}]
  BY <1>1 DEF PeerTypes
<1>3. PeerTypes'
  BY <1>1, <1>2, Constants DEF PeerTypes
<1>4. Copies'
  BY <1>1, <1>2 DEF Copies
<1>5. Remaining' = Remaining /\ \A n \in Message : Passes(n)' = Passes(n)
  BY <1>1 DEF Remaining, Above, Passes
<1>6. Late(m)' = 0 /\ \A n \in Message : n # m => Late(n)' = Late(n)
  BY <1>1, <1>2 DEF Late
<1>7. Late(m)' + Remaining' <= Passes(m)'
  <2>1. /\ Cardinality(DOMAIN multicast) \in Nat
        /\ Remaining \in Nat /\ Remaining <= Cardinality(DOMAIN multicast) /\ reads[m] \in Nat
    BY RemainingBound, LateType DEF RemainingBounds
  <2>2. Cardinality(DOMAIN multicast) <= Passes(m) /\ Passes(m) \in Nat
    BY <2>1, PassesGrow DEF Passes
  <2> QED BY <1>5, <1>6, <2>1, <2>2
<1> QED BY <1>1, <1>2, <1>3, <1>4, <1>5, <1>6, <1>7 DEF Lateness

LEMMA TransmitKeepsPeer ==
    ASSUME ReceptionInv, SocketInv', NEW m \in Message, Transmit(m)
    PROVE  PeerTypes' /\ Copies' /\ Lateness'
<1> USE DEF ReceptionInv, SocketInv
<1>1. /\ UNCHANGED <<unicast, multicast, life, at, group, waited, running, fate, reads>>
      /\ m \in due /\ due' = due \ {m}
      /\ attempts' = [attempts EXCEPT ![m] = @ + 1]
  BY DEF Transmit, threadVars
<1>2. /\ attempts[m] \in 0..kMaxRetries /\ attempts[m] < kMaxRetries
      /\ attempts'[m] = attempts[m] + 1 /\ fate[m] # "new"
      /\ \A n \in Message : n # m => attempts'[n] = attempts[n]
      /\ attempts' \in [Message -> 0..kMaxRetries]
  BY <1>1, Constants DEF PeerTypes
<1>3. PeerTypes'
  BY <1>1, <1>2 DEF PeerTypes
<1>4. Copies'
  <2> SUFFICES ASSUME NEW n \in Message, fate[n] = "queued"
               PROVE  /\ attempts'[n] = 0 => n \in due'
                      /\ attempts'[n] > 0 /\ life = "live" =>
                           \E i \in 1..Len(open'[unicast].queue) : open'[unicast].queue[i] = n
    BY <1>1 DEF Copies
  <2>1. attempts'[n] = 0 => n \in due'
    BY <1>1, <1>2 DEF Copies
  <2>2. ASSUME attempts'[n] > 0, life = "live"
        PROVE  \E i \in 1..Len(open'[unicast].queue) : open'[unicast].queue[i] = n
    <3>1. unicast \in DOMAIN open
      BY <2>2 DEF Ownership
    <3>2. open[unicast].queue \in Seq(Message \cup Group)
      BY <3>1 DEF SocketTypes, Sockets
    <3>3. open'[unicast].queue = Append(open[unicast].queue, m)
      BY <3>1, TransmitEffect
    <3>4. CASE n = m
      <4>1. /\ Len(open[unicast].queue) + 1 \in 1..Len(Append(open[unicast].queue, m))
            /\ Append(open[unicast].queue, m)[Len(open[unicast].queue) + 1] = m
        BY <3>2
      <4> QED BY <3>3, <3>4, <4>1
    <3>5. CASE n # m
      <4>1. PICK i \in 1..Len(open[unicast].queue) : open[unicast].queue[i] = n
        BY <1>2, <2>2, <3>5 DEF Copies
      <4>2. /\ i \in 1..Len(Append(open[unicast].queue, m))
            /\ Append(open[unicast].queue, m)[i] = n
        BY <3>2, <4>1
      <4> QED BY <3>3, <4>2
    <3> QED BY <3>4, <3>5
  <2> QED BY <2>1, <2>2
<1>5. Remaining' = Remaining /\ \A n \in Message : Passes(n)' = Passes(n)
  BY <1>1 DEF Remaining, Above, Passes
<1>6. \A n \in Message : Late(n)' = Late(n)
  BY <1>1, <1>2 DEF Late
<1> QED BY <1>1, <1>3, <1>4, <1>5, <1>6 DEF Lateness

LEMMA GiveUpKeepsPeer ==
    ASSUME ReceptionInv, SocketInv', NEW m \in Message, GiveUp(m)
    PROVE  PeerTypes' /\ Copies' /\ Lateness'
<1> USE DEF ReceptionInv, SocketInv
<1>1. /\ UNCHANGED <<open, unicast, multicast, life, at, group, waited, running, attempts, due,
                     reads>>
      /\ fate[m] = "queued" /\ m \notin due /\ attempts[m] = kMaxRetries
      /\ fate' = [fate EXCEPT ![m] = "givenup"]
  BY DEF GiveUp, Exhausted, socketVars, threadVars
<1>2. /\ fate'[m] = "givenup" /\ life # "none"
      /\ \A n \in Message : n # m => fate'[n] = fate[n]
      /\ fate' \in [Message -> {"new", "queued", "acked", "givenup"}]
  BY <1>1 DEF PeerTypes
<1>3. PeerTypes'
  BY <1>1, <1>2, Constants DEF PeerTypes
<1>4. Copies'
  BY <1>1, <1>2 DEF Copies
<1>5. /\ Remaining' = Remaining
      /\ \A n \in Message : Passes(n)' = Passes(n) /\ Late(n)' = Late(n)
  BY <1>1 DEF Remaining, Above, Passes, Late
<1>6. Late(m) = kMaxRetries - 1 /\ Remaining \in Nat /\ Passes(m) \in Nat
  BY <1>1, RemainingBound, LateType, PassesGrow DEF Late, Passes, RemainingBounds
<1>7. /\ running /\ reads[m] < MaxReads => kMaxRetries - 1 <= Passes(m)
      /\ at = "none" => kMaxRetries = 1
  BY <1>1, <1>6, Constants DEF Lateness
<1> QED BY <1>1, <1>2, <1>3, <1>4, <1>5, <1>7 DEF Lateness

LEMMA MulticastKeepsPeer ==
    ASSUME ReceptionInv, SocketInv', NEW g \in Group, Multicast(g)
    PROVE  PeerTypes' /\ Copies' /\ Lateness'
<1> USE DEF ReceptionInv, SocketInv
<1>1. /\ UNCHANGED <<unicast, multicast, life, at, group, waited, running, fate, attempts, due,
                     reads>>
  BY DEF Multicast, threadVars, peerVars
<1>2. life = "live" => open'[unicast].queue = open[unicast].queue
  BY MulticastEffect, Constants DEF Ownership
<1> QED BY ZenonT(40), <1>1, <1>2 DEF PeerTypes, Copies, Lateness, Late, Remaining, Above, Passes

(* A unit passes: the messages that wait get later, and the pass advances.  *)
LEMMA TickKeepsPeer ==
    ASSUME ReceptionInv, SocketInv', Tick
    PROVE  PeerTypes' /\ Copies' /\ Lateness'
<1> USE DEF ReceptionInv, SocketInv
<1>1. /\ UNCHANGED <<open, unicast, multicast, life, at, group, running, fate, attempts, reads>>
      /\ at # "none" /\ due = {} /\ due' = Queued /\ waited' = (at # "joined")
      /\ \A m \in Message : fate[m] = "queued" => attempts[m] # kMaxRetries
      /\ at # "joined" => Waiting(fd) = <<>> /\ ~waited
  BY DEF Tick, Exhausted, socketVars
<1>2. /\ due' \subseteq Message
      /\ \A m \in due' : fate[m] = "queued" /\ attempts[m] < kMaxRetries
      /\ \A m \in Message : fate[m] = "queued" => m \in due' /\ attempts[m] > 0
  BY <1>1, Constants DEF Queued, PeerTypes, Copies
<1>3. PeerTypes'
  BY <1>1, <1>2 DEF PeerTypes
<1>4. Copies'
  BY <1>1, <1>2 DEF Copies
<1>5. ASSUME NEW m \in Message, fate[m] = "queued", running, reads[m] < MaxReads
      PROVE  Late(m)' + Remaining' <= Passes(m)'
  <2>1. CASE at = "unicast"
    <3>1. fd = unicast /\ unicast \in DOMAIN open /\ life = "live"
      BY <2>1 DEF Waits, Ownership
    <3>2. open[unicast].queue = <<>>
      BY <1>1, <2>1, <3>1 DEF Waiting
    <3> QED BY <1>2, <1>5, <3>1, <3>2 DEF Copies
  <2>2. CASE at = "multicast"
    <3>1. Remaining = Cardinality(Above(group)) + 1 /\ Remaining' = Cardinality(Above(group))
      <4>1. Above(group)' = Above(group)
        BY <1>1 DEF Above
      <4>2. Cardinality(Above(group)) \in Nat
        BY GroupCounts
      <4>3. ~waited /\ waited' /\ at' = "multicast"
        BY <1>1, <2>2
      <4>4. Remaining = Cardinality(Above(group)) + 1
        BY <2>2, <4>2, <4>3 DEF Remaining
      <4>5. Remaining' = Cardinality(Above(group)')
        BY <4>1, <4>2, <4>3 DEF Remaining
      <4> QED BY <4>1, <4>4, <4>5
    <3>2. Late(m)' = Late(m) + 1 /\ Passes(m)' = Passes(m) /\ Late(m) \in Int
      BY <1>1, <1>2, <1>5, LateType DEF Late, Passes
    <3>3. Cardinality(Above(group)) \in Nat /\ Passes(m) \in Nat
      BY GroupCounts, LateType, PassesGrow DEF Passes
    <3> QED BY <1>5, <3>1, <3>2, <3>3 DEF Lateness
  <2> QED BY <1>1, <1>5, <2>1, <2>2 DEF Waits
<1>6. \A m \in Message : Passes(m)' = Passes(m)
  BY <1>1 DEF Passes
<1> QED BY <1>1, <1>3, <1>4, <1>5, <1>6 DEF Lateness

-----------------------------------------------------------------------------
LEMMA ReceptionInvInit == Init => ReceptionInv
<1> SUFFICES ASSUME Init PROVE ReceptionInv
  OBVIOUS
<1>1. /\ fate = [m \in Message |-> "new"] /\ attempts = [m \in Message |-> 0]
      /\ due = {} /\ reads = [m \in Message |-> 0]
  BY DEF Init
<1>2. PeerTypes
  BY <1>1, Constants DEF PeerTypes
<1>3. Copies /\ Lateness
  BY <1>1 DEF Copies, Lateness
<1> QED BY <1>2, <1>3, SocketInvInit DEF ReceptionInv

LEMMA ReceptionInvNext == ReceptionInv /\ [Next]_vars => ReceptionInv'
<1> SUFFICES ASSUME ReceptionInv, [Next]_vars PROVE ReceptionInv'
  OBVIOUS
<1>1. SocketInv'
  BY SocketInvNext DEF ReceptionInv
<1>2. PeerTypes' /\ Copies' /\ Lateness'
  <2>1. CASE Application
    BY <1>1, <2>1, ApplicationKeepsPeer
  <2>2. CASE AsyncMailbox
    BY <1>1, <2>2, AsyncMailboxKeepsPeer
  <2>3. CASE Close
    BY <1>1, <2>3, CloseKeepsPeer
  <2>4. CASE Receiver
    BY <1>1, <2>4, ReadingKeepsPeer, TimesOutKeepsPeer DEF Receiver
  <2>5. ASSUME NEW m \in Message, Transmit(m) \/ GiveUp(m) \/ Queue(m)
        PROVE  PeerTypes' /\ Copies' /\ Lateness'
    BY <1>1, <2>5, TransmitKeepsPeer, GiveUpKeepsPeer, QueueKeepsPeer
  <2>6. ASSUME NEW g \in Group, Multicast(g)
        PROVE  PeerTypes' /\ Copies' /\ Lateness'
    BY <1>1, <2>6, MulticastKeepsPeer
  <2>7. CASE Tick
    BY <1>1, <2>7, TickKeepsPeer
  <2>8. CASE UNCHANGED vars
    <3>1. UNCHANGED <<open, unicast, multicast, life, at, group, waited, running, fate,
                      attempts, due, reads>>
      BY <2>8 DEF vars, socketVars, threadVars, peerVars
    <3> QED BY <3>1 DEF ReceptionInv, PeerTypes, Copies, Lateness, Late, Remaining, Above, Passes
  <2> QED BY <2>1, <2>2, <2>3, <2>4, <2>5, <2>6, <2>7, <2>8 DEF Next, Peer
<1> QED BY <1>1, <1>2 DEF ReceptionInv

LEMMA ReceptionInvAlways == Spec => []ReceptionInv
BY ReceptionInvInit, ReceptionInvNext, PTL DEF Spec

(* The types, and that the thread only ever waits in an open descriptor:    *)
(* one of the object, or one that a second JoinGroup of its group replaced  *)
(* under it and left open.                                                  *)
THEOREM ReceptionTypeOK == Spec => []TypeOK
<1>1. ReceptionInv => TypeOK
  <2> SUFFICES ASSUME ReceptionInv PROVE TypeOK
    OBVIOUS
  <2> USE DEF ReceptionInv, SocketInv
  <2>1. \A s \in DOMAIN open : open[s].member \in Group \cup {NoGroup}
    BY DEF SocketTypes, Sockets
  <2>2. Range(multicast) \subseteq Descriptor
    BY DEF SocketTypes, Range
  <2>3. at \in {"unicast", "multicast"} => fd \in DOMAIN open
    BY DEF Waits, Ownership
  <2> QED BY <2>1, <2>2, <2>3 DEF TypeOK, SocketTypes, Waits, PeerTypes
<1> QED BY <1>1, ReceptionInvAlways, PTL

(* For any number of groups and retries: while the mailbox runs, a peer     *)
(* gives a message up that was never lost only when so many other datagrams *)
(* were read since it was queued that the passes over the groups they cost  *)
(* are as long as the peer's retries.                                       *)
THEOREM InTimeHolds == Spec => []InTime
<1>1. ReceptionInv => InTime
  <2> SUFFICES ASSUME ReceptionInv, NEW m \in Message, fate[m] = "givenup", running,
                      reads[m] # MaxReads
               PROVE  (reads[m] + 1) * Cardinality(DOMAIN multicast) >= kMaxRetries - 1
    BY DEF InTime
  <2>1. reads[m] < MaxReads
    BY Constants DEF ReceptionInv, PeerTypes
  <2>2. kMaxRetries - 1 <= Passes(m)
    BY <2>1 DEF ReceptionInv, Lateness
  <2>3. Passes(m) \in Nat
    BY RemainingBound, LateType, PassesGrow DEF ReceptionInv, RemainingBounds, Passes
  <2> QED BY <2>2, <2>3, Constants DEF Passes
<1> QED BY <1>1, ReceptionInvAlways, PTL

=============================================================================
