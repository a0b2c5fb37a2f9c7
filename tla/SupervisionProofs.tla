------------------------- MODULE SupervisionProofs -------------------------
(***************************************************************************)
(* Proofs about Supervision, for any number of children and any lengths of *)
(* time.                                                                   *)
(***************************************************************************)
EXTENDS Supervision, FiniteSetTheorems, TLAPS

Message == [type : LifecycleType, from : Child] \cup {Other}
InFlight == [type : LifecycleType, age : 0..MaxDelay]

(* Nobody has told the parent of the child, and it was not taken for dead.  *)
Fresh(c) == spawned[c] = Absent /\ buried[c] = 0

(* "started" is the first message of a child, wherever it is: before it     *)
(* arrives the parent knows nothing of the child.                           *)
StartedFirst ==
    /\ \A c \in Child : \A i \in DOMAIN wire[c] :
         wire[c][i].type = "started" =>
           /\ i = 1 /\ Fresh(c)
           /\ \A j \in DOMAIN incoming : incoming[j].from # c
    /\ \A j \in DOMAIN incoming :
         incoming[j].type = "started" =>
           /\ Fresh(incoming[j].from)
           /\ \A k \in 1..(j - 1) : incoming[k].from # incoming[j].from

(* A child that was not started has sent nothing.                           *)
UnbornSilent ==
    \A c \in Child : life[c] = "unborn" =>
        /\ Fresh(c) /\ wire[c] = <<>>
        /\ \A j \in DOMAIN incoming : incoming[j].from # c

History == StartedFirst /\ UnbornSilent /\ BuriedForGood

-----------------------------------------------------------------------------
(* The constants are numbers, and Nobody is no child.                       *)
LEMMA Constants ==
    /\ PulseInterval \in Nat /\ HeartbeatTimeout \in Nat /\ ReceiveTimeout \in Nat
    /\ MaxDelay \in Nat /\ MaxBusy \in Nat /\ MaxLost \in Nat /\ MaxOther \in Nat
    /\ Nobody \notin Child
BY SupervisionAssumption

(* What handling a message does to spawned_, for each type of message; it   *)
(* touches the entry of the sender only, and a fresh child only by its own  *)
(* "started" or "exited".                                                   *)
LEMMA HandleEffect ==
    ASSUME TypeOK, NEW m \in Message, HandleMessage(m)
    PROVE  /\ spawned' \in [Child -> Nat \cup {Absent}]
           /\ buried' \in [Child -> Nat]
           /\ busy' \in 0..MaxBusy
           /\ \A c \in Child : c # m.from =>
                spawned'[c] = spawned[c] /\ buried'[c] = buried[c]
           /\ m.from \in Child => CASE m.type = "exited" ->
                                         /\ spawned'[m.from] = Absent
                                         /\ buried'[m.from] = buried[m.from] + 1
                                    [] m.type = "started" ->
                                         /\ spawned'[m.from] # Absent
                                         /\ buried'[m.from] = buried[m.from]
                                    [] OTHER ->
                                         /\ spawned'[m.from] = Absent <=> spawned[m.from] = Absent
                                         /\ buried'[m.from] = buried[m.from]
           /\ m.type = "errored" => spawned' = spawned
<1>1. m.type \in LifecycleType => m.from \in Child
  BY DEF Message, Other, LifecycleType
<1>2. m.type \notin LifecycleType => m = Other
  BY DEF Message
<1>3. now \in Nat /\ now # Absent /\ spawned \in [Child -> Nat \cup {Absent}]
      /\ buried \in [Child -> Nat]
  BY DEF TypeOK, Absent
<1>4. busy' \in 0..MaxBusy
  BY DEF HandleMessage
<1>5. CASE m.type = "exited"
  <2>1. /\ spawned' = [spawned EXCEPT ![m.from] = Absent]
        /\ buried' = [buried EXCEPT ![m.from] = @ + 1]
    BY <1>5 DEF HandleMessage
  <2> QED BY <2>1, <1>1, <1>3, <1>4, <1>5 DEF LifecycleType
<1>6. CASE m.type = "started"
  <2>1. buried' = buried
    BY <1>6 DEF HandleMessage
  <2>2. m.from \in Child BY <1>1, <1>6 DEF LifecycleType
  <2>3. CASE spawned[m.from] = Absent
    <3>1. spawned' = [spawned EXCEPT ![m.from] = now]
      BY <1>6, <2>3 DEF HandleMessage
    <3> QED BY <3>1, <2>1, <2>2, <1>3, <1>4, <1>6
  <2>4. CASE spawned[m.from] # Absent
    <3>1. spawned' = spawned
      BY <1>6, <2>4 DEF HandleMessage
    <3> QED BY <3>1, <2>1, <2>2, <2>4, <1>3, <1>4, <1>6
  <2> QED BY <2>3, <2>4
<1>7. CASE m.type = "pulsed"
  <2>1. buried' = buried
    BY <1>7 DEF HandleMessage
  <2>2. m.from \in Child BY <1>1, <1>7 DEF LifecycleType
  <2>3. CASE spawned[m.from] # Absent
    <3>1. spawned' = [spawned EXCEPT ![m.from] = now]
      BY <1>7, <2>3 DEF HandleMessage
    <3> QED BY <3>1, <2>1, <2>2, <2>3, <1>3, <1>4, <1>7
  <2>4. CASE spawned[m.from] = Absent
    <3>1. spawned' = spawned
      BY <1>7, <2>4 DEF HandleMessage
    <3> QED BY <3>1, <2>1, <2>2, <2>4, <1>3, <1>4, <1>7
  <2> QED BY <2>3, <2>4
<1>8. CASE m.type \notin {"exited", "started", "pulsed"}
  <2>1. spawned' = spawned /\ buried' = buried
    BY <1>8 DEF HandleMessage
  <2> QED BY <2>1, <1>3, <1>4, <1>8
<1> QED BY <1>5, <1>6, <1>7, <1>8

-----------------------------------------------------------------------------
(* The types.                                                               *)

(* Init has the types.                                                      *)
LEMMA TypeInit == Init => TypeOK
BY Constants DEF Init, TypeOK, Absent

(* What a child sends keeps the type of wire, and only appends.             *)
LEMMA SendEffect ==
    ASSUME TypeOK, NEW c \in Child, NEW types \in Seq(LifecycleType), Send(c, types)
    PROVE  /\ wire' \in [Child -> Seq(InFlight)]
           /\ \A d \in Child \ {c} : wire'[d] = wire[d]
           /\ Len(wire'[c]) = Len(wire[c]) + Len(types)
           /\ \A i \in 1..Len(wire'[c]) :
                wire'[c][i].type = IF i <= Len(wire[c]) THEN wire[c][i].type
                                                        ELSE types[i - Len(wire[c])]
<1> DEFINE new == [i \in DOMAIN types |-> [type |-> types[i], age |-> 0]]
<1>1. wire \in [Child -> Seq(InFlight)]
  BY DEF TypeOK, InFlight
<1>2. new \in Seq(InFlight) /\ Len(new) = Len(types)
  <2>1. DOMAIN types = 1..Len(types) /\ Len(types) \in Nat
    OBVIOUS
  <2>2. \A i \in 1..Len(types) : new[i] \in InFlight
    BY <2>1, Constants DEF InFlight
  <2>3. new \in [1..Len(types) -> InFlight]
    BY <2>1, <2>2
  <2> QED BY <2>1, <2>3
<1>3. wire' = [wire EXCEPT ![c] = wire[c] \o new]
  BY DEF Send
<1>4. \A i \in 1..Len(new) : new[i].type = types[i]
  BY <1>2
<1> HIDE DEF new
<1>5. wire'[c] = wire[c] \o new
  BY <1>1, <1>3
<1>6. /\ wire[c] \o new \in Seq(InFlight)
      /\ Len(wire[c] \o new) = Len(wire[c]) + Len(new)
  <2>1. wire[c] \in Seq(InFlight)
    BY <1>1
  <2> QED BY <2>1, <1>2
<1>7. \A i \in 1..Len(wire'[c]) :
        wire'[c][i] = IF i <= Len(wire[c]) THEN wire[c][i] ELSE new[i - Len(wire[c])]
  BY <1>1, <1>2, <1>5
<1>8. \A i \in 1..Len(wire'[c]) :
        wire'[c][i].type = IF i <= Len(wire[c]) THEN wire[c][i].type ELSE types[i - Len(wire[c])]
  <2> TAKE i \in 1..Len(wire'[c])
  <2>1. CASE i <= Len(wire[c]) BY <2>1, <1>7
  <2>2. CASE ~(i <= Len(wire[c]))
    <3>1. i - Len(wire[c]) \in 1..Len(new)
      BY <2>2, <1>1, <1>2, <1>5, <1>6
    <3> QED BY <3>1, <2>2, <1>4, <1>7
  <2> QED BY <2>1, <2>2
<1> QED BY <1>1, <1>2, <1>3, <1>5, <1>6, <1>8

(* Taking one message out of a sequence.                                    *)
LEMMA RemoveOne ==
    ASSUME NEW S, NEW s \in Seq(S), NEW i \in DOMAIN s
    PROVE  /\ RemoveAt(s, i) \in Seq(S)
           /\ \A k \in DOMAIN RemoveAt(s, i) :
                \E j \in DOMAIN s : j >= k /\ RemoveAt(s, i)[k] = s[j]
           /\ DOMAIN RemoveAt(s, i) = 1..(Len(s) - 1)
           /\ \A k \in 1..(Len(s) - 1) :
                RemoveAt(s, i)[k] = IF k < i THEN s[k] ELSE s[k + 1]
<1>1. i \in 1..Len(s) /\ Len(s) \in Nat
  OBVIOUS
<1> DEFINE a == SubSeq(s, 1, i - 1)
           b == SubSeq(s, i + 1, Len(s))
<1>2. a \in Seq(S) /\ Len(a) = i - 1 /\ \A k \in 1..(i - 1) : a[k] = s[k]
  BY <1>1
<1>3. b \in Seq(S) /\ Len(b) = Len(s) - i /\ \A k \in 1..(Len(s) - i) : b[k] = s[i + k]
  BY <1>1
<1>4. RemoveAt(s, i) = a \o b
  BY DEF RemoveAt
<1> HIDE DEF a, b
<1>5. a \o b \in Seq(S) /\ Len(a \o b) = Len(s) - 1
  BY <1>1, <1>2, <1>3
<1>6. \A k \in 1..(Len(s) - 1) :
        (a \o b)[k] = IF k < i THEN s[k] ELSE s[k + 1]
  <2> TAKE k \in 1..(Len(s) - 1)
  <2>1. CASE k < i
    <3>1. (a \o b)[k] = a[k]
      BY <2>1, <1>1, <1>2, <1>3
    <3> QED BY <3>1, <2>1, <1>1, <1>2
  <2>2. CASE ~(k < i)
    <3>1. (a \o b)[k] = b[k - (i - 1)]
      BY SMTT(30), <2>2, <1>1, <1>2, <1>3
    <3>2. k - (i - 1) \in 1..(Len(s) - i) /\ i + (k - (i - 1)) = k + 1
      BY <2>2, <1>1
    <3> QED BY <3>1, <3>2, <2>2, <1>3
  <2> QED BY <2>1, <2>2
<1>7. \A k \in 1..(Len(s) - 1) : \E j \in 1..Len(s) : j >= k /\ (a \o b)[k] = s[j]
  <2> TAKE k \in 1..(Len(s) - 1)
  <2>1. CASE k < i
    <3>1. (a \o b)[k] = s[k]
      BY <2>1, <1>6
    <3>2. k \in 1..Len(s) /\ k >= k
      BY <1>1
    <3> QED BY <3>1, <3>2
  <2>2. CASE ~(k < i)
    <3>1. (a \o b)[k] = s[k + 1]
      BY <2>2, <1>6
    <3>2. k + 1 \in 1..Len(s) /\ k + 1 >= k
      BY <1>1
    <3> QED BY <3>1, <3>2
  <2> QED BY <2>1, <2>2
<1>8. DOMAIN (a \o b) = 1..(Len(s) - 1)
  BY <1>1, <1>5
<1>9. DOMAIN s = 1..Len(s)
  OBVIOUS
<1> QED BY <1>4, <1>5, <1>6, <1>7, <1>8, <1>9

(* Taking the first ones out.                                               *)
LEMMA DropFirst ==
    ASSUME NEW S, NEW s \in Seq(S), NEW i \in DOMAIN s
    PROVE  /\ SubSeq(s, i + 1, Len(s)) \in Seq(S)
           /\ \A k \in DOMAIN SubSeq(s, i + 1, Len(s)) :
                /\ i + k \in DOMAIN s
                /\ SubSeq(s, i + 1, Len(s))[k] = s[i + k]
OBVIOUS

(* The messages the children have on their way are still typed, and none    *)
(* of them became "started" or was moved back.                              *)
WireKept ==
    /\ wire' \in [Child -> Seq(InFlight)]
    /\ \A c \in Child : \A k \in DOMAIN wire'[c] :
         wire'[c][k].type = "started" =>
           \E j \in DOMAIN wire[c] : j >= k /\ wire[c][j].type = "started"

(* Every action but the start of a child keeps the wire in this sense.      *)
LEMMA WireStep ==
    ASSUME TypeOK, Next, \A c \in Child : ~ChildStarts(c)
    PROVE  WireKept
<1>1. wire \in [Child -> Seq(InFlight)]
  BY DEF TypeOK, InFlight
<1>2. ASSUME NEW c \in Child, NEW types \in Seq(LifecycleType), Send(c, types),
             \A i \in DOMAIN types : types[i] # "started"
      PROVE  WireKept
  <2>1. /\ wire' \in [Child -> Seq(InFlight)]
        /\ \A d \in Child \ {c} : wire'[d] = wire[d]
        /\ Len(wire'[c]) = Len(wire[c]) + Len(types)
        /\ \A i \in 1..Len(wire'[c]) :
             wire'[c][i].type = IF i <= Len(wire[c]) THEN wire[c][i].type
                                                     ELSE types[i - Len(wire[c])]
    BY <1>2, SendEffect
  <2>2. ASSUME NEW k \in DOMAIN wire'[c], wire'[c][k].type = "started"
        PROVE  k \in DOMAIN wire[c] /\ wire[c][k].type = "started"
    <3>1. k \in 1..Len(wire'[c]) /\ DOMAIN wire[c] = 1..Len(wire[c]) /\ Len(wire[c]) \in Nat
      BY <2>1, <2>2, <1>1
    <3>2. CASE k <= Len(wire[c])
      BY <3>1, <3>2, <2>1, <2>2
    <3>3. CASE ~(k <= Len(wire[c]))
      <4>1. k - Len(wire[c]) \in DOMAIN types
        BY <3>1, <3>3, <2>1
      <4>2. wire'[c][k].type = types[k - Len(wire[c])]
        BY <3>1, <3>3, <2>1
      <4> QED BY <4>1, <4>2, <2>2, <1>2
    <3> QED BY <3>2, <3>3
  <2>3. ASSUME NEW d \in Child, NEW k \in DOMAIN wire'[d], wire'[d][k].type = "started"
        PROVE  \E j \in DOMAIN wire[d] : j >= k /\ wire[d][j].type = "started"
    <3>1. k \in Nat
      BY <2>1, <2>3
    <3>2. k \in DOMAIN wire[d] /\ wire[d][k].type = "started"
      BY <2>1, <2>2, <2>3
    <3> QED BY <3>1, <3>2
  <2> QED BY <2>1, <2>3 DEF WireKept
<1>3. ASSUME wire' = wire PROVE WireKept
  <2>1. \A c \in Child : \A k \in DOMAIN wire[c] : k \in Nat
    BY <1>1
  <2> QED BY <1>1, <1>3, <2>1 DEF WireKept
<1>4. ASSUME NEW c \in Child, ChildPulses(c) PROVE WireKept
  <2>1. <<"pulsed">> \in Seq(LifecycleType) /\ Send(c, <<"pulsed">>)
    BY <1>4 DEF ChildPulses, LifecycleType
  <2>2. \A i \in DOMAIN <<"pulsed">> : <<"pulsed">>[i] # "started"
    OBVIOUS
  <2> QED BY <2>1, <2>2, <1>2
<1>5. ASSUME NEW c \in Child, ChildExits(c) PROVE WireKept
  <2>1. PICK types \in {<<"exited">>, <<"errored", "exited">>} : Send(c, types)
    BY <1>5 DEF ChildExits
  <2>2. types \in Seq(LifecycleType) /\ \A i \in DOMAIN types : types[i] # "started"
    <3>1. CASE types = <<"exited">> BY <3>1 DEF LifecycleType
    <3>2. CASE types = <<"errored", "exited">> BY <3>2 DEF LifecycleType
    <3> QED BY <3>1, <3>2
  <2> QED BY <2>1, <2>2, <1>2
<1>6. ASSUME NEW c \in Child, NEW w \in Seq(InFlight),
             wire' = [wire EXCEPT ![c] = w],
             \A k \in DOMAIN w : w[k].type = "started" =>
               \E j \in DOMAIN wire[c] : j >= k /\ wire[c][j].type = "started"
      PROVE  WireKept
  <2>1. wire' \in [Child -> Seq(InFlight)] /\ wire'[c] = w
        /\ \A d \in Child \ {c} : wire'[d] = wire[d]
    BY <1>1, <1>6
  <2>2. \A d \in Child : \A k \in DOMAIN wire[d] : k \in Nat
    BY <1>1
  <2> QED BY <2>1, <2>2, <1>6 DEF WireKept
<1>7. ASSUME NEW c \in Child, ChildCrashes(c) PROVE WireKept
  <2>1. CASE wire' = wire BY <2>1, <1>3
  <2>2. CASE wire' = [wire EXCEPT ![c] = <<>>]
    <3>1. <<>> \in Seq(InFlight) /\ DOMAIN <<>> = {}
      OBVIOUS
    <3> QED BY <3>1, <2>2, <1>6
  <2> QED BY <2>1, <2>2, <1>7 DEF ChildCrashes
<1>8. ASSUME NEW c \in Child, Deliver(c) PROVE WireKept
  <2>1. PICK i \in DOMAIN wire[c] : wire' = [wire EXCEPT ![c] = SubSeq(@, i + 1, Len(@))]
    BY <1>8 DEF Deliver
  <2> DEFINE w == SubSeq(wire[c], i + 1, Len(wire[c]))
  <2>2. wire[c] \in Seq(InFlight)
    BY <1>1
  <2>3. /\ w \in Seq(InFlight)
        /\ \A k \in DOMAIN w : i + k \in DOMAIN wire[c] /\ w[k] = wire[c][i + k]
    BY <2>2, DropFirst
  <2>4. wire' = [wire EXCEPT ![c] = w]
    BY <2>1
  <2>5. \A k \in DOMAIN w : i + k >= k
    BY <2>2, <2>3
  <2> HIDE DEF w
  <2>6. \A k \in DOMAIN w : w[k].type = "started" =>
          \E j \in DOMAIN wire[c] : j >= k /\ wire[c][j].type = "started"
    BY <2>3, <2>5
  <2> QED BY <2>3, <2>4, <2>6, <1>6
<1>9. ASSUME NEW c \in Child, GiveUp(c) PROVE WireKept
  <2>1. PICK i \in DOMAIN wire[c] : wire' = [wire EXCEPT ![c] = RemoveAt(@, i)]
    BY <1>9 DEF GiveUp
  <2>2. wire[c] \in Seq(InFlight)
    BY <1>1
  <2> DEFINE w == RemoveAt(wire[c], i)
  <2>3. /\ w \in Seq(InFlight)
        /\ \A k \in DOMAIN w : \E j \in DOMAIN wire[c] : j >= k /\ w[k] = wire[c][j]
    BY <2>2, RemoveOne
  <2>4. wire' = [wire EXCEPT ![c] = w]
    BY <2>1
  <2> HIDE DEF w
  <2>5. \A k \in DOMAIN w : w[k].type = "started" =>
          \E j \in DOMAIN wire[c] : j >= k /\ wire[c][j].type = "started"
    <3> TAKE k \in DOMAIN w
    <3> HAVE w[k].type = "started"
    <3>1. PICK j \in DOMAIN wire[c] : j >= k /\ w[k] = wire[c][j]
      BY <2>3
    <3> QED BY <3>1
  <2> QED BY <2>3, <2>4, <2>5, <1>6
<1>10. ASSUME OthersSend \/ Parent PROVE WireKept
  BY <1>3, <1>10 DEF OthersSend, Parent, CheckChildren, ReportErrored, ReportExited,
     BeginReceive, ReceiveMessage, ReceiveNothing, childVars
<1>11. ASSUME Tick PROVE WireKept
  <2> DEFINE older(c) == [i \in DOMAIN wire[c] |-> [wire[c][i] EXCEPT !.age = @ + 1]]
  <2>1. wire' = [c \in Child |-> older(c)]
    BY <1>11 DEF Tick
  <2>2. ASSUME NEW c \in Child
        PROVE  /\ older(c) \in Seq(InFlight)
               /\ \A k \in DOMAIN older(c) :
                    k \in DOMAIN wire[c] /\ k \in Nat /\ older(c)[k].type = wire[c][k].type
    <3>1. wire[c] \in Seq(InFlight) /\ DOMAIN wire[c] = 1..Len(wire[c]) /\ Len(wire[c]) \in Nat
      BY <1>1
    <3>2. \A i \in DOMAIN wire[c] : wire[c][i] \in InFlight /\ wire[c][i].age < MaxDelay
      BY <3>1, <1>11 DEF Tick, ToSet
    <3>3. \A i \in DOMAIN wire[c] : [wire[c][i] EXCEPT !.age = @ + 1] \in InFlight
      BY <3>2, Constants DEF InFlight
    <3>4. older(c) \in [1..Len(wire[c]) -> InFlight]
      BY <3>1, <3>3
    <3>5. \A k \in DOMAIN wire[c] : older(c)[k].type = wire[c][k].type
      BY <3>2 DEF InFlight
    <3> QED BY <3>1, <3>4, <3>5
  <2> HIDE DEF older
  <2> QED BY <2>1, <2>2 DEF WireKept
<1> QED BY <1>4, <1>5, <1>7, <1>8, <1>9, <1>10, <1>11 DEF Next

(* The messages CheckChildren makes up, and the one received, are messages. *)
LEMMA MessagesHandled ==
    ASSUME TypeOK
    PROVE  /\ \A c \in Child : [type |-> "errored", from |-> c] \in Message
           /\ reporting # Nobody =>
                reporting \in dead /\ [type |-> "exited", from |-> reporting] \in Message
           /\ incoming \in Seq(Message)
           /\ incoming # <<>> =>
                /\ Head(incoming) \in Message /\ Head(incoming) = incoming[1]
                /\ Tail(incoming) \in Seq(Message)
                /\ 1 \in DOMAIN incoming
                /\ \A k \in DOMAIN Tail(incoming) :
                     k + 1 \in DOMAIN incoming /\ Tail(incoming)[k] = incoming[k + 1]
<1>1. \A c \in Child : [type |-> "errored", from |-> c] \in Message
  BY DEF Message, LifecycleType
<1>2. reporting # Nobody =>
        reporting \in dead /\ [type |-> "exited", from |-> reporting] \in Message
  BY DEF TypeOK, Message, LifecycleType
<1>3. incoming \in Seq(Message)
  BY DEF TypeOK, Message
<1>4. incoming # <<>> =>
        /\ Head(incoming) \in Message /\ Head(incoming) = incoming[1]
        /\ Tail(incoming) \in Seq(Message)
        /\ 1 \in DOMAIN incoming
        /\ \A k \in DOMAIN Tail(incoming) :
             k + 1 \in DOMAIN incoming /\ Tail(incoming)[k] = incoming[k + 1]
  BY <1>3
<1> QED BY <1>1, <1>2, <1>3, <1>4

(* Appending to a sequence.                                                 *)
LEMMA Appended ==
    ASSUME NEW S, NEW s \in Seq(S), NEW x \in S
    PROVE  /\ Append(s, x) \in Seq(S)
           /\ \A k \in DOMAIN Append(s, x) :
                \/ k \in DOMAIN s /\ Append(s, x)[k] = s[k]
                \/ k = Len(s) + 1 /\ Append(s, x)[k] = x
           /\ \A k \in DOMAIN s : k \in 1..Len(s)
OBVIOUS

(* What is left of the mailbox when its first message was taken out.        *)
LEMMA TailOf ==
    ASSUME TypeOK, incoming # <<>>
    PROVE  \A k \in DOMAIN Tail(incoming) :
             /\ k \in Nat \ {0} /\ k + 1 \in DOMAIN incoming
             /\ Tail(incoming)[k] = incoming[k + 1]
             /\ \A l \in 1..k : l \in DOMAIN Tail(incoming)
<1>1. incoming \in Seq(Message)
  BY MessagesHandled
<1> QED BY <1>1

(* Every step keeps the types.                                              *)
LEMMA TypeStep == TypeOK /\ [Next]_vars => TypeOK'
<1> SUFFICES ASSUME TypeOK, [Next]_vars PROVE TypeOK'
  OBVIOUS
<1> USE Constants
<1>1. wire' \in [Child -> Seq(InFlight)]
  <2>1. wire \in [Child -> Seq(InFlight)]
    BY DEF TypeOK, InFlight
  <2>2. ASSUME NEW c \in Child, ChildStarts(c) PROVE wire' \in [Child -> Seq(InFlight)]
    <3>1. <<"started">> \in Seq(LifecycleType) /\ Send(c, <<"started">>)
      BY <2>2 DEF ChildStarts, LifecycleType
    <3> QED BY <3>1, SendEffect
  <2>3. CASE Next
    BY <2>2, <2>3, WireStep DEF WireKept
  <2>4. CASE UNCHANGED vars
    BY <2>1, <2>4 DEF vars, childVars
  <2> QED BY <2>3, <2>4
<1>2. \A c \in Child : ChildStarts(c) => TypeOK'
  BY <1>1 DEF TypeOK, ChildStarts, loopVars, InFlight
<1>3. ASSUME NEW c \in Child, ChildPulses(c) PROVE TypeOK'
  <2>1. last' \in [Child -> Nat]
    BY <1>3 DEF TypeOK, ChildPulses
  <2> QED BY <2>1, <1>1, <1>3 DEF TypeOK, ChildPulses, loopVars, InFlight
<1>4. \A c \in Child : ChildExits(c) => TypeOK'
  BY <1>1 DEF TypeOK, ChildExits, loopVars, InFlight
<1>5. \A c \in Child : ChildCrashes(c) => TypeOK'
  BY <1>1 DEF TypeOK, ChildCrashes, loopVars, InFlight
<1>6. ASSUME NEW c \in Child, Deliver(c) PROVE TypeOK'
  <2>1. PICK i \in DOMAIN wire[c] :
          incoming' = Append(incoming, [type |-> wire[c][i].type, from |-> c])
    BY <1>6 DEF Deliver
  <2>2. wire[c] \in Seq(InFlight)
    BY DEF TypeOK, InFlight
  <2>3. wire[c][i].type \in LifecycleType
    <3>1. wire[c][i] \in InFlight
      BY <2>2
    <3> QED BY <3>1 DEF InFlight
  <2>4. incoming' \in Seq([type : LifecycleType, from : Child] \cup {Other})
    BY <2>1, <2>3 DEF TypeOK
  <2>5. lost' \in [Child -> 0..MaxLost]
    BY <1>6 DEF TypeOK, Deliver
  <2>6. UNCHANGED <<life, last, spawned, loopVars, now, busy, buried>>
    BY <1>6 DEF Deliver
  <2> QED BY <2>4, <2>5, <2>6, <1>1 DEF TypeOK, loopVars, InFlight
<1>7. ASSUME NEW c \in Child, GiveUp(c) PROVE TypeOK'
  <2>1. lost' \in [Child -> 0..MaxLost]
    <3>1. lost \in [Child -> 0..MaxLost] /\ lost[c] < MaxLost /\ lost' = [lost EXCEPT ![c] = @ + 1]
      BY <1>7 DEF TypeOK, GiveUp
    <3>2. lost[c] + 1 \in 0..MaxLost
      BY <3>1
    <3> QED BY <3>1, <3>2
  <2>2. UNCHANGED <<life, last, incoming, spawned, loopVars, now, busy, buried>>
    BY <1>7 DEF GiveUp
  <2> QED BY <2>1, <2>2, <1>1 DEF TypeOK, loopVars, InFlight
<1>8. ASSUME OthersSend PROVE TypeOK'
  <2>1. incoming' \in Seq([type : LifecycleType, from : Child] \cup {Other})
    BY <1>8 DEF TypeOK, OthersSend
  <2> QED BY <2>1, <1>1, <1>8 DEF TypeOK, OthersSend, childVars, loopVars, InFlight
<1>9. ASSUME CheckChildren PROVE TypeOK'
  <2>1. dead' \subseteq Child /\ \A c \in dead' : spawned[c] # Absent
    BY <1>9 DEF CheckChildren, Overdue, Absent
  <2>2. reporting = Nobody
    BY <1>9 DEF TypeOK, CheckChildren
  <2> QED BY <2>1, <2>2, <1>1, <1>9 DEF TypeOK, CheckChildren, childVars, InFlight
<1>10. ASSUME NEW c \in Child, ReportErrored(c) PROVE TypeOK'
  <2>1. spawned' = spawned /\ buried' \in [Child -> Nat] /\ busy' \in 0..MaxBusy
    BY <1>10, HandleEffect, MessagesHandled DEF ReportErrored, TypeOK
  <2> QED BY <2>1, <1>1, <1>10 DEF TypeOK, ReportErrored, childVars, InFlight
<1>11. ASSUME ReportExited PROVE TypeOK'
  <2>1. /\ spawned' \in [Child -> Nat \cup {Absent}]
        /\ buried' \in [Child -> Nat] /\ busy' \in 0..MaxBusy
        /\ \A c \in Child : c # reporting => spawned'[c] = spawned[c]
    BY <1>11, HandleEffect, MessagesHandled DEF ReportExited
  <2> QED BY <2>1, <1>1, <1>11 DEF TypeOK, ReportExited, childVars, InFlight
<1>12. ASSUME BeginReceive PROVE TypeOK'
  <2>1. waited' \in 0..ReceiveTimeout /\ pc' = "receive" /\ dead' = {}
    BY <1>12 DEF BeginReceive
  <2>2. UNCHANGED <<childVars, incoming, spawned, dead, reporting, now, busy, buried>>
    BY <1>12 DEF BeginReceive
  <2> QED BY <2>1, <2>2, <1>1 DEF TypeOK, childVars, InFlight
<1>13. ASSUME ReceiveMessage PROVE TypeOK'
  <2>1. /\ spawned' \in [Child -> Nat \cup {Absent}]
        /\ buried' \in [Child -> Nat] /\ busy' \in 0..MaxBusy
        /\ incoming' \in Seq([type : LifecycleType, from : Child] \cup {Other})
    BY <1>13, HandleEffect, MessagesHandled DEF ReceiveMessage, Message
  <2>2. dead = {}
    BY <1>13 DEF TypeOK, ReceiveMessage
  <2> QED BY <2>1, <2>2, <1>1, <1>13 DEF TypeOK, ReceiveMessage, childVars, InFlight
<1>14. ReceiveNothing => TypeOK'
  BY <1>1 DEF TypeOK, ReceiveNothing, childVars, InFlight
<1>15. ASSUME Tick PROVE TypeOK'
  <2>1. last' \in [Child -> Nat]
    BY SMTT(30), <1>15 DEF TypeOK, Tick
  <2>2. \A a \in Nat : Older(a) \in Nat
    BY DEF Older
  <2>3. /\ spawned' \in [Child -> Nat \cup {Absent}]
        /\ \A c \in Child : spawned'[c] = Absent <=> spawned[c] = Absent
    BY <2>2, <1>15 DEF TypeOK, Tick, Absent
  <2>4. now' \in Nat
    BY <2>2, <1>15 DEF TypeOK, Tick
  <2>5. waited' \in 0..ReceiveTimeout /\ busy' \in 0..MaxBusy
    BY <1>15 DEF TypeOK, Tick
  <2> QED BY <2>1, <2>3, <2>4, <2>5, <1>1, <1>15 DEF TypeOK, Tick, InFlight
<1>16. CASE UNCHANGED vars
  BY <1>16 DEF TypeOK, vars, childVars, loopVars
<1> QED
  BY <1>2, <1>3, <1>4, <1>5, <1>6, <1>7, <1>8, <1>9, <1>10, <1>11, <1>12, <1>13, <1>14,
     <1>15, <1>16 DEF Next, Parent

(* Type correctness of supervision, for any children and times.             *)
THEOREM SupervisionTypeCorrect == Spec => []TypeOK
BY TypeInit, TypeStep, PTL DEF Spec

-----------------------------------------------------------------------------
(* A child that ended stays ended for its parent.                           *)

(* What is on the wire after a step was there before, or a child started.   *)
LEMMA StartedStays ==
    ASSUME TypeOK, StartedFirst, WireKept,
           NEW c \in Child, NEW k \in DOMAIN wire'[c], wire'[c][k].type = "started"
    PROVE  /\ k = 1 /\ Fresh(c)
           /\ \A j \in DOMAIN incoming : incoming[j].from # c
<1>1. PICK j \in DOMAIN wire[c] : j >= k /\ wire[c][j].type = "started"
  BY DEF WireKept
<1>2. j = 1 /\ Fresh(c) /\ \A i \in DOMAIN incoming : incoming[i].from # c
  BY <1>1 DEF StartedFirst
<1>3. k \in Nat \ {0}
  BY DEF WireKept
<1> QED BY <1>1, <1>2, <1>3

(* An unborn child stays silent.                                            *)
LEMMA SilentStep ==
    ASSUME TypeOK, UnbornSilent, Next, NEW c \in Child, life'[c] = "unborn"
    PROVE  life[c] = "unborn" /\ wire'[c] = <<>>
<1>1. life[c] = "unborn"
  BY DEF TypeOK, Next, ChildStarts, ChildPulses, ChildExits, ChildCrashes, Deliver, GiveUp,
     OthersSend, Parent, CheckChildren, ReportErrored, ReportExited, BeginReceive,
     ReceiveMessage, ReceiveNothing, Tick, childVars
<1>2. wire[c] = <<>> /\ DOMAIN wire[c] = {}
  BY <1>1 DEF UnbornSilent
<1>3. wire \in [Child -> Seq(InFlight)] /\ life \in [Child -> {"unborn", "running", "ended"}]
  BY DEF TypeOK, InFlight
<1>4. ASSUME NEW d \in Child, ChildStarts(d) PROVE wire'[c] = <<>>
  <2>1. d # c
    BY <1>3, <1>4 DEF ChildStarts
  <2> QED BY <2>1, <1>2, <1>3, <1>4 DEF ChildStarts, Send
<1>5. ASSUME NEW d \in Child, ChildPulses(d) PROVE wire'[c] = <<>>
  BY <1>1, <1>2, <1>3, <1>5 DEF ChildPulses, Send
<1>6. ASSUME NEW d \in Child, ChildExits(d) PROVE wire'[c] = <<>>
  BY <1>1, <1>2, <1>3, <1>6 DEF ChildExits, Send
<1>7. ASSUME NEW d \in Child, ChildCrashes(d) PROVE wire'[c] = <<>>
  BY <1>1, <1>2, <1>3, <1>7 DEF ChildCrashes
<1>8. ASSUME NEW d \in Child, Deliver(d) \/ GiveUp(d) PROVE wire'[c] = <<>>
  <2>1. DOMAIN wire[d] # {}
    BY <1>8 DEF Deliver, GiveUp
  <2>2. d # c
    BY <2>1, <1>2
  <2> QED BY <2>2, <1>2, <1>3, <1>8 DEF Deliver, GiveUp
<1>9. ASSUME OthersSend \/ Parent PROVE wire'[c] = <<>>
  BY <1>2, <1>9 DEF OthersSend, Parent, CheckChildren, ReportErrored, ReportExited,
     BeginReceive, ReceiveMessage, ReceiveNothing, childVars
<1>10. ASSUME Tick PROVE wire'[c] = <<>>
  <2>1. wire'[c] = [i \in DOMAIN wire[c] |-> [wire[c][i] EXCEPT !.age = @ + 1]]
    BY <1>10 DEF Tick
  <2>2. wire'[c] \in [{} -> InFlight]
    BY <2>1, <1>2
  <2> QED BY <2>2
<1> QED BY <1>1, <1>4, <1>5, <1>6, <1>7, <1>8, <1>9, <1>10 DEF Next

(* Only children tell of their start.                                       *)
LEMMA FromChild ==
    ASSUME TypeOK, NEW j \in DOMAIN incoming, incoming[j].type = "started"
    PROVE  incoming[j].from \in Child /\ incoming[j] \in Message
<1>1. incoming[j] \in Message
  BY DEF TypeOK, Message
<1> QED BY <1>1 DEF Message, Other

(* Steps that leave alone what the parent knows and has in its mailbox.     *)
LEMMA KnowledgeKept ==
    ASSUME TypeOK, History, WireKept, incoming' = incoming, buried' = buried,
           \A c \in Child : spawned'[c] = Absent <=> spawned[c] = Absent,
           \A c \in Child : life'[c] = "unborn" => life[c] = "unborn" /\ wire'[c] = <<>>
    PROVE  History'
<1>1. \A c \in Child : Fresh(c)' <=> Fresh(c)
  BY DEF Fresh
<1>2. ASSUME NEW c \in Child, NEW k \in DOMAIN wire'[c], wire'[c][k].type = "started"
      PROVE  k = 1 /\ Fresh(c)' /\ \A j \in DOMAIN incoming' : incoming'[j].from # c
  BY <1>1, <1>2, StartedStays DEF History
<1>3. ASSUME NEW j \in DOMAIN incoming', incoming'[j].type = "started"
      PROVE  Fresh(incoming[j].from)' /\ \A k \in 1..(j - 1) : incoming'[k].from # incoming'[j].from
  BY <1>1, <1>3, FromChild DEF History, StartedFirst
<1>4. StartedFirst'
  BY <1>2, <1>3 DEF StartedFirst
<1>5. UnbornSilent'
  BY <1>1 DEF History, UnbornSilent
<1>6. BuriedForGood'
  BY DEF History, BuriedForGood
<1> QED BY <1>4, <1>5, <1>6 DEF History

(* A message is put at the end of the parent's mailbox: one that is no      *)
(* "started", or a first one of a child the parent knows nothing of.        *)
LEMMA MailKept ==
    ASSUME TypeOK, History, WireKept, NEW m \in Message, incoming' = Append(incoming, m),
           spawned' = spawned, buried' = buried,
           \A c \in Child : life'[c] = "unborn" =>
             life[c] = "unborn" /\ wire'[c] = <<>> /\ c # m.from,
           m.from \in Child =>
             \A k \in DOMAIN wire'[m.from] : wire'[m.from][k].type # "started",
           m.type = "started" =>
             /\ m.from \in Child /\ Fresh(m.from)
             /\ \A j \in DOMAIN incoming : incoming[j].from # m.from
    PROVE  History'
<1>1. /\ incoming \in Seq(Message)
      /\ \A k \in DOMAIN incoming' :
           \/ k \in DOMAIN incoming /\ incoming'[k] = incoming[k]
           \/ k = Len(incoming) + 1 /\ incoming'[k] = m
      /\ \A k \in DOMAIN incoming : k \in 1..Len(incoming)
      /\ DOMAIN incoming = 1..Len(incoming) /\ Len(incoming) \in Nat
  BY MessagesHandled, Appended
<1>2. \A c : Fresh(c)' <=> Fresh(c)
  BY DEF Fresh
<1>3. ASSUME NEW c \in Child, NEW k \in DOMAIN wire'[c], wire'[c][k].type = "started"
      PROVE  k = 1 /\ Fresh(c)' /\ \A j \in DOMAIN incoming' : incoming'[j].from # c
  <2>1. c # m.from
    BY <1>3
  <2>2. k = 1 /\ Fresh(c) /\ \A j \in DOMAIN incoming : incoming[j].from # c
    BY <1>3, StartedStays DEF History
  <2> QED BY <2>1, <2>2, <1>1, <1>2
<1>4. ASSUME NEW j \in DOMAIN incoming', incoming'[j].type = "started"
      PROVE  Fresh(incoming[j].from)' /\ \A k \in 1..(j - 1) : incoming'[k].from # incoming'[j].from
  <2>1. CASE j \in DOMAIN incoming /\ incoming'[j] = incoming[j]
    <3>1. Fresh(incoming[j].from) /\ \A k \in 1..(j - 1) : incoming[k].from # incoming[j].from
      BY <2>1, <1>4 DEF History, StartedFirst
    <3>2. \A k \in 1..(j - 1) : k \in DOMAIN incoming /\ incoming'[k] = incoming[k]
      BY <2>1, <1>1
    <3> QED BY <3>1, <3>2, <2>1 DEF Fresh
  <2>2. CASE j = Len(incoming) + 1 /\ incoming'[j] = m
    <3>1. \A k \in 1..(j - 1) : k \in DOMAIN incoming /\ incoming'[k] = incoming[k]
      BY <2>2, <1>1
    <3> QED BY <3>1, <2>2, <1>4 DEF Fresh
  <2> QED BY <2>1, <2>2, <1>1
<1>5. StartedFirst'
  BY <1>3, <1>4 DEF StartedFirst
<1>6. UnbornSilent'
  BY <1>1, <1>2 DEF History, UnbornSilent
<1>7. BuriedForGood'
  BY DEF History, BuriedForGood
<1> QED BY <1>5, <1>6, <1>7 DEF History

(* The parent handles a message of which it knows the sender, or the first  *)
(* of its mailbox; `rest` is what the mailbox has left.                     *)
LEMMA HandledKept ==
    ASSUME TypeOK, History, NEW m \in Message, HandleMessage(m), wire' = wire, life' = life,
           \/ /\ incoming' = incoming /\ m.type # "started"
              /\ m.from \in Child /\ spawned[m.from] # Absent
           \/ /\ incoming # <<>> /\ m = Head(incoming) /\ incoming' = Tail(incoming)
    PROVE  History'
<1>1. /\ \A c \in Child : c # m.from => (Fresh(c)' <=> Fresh(c))
      /\ \A c \in Child : c # m.from => (spawned'[c] = spawned[c] /\ buried'[c] = buried[c])
  BY HandleEffect DEF Fresh
<1>2. incoming \in Seq(Message) /\ DOMAIN incoming = 1..Len(incoming) /\ Len(incoming) \in Nat
  BY MessagesHandled
(* Every message that is left was there before, after m if m was received.  *)
<1>3. \A j \in DOMAIN incoming' :
        \E i \in DOMAIN incoming :
          /\ i >= j /\ incoming'[j] = incoming[i]
          /\ \A k \in 1..(j - 1) : \E l \in 1..(i - 1) : incoming'[k] = incoming[l]
          /\ incoming' # incoming => i > 1
  <2>1. CASE incoming' = incoming
    <3> TAKE j \in DOMAIN incoming'
    <3>1. j \in DOMAIN incoming
      BY <2>1
    <3>2. j >= j
      BY <3>1, <1>2
    <3> QED BY <3>1, <3>2, <2>1
  <2>2. CASE incoming # <<>> /\ incoming' = Tail(incoming)
    <3> TAKE j \in DOMAIN incoming'
    <3>1. j + 1 \in DOMAIN incoming /\ incoming'[j] = incoming[j + 1] /\ j \in Nat \ {0}
      BY <2>2, TailOf DEF TypeOK, Message
    <3>2. \A k \in 1..(j - 1) : k \in DOMAIN incoming' /\ k + 1 \in 1..j
      BY <2>2, <3>1, TailOf
    <3>3. \A k \in 1..(j - 1) : incoming'[k] = incoming[k + 1]
      BY <2>2, <3>2, TailOf
    <3>4. \A k \in 1..(j - 1) : \E l \in 1..((j + 1) - 1) : incoming'[k] = incoming[l]
      BY <3>1, <3>2, <3>3
    <3>5. j + 1 >= j /\ j + 1 > 1
      BY <3>1
    <3> QED BY <3>1, <3>4, <3>5
  <2> QED BY <2>1, <2>2
<1>4. ASSUME m.from \in Child
      PROVE  /\ \A k \in DOMAIN wire[m.from] : wire[m.from][k].type # "started"
             /\ \A j \in DOMAIN incoming' :
                  incoming'[j].type = "started" => incoming'[j].from # m.from
             /\ life[m.from] # "unborn"
  <2>1. CASE spawned[m.from] # Absent /\ incoming' = incoming
    BY <2>1, <1>4 DEF History, StartedFirst, UnbornSilent, Fresh
  <2>2. CASE incoming # <<>> /\ m = Head(incoming) /\ incoming' = Tail(incoming)
    <3>1. 1 \in DOMAIN incoming /\ incoming[1] = m
      BY <2>2, MessagesHandled
    <3>2. ASSUME NEW j \in DOMAIN incoming', incoming'[j].type = "started"
          PROVE  incoming'[j].from # m.from
      <4>1. j + 1 \in DOMAIN incoming /\ incoming'[j] = incoming[j + 1] /\ j \in Nat \ {0}
        BY <2>2, <3>2, TailOf
      <4>2. 1 \in 1..((j + 1) - 1)
        BY <4>1
      <4> QED BY <3>1, <3>2, <4>1, <4>2 DEF History, StartedFirst
    <3> QED BY <3>1, <3>2, <1>4 DEF History, StartedFirst, UnbornSilent
  <2> QED BY <2>1, <2>2
<1>5. \A c \in Child : \A k \in DOMAIN wire[c] : wire[c][k].type = "started" =>
        k = 1 /\ Fresh(c)' /\ \A j \in DOMAIN incoming' : incoming'[j].from # c
  BY <1>1, <1>3, <1>4 DEF History, StartedFirst
<1>6. ASSUME NEW j \in DOMAIN incoming', incoming'[j].type = "started"
      PROVE  Fresh(incoming[j].from)' /\ \A k \in 1..(j - 1) : incoming'[k].from # incoming'[j].from
  <2>1. PICK i \in DOMAIN incoming :
          /\ incoming'[j] = incoming[i]
          /\ \A k \in 1..(j - 1) : \E l \in 1..(i - 1) : incoming'[k] = incoming[l]
    BY <1>3
  <2>2. incoming[i].from \in Child /\ Fresh(incoming[i].from)
        /\ \A l \in 1..(i - 1) : incoming[l].from # incoming[i].from
    BY <2>1, <1>6, FromChild DEF History, StartedFirst
  <2>3. incoming[i].from # m.from
    BY <2>1, <2>2, <1>4, <1>6
  <2>4. Fresh(incoming[j].from)'
    BY <2>1, <2>2, <2>3, <1>1 DEF Fresh
  <2> QED BY <2>1, <2>2, <2>4
<1>7. StartedFirst'
  BY <1>5, <1>6 DEF StartedFirst
<1>8. UnbornSilent'
  BY <1>1, <1>3, <1>4 DEF History, UnbornSilent
<1>9. BuriedForGood'
  <2> SUFFICES ASSUME NEW c \in Child, buried'[c] > 0 PROVE spawned'[c] = Absent
    BY DEF BuriedForGood
  <2>1. CASE c # m.from
    BY <2>1, <1>1 DEF History, BuriedForGood
  <2>2. CASE c = m.from /\ m.type = "exited"
    BY <2>2, HandleEffect
  <2>3. CASE c = m.from /\ m.type = "started"
    <3>1. incoming # <<>> /\ m = Head(incoming)
      BY <2>3
    <3>2. Fresh(c)
      BY <2>3, <3>1, MessagesHandled DEF History, StartedFirst
    <3> QED BY <2>3, <3>2, HandleEffect DEF Fresh
  <2>4. CASE c = m.from /\ m.type \notin {"exited", "started"}
    <3>1. buried'[c] = buried[c] /\ (spawned'[c] = Absent <=> spawned[c] = Absent)
      BY <2>4, HandleEffect
    <3> QED BY <3>1 DEF History, BuriedForGood
  <2> QED BY <2>1, <2>2, <2>3, <2>4
<1> QED BY <1>7, <1>8, <1>9 DEF History

(* Every step keeps what a child's messages say about the child.            *)
LEMMA HistoryStep == TypeOK /\ History /\ [Next]_vars => History'
<1> SUFFICES ASSUME TypeOK, History, [Next]_vars PROVE History'
  OBVIOUS
<1>1. wire \in [Child -> Seq(InFlight)] /\ life \in [Child -> {"unborn", "running", "ended"}]
  BY DEF TypeOK, InFlight
<1>2. ASSUME NEW c \in Child, ChildStarts(c) PROVE History'
  <2>1. wire[c] = <<>> /\ Fresh(c) /\ \A j \in DOMAIN incoming : incoming[j].from # c
    BY <1>2 DEF ChildStarts, History, UnbornSilent
  <2>3. wire'[c] \in Seq(InFlight) /\ Len(wire'[c]) = 1
        /\ \A d \in Child \ {c} : wire'[d] = wire[d]
    <3>1. <<"started">> \in Seq(LifecycleType) /\ Send(c, <<"started">>)
      BY <1>2 DEF ChildStarts, LifecycleType
    <3>2. Len(wire[c]) = 0 /\ Len(<<"started">>) = 1
      BY <2>1
    <3>3. /\ wire' \in [Child -> Seq(InFlight)]
          /\ \A d \in Child \ {c} : wire'[d] = wire[d]
          /\ Len(wire'[c]) = Len(wire[c]) + Len(<<"started">>)
      BY <3>1, SendEffect
    <3> QED BY <3>2, <3>3
  <2>4. \A k \in DOMAIN wire'[c] : k = 1
    BY <2>3
  <2>5. UNCHANGED <<incoming, spawned, buried>> /\ life' = [life EXCEPT ![c] = "running"]
    BY <1>2 DEF ChildStarts
  <2>6. StartedFirst'
    BY <2>1, <2>3, <2>4, <2>5 DEF History, StartedFirst, Fresh
  <2>7. UnbornSilent'
    BY <2>3, <2>5, <1>1 DEF History, UnbornSilent, Fresh
  <2>8. BuriedForGood'
    BY <2>5 DEF History, BuriedForGood
  <2> QED BY <2>6, <2>7, <2>8 DEF History
<1>3. CASE UNCHANGED vars
  BY <1>3 DEF vars, childVars, History, StartedFirst, UnbornSilent, BuriedForGood, Fresh
<1>4. ASSUME Next, \A c \in Child : ~ChildStarts(c) PROVE History'
  <2>1. WireKept /\ \A c \in Child : life'[c] = "unborn" =>
                       life[c] = "unborn" /\ wire'[c] = <<>>
    BY <1>4, WireStep, SilentStep DEF History
  <2>2. ASSUME NEW c \in Child,
               ChildPulses(c) \/ ChildExits(c) \/ ChildCrashes(c) \/ GiveUp(c)
        PROVE  History'
    BY <2>1, <2>2, KnowledgeKept DEF ChildPulses, ChildExits, ChildCrashes, GiveUp
  <2>3. ASSUME CheckChildren \/ BeginReceive \/ ReceiveNothing PROVE History'
    BY <2>1, <2>3, KnowledgeKept DEF CheckChildren, BeginReceive, ReceiveNothing
  <2>4. ASSUME NEW c \in Child, ReportErrored(c) PROVE History'
    <3>1. spawned' = spawned /\ incoming' = incoming
      BY <2>4, HandleEffect, MessagesHandled DEF ReportErrored
    <3>2. buried' = buried
      BY <2>4 DEF ReportErrored, HandleMessage
    <3> QED BY <2>1, <3>1, <3>2, KnowledgeKept
  <2>5. ASSUME Tick PROVE History'
    <3>1. /\ incoming' = incoming /\ buried' = buried
          /\ spawned' = [c \in Child |-> IF spawned[c] = Absent THEN Absent ELSE Older(spawned[c])]
      BY <2>5 DEF Tick
    <3>2. \A a \in Nat : Older(a) # Absent
      BY Constants DEF Older, Absent
    <3>3. \A c \in Child : spawned'[c] = Absent <=> spawned[c] = Absent
      BY <3>1, <3>2 DEF TypeOK
    <3> QED BY <2>1, <3>1, <3>3, KnowledgeKept
  <2>6. ASSUME OthersSend PROVE History'
    <3>1. /\ Other \in Message /\ Other.from \notin Child /\ Other.type # "started"
          /\ incoming' = Append(incoming, Other) /\ spawned' = spawned /\ buried' = buried
      BY <2>6, Constants DEF OthersSend, Other, Message
    <3> QED BY <2>1, <3>1, MailKept
  <2>7. ASSUME NEW c \in Child, Deliver(c) PROVE History'
    <3>1. PICK i \in DOMAIN wire[c] :
            /\ incoming' = Append(incoming, [type |-> wire[c][i].type, from |-> c])
            /\ wire' = [wire EXCEPT ![c] = SubSeq(@, i + 1, Len(@))]
      BY <2>7 DEF Deliver
    <3>2. UNCHANGED <<life, spawned, buried>>
      BY <2>7 DEF Deliver
    <3> DEFINE m == [type |-> wire[c][i].type, from |-> c]
    <3>3. wire[c] \in Seq(InFlight) /\ wire[c][i] \in InFlight /\ i \in Nat \ {0}
      BY <1>1
    <3>4. m \in Message /\ m.from = c /\ m.type = wire[c][i].type
      BY <3>3 DEF Message, InFlight
    <3>5. \A k \in DOMAIN wire'[c] : wire'[c][k].type # "started"
      <4> SUFFICES ASSUME NEW k \in DOMAIN wire'[c], wire'[c][k].type = "started" PROVE FALSE
        OBVIOUS
      <4>1. wire'[c] = SubSeq(wire[c], i + 1, Len(wire[c]))
        BY <3>1, <1>1
      <4>2. i + k \in DOMAIN wire[c] /\ wire'[c][k] = wire[c][i + k]
        <5>1. wire[c] \in Seq(InFlight)
          BY <3>3
        <5>2. \A l \in DOMAIN SubSeq(wire[c], i + 1, Len(wire[c])) :
                /\ i + l \in DOMAIN wire[c]
                /\ SubSeq(wire[c], i + 1, Len(wire[c]))[l] = wire[c][i + l]
          BY <5>1, DropFirst
        <5> QED BY <4>1, <5>2
      <4>3. wire[c][i + k].type = "started" /\ k \in Nat \ {0}
        BY <4>2, <2>1 DEF WireKept
      <4>4. i + k = 1
        BY <4>2, <4>3 DEF History, StartedFirst
      <4> QED BY <4>3, <4>4, <3>3
    <3>6. life[c] # "unborn"
      BY <3>1 DEF History, UnbornSilent
    <3>7. m.type = "started" => Fresh(c) /\ \A j \in DOMAIN incoming : incoming[j].from # c
      BY <3>4 DEF History, StartedFirst
    <3>8. incoming' = Append(incoming, m)
      BY <3>1
    <3> HIDE DEF m
    <3> QED BY <2>1, <3>2, <3>4, <3>5, <3>6, <3>7, <3>8, MailKept
  <2>8. ASSUME ReportExited PROVE History'
    <3> DEFINE m == [type |-> "exited", from |-> reporting]
    <3>1. /\ HandleMessage(m) /\ m \in Message /\ m.type # "started"
          /\ m.from \in Child /\ spawned[m.from] # Absent
      BY <2>8, MessagesHandled DEF ReportExited, TypeOK
    <3>2. incoming' = incoming /\ wire' = wire /\ life' = life
      BY <2>8 DEF ReportExited, childVars
    <3> HIDE DEF m
    <3> QED BY <3>1, <3>2, HandledKept
  <2>9. ASSUME ReceiveMessage PROVE History'
    <3>1. /\ HandleMessage(Head(incoming)) /\ Head(incoming) \in Message
          /\ incoming # <<>> /\ incoming' = Tail(incoming) /\ wire' = wire /\ life' = life
      BY <2>9, MessagesHandled DEF ReceiveMessage, childVars
    <3> QED BY <3>1, HandledKept
  <2> QED
    BY <1>4, <2>2, <2>3, <2>4, <2>5, <2>6, <2>7, <2>8, <2>9 DEF Next, Parent
<1> QED BY <1>2, <1>3, <1>4

(* A child whose end was handled is not supervised again, whatever is lost  *)
(* or delayed and however long anything takes: its "started" cannot come    *)
(* after its "exited", nor after CheckChildren took it for dead.            *)
THEOREM BuriedForGoodHolds == Spec => []BuriedForGood
<1>1. Init => TypeOK /\ History
  <2>1. Init => History
    BY DEF Init, History, StartedFirst, UnbornSilent, BuriedForGood, Fresh
  <2> QED BY <2>1, TypeInit
<1>2. TypeOK /\ History /\ [Next]_vars => (TypeOK /\ History)'
  BY TypeStep, HistoryStep
<1>3. History => BuriedForGood
  BY DEF History
<1> QED BY <1>1, <1>2, <1>3, PTL DEF Spec

-----------------------------------------------------------------------------
(* The messages of one child: `w` is on the wire, `q` the parent's mailbox. *)
Beat == {"started", "pulsed"}
Follows(s, t) == s \in Beat \/ (s = "errored" /\ t = "exited")
From(q, c) == {j \in DOMAIN q : q[j].from = c}
Beats(q, c) == {j \in From(q, c) : q[j].type \in Beat}
News(q, c) == {j \in From(q, c) : q[j].type \in {"pulsed", "exited"}}

(* They are pulses, and then the last words; one pulse is on the wire and   *)
(* two are in the mailbox at most, together not more than two.              *)
Pipe(w, q, c, l) ==
    /\ \A i, k \in DOMAIN w : i < k => w[k].type \notin Beat /\ Follows(w[i].type, w[k].type)
    /\ \A i \in From(q, c), k \in DOMAIN w : Follows(q[i].type, w[k].type)
    /\ \A i, k \in From(q, c) : i < k => Follows(q[i].type, q[k].type)
    /\ l # "ended" => /\ \A k \in DOMAIN w : w[k].type \in Beat
                      /\ \A k \in From(q, c) : q[k].type \in Beat
    /\ \A k \in DOMAIN w : w[k].type \in Beat => \A i, j \in Beats(q, c) : i = j
    /\ \A i, j, k \in Beats(q, c) : ~(i < j /\ j < k)

-----------------------------------------------------------------------------
(* Products that grow with their first factor.                              *)
LEMMA Multiples ==
    ASSUME NEW a \in Nat
    PROVE  /\ 0 * a = 0
           /\ \A n \in Nat : n * a \in Nat /\ (n + 1) * a = n * a + a
           /\ \A m, n \in Nat : m <= n => m * a <= n * a
<1>1. \A n \in Nat : n * a \in Nat /\ (n + 1) * a = n * a + a
  OBVIOUS
<1>2. ASSUME NEW m \in Nat, NEW n \in Nat, m <= n PROVE m * a <= n * a
  <2>1. n - m \in Nat /\ n = m + (n - m)
    BY <1>2
  <2>2. (m + (n - m)) * a = m * a + (n - m) * a
    BY <2>1
  <2>3. (n - m) * a \in Nat /\ m * a \in Nat
    BY <2>1, <1>1
  <2> QED BY <2>1, <2>2, <2>3
<1> QED BY <1>1, <1>2

(* What the times and counts that are made up of the constants are.         *)
LEMMA Numbers ==
    ASSUME Timing, NEW c \in Child
    PROVE  /\ Children \in Nat /\ Children >= 1
           /\ Reports \in Nat /\ Round \in Nat /\ Gap \in Nat /\ Crowd \in Nat
           /\ Slack \in Nat /\ Limit \in Nat
           /\ Crowd = MaxOther + 4 * Children /\ Crowd >= 4
           /\ Round = MaxBusy + Reports
           /\ Reports = Reporting(2 * (Children - 1))
           /\ Gap = PulseInterval + ReceiveTimeout + MaxBusy + 1
           /\ Slack = Reports + ReceiveTimeout + Gaps(MaxLost + 1) + MaxDelay
           /\ Limit = Slack + MaxDelay + Rounds(Crowd - 2)
           /\ Rounds(Crowd) + MaxDelay < 2 * (PulseInterval + 1)
           /\ Limit <= HeartbeatTimeout /\ MaxDelay <= PulseInterval
<1>1. Children \in Nat /\ Children # 0
  <2>1. IsFiniteSet(Child)
    BY DEF Timing
  <2> QED BY <2>1, FS_CardinalityType, FS_EmptySet DEF Children
<1>2. 2 * (Children - 1) \in Nat
  BY <1>1
<1>3. Reports \in Nat
  BY <1>2, Constants, Multiples DEF Reports, Reporting
<1>4. Round \in Nat /\ Gap \in Nat /\ Crowd \in Nat /\ Crowd >= 4 /\ Crowd - 2 \in Nat
  BY <1>1, <1>3, Constants DEF Round, Gap, Crowd
<1>5. Gaps(MaxLost + 1) \in Nat /\ Rounds(Crowd - 2) \in Nat
  <2>1. MaxLost + 1 \in Nat
    BY Constants
  <2>2. Gaps(MaxLost + 1) \in Nat
    BY <2>1, <1>4, Multiples DEF Gaps
  <2>3. Rounds(Crowd - 2) \in Nat
    BY <1>4, Multiples DEF Rounds
  <2> QED BY <2>2, <2>3
<1>6. Slack \in Nat
  BY <1>3, <1>5, Constants DEF Slack
<1>7. Limit \in Nat
  BY <1>5, <1>6, Constants DEF Limit
<1> QED
  BY <1>1, <1>3, <1>4, <1>6, <1>7 DEF Timing, Reports, Round, Gap, Crowd, Slack, Limit

(* So many iterations of the loop.                                          *)
LEMMA RoundsAre ==
    ASSUME Timing, NEW c \in Child
    PROVE  /\ Rounds(0) = 0
           /\ \A n \in Nat : Rounds(n) \in Nat /\ Rounds(n + 1) = Rounds(n) + Round
           /\ \A m, n \in Nat : m <= n => Rounds(m) <= Rounds(n)
<1>1. Round \in Nat
  BY Numbers
<1> QED BY <1>1, Multiples DEF Rounds

(* So many times between two pulses.                                        *)
LEMMA GapsAre ==
    ASSUME Timing, NEW c \in Child
    PROVE  /\ Gaps(0) = 0
           /\ \A n \in Nat : Gaps(n) \in Nat /\ Gaps(n + 1) = Gaps(n) + Gap
           /\ \A m, n \in Nat : m <= n => Gaps(m) <= Gaps(n)
<1>1. Gap \in Nat
  BY Numbers
<1> QED BY <1>1, Multiples DEF Gaps

(* So many callbacks for children that were lost.                           *)
LEMMA ReportingIs ==
    /\ Reporting(0) = 0
    /\ \A n \in Nat : Reporting(n) \in Nat /\ Reporting(n + 1) = Reporting(n) + MaxBusy
    /\ \A m, n \in Nat : m <= n => Reporting(m) <= Reporting(n)
BY Constants, Multiples DEF Reporting

-----------------------------------------------------------------------------
(* How many messages the parent's mailbox has.                              *)
Others == {i \in DOMAIN incoming : incoming[i] = Other}
OthersFew == Cardinality(Others) <= MaxOther
Pipes == \A c \in Child : Pipe(wire[c], incoming, c, life[c])

Theirs == {j \in DOMAIN incoming : incoming[j].from \in Child}

(* What the mailbox of the parent holds.                                    *)
LEMMA MailIs ==
    ASSUME TypeOK
    PROVE  /\ incoming \in Seq(Message)
           /\ Len(incoming) \in Nat /\ DOMAIN incoming = 1..Len(incoming)
           /\ \A j \in DOMAIN incoming :
                /\ incoming[j] \in Message
                /\ incoming[j] = Other \/ (/\ incoming[j].from \in Child
                                           /\ incoming[j].type \in LifecycleType)
<1>1. incoming \in Seq(Message)
  BY DEF TypeOK, Message
<1> QED BY <1>1 DEF Message

(* Four messages of a child at most, of which each has its slot.            *)
LEMMA SlotsExist ==
    ASSUME TypeOK, Pipes
    PROVE  \E slot \in [Theirs -> 1..4] :
             \A i, j \in Theirs :
               incoming[i].from = incoming[j].from /\ slot[i] = slot[j] => i = j
<1> DEFINE Second(j) == \E i \in Beats(incoming, incoming[j].from) : i < j
           slot == [j \in Theirs |-> IF incoming[j].type = "errored" THEN 3
                                     ELSE IF incoming[j].type = "exited" THEN 4
                                     ELSE IF Second(j) THEN 2 ELSE 1]
<1>1. slot \in [Theirs -> 1..4]
  OBVIOUS
<1>2. \A j \in Theirs : /\ j \in Nat /\ incoming[j].from \in Child
                        /\ incoming[j].type \in LifecycleType
                        /\ j \in From(incoming, incoming[j].from)
  BY MailIs, Constants DEF Theirs, Other, From
<1>3. ASSUME NEW i \in Theirs, NEW j \in Theirs, i < j, incoming[i].from = incoming[j].from
      PROVE  slot[i] # slot[j]
  <2> DEFINE c == incoming[j].from
  <2>1. /\ c \in Child /\ i \in From(incoming, c) /\ j \in From(incoming, c)
        /\ incoming[i].type \in LifecycleType /\ incoming[j].type \in LifecycleType
    BY <1>2, <1>3
  <2>2. /\ Follows(incoming[i].type, incoming[j].type)
        /\ \A a, b, d \in Beats(incoming, c) : ~(a < b /\ b < d)
    BY <2>1, <1>3 DEF Pipes, Pipe
  <2>3. incoming[i].type \in Beat <=> i \in Beats(incoming, c)
    BY <2>1 DEF Beats
  <2>4. incoming[j].type \in Beat <=> j \in Beats(incoming, c)
    BY <2>1 DEF Beats
  <2>5. CASE incoming[j].type \in Beat
    <3>1. i \in Beats(incoming, c) /\ j \in Beats(incoming, c)
      BY <2>2, <2>3, <2>4, <2>5 DEF Follows, Beat
    <3>2. Second(j)
      BY <3>1, <1>3
    <3>3. slot[j] = 2
      BY <3>2, <2>5 DEF Beat
    <3>4. ~Second(i)
      BY <3>1, <2>2, <1>3
    <3>5. slot[i] = 1
      BY <3>4, <2>3, <3>1 DEF Beat
    <3> QED BY <3>3, <3>5
  <2>6. CASE incoming[j].type \notin Beat
    <3>1. slot[j] = IF incoming[j].type = "errored" THEN 3 ELSE 4
      BY <2>1, <2>6 DEF Beat, LifecycleType
    <3>2. slot[i] \in {1, 2} \/ (incoming[i].type = "errored" /\ slot[i] = 3)
      BY <2>2 DEF Follows, Beat
    <3>3. incoming[i].type = "errored" => incoming[j].type = "exited"
      BY <2>2 DEF Follows, Beat
    <3> HIDE DEF slot
    <3> QED BY <3>1, <3>2, <3>3
  <2> QED BY <2>5, <2>6
<1> HIDE DEF slot
<1>4. \A i, j \in Theirs : i = j \/ i < j \/ j < i
  BY <1>2
<1> QED BY <1>1, <1>3, <1>4

(* There are no more messages of children than there are names for them.    *)
LEMMA Counted ==
    ASSUME Timing, TypeOK, OthersFew, NEW T, IsFiniteSet(T), NEW f \in [Theirs -> T],
           \A i, j \in Theirs : f[i] = f[j] => i = j
    PROVE  Len(incoming) <= MaxOther + Cardinality(T)
<1>1. f \in Injection(Theirs, T)
  BY DEF Injection, IsInjective
<1>2. IsFiniteSet(Theirs) /\ Cardinality(Theirs) <= Cardinality(T)
  BY <1>1, FS_Injection
<1>3. Len(incoming) \in Nat /\ DOMAIN incoming = 1..Len(incoming)
  BY MailIs
<1>4. IsFiniteSet(DOMAIN incoming) /\ Cardinality(DOMAIN incoming) = Len(incoming)
  BY <1>3, FS_Interval
<1>5. IsFiniteSet(Others)
  BY <1>4, FS_Subset DEF Others
<1>6. DOMAIN incoming = Theirs \cup Others
  BY MailIs DEF Theirs, Others
<1>7. /\ Cardinality(Theirs \cup Others) =
           Cardinality(Theirs) + Cardinality(Others) - Cardinality(Theirs \cap Others)
      /\ IsFiniteSet(Theirs \cap Others)
  BY <1>2, <1>5, FS_Union, FS_Subset
<1>8. /\ Cardinality(Theirs) \in Nat /\ Cardinality(Others) \in Nat
      /\ Cardinality(Theirs \cap Others) \in Nat /\ Cardinality(T) \in Nat
  BY <1>2, <1>5, <1>7, FS_CardinalityType
<1> QED BY <1>2, <1>4, <1>6, <1>7, <1>8, Constants DEF OthersFew

(* The mailbox is never larger than Crowd, and lacks three where a child has*)
(* one message instead of four.                                             *)
LEMMA CrowdIs ==
    ASSUME Timing, TypeOK, OthersFew, Pipes, NEW c \in Child
    PROVE  /\ Len(incoming) <= Crowd
           /\ (\A i, j \in From(incoming, c) : i = j) => Len(incoming) + 3 <= Crowd
<1>1. PICK slot \in [Theirs -> 1..4] :
        \A i, j \in Theirs :
          incoming[i].from = incoming[j].from /\ slot[i] = slot[j] => i = j
  BY SlotsExist
<1> DEFINE T == Child \X (1..4)
<1>2. IsFiniteSet(T) /\ Cardinality(T) = 4 * Children
  <2>1. IsFiniteSet(1..4) /\ Cardinality(1..4) = 4
    <3>1. 1 \in Int /\ 4 \in Int /\ ~(1 > 4) /\ (4 - 1) + 1 = 4
      OBVIOUS
    <3>2. /\ IsFiniteSet(1..4)
          /\ Cardinality(1..4) = IF 1 > 4 THEN 0 ELSE (4 - 1) + 1
      BY <3>1, FS_Interval
    <3> QED BY <3>1, <3>2
  <2>2. IsFiniteSet(Child) /\ Cardinality(Child) \in Nat
    BY FS_CardinalityType DEF Timing
  <2>3. IsFiniteSet(T) /\ Cardinality(T) = Cardinality(Child) * 4
    BY <2>1, <2>2, FS_Product
  <2> QED BY <2>2, <2>3 DEF Children
<1>3. \A j \in Theirs : incoming[j].from \in Child
  BY DEF Theirs
<1>4. Len(incoming) <= Crowd
  <2> DEFINE f == [j \in Theirs |-> <<incoming[j].from, slot[j]>>]
  <2>1. f \in [Theirs -> T] /\ \A i, j \in Theirs : f[i] = f[j] => i = j
    BY <1>1, <1>3
  <2> HIDE DEF T, f
  <2>2. Len(incoming) <= MaxOther + Cardinality(T)
    BY <2>1, <1>2, Counted
  <2> QED BY <2>2, <1>2 DEF Crowd
<1>5. ASSUME \A i, j \in From(incoming, c) : i = j
      PROVE  Len(incoming) + 3 <= Crowd
  <2> DEFINE f == [j \in Theirs |-> <<incoming[j].from, IF incoming[j].from = c THEN 1 ELSE slot[j]>>]
             U == ((T \ {<<c, 2>>}) \ {<<c, 3>>}) \ {<<c, 4>>}
  <2>1. IsFiniteSet(U) /\ Cardinality(U) = 4 * Children - 3
    <3>1. <<c, 2>> \in T /\ <<c, 3>> \in T \ {<<c, 2>>} /\ <<c, 4>> \in (T \ {<<c, 2>>}) \ {<<c, 3>>}
      OBVIOUS
    <3> HIDE DEF T
    <3>2. IsFiniteSet(T \ {<<c, 2>>}) /\ Cardinality(T \ {<<c, 2>>}) = Cardinality(T) - 1
      BY <3>1, <1>2, FS_RemoveElement
    <3> DEFINE V == T \ {<<c, 2>>}
    <3>6. IsFiniteSet(V) /\ <<c, 3>> \in V
      BY <3>1, <3>2
    <3> HIDE DEF V
    <3>3. IsFiniteSet(V \ {<<c, 3>>}) /\ Cardinality(V \ {<<c, 3>>}) = Cardinality(V) - 1
      BY <3>6, FS_RemoveElement
    <3> DEFINE W == V \ {<<c, 3>>}
    <3>7. IsFiniteSet(W) /\ <<c, 4>> \in W
      BY <3>1, <3>3 DEF V
    <3> HIDE DEF W
    <3>4. IsFiniteSet(W \ {<<c, 4>>}) /\ Cardinality(W \ {<<c, 4>>}) = Cardinality(W) - 1
      BY <3>7, FS_RemoveElement
    <3>5. Cardinality(T) \in Nat
      BY <1>2, FS_CardinalityType
    <3>8. Cardinality(V) = Cardinality(T) - 1 /\ Cardinality(W) = Cardinality(V) - 1
      BY <3>2, <3>3 DEF V, W
    <3>9. U = W \ {<<c, 4>>}
      BY DEF V, W
    <3> HIDE DEF U
    <3> QED BY <3>4, <3>5, <3>8, <3>9, <1>2
  <2>2. f \in [Theirs -> U]
    BY <1>1, <1>3
  <2>3. \A i, j \in Theirs : f[i] = f[j] => i = j
    <3>1. \A j \in Theirs : incoming[j].from = c => j \in From(incoming, c)
      BY DEF Theirs, From
    <3> QED BY <3>1, <1>1, <1>5
  <2> HIDE DEF U, f
  <2>4. Len(incoming) <= MaxOther + Cardinality(U)
    BY <2>1, <2>2, <2>3, Counted
  <2>5. /\ Len(incoming) \in Nat /\ Children \in Nat /\ MaxOther \in Nat
        /\ Crowd = MaxOther + 4 * Children
    BY MailIs, Numbers, Constants
  <2> HIDE DEF T
  <2> QED BY <2>1, <2>4, <2>5
<1> QED BY <1>4, <1>5

-----------------------------------------------------------------------------
(* What a step is for one child: its own, one beside it, which may bring a  *)
(* message of somebody else, one of the parent's loop, or time passes.      *)
Still(c) ==
    life'[c] = life[c] /\ last'[c] = last[c] /\ wire'[c] = wire[c] /\ lost'[c] = lost[c]

Own(c) ==
    \/ ChildStarts(c) \/ ChildPulses(c) \/ ChildExits(c) \/ ChildCrashes(c)
    \/ Deliver(c) \/ GiveUp(c)

Beside(c) ==
    /\ Still(c)
    /\ UNCHANGED <<spawned, loopVars, now, busy, buried>>
    /\ \/ incoming' = incoming
       \/ \E m \in Message : m.from # c /\ incoming' = Append(incoming, m)

Internal ==
    \/ CheckChildren \/ ReportExited \/ BeginReceive \/ ReceiveNothing
    \/ \E c \in Child : ReportErrored(c)

(* Every step is one of these for a child.                                  *)
LEMMA Kinds ==
    ASSUME TypeOK, [Next]_vars, NEW c \in Child
    PROVE  \/ Own(c)
           \/ Beside(c)
           \/ Internal /\ Still(c) /\ incoming' = incoming
           \/ ReceiveMessage /\ Still(c)
           \/ Tick
<1>1. /\ life \in [Child -> {"unborn", "running", "ended"}] /\ last \in [Child -> Nat]
      /\ wire \in [Child -> Seq(InFlight)] /\ lost \in [Child -> 0..MaxLost]
  BY DEF TypeOK, InFlight
<1>2. CASE UNCHANGED vars
  BY <1>2 DEF vars, childVars, loopVars, Beside, Still
<1>3. ASSUME NEW d \in Child, d # c, Own(d) PROVE Beside(c)
  <2>1. CASE ChildStarts(d) \/ ChildPulses(d) \/ ChildExits(d)
    BY <1>1, <1>3, <2>1 DEF ChildStarts, ChildPulses, ChildExits, Send, Beside, Still
  <2>2. CASE ChildCrashes(d) \/ GiveUp(d)
    BY <1>1, <1>3, <2>2 DEF ChildCrashes, GiveUp, Beside, Still
  <2>3. CASE Deliver(d)
    <3>1. PICK i \in DOMAIN wire[d] :
            /\ incoming' = Append(incoming, [type |-> wire[d][i].type, from |-> d])
            /\ wire' = [wire EXCEPT ![d] = SubSeq(@, i + 1, Len(@))]
      BY <2>3 DEF Deliver
    <3>2. wire[d][i] \in InFlight
      BY <1>1
    <3>3. [type |-> wire[d][i].type, from |-> d] \in Message
      BY <3>2 DEF Message, InFlight
    <3>4. Still(c) /\ UNCHANGED <<spawned, loopVars, now, busy, buried>>
      BY <1>1, <1>3, <2>3, <3>1 DEF Deliver, Still
    <3> QED BY <1>3, <3>1, <3>3, <3>4 DEF Beside
  <2> QED BY <1>3, <2>1, <2>2, <2>3 DEF Own
<1>4. CASE OthersSend
  <2>1. Other \in Message /\ Other.from # c
    BY Constants DEF Message, Other
  <2> QED BY <1>4, <2>1 DEF OthersSend, Beside, Still, childVars
<1>5. CASE Internal
  <2>1. UNCHANGED <<childVars, incoming>>
    BY <1>5 DEF Internal, CheckChildren, ReportExited, BeginReceive, ReceiveNothing, ReportErrored
  <2> QED BY <1>5, <2>1 DEF childVars, Still
<1>6. CASE ReceiveMessage
  BY <1>6 DEF ReceiveMessage, childVars, Still
<1> QED BY <1>2, <1>3, <1>4, <1>5, <1>6 DEF Next, Parent, Internal, Own

-----------------------------------------------------------------------------
(* Messages that are left out or moved up keep their order.                 *)
LEMMA PipeSub ==
    ASSUME NEW w, NEW q, NEW c, NEW l, Pipe(w, q, c, l),
           NEW v, NEW p, NEW k, NEW f, NEW g,
           \A i \in DOMAIN v : f[i] \in DOMAIN w /\ v[i].type = w[f[i]].type,
           \A i, j \in DOMAIN v : i < j => f[i] < f[j],
           \A i \in From(p, c) : g[i] \in From(q, c) /\ p[i].type = q[g[i]].type,
           \A i, j \in From(p, c) : (i < j => g[i] < g[j]) /\ (g[i] = g[j] => i = j),
           k # "ended" => l # "ended"
    PROVE  Pipe(v, p, c, k)
<1>1. \A i \in Beats(p, c) : i \in From(p, c) /\ g[i] \in Beats(q, c)
  BY DEF Beats
<1>2. \A i, j \in DOMAIN v : i < j => v[j].type \notin Beat /\ Follows(v[i].type, v[j].type)
  BY DEF Pipe
<1>3. \A i \in From(p, c), j \in DOMAIN v : Follows(p[i].type, v[j].type)
  BY DEF Pipe
<1>4. \A i, j \in From(p, c) : i < j => Follows(p[i].type, p[j].type)
  BY DEF Pipe
<1>5. k # "ended" => /\ \A i \in DOMAIN v : v[i].type \in Beat
                     /\ \A i \in From(p, c) : p[i].type \in Beat
  BY DEF Pipe
<1>6. \A n \in DOMAIN v : v[n].type \in Beat => \A i, j \in Beats(p, c) : i = j
  BY <1>1 DEF Pipe
<1>7. \A i, j, n \in Beats(p, c) : ~(i < j /\ j < n)
  BY <1>1 DEF Pipe
<1> QED BY <1>2, <1>3, <1>4, <1>5, <1>6, <1>7 DEF Pipe

(* The messages of a child in a mailbox that gets one of somebody else.     *)
LEMMA FromOthers ==
    ASSUME NEW q \in Seq(Message), NEW m \in Message, NEW c \in Child, m.from # c
    PROVE  /\ From(Append(q, m), c) = From(q, c)
           /\ \A j \in From(q, c) : Append(q, m)[j] = q[j]
           /\ Beats(Append(q, m), c) = Beats(q, c)
           /\ News(Append(q, m), c) = News(q, c)
<1>1. DOMAIN Append(q, m) = 1..(Len(q) + 1) /\ DOMAIN q = 1..Len(q) /\ Len(q) \in Nat
  OBVIOUS
<1>2. \A j \in 1..Len(q) : Append(q, m)[j] = q[j]
  OBVIOUS
<1>3. Append(q, m)[Len(q) + 1] = m
  OBVIOUS
<1> DEFINE p == Append(q, m)
<1>4. DOMAIN p = 1..(Len(q) + 1) /\ (\A j \in 1..Len(q) : p[j] = q[j]) /\ p[Len(q) + 1] = m
  BY <1>1, <1>2, <1>3
<1> HIDE DEF p
<1>5. From(p, c) = From(q, c) /\ \A j \in From(q, c) : p[j] = q[j]
  BY <1>1, <1>4 DEF From
<1>6. Beats(p, c) = Beats(q, c) /\ News(p, c) = News(q, c)
  BY <1>5 DEF Beats, News
<1> QED BY <1>5, <1>6 DEF p

-----------------------------------------------------------------------------
(* The time until the parent receives again.                                *)
Remaining == 2 * Cardinality(dead) - (IF reporting = Nobody THEN 0 ELSE 1)

Left ==
    busy + (IF pc = "check" THEN Reports
            ELSE IF pc = "lost" THEN Reporting(Remaining) ELSE 0)

Idle == pc = "receive" => busy = 0

(* The messages CheckChildren has still to make up, for a set of children   *)
(* that lacks one.                                                          *)
LEMMA DeadIs ==
    ASSUME Timing, NEW c \in Child, NEW D \in SUBSET Child, c \notin D
    PROVE  /\ Cardinality(D) \in Nat /\ Cardinality(D) <= Children - 1
           /\ D = {} => Cardinality(D) = 0
           /\ \A r \in D : Cardinality(D) >= 1 /\ Cardinality(D \ {r}) = Cardinality(D) - 1
<1>1. IsFiniteSet(Child)
  BY DEF Timing
<1>2. IsFiniteSet(Child \ {c}) /\ Cardinality(Child \ {c}) = Children - 1
  BY <1>1, FS_RemoveElement DEF Children
<1>3. D \in SUBSET (Child \ {c})
  OBVIOUS
<1>4. IsFiniteSet(D) /\ Cardinality(D) <= Children - 1
  BY <1>2, <1>3, FS_Subset
<1>5. Cardinality(D) \in Nat
  BY <1>4, FS_CardinalityType
<1>6. ASSUME NEW r \in D
      PROVE  Cardinality(D) >= 1 /\ Cardinality(D \ {r}) = Cardinality(D) - 1
  <2>1. IsFiniteSet(D \ {r}) /\ Cardinality(D \ {r}) = Cardinality(D) - 1
    BY <1>4, FS_RemoveElement
  <2>2. Cardinality(D \ {r}) \in Nat
    BY <2>1, FS_CardinalityType
  <2> QED BY <2>1, <2>2, <1>5
<1>7. D = {} => Cardinality(D) = 0
  BY FS_EmptySet
<1> QED BY <1>4, <1>5, <1>6, <1>7

(* What CheckChildren has still to make up, when one child is alive.        *)
LEMMA RemainingIs ==
    ASSUME Timing, TypeOK, NEW c \in Child, c \notin dead
    PROVE  Remaining \in Nat /\ Remaining <= 2 * (Children - 1)
           /\ Reporting(Remaining) \in Nat /\ Reporting(Remaining) <= Reports
<1>1. dead \in SUBSET Child /\ reporting \in dead \cup {Nobody}
  BY DEF TypeOK
<1>2. /\ Cardinality(dead) \in Nat /\ Cardinality(dead) <= Children - 1
      /\ reporting # Nobody => Cardinality(dead) >= 1
  BY <1>1, DeadIs
<1>3. Children \in Nat /\ Children >= 1
  BY Numbers
<1>4. Remaining \in Nat /\ Remaining <= 2 * (Children - 1)
  BY <1>2, <1>3 DEF Remaining
<1>5. 2 * (Children - 1) \in Nat
  BY <1>3
<1> QED BY <1>4, <1>5, ReportingIs DEF Reports

(* The parent receives once in a Round.                                     *)
LEMMA LeftIs ==
    ASSUME Timing, TypeOK, Idle, NEW c \in Child, c \notin dead
    PROVE  /\ Left \in Nat /\ Left <= Round
           /\ pc = "receive" => Left = 0
           /\ pc = "check" => Left = busy + Reports
           /\ pc = "lost" => Left = busy + Reporting(Remaining)
<1>1. busy \in 0..MaxBusy /\ pc \in {"check", "lost", "receive"}
  BY DEF TypeOK
<1>2. MaxBusy \in Nat /\ Reports \in Nat /\ Round = MaxBusy + Reports
  BY Constants, Numbers
<1>3. Reporting(Remaining) \in Nat /\ Reporting(Remaining) <= Reports
  BY RemainingIs
<1> QED BY <1>1, <1>2, <1>3 DEF Left, Idle

(* Only the steps of the parent and of time change when it receives.        *)
LEMMA LeftSame ==
    ASSUME NEW c \in Child, Own(c) \/ Beside(c)
    PROVE  Left' = Left
<1>1. UNCHANGED <<pc, dead, reporting, busy>>
  BY DEF Own, Beside, loopVars, ChildStarts, ChildPulses, ChildExits, ChildCrashes,
         Deliver, GiveUp
<1> QED BY <1>1 DEF Left, Remaining

(* The steps of the loop bring the next message nearer.                     *)
LEMMA LeftInternal ==
    ASSUME Timing, TypeOK, Idle, TypeOK', NEW c \in Child, c \notin dead, c \notin dead',
           Internal
    PROVE  Left' \in Nat /\ (ReceiveNothing \/ Left' <= Left)
<1>1. MaxBusy \in Nat /\ Reports \in Nat
  BY Constants, Numbers
<1>2. /\ Reporting(Remaining) \in Nat /\ Remaining \in Nat /\ Reporting(Remaining) <= Reports
      /\ busy \in Nat
  <2>1. busy \in Nat
    BY <1>1 DEF TypeOK
  <2> QED BY <2>1, RemainingIs
<1>3. CASE CheckChildren
  <2>1. /\ pc = "check" /\ busy = 0 /\ busy' = 0 /\ pc' = "lost" /\ reporting' = reporting
        /\ dead' \in SUBSET Child
    BY <1>3 DEF CheckChildren, Overdue
  <2>2. reporting = Nobody
    BY <2>1 DEF TypeOK
  <2>3. Cardinality(dead') \in Nat /\ Cardinality(dead') <= Children - 1
    BY <2>1, DeadIs
  <2>4. Children \in Nat /\ Children >= 1
    BY Numbers
  <2>5. Remaining' = 2 * Cardinality(dead')
    BY <2>1, <2>2, <2>3 DEF Remaining
  <2>6. Remaining' \in Nat /\ Remaining' <= 2 * (Children - 1) /\ 2 * (Children - 1) \in Nat
    BY <2>3, <2>4, <2>5
  <2>7. Reporting(Remaining') \in Nat /\ Reporting(Remaining') <= Reports
    BY <2>6, ReportingIs DEF Reports
  <2>8. Left = Reports
    BY <2>1, <1>1 DEF Left
  <2>9. Left' = Reporting(Remaining')
    BY <2>1, <2>7 DEF Left
  <2> QED BY <2>7, <2>8, <2>9, <1>1
<1>4. ASSUME NEW d \in Child, ReportErrored(d) PROVE Left' \in Nat /\ Left' <= Left
  <2>1. /\ pc = "lost" /\ busy = 0 /\ reporting = Nobody /\ d \in dead /\ reporting' = d
        /\ pc' = "lost" /\ dead' = dead /\ busy' \in 0..MaxBusy
    BY <1>4 DEF ReportErrored, HandleMessage
  <2>2. d # Nobody
    BY Constants
  <2>3. Cardinality(dead) \in Nat /\ Cardinality(dead) >= 1
    BY <2>1, DeadIs DEF TypeOK
  <2>4. Remaining = Remaining' + 1 /\ Remaining' \in Nat
    BY <2>1, <2>2, <2>3 DEF Remaining
  <2>5. Reporting(Remaining) = Reporting(Remaining') + MaxBusy /\ Reporting(Remaining') \in Nat
    BY <2>4, ReportingIs
  <2>6. Left = Reporting(Remaining)
    BY <2>1, <1>2 DEF Left
  <2>7. Left' = busy' + Reporting(Remaining')
    BY <2>1 DEF Left
  <2> QED BY <2>1, <2>5, <2>6, <2>7, <1>1
<1>5. CASE ReportExited
  <2>1. /\ pc = "lost" /\ busy = 0 /\ reporting \in dead /\ reporting # Nobody
        /\ reporting' = Nobody /\ pc' = "lost" /\ dead' = dead \ {reporting}
        /\ busy' \in 0..MaxBusy
    BY <1>5 DEF ReportExited, HandleMessage, TypeOK
  <2>2. /\ Cardinality(dead) \in Nat /\ Cardinality(dead) >= 1
        /\ Cardinality(dead') = Cardinality(dead) - 1
    BY <2>1, DeadIs DEF TypeOK
  <2>3. Remaining = Remaining' + 1 /\ Remaining' \in Nat
    BY <2>1, <2>2 DEF Remaining
  <2>4. Reporting(Remaining) = Reporting(Remaining') + MaxBusy /\ Reporting(Remaining') \in Nat
    BY <2>3, ReportingIs
  <2>5. Left = Reporting(Remaining)
    BY <2>1, <1>2 DEF Left
  <2>6. Left' = busy' + Reporting(Remaining')
    BY <2>1 DEF Left
  <2> QED BY <2>1, <2>4, <2>5, <2>6, <1>1
<1>6. CASE BeginReceive
  <2>1. pc = "lost" /\ busy = 0 /\ pc' = "receive" /\ busy' = 0
    BY <1>6 DEF BeginReceive
  <2>2. Left' = 0 /\ Left = Reporting(Remaining)
    BY <2>1, <1>2 DEF Left
  <2> QED BY <2>2, <1>2
<1>7. CASE ReceiveNothing
  <2>1. pc' = "check" /\ busy' = busy
    BY <1>7 DEF ReceiveNothing
  <2>2. Left' = busy + Reports
    BY <2>1 DEF Left
  <2> QED BY <2>2, <1>1, <1>2, <1>7
<1> QED BY <1>3, <1>4, <1>5, <1>6, <1>7 DEF Internal

(* A message is received when the time is up; the next one a Round later.   *)
LEMMA LeftReceive ==
    ASSUME Timing, TypeOK, Idle, NEW c \in Child, ReceiveMessage
    PROVE  Left = 0 /\ Left' \in Nat /\ Left' <= Round
<1>1. pc = "receive" /\ busy = 0 /\ pc' = "check" /\ busy' \in 0..MaxBusy
  BY DEF ReceiveMessage, HandleMessage, Idle
<1>2. MaxBusy \in Nat /\ Reports \in Nat /\ Round \in Nat /\ Round = MaxBusy + Reports
  BY Constants, Numbers
<1>3. Left' = busy' + Reports
  BY <1>1 DEF Left
<1>4. Left = 0
  BY <1>1 DEF Left
<1>5. \A b \in 0..MaxBusy : b + Reports \in Nat /\ b + Reports <= Round
  BY <1>2
<1>6. busy' + Reports \in Nat /\ busy' + Reports <= Round
  BY <1>1, <1>5
<1> QED BY <1>3, <1>4, <1>6

(* Time passes in a callback, or while the parent waits for a message.      *)
LEMMA LeftTick ==
    ASSUME Timing, TypeOK, Idle, NEW c \in Child, c \notin dead, Tick
    PROVE  /\ busy = 0 => incoming = <<>> /\ pc = "receive" /\ waited' = waited + 1
           /\ busy # 0 => Left > 0 /\ Left' = Left - 1 /\ waited' = waited
<1>1. UNCHANGED <<pc, dead, reporting, incoming>>
  BY DEF Tick
<1>2. /\ busy = 0 => incoming = <<>> /\ pc = "receive" /\ waited' = waited + 1
      /\ busy # 0 => waited' = waited
  BY DEF Tick, TypeOK
<1>3. ASSUME busy # 0 PROVE Left > 0 /\ Left' = Left - 1
  <2>1. busy' = busy - 1 /\ busy \in Nat /\ busy > 0
    BY <1>3, Constants DEF Tick, TypeOK
  <2>2. Remaining' = Remaining
    BY <1>1 DEF Remaining
  <2>3. Reporting(Remaining) \in Nat /\ Reports \in Nat
    BY RemainingIs, Numbers
  <2> QED BY <1>1, <2>1, <2>2, <2>3 DEF Left
<1> QED BY <1>2, <1>3

-----------------------------------------------------------------------------
(* The invariant.                                                           *)

(* A message of a running child is as old as its last pulse: it is the last *)
(* pulse.                                                                   *)
Young(c) ==
    /\ life[c] = "unborn" => last[c] = 0
    /\ life[c] = "running" =>
         last[c] <= Gap /\ \A k \in DOMAIN wire[c] : wire[c][k].age = last[c]

(* The time until message j of the mailbox is received.                     *)
Until(j) == Left + Rounds(j - 1)

(* A pulse in the mailbox is handled before a second one after it is sent.  *)
Followed(c, j) == wire[c] # <<>> \/ \E i \in Beats(incoming, c) : i > j

Spaced(c) ==
    life[c] = "running" =>
      \A j \in Beats(incoming, c) :
        Until(j) + last[c] + (IF Followed(c, j) THEN PulseInterval + 1 ELSE 0)
          <= MaxDelay + Rounds(Crowd)

(* A child that runs, or whose own "exited" will arrive; its end was not    *)
(* handled, and it is not taken for dead.                                   *)
Alive(c) ==
    \/ life[c] # "ended"
    \/ \E k \in DOMAIN wire[c] : wire[c][k].type = "exited"
    \/ \E j \in From(incoming, c) : incoming[j].type = "exited"

Once(c) == buried[c] <= 1 /\ (Alive(c) => buried[c] = 0 /\ c \notin dead)

(* How old the parent's `now` is when it handles a message.                 *)
NowBound(c) ==
    Alive(c) =>
      /\ pc = "lost" => now + Left <= Reports
      /\ pc = "receive" => now <= Reports + waited

(* The heartbeat of such a child is refreshed, or the child forgotten, in   *)
(* time: by what is in the mailbox, else by the pulse or the last words on  *)
(* the wire, or the next pulse.                                             *)
Chances(c) == (MaxLost - lost[c]) + (IF wire[c] = <<>> THEN 1 ELSE 0)
Arrival(c) == Gaps(Chances(c)) + MaxDelay - last[c]

Timely(c) ==
    spawned[c] # Absent /\ Alive(c) =>
      IF News(incoming, c) # {}
      THEN \E j \in News(incoming, c) : spawned[c] + Until(j) <= Limit
      ELSE /\ life[c] = "running" => spawned[c] + Arrival(c) <= Slack
           /\ \A k \in DOMAIN wire[c] :
                wire[c][k].type = "exited" => spawned[c] <= Slack + wire[c][k].age

ChildInv(c) ==
    /\ Pipe(wire[c], incoming, c, life[c])
    /\ Young(c) /\ Spaced(c) /\ Once(c) /\ NowBound(c) /\ Timely(c)

Heartbeats ==
    TypeOK /\ History /\ Idle /\ OthersFew /\ \A c \in Child : ChildInv(c)

-----------------------------------------------------------------------------
(* The types of what belongs to one child.                                  *)
LEMMA TypesOf ==
    ASSUME TypeOK, NEW c \in Child
    PROVE  /\ life[c] \in {"unborn", "running", "ended"} /\ last[c] \in Nat
           /\ wire[c] \in Seq(InFlight) /\ Len(wire[c]) \in Nat
           /\ DOMAIN wire[c] = 1..Len(wire[c])
           /\ \A k \in DOMAIN wire[c] :
                /\ k \in Nat \ {0}
                /\ wire[c][k].type \in LifecycleType
                /\ wire[c][k].age \in Nat /\ wire[c][k].age <= MaxDelay
           /\ lost[c] \in Nat /\ lost[c] <= MaxLost
           /\ spawned[c] = Absent \/ spawned[c] \in Nat
           /\ buried[c] \in Nat
<1>1. wire[c] \in Seq(InFlight)
  BY DEF TypeOK, InFlight
<1>2. Len(wire[c]) \in Nat /\ DOMAIN wire[c] = 1..Len(wire[c])
  BY <1>1
<1>3. ASSUME NEW k \in DOMAIN wire[c]
      PROVE  /\ k \in Nat \ {0} /\ wire[c][k].type \in LifecycleType
             /\ wire[c][k].age \in Nat /\ wire[c][k].age <= MaxDelay
  <2>1. wire[c][k] \in InFlight
    BY <1>1
  <2> QED BY <2>1, <1>2, Constants DEF InFlight
<1>4. lost[c] \in 0..MaxLost
  BY DEF TypeOK
<1> QED BY <1>1, <1>2, <1>3, <1>4, Constants DEF TypeOK

(* The messages of a child in the mailbox.                                  *)
LEMMA FromIs ==
    ASSUME TypeOK, NEW c \in Child
    PROVE  \A j \in From(incoming, c) : /\ j \in Nat \ {0} /\ j <= Len(incoming)
                                        /\ j \in DOMAIN incoming
                                        /\ incoming[j].type \in LifecycleType
                                        /\ incoming[j].from = c
BY MailIs, Constants DEF From, Other

(* A child sends its pulse when the one before has left its mailbox, and    *)
(* all but one of those before that have left the parent's.                 *)
LEMMA PulseAlone ==
    ASSUME Timing, Heartbeats, NEW c \in Child, ChildPulses(c)
    PROVE  wire[c] = <<>> /\ \A i, j \in Beats(incoming, c) : i = j
<1>1. life[c] = "running" /\ last[c] > PulseInterval
  BY DEF ChildPulses
<1>2. Young(c) /\ Spaced(c) /\ c \notin dead
  BY <1>1 DEF Heartbeats, ChildInv, Once, Alive
<1>3. /\ MaxDelay <= PulseInterval /\ PulseInterval \in Nat /\ MaxDelay \in Nat
      /\ Rounds(Crowd) + MaxDelay < 2 * (PulseInterval + 1)
      /\ Crowd \in Nat
  BY Numbers, Constants
<1>4. wire[c] = <<>>
  <2> SUFFICES ASSUME wire[c] # <<>> PROVE FALSE
    OBVIOUS
  <2>1. 1 \in DOMAIN wire[c]
    BY TypesOf DEF Heartbeats
  <2>2. wire[c][1].age = last[c] /\ wire[c][1].age <= MaxDelay /\ last[c] \in Nat
    BY <1>1, <1>2, <2>1, TypesOf DEF Young, Heartbeats
  <2> QED BY <2>2, <1>1, <1>3
<1>5. ASSUME NEW i \in Beats(incoming, c), NEW j \in Beats(incoming, c), i < j
      PROVE  FALSE
  <2>1. Followed(c, i)
    BY <1>5, FromIs DEF Followed, Heartbeats, Beats
  <2>2. Until(i) + last[c] + (PulseInterval + 1) <= MaxDelay + Rounds(Crowd)
    BY <1>1, <1>2, <1>5, <2>1 DEF Spaced
  <2>3. i - 1 \in Nat
    BY FromIs DEF Heartbeats, Beats
  <2>4. Left \in Nat /\ Rounds(i - 1) \in Nat /\ Rounds(Crowd) \in Nat
    BY <2>3, <1>2, <1>3, LeftIs, RoundsAre DEF Heartbeats
  <2>5. last[c] \in Nat
    BY TypesOf DEF Heartbeats
  <2> QED BY <2>2, <2>4, <2>5, <1>1, <1>3 DEF Until
<1>6. \A i, j \in Beats(incoming, c) : i \in Nat /\ j \in Nat
  BY FromIs DEF Heartbeats, Beats
<1> QED BY <1>4, <1>5, <1>6

(* A first message on an empty wire.                                        *)
LEMMA PipeBeat ==
    ASSUME NEW w, NEW q, NEW c, NEW l, Pipe(w, q, c, l), l # "ended",
           NEW v, DOMAIN v = {1}, v[1].type \in Beat, NEW k,
           \A i, j \in Beats(q, c) : i = j
    PROVE  Pipe(v, q, c, k)
<1>1. \A i \in From(q, c) : q[i].type \in Beat
  BY DEF Pipe
<1>2. \A i, j \in DOMAIN v : ~(i < j)
  OBVIOUS
<1>3. \A i \in From(q, c), j \in DOMAIN v : Follows(q[i].type, v[j].type)
  BY <1>1 DEF Follows
<1> QED BY <1>1, <1>2, <1>3 DEF Pipe

(* The last words.                                                          *)
LEMMA PipeEnd ==
    ASSUME NEW w \in Seq(InFlight), NEW q, NEW c, NEW l, Pipe(w, q, c, l), l # "ended",
           NEW types \in {<<"exited">>, <<"errored", "exited">>},
           NEW v, DOMAIN v = 1..(Len(w) + Len(types)),
           \A i \in DOMAIN v : v[i].type = IF i <= Len(w) THEN w[i].type
                                                          ELSE types[i - Len(w)]
    PROVE  Pipe(v, q, c, "ended")
<1>1. /\ \A i \in DOMAIN w : w[i].type \in Beat
      /\ \A i \in From(q, c) : q[i].type \in Beat
      /\ \A i, j \in DOMAIN w : ~(i < j)
  BY DEF Pipe
<1>2. Len(w) \in Nat /\ DOMAIN w = 1..Len(w)
  OBVIOUS
<1>3. /\ Len(types) \in {1, 2} /\ DOMAIN types = 1..Len(types)
      /\ \A i \in 1..Len(types) : types[i] \in {"errored", "exited"}
      /\ \A i, j \in 1..Len(types) : i < j => types[i] = "errored" /\ types[j] = "exited"
  <2>1. CASE types = <<"exited">> BY <2>1
  <2>2. CASE types = <<"errored", "exited">> BY <2>2
  <2> QED BY <2>1, <2>2
<1>4. ASSUME NEW i \in DOMAIN v
      PROVE  IF i <= Len(w) THEN i \in DOMAIN w /\ v[i].type = w[i].type
             ELSE i - Len(w) \in 1..Len(types) /\ v[i].type = types[i - Len(w)]
  BY <1>2, <1>3
<1>5. ASSUME NEW i \in DOMAIN v, NEW j \in DOMAIN v, i < j
      PROVE  v[j].type \notin Beat /\ Follows(v[i].type, v[j].type)
  <2>1. ~(j <= Len(w))
    BY <1>1, <1>2, <1>5
  <2>2. v[j].type \notin Beat
    BY <2>1, <1>3, <1>4 DEF Beat
  <2>3. CASE i <= Len(w)
    BY <2>2, <2>3, <1>1, <1>4 DEF Follows
  <2>4. CASE ~(i <= Len(w))
    <3>1. i - Len(w) < j - Len(w)
      BY <1>2, <1>5
    <3> QED BY <2>1, <2>2, <2>4, <3>1, <1>3, <1>4 DEF Follows
  <2> QED BY <2>2, <2>3, <2>4
<1>6. \A i \in From(q, c), j \in DOMAIN v : Follows(q[i].type, v[j].type)
  BY <1>1 DEF Follows
<1>7. ASSUME NEW k \in DOMAIN v, v[k].type \in Beat
      PROVE  \A i, j \in Beats(q, c) : i = j
  <2>1. k \in DOMAIN w
    BY <1>3, <1>4, <1>7 DEF Beat
  <2> QED BY <2>1, <1>1 DEF Pipe
<1> QED BY <1>5, <1>6, <1>7 DEF Pipe

(* A message reaches the mailbox, and what it overtook is dropped.          *)
LEMMA PipeDeliver ==
    ASSUME NEW w \in Seq(InFlight), NEW q \in Seq(Message), NEW c \in Child, NEW l,
           Pipe(w, q, c, l), NEW i \in DOMAIN w, NEW p,
           p = Append(q, [type |-> w[i].type, from |-> c])
    PROVE  Pipe(SubSeq(w, i + 1, Len(w)), p, c, l)
<1> DEFINE v == SubSeq(w, i + 1, Len(w))
           n == Len(q) + 1
<1>1. \A k \in DOMAIN v : i + k \in DOMAIN w /\ v[k] = w[i + k] /\ i < i + k /\ k \in Nat
  <2>1. \A k \in DOMAIN v : i + k \in DOMAIN w /\ v[k] = w[i + k]
    BY DropFirst
  <2>2. DOMAIN w = 1..Len(w) /\ Len(w) \in Nat
    OBVIOUS
  <2>3. v \in Seq(InFlight)
    BY DropFirst
  <2>4. \A k \in DOMAIN v : k \in Nat \ {0}
    BY <2>3
  <2> HIDE DEF v
  <2> QED BY <2>1, <2>2, <2>4
<1>2. i \in Nat /\ Len(q) \in Nat /\ DOMAIN q = 1..Len(q)
  OBVIOUS
<1>3. /\ DOMAIN p = 1..n
      /\ \A k \in 1..Len(q) : p[k] = q[k]
      /\ p[n].type = w[i].type /\ p[n].from = c
  <2> DEFINE m == [type |-> w[i].type, from |-> c]
  <2>1. m.type = w[i].type /\ m.from = c /\ p = Append(q, m)
    OBVIOUS
  <2> HIDE DEF m
  <2>2. DOMAIN p = 1..(Len(q) + 1) /\ (\A k \in 1..Len(q) : p[k] = q[k]) /\ p[Len(q) + 1] = m
    BY <2>1
  <2> QED BY <2>1, <2>2
<1> HIDE DEF v, n
<1>4. n \in From(p, c) /\ \A k \in From(p, c) : k = n \/ (k \in From(q, c) /\ p[k] = q[k] /\ k < n)
  <2>1. n = Len(q) + 1
    BY DEF n
  <2>2. \A k \in 1..n : k = n \/ (k \in 1..Len(q) /\ k < n)
    BY <2>1, <1>2
  <2>3. n \in 1..n
    BY <2>1, <1>2
  <2> QED BY <2>2, <2>3, <1>2, <1>3 DEF From
<1>5. \A j, k \in DOMAIN v : j < k => v[k].type \notin Beat /\ Follows(v[j].type, v[k].type)
  <2>1. \A j, k \in DOMAIN v : j < k => i + j < i + k
    BY <1>1, <1>2
  <2> QED BY <2>1, <1>1 DEF Pipe
<1>6. \A k \in DOMAIN v : v[k].type \notin Beat /\ Follows(w[i].type, v[k].type)
  BY <1>1 DEF Pipe
<1>7. \A j \in From(p, c), k \in DOMAIN v : Follows(p[j].type, v[k].type)
  BY <1>1, <1>3, <1>4, <1>6 DEF Pipe
<1>8. \A j, k \in From(p, c) : j < k => Follows(p[j].type, p[k].type)
  <2>1. \A j \in From(q, c) : Follows(q[j].type, w[i].type)
    BY DEF Pipe
  <2>2. \A j, k \in From(q, c) : j < k => Follows(q[j].type, q[k].type)
    BY DEF Pipe
  <2>3. ASSUME NEW j \in From(p, c), NEW k \in From(p, c), j < k
        PROVE  Follows(p[j].type, p[k].type)
    <3>1. j # n
      <4>1. k \in Nat /\ k <= n /\ n \in Nat
        BY <1>2, <1>3, <1>4 DEF From, n
      <4> QED BY <4>1, <2>3
    <3> QED BY <3>1, <2>1, <2>2, <2>3, <1>3, <1>4
  <2> QED BY <2>3
<1>9. l # "ended" => /\ \A k \in DOMAIN v : v[k].type \in Beat
                     /\ \A k \in From(p, c) : p[k].type \in Beat
  <2>1. /\ \A k \in DOMAIN v : v[k].type \in {w[h].type : h \in DOMAIN w}
        /\ \A k \in From(p, c) : p[k].type = w[i].type \/ p[k].type \in {q[h].type : h \in From(q, c)}
    BY <1>1, <1>3, <1>4
  <2>2. l # "ended" => /\ \A k \in DOMAIN w : w[k].type \in Beat
                       /\ \A k \in From(q, c) : q[k].type \in Beat
    BY DEF Pipe
  <2> QED BY <2>1, <2>2
<1>10. \A j, k, h \in Beats(p, c) : ~(j < k /\ k < h)
  <2> SUFFICES ASSUME NEW j \in Beats(p, c), NEW k \in Beats(p, c), NEW h \in Beats(p, c),
                      j < k, k < h
               PROVE  FALSE
    OBVIOUS
  <2>1. \A x \in Beats(p, c) : x \in Nat /\ x <= n /\ (x < n => x \in Beats(q, c)) /\ (x = n => w[i].type \in Beat)
    BY <1>2, <1>3, <1>4 DEF Beats, From, n
  <2>2. n \in Nat /\ j \in Nat /\ k \in Nat /\ h \in Nat /\ h <= n
    BY <2>1, <1>2 DEF n
  <2>3. j < n /\ k < n /\ ~(k < j)
    BY <2>2
  <2>4. j \in Beats(q, c) /\ k \in Beats(q, c)
    BY <2>1, <2>3
  <2>5. CASE h = n
    <3>1. \A a, b \in Beats(q, c) : a = b
      BY <2>1, <2>5 DEF Pipe
    <3>2. j = k
      BY <2>4, <3>1
    <3> QED BY <2>2, <3>2
  <2>6. CASE h # n
    <3>1. h \in Beats(q, c)
      BY <2>1, <2>2, <2>6
    <3> QED BY <2>4, <3>1 DEF Pipe
  <2> QED BY <2>5, <2>6
<1> QED BY <1>5, <1>6, <1>7, <1>8, <1>9, <1>10 DEF Pipe, v

(* Nothing but the ages changes, or messages leave the end of the wire.     *)
LEMMA PipeSame ==
    ASSUME NEW w, NEW q, NEW c, NEW l, Pipe(w, q, c, l), NEW v, NEW p, NEW k,
           \A i \in DOMAIN v : i \in DOMAIN w /\ v[i].type = w[i].type,
           \A i \in From(p, c) : i \in From(q, c) /\ p[i].type = q[i].type,
           k # "ended" => l # "ended"
    PROVE  Pipe(v, p, c, k)
<1>1. \A i \in Beats(p, c) : i \in Beats(q, c)
  BY DEF Beats
<1> QED BY <1>1 DEF Pipe

(* A step beside a child leaves its messages in their places.               *)
LEMMA BesideKeeps ==
    ASSUME Heartbeats, NEW c \in Child, Beside(c)
    PROVE  /\ From(incoming', c) = From(incoming, c)
           /\ \A j \in From(incoming, c) : incoming'[j] = incoming[j]
           /\ Beats(incoming', c) = Beats(incoming, c)
           /\ News(incoming', c) = News(incoming, c)
<1>1. CASE incoming' = incoming
  BY <1>1
<1>2. ASSUME NEW m \in Message, m.from # c, incoming' = Append(incoming, m)
      PROVE  /\ From(incoming', c) = From(incoming, c)
             /\ \A j \in From(incoming, c) : incoming'[j] = incoming[j]
             /\ Beats(incoming', c) = Beats(incoming, c)
             /\ News(incoming', c) = News(incoming, c)
  <2>1. incoming \in Seq(Message)
    BY MailIs DEF Heartbeats
  <2> QED BY <1>2, <2>1, FromOthers
<1> QED BY <1>1, <1>2 DEF Beside

(* Taking the first message out of the mailbox.                             *)
LEMMA ReceiveShifts ==
    ASSUME Heartbeats, NEW c \in Child, ReceiveMessage
    PROVE  /\ incoming # <<>> /\ 1 \in DOMAIN incoming /\ Head(incoming) = incoming[1]
           /\ HandleMessage(incoming[1]) /\ incoming[1] \in Message
           /\ \A j \in DOMAIN incoming' : j \in Nat \ {0} /\ j + 1 \in DOMAIN incoming
                                          /\ incoming'[j] = incoming[j + 1]
           /\ \A j \in DOMAIN incoming : j = 1 \/ j - 1 \in DOMAIN incoming'
           /\ \A j \in From(incoming', c) : j + 1 \in From(incoming, c)
           /\ \A j \in From(incoming, c) : j = 1 \/ j - 1 \in From(incoming', c)
<1>1. TypeOK /\ incoming # <<>> /\ incoming' = Tail(incoming) /\ HandleMessage(Head(incoming))
  BY DEF ReceiveMessage, Heartbeats
<1>2. /\ 1 \in DOMAIN incoming /\ Head(incoming) = incoming[1] /\ incoming[1] \in Message
      /\ incoming \in Seq(Message)
  BY <1>1, MessagesHandled
<1>3. \A j \in DOMAIN incoming' : j \in Nat \ {0} /\ j + 1 \in DOMAIN incoming
                                  /\ incoming'[j] = incoming[j + 1]
  BY <1>1, TailOf
<1>4. \A j \in DOMAIN incoming : j = 1 \/ j - 1 \in DOMAIN incoming'
  <2> DEFINE q == incoming
  <2>1. q \in Seq(Message) /\ q # <<>>
    BY <1>1, <1>2
  <2> HIDE DEF q
  <2>2. \A j \in DOMAIN q : j = 1 \/ j - 1 \in DOMAIN Tail(q)
    BY <2>1
  <2> QED BY <1>1, <2>2 DEF q
<1>5. \A j \in From(incoming', c) : j + 1 \in From(incoming, c)
  BY <1>3 DEF From
<1>6. ASSUME NEW j \in From(incoming, c), j # 1 PROVE j - 1 \in From(incoming', c)
  <2>1. j - 1 \in DOMAIN incoming' /\ incoming[j].from = c
    BY <1>4, <1>6 DEF From
  <2>2. incoming'[j - 1] = incoming[(j - 1) + 1]
    BY <1>3, <2>1
  <2>3. (j - 1) + 1 = j
    BY <1>6, FromIs, <1>1
  <2> QED BY <2>1, <2>2, <2>3 DEF From
<1> QED BY <1>1, <1>2, <1>3, <1>4, <1>5, <1>6

(* A message of the wire is given up.                                       *)
LEMMA PipeGiveUp ==
    ASSUME NEW w \in Seq(InFlight), NEW q, NEW c, NEW l, Pipe(w, q, c, l), NEW i \in DOMAIN w
    PROVE  Pipe(RemoveAt(w, i), q, c, l)
<1> DEFINE v == RemoveAt(w, i)
<1>1. /\ DOMAIN v = 1..(Len(w) - 1)
      /\ \A k \in 1..(Len(w) - 1) : v[k] = IF k < i THEN w[k] ELSE w[k + 1]
  BY RemoveOne
<1> HIDE DEF v
<1> DEFINE f == [k \in DOMAIN v |-> IF k < i THEN k ELSE k + 1]
           g == [k \in From(q, c) |-> k]
<1>2. Len(w) \in Nat /\ DOMAIN w = 1..Len(w) /\ i \in 1..Len(w)
  OBVIOUS
<1>3. \A k \in DOMAIN v : f[k] \in DOMAIN w /\ v[k].type = w[f[k]].type
  BY <1>1, <1>2
<1>4. \A j, k \in DOMAIN v : j < k => f[j] < f[k]
  BY <1>1, <1>2
<1>5. \A k \in From(q, c) : g[k] \in From(q, c) /\ q[k].type = q[g[k]].type
  OBVIOUS
<1>6. \A j, k \in From(q, c) : (j < k => g[j] < g[k]) /\ (g[j] = g[k] => j = k)
  OBVIOUS
<1> HIDE DEF f, g
<1>7. Pipe(v, q, c, l)
  BY <1>3, <1>4, <1>5, <1>6, PipeSub
<1> QED BY <1>7 DEF v

(* The first message of the mailbox is received.                            *)
LEMMA PipeReceive ==
    ASSUME NEW w, NEW q, NEW c, NEW l, Pipe(w, q, c, l), NEW p,
           \A k \in From(p, c) : k \in Nat /\ k + 1 \in From(q, c) /\ p[k] = q[k + 1]
    PROVE  Pipe(w, p, c, l)
<1> DEFINE f == [k \in DOMAIN w |-> k]
           g == [k \in From(p, c) |-> k + 1]
<1>1. \A k \in DOMAIN w : f[k] \in DOMAIN w /\ w[k].type = w[f[k]].type
  OBVIOUS
<1>2. \A j, k \in DOMAIN w : j < k => f[j] < f[k]
  OBVIOUS
<1>3. \A k \in From(p, c) : g[k] \in From(q, c) /\ p[k].type = q[g[k]].type
  OBVIOUS
<1>4. \A j, k \in From(p, c) : (j < k => g[j] < g[k]) /\ (g[j] = g[k] => j = k)
  OBVIOUS
<1> HIDE DEF f, g
<1> QED BY <1>1, <1>2, <1>3, <1>4, PipeSub

(* A sequence of one message.                                               *)
LEMMA OneOnly ==
    ASSUME NEW v \in Seq(InFlight), NEW n, Len(v) = n + 1, n = 0
    PROVE  DOMAIN v = {1} /\ 1 \in DOMAIN v
OBVIOUS

(* The messages of a child stay in order, in every step.                    *)
LEMMA PipeNext ==
    ASSUME Timing, Heartbeats, [Next]_vars, NEW c \in Child
    PROVE  Pipe(wire'[c], incoming', c, life'[c])
<1>1. Pipe(wire[c], incoming, c, life[c]) /\ TypeOK /\ History
  BY DEF Heartbeats, ChildInv
<1>2. wire \in [Child -> Seq(InFlight)] /\ wire[c] \in Seq(InFlight)
      /\ life \in [Child -> {"unborn", "running", "ended"}]
  BY <1>1 DEF TypeOK, InFlight
<1>3. ASSUME NEW types \in Seq(LifecycleType), Send(c, types)
      PROVE  /\ Len(wire'[c]) = Len(wire[c]) + Len(types)
             /\ DOMAIN wire'[c] = 1..Len(wire'[c])
             /\ \A i \in DOMAIN wire'[c] :
                  wire'[c][i].type = IF i <= Len(wire[c]) THEN wire[c][i].type
                                                          ELSE types[i - Len(wire[c])]
             /\ wire'[c] \in Seq(InFlight)
  <2>1. /\ wire' \in [Child -> Seq(InFlight)]
        /\ Len(wire'[c]) = Len(wire[c]) + Len(types)
        /\ \A i \in 1..Len(wire'[c]) :
             wire'[c][i].type = IF i <= Len(wire[c]) THEN wire[c][i].type
                                                     ELSE types[i - Len(wire[c])]
    BY <1>1, <1>3, SendEffect
  <2>2. wire'[c] \in Seq(InFlight)
    BY <2>1
  <2>3. DOMAIN wire'[c] = 1..Len(wire'[c])
    BY <2>2
  <2> QED BY <2>1, <2>2, <2>3
<1>4. CASE ChildStarts(c)
  <2>1. /\ life[c] = "unborn" /\ wire[c] = <<>> /\ From(incoming, c) = {}
        /\ incoming' = incoming
    BY <1>1, <1>4 DEF ChildStarts, History, UnbornSilent, From
  <2>2. <<"started">> \in Seq(LifecycleType) /\ Send(c, <<"started">>)
    BY <1>4 DEF ChildStarts, LifecycleType
  <2>3. /\ Len(wire[c]) = 0 /\ Len(<<"started">>) = 1 /\ <<"started">>[1] = "started"
        /\ ~(1 <= Len(wire[c])) /\ 1 - Len(wire[c]) = 1
    BY <2>1
  <2>4. DOMAIN wire'[c] = {1} /\ wire'[c][1].type \in Beat
    <3>1. Len(wire'[c]) = Len(wire[c]) + 1 /\ wire'[c] \in Seq(InFlight)
      BY <1>3, <2>2, <2>3
    <3>2. DOMAIN wire'[c] = {1} /\ 1 \in DOMAIN wire'[c]
      BY <3>1, <2>3, OneOnly
    <3>3. wire'[c][1].type = <<"started">>[1]
      BY <1>3, <2>2, <2>3, <3>2
    <3> QED BY <2>3, <3>2, <3>3 DEF Beat
  <2>5. \A i, j \in Beats(incoming, c) : i = j
    BY <2>1 DEF Beats
  <2> QED BY <1>1, <2>1, <2>4, <2>5, PipeBeat
<1>5. CASE ChildPulses(c)
  <2>1. wire[c] = <<>> /\ \A i, j \in Beats(incoming, c) : i = j
    BY <1>5, PulseAlone
  <2>2. /\ <<"pulsed">> \in Seq(LifecycleType) /\ Send(c, <<"pulsed">>)
        /\ life[c] = "running" /\ life' = life /\ incoming' = incoming
    BY <1>5 DEF ChildPulses, LifecycleType
  <2>3. /\ Len(wire[c]) = 0 /\ Len(<<"pulsed">>) = 1 /\ <<"pulsed">>[1] = "pulsed"
        /\ ~(1 <= Len(wire[c])) /\ 1 - Len(wire[c]) = 1
    BY <2>1
  <2>4. DOMAIN wire'[c] = {1} /\ wire'[c][1].type \in Beat
    <3>1. Len(wire'[c]) = Len(wire[c]) + 1 /\ wire'[c] \in Seq(InFlight)
      BY <1>3, <2>2, <2>3
    <3>2. DOMAIN wire'[c] = {1} /\ 1 \in DOMAIN wire'[c]
      BY <3>1, <2>3, OneOnly
    <3>3. wire'[c][1].type = <<"pulsed">>[1]
      BY <1>3, <2>2, <2>3, <3>2
    <3> QED BY <2>3, <3>2, <3>3 DEF Beat
  <2> QED BY <1>1, <2>1, <2>2, <2>4, PipeBeat
<1>6. CASE ChildExits(c)
  <2>1. PICK types \in {<<"exited">>, <<"errored", "exited">>} : Send(c, types)
    BY <1>6 DEF ChildExits
  <2>2. types \in Seq(LifecycleType) /\ Len(types) \in Nat
    <3>1. <<"exited">> \in Seq(LifecycleType) /\ <<"errored", "exited">> \in Seq(LifecycleType)
      BY DEF LifecycleType
    <3> QED BY <2>1, <3>1
  <2>3. life[c] = "running" /\ life'[c] = "ended" /\ incoming' = incoming
    BY <1>2, <1>6 DEF ChildExits
  <2>4. /\ DOMAIN wire'[c] = 1..(Len(wire[c]) + Len(types))
        /\ \A i \in DOMAIN wire'[c] :
             wire'[c][i].type = IF i <= Len(wire[c]) THEN wire[c][i].type
                                                     ELSE types[i - Len(wire[c])]
    BY <1>3, <2>1, <2>2
  <2>5. Pipe(wire'[c], incoming, c, "ended")
    BY <1>1, <1>2, <2>3, <2>4, PipeEnd
  <2> QED BY <2>3, <2>5
<1>7. CASE ChildCrashes(c)
  <2>1. life[c] = "running" /\ life'[c] = "ended" /\ incoming' = incoming
        /\ (wire'[c] = wire[c] \/ wire'[c] = <<>>)
    BY <1>2, <1>7 DEF ChildCrashes
  <2>2. \A i \in DOMAIN wire'[c] : i \in DOMAIN wire[c] /\ wire'[c][i].type = wire[c][i].type
    BY <2>1
  <2> QED BY <1>1, <2>1, <2>2, PipeSame
<1>8. CASE Deliver(c)
  <2>1. PICK i \in DOMAIN wire[c] :
          /\ incoming' = Append(incoming, [type |-> wire[c][i].type, from |-> c])
          /\ wire' = [wire EXCEPT ![c] = SubSeq(@, i + 1, Len(@))]
    BY <1>8 DEF Deliver
  <2>2. wire'[c] = SubSeq(wire[c], i + 1, Len(wire[c])) /\ life' = life
    BY <1>2, <1>8, <2>1 DEF Deliver
  <2>3. incoming \in Seq(Message)
    BY <1>1, MailIs
  <2>4. Pipe(SubSeq(wire[c], i + 1, Len(wire[c])), incoming', c, life[c])
    BY <1>1, <1>2, <2>1, <2>3, PipeDeliver
  <2> QED BY <2>2, <2>4
<1>9. CASE GiveUp(c)
  <2>1. PICK i \in DOMAIN wire[c] : wire' = [wire EXCEPT ![c] = RemoveAt(@, i)]
    BY <1>9 DEF GiveUp
  <2>2. wire'[c] = RemoveAt(wire[c], i) /\ life' = life /\ incoming' = incoming
    BY <1>2, <1>9, <2>1 DEF GiveUp
  <2>3. Pipe(RemoveAt(wire[c], i), incoming, c, life[c])
    BY <1>1, <1>2, PipeGiveUp
  <2> QED BY <2>2, <2>3
<1>10. CASE Beside(c)
  <2>1. wire'[c] = wire[c] /\ life'[c] = life[c]
    BY <1>10 DEF Beside, Still
  <2> QED BY <1>1, <1>10, <2>1, BesideKeeps, PipeSame
<1>11. CASE Still(c) /\ incoming' = incoming
  <2>1. wire'[c] = wire[c] /\ life'[c] = life[c]
    BY <1>11 DEF Still
  <2> QED BY <1>1, <1>11, <2>1
<1>12. CASE ReceiveMessage /\ Still(c)
  <2>1. wire'[c] = wire[c] /\ life'[c] = life[c]
    BY <1>12 DEF Still
  <2>2. \A k \in From(incoming', c) : /\ k \in Nat /\ k + 1 \in From(incoming, c)
                                      /\ incoming'[k] = incoming[k + 1]
    BY <1>12, ReceiveShifts DEF From
  <2>3. Pipe(wire[c], incoming', c, life[c])
    BY <1>1, <2>2, PipeReceive
  <2> QED BY <2>1, <2>3
<1>13. CASE Tick
  <2>1. /\ life' = life /\ incoming' = incoming
        /\ wire' = [d \in Child |-> [i \in DOMAIN wire[d] |-> [wire[d][i] EXCEPT !.age = @ + 1]]]
    BY <1>13 DEF Tick
  <2>2. wire'[c] = [i \in DOMAIN wire[c] |-> [wire[c][i] EXCEPT !.age = @ + 1]]
    BY <2>1
  <2>3. \A i \in DOMAIN wire'[c] : i \in DOMAIN wire[c] /\ wire'[c][i].type = wire[c][i].type
    <3> TAKE i \in DOMAIN wire'[c]
    <3>1. i \in DOMAIN wire[c] /\ wire[c][i] \in InFlight
      BY <1>2, <2>2
    <3>2. wire'[c][i] = [wire[c][i] EXCEPT !.age = @ + 1]
      BY <2>2, <3>1
    <3> QED BY <3>1, <3>2 DEF InFlight
  <2>4. Pipe(wire'[c], incoming, c, life[c])
    BY <1>1, <2>3, PipeSame
  <2> QED BY <2>1, <2>4
<1> QED
  BY <1>1, <1>4, <1>5, <1>6, <1>7, <1>8, <1>9, <1>10, <1>11, <1>12, <1>13, Kinds DEF Own

-----------------------------------------------------------------------------
(* The loop receives while no callback runs.                                *)
LEMMA IdleNext ==
    ASSUME TypeOK, Idle, [Next]_vars
    PROVE  Idle'
BY DEF Idle, TypeOK, Next, Parent, vars, loopVars, ChildStarts, ChildPulses, ChildExits,
       ChildCrashes, Deliver, GiveUp, OthersSend, CheckChildren, ReportErrored, ReportExited,
       BeginReceive, ReceiveMessage, ReceiveNothing, Tick

(* What each kind of step does to the messages of others.                   *)
LEMMA OthersFewNext ==
    ASSUME TypeOK, OthersFew, [Next]_vars
    PROVE  OthersFew'
<1>1. /\ incoming \in Seq(Message) /\ Len(incoming) \in Nat
      /\ DOMAIN incoming = 1..Len(incoming)
  BY MailIs
<1>2. IsFiniteSet(Others) /\ Cardinality(Others) \in Nat
  <2>1. IsFiniteSet(DOMAIN incoming)
    BY <1>1, FS_Interval
  <2>2. IsFiniteSet(Others)
    BY <2>1, FS_Subset DEF Others
  <2> QED BY <2>2, FS_CardinalityType
<1>3. CASE incoming' = incoming
  BY <1>3 DEF OthersFew, Others
<1>4. ASSUME NEW m \in Message, incoming' = Append(incoming, m)
      PROVE  /\ m # Other => Others' = Others
             /\ m = Other => Others' = Others \cup {Len(incoming) + 1}
             /\ Len(incoming) + 1 \notin Others
  <2>1. /\ DOMAIN incoming' = 1..(Len(incoming) + 1)
        /\ \A k \in 1..Len(incoming) : incoming'[k] = incoming[k]
        /\ incoming'[Len(incoming) + 1] = m
    BY <1>1, <1>4
  <2>2. 1..(Len(incoming) + 1) = (1..Len(incoming)) \cup {Len(incoming) + 1}
    BY <1>1
  <2>3. Len(incoming) + 1 \notin 1..Len(incoming)
    BY <1>1
  <2>4. Others \subseteq 1..Len(incoming)
    BY <1>1 DEF Others
  <2>5. Others' = {k \in 1..(Len(incoming) + 1) : incoming'[k] = Other}
    BY <2>1 DEF Others
  <2>6. Others = {k \in 1..Len(incoming) : incoming[k] = Other}
    BY <1>1 DEF Others
  <2> QED BY <2>1, <2>2, <2>3, <2>4, <2>5, <2>6
<1>5. CASE OthersSend
  <2>1. Other \in Message /\ incoming' = Append(incoming, Other)
    BY <1>5 DEF OthersSend, Message
  <2>2. Others' = Others \cup {Len(incoming) + 1} /\ Len(incoming) + 1 \notin Others
    BY <2>1, <1>4
  <2>3. Cardinality(Others') = Cardinality(Others) + 1
    BY <1>2, <2>2, FS_AddElement
  <2>4. Cardinality(Others) < MaxOther
    BY <1>5 DEF OthersSend, Others
  <2> QED BY <1>2, <2>3, <2>4, Constants DEF OthersFew
<1>6. ASSUME NEW c \in Child, Deliver(c) PROVE OthersFew'
  <2>1. PICK i \in DOMAIN wire[c] :
          incoming' = Append(incoming, [type |-> wire[c][i].type, from |-> c])
    BY <1>6 DEF Deliver
  <2> DEFINE m == [type |-> wire[c][i].type, from |-> c]
  <2>2. m \in Message /\ m # Other
    <3>1. wire[c][i].type \in LifecycleType
      BY TypesOf
    <3>2. m.from = c /\ Other.from = Nobody /\ m \in [type : LifecycleType, from : Child]
      BY <3>1 DEF Other
    <3> HIDE DEF m
    <3> QED BY <3>2, Constants DEF Message
  <2>3. incoming' = Append(incoming, m)
    BY <2>1
  <2> HIDE DEF m
  <2>4. Others' = Others
    BY <2>2, <2>3, <1>4
  <2> QED BY <2>4 DEF OthersFew
<1>7. CASE ReceiveMessage
  <2>1. incoming # <<>> /\ incoming' = Tail(incoming)
    BY <1>7 DEF ReceiveMessage
  <2>2. \A k \in DOMAIN incoming' : /\ k \in Nat /\ k + 1 \in DOMAIN incoming
                                    /\ incoming'[k] = incoming[k + 1]
    BY <2>1, TailOf
  <2> DEFINE f == [k \in Others' |-> k + 1]
  <2>3. \A k \in Others' : k \in Nat /\ k + 1 \in Others
    BY <2>2 DEF Others
  <2>4. f \in [Others' -> Others]
    BY <2>3
  <2>5. \A j, k \in Others' : f[j] = f[k] => j = k
    BY <2>3
  <2> HIDE DEF f
  <2>6. f \in Injection(Others', Others)
    BY <2>4, <2>5 DEF Injection, IsInjective
  <2>7. IsFiniteSet(Others') /\ Cardinality(Others') <= Cardinality(Others)
    BY <1>2, <2>6, FS_Injection
  <2>8. Cardinality(Others') \in Nat
    BY <2>7, FS_CardinalityType
  <2> QED BY <1>2, <2>7, <2>8, Constants DEF OthersFew
<1>8. CASE ~OthersSend /\ ~ReceiveMessage /\ \A c \in Child : ~Deliver(c)
  <2>1. incoming' = incoming
    BY <1>8 DEF Next, Parent, vars, ChildStarts, ChildPulses, ChildExits, ChildCrashes,
       GiveUp, CheckChildren, ReportErrored, ReportExited, BeginReceive, ReceiveNothing, Tick
  <2> QED BY <2>1, <1>3
<1> QED BY <1>5, <1>6, <1>7, <1>8

(* The first message on an empty wire.                                      *)
LEMMA SendAlone ==
    ASSUME TypeOK, NEW c \in Child, NEW t, Send(c, <<t>>), wire[c] = <<>>
    PROVE  wire'[c] = <<[type |-> t, age |-> 0]>>
<1> DEFINE m == [type |-> t, age |-> 0]
           new == [i \in DOMAIN <<t>> |-> [type |-> <<t>>[i], age |-> 0]]
<1>1. new = <<m>>
  OBVIOUS
<1>2. wire'[c] = wire[c] \o new
  BY DEF Send, TypeOK
<1> HIDE DEF new, m
<1>3. <<>> \o <<m>> = <<m>>
  OBVIOUS
<1> QED BY <1>1, <1>2, <1>3 DEF m

(* Time passes for one child.                                               *)
LEMMA TickIs ==
    ASSUME TypeOK, Tick, NEW c \in Child
    PROVE  /\ life'[c] = life[c] /\ lost'[c] = lost[c] /\ incoming' = incoming
           /\ UNCHANGED <<pc, dead, reporting, buried>>
           /\ life[c] = "running" => last[c] < Gap /\ last'[c] = last[c] + 1
           /\ life[c] # "running" => last'[c] = last[c]
           /\ DOMAIN wire'[c] = DOMAIN wire[c]
           /\ wire'[c] = <<>> <=> wire[c] = <<>>
           /\ \A k \in DOMAIN wire[c] :
                /\ wire'[c][k].type = wire[c][k].type
                /\ wire'[c][k].age = wire[c][k].age + 1
           /\ spawned'[c] = Absent <=> spawned[c] = Absent
           /\ spawned[c] # Absent =>
                spawned'[c] \in Nat /\ spawned[c] \in Nat /\ spawned'[c] <= spawned[c] + 1
           /\ now' \in Nat /\ now \in Nat /\ now' <= now + 1
<1>1. life' = life /\ lost' = lost /\ incoming' = incoming
      /\ UNCHANGED <<pc, dead, reporting, buried>>
  BY DEF Tick
<1>2. life[c] = "running" => last[c] < Gap /\ last'[c] = last[c] + 1
  <2>1. last[c] \in Nat
    BY TypesOf
  <2>2. life[c] = "running" => ~(last[c] > PulseInterval + ReceiveTimeout + MaxBusy)
    BY DEF Tick, PulseIsLate
  <2>3. last'[c] = IF life[c] = "running" THEN last[c] + 1 ELSE last[c]
    BY DEF Tick
  <2> QED BY <2>1, <2>2, <2>3, Constants DEF Gap
<1>3. life[c] # "running" => last'[c] = last[c]
  BY DEF Tick
<1>4. wire'[c] = [i \in DOMAIN wire[c] |-> [wire[c][i] EXCEPT !.age = @ + 1]]
  BY DEF Tick
<1>5. DOMAIN wire'[c] = DOMAIN wire[c]
  BY <1>4
<1>6. ASSUME NEW k \in DOMAIN wire[c]
      PROVE  wire'[c][k].type = wire[c][k].type /\ wire'[c][k].age = wire[c][k].age + 1
  <2>1. wire[c][k] \in InFlight
    BY TypesOf
  <2>2. wire'[c][k] = [wire[c][k] EXCEPT !.age = @ + 1]
    BY <1>4
  <2> QED BY <2>1, <2>2 DEF InFlight
<1>7. wire'[c] = <<>> <=> wire[c] = <<>>
  <2>1. wire[c] = <<>> <=> DOMAIN wire[c] = {}
    BY TypesOf
  <2>2. wire'[c] = <<>> => DOMAIN wire'[c] = {}
    OBVIOUS
  <2>3. wire[c] = <<>> => wire'[c] \in [{} -> InFlight]
    BY <1>4, <2>1
  <2>4. \A f \in [{} -> InFlight] : f = <<>>
    OBVIOUS
  <2> QED BY <1>5, <2>1, <2>2, <2>3, <2>4
<1>8. \A a \in Nat : Older(a) \in Nat /\ Older(a) <= a + 1
  BY DEF Older
<1>9. now' = Older(now) /\ now \in Nat
  BY DEF Tick, TypeOK
<1>10. now' \in Nat /\ now' <= now + 1
  BY <1>8, <1>9
<1>11. spawned'[c] = IF spawned[c] = Absent THEN Absent ELSE Older(spawned[c])
  BY DEF Tick
<1>12. spawned[c] # Absent => spawned[c] \in Nat
  BY TypesOf
<1>13. Absent \notin Nat
  BY DEF Absent
<1>14. spawned[c] # Absent => Older(spawned[c]) \in Nat /\ Older(spawned[c]) <= spawned[c] + 1
  BY <1>8, <1>12
<1>15. /\ spawned'[c] = Absent <=> spawned[c] = Absent
       /\ spawned[c] # Absent =>
            spawned'[c] \in Nat /\ spawned[c] \in Nat /\ spawned'[c] <= spawned[c] + 1
  BY <1>11, <1>12, <1>13, <1>14
<1> QED BY <1>1, <1>2, <1>3, <1>5, <1>6, <1>7, <1>9, <1>10, <1>15

(* What is left on the wire when a message was delivered or given up.       *)
LEMMA WireSub ==
    ASSUME TypeOK, NEW c \in Child, Deliver(c) \/ GiveUp(c)
    PROVE  /\ \A k \in DOMAIN wire'[c] : \E i \in DOMAIN wire[c] : wire'[c][k] = wire[c][i]
           /\ wire[c] # <<>>
           /\ UNCHANGED <<life, last, spawned, pc, dead, reporting, waited, now, busy, buried>>
<1>1. wire[c] \in Seq(InFlight) /\ wire \in [Child -> Seq(InFlight)]
  BY TypesOf DEF TypeOK, InFlight
<1>2. CASE Deliver(c)
  <2>1. PICK i \in DOMAIN wire[c] :
          wire' = [wire EXCEPT ![c] = SubSeq(@, i + 1, Len(@))]
    BY <1>2 DEF Deliver
  <2>2. wire'[c] = SubSeq(wire[c], i + 1, Len(wire[c]))
    BY <1>1, <2>1
  <2>3. \A k \in DOMAIN wire'[c] : i + k \in DOMAIN wire[c] /\ wire'[c][k] = wire[c][i + k]
    BY <1>1, <2>2, DropFirst
  <2>4. wire[c] # <<>>
    BY <2>1
  <2> QED BY <2>3, <2>4, <1>2 DEF Deliver, loopVars
<1>3. CASE GiveUp(c)
  <2>1. PICK i \in DOMAIN wire[c] : wire' = [wire EXCEPT ![c] = RemoveAt(@, i)]
    BY <1>3 DEF GiveUp
  <2>2. wire'[c] = RemoveAt(wire[c], i)
    BY <1>1, <2>1
  <2>3. \A k \in DOMAIN wire'[c] : \E j \in DOMAIN wire[c] : j >= k /\ wire'[c][k] = wire[c][j]
    BY <1>1, <2>2, RemoveOne
  <2>4. wire[c] # <<>>
    BY <2>1
  <2> QED BY <2>3, <2>4, <1>3 DEF GiveUp, loopVars
<1> QED BY <1>2, <1>3

(* What is on the wire of a running child stays as old as its last pulse.   *)
LEMMA YoungNext ==
    ASSUME Timing, Heartbeats, [Next]_vars, NEW c \in Child
    PROVE  Young(c)'
<1>1. TypeOK /\ Young(c)
  BY DEF Heartbeats, ChildInv
<1>2. Gap \in Nat /\ 0 <= Gap /\ life \in [Child -> {"unborn", "running", "ended"}]
      /\ last \in [Child -> Nat] /\ last[c] \in Nat
  <2>1. Gap \in Nat /\ 0 <= Gap
    BY Numbers
  <2> QED BY <1>1, <2>1 DEF TypeOK
<1>3. ASSUME NEW t, wire'[c] = <<[type |-> t, age |-> 0]>>
      PROVE  \A k \in DOMAIN wire'[c] : wire'[c][k].age = 0
  BY <1>3
<1>4. CASE ChildStarts(c)
  <2>1. life[c] = "unborn" /\ wire[c] = <<>> /\ last[c] = 0 /\ last'[c] = 0
    BY <1>1, <1>4 DEF ChildStarts, Heartbeats, History, UnbornSilent, Young
  <2>2. wire'[c] = <<[type |-> "started", age |-> 0]>> /\ life'[c] = "running"
    BY <1>1, <1>2, <1>4, <2>1, SendAlone DEF ChildStarts
  <2> QED BY <1>2, <1>3, <2>1, <2>2 DEF Young
<1>5. CASE ChildPulses(c)
  <2>1. wire[c] = <<>>
    BY <1>5, PulseAlone
  <2>2. /\ wire'[c] = <<[type |-> "pulsed", age |-> 0]>>
        /\ life'[c] = "running" /\ last'[c] = 0
    BY <1>1, <1>2, <1>5, <2>1, SendAlone DEF ChildPulses
  <2> QED BY <1>2, <1>3, <2>2 DEF Young
<1>6. CASE ChildExits(c) \/ ChildCrashes(c)
  <2>1. life'[c] = "ended"
    BY <1>2, <1>6 DEF ChildExits, ChildCrashes
  <2> QED BY <2>1 DEF Young
<1>7. CASE Deliver(c) \/ GiveUp(c)
  <2>1. /\ \A k \in DOMAIN wire'[c] : \E i \in DOMAIN wire[c] : wire'[c][k] = wire[c][i]
        /\ UNCHANGED <<life, last>>
    BY <1>1, <1>7, WireSub
  <2> QED BY <1>1, <2>1 DEF Young
<1>8. CASE Still(c)
  BY <1>1, <1>8 DEF Still, Young
<1>9. CASE Tick
  BY <1>1, <1>2, <1>9, TickIs DEF Young
<1> QED BY <1>1, <1>4, <1>5, <1>6, <1>7, <1>8, <1>9, Kinds DEF Own, Beside

-----------------------------------------------------------------------------
(* Once a child has ended and nothing tells of its end any more, nothing    *)
(* will.                                                                    *)
LEMMA AliveNext ==
    ASSUME TypeOK, Idle, [Next]_vars, NEW c \in Child, Alive(c)'
    PROVE  Alive(c)
<1> SUFFICES ASSUME ~Alive(c) PROVE FALSE
  OBVIOUS
<1>1. /\ life[c] = "ended"
      /\ \A k \in DOMAIN wire[c] : wire[c][k].type # "exited"
      /\ \A j \in From(incoming, c) : incoming[j].type # "exited"
  BY DEF Alive
<1>2. wire[c] \in Seq(InFlight) /\ wire \in [Child -> Seq(InFlight)] /\ incoming \in Seq(Message)
  BY TypesOf, MailIs DEF TypeOK, InFlight
<1>3. ASSUME Still(c), \A j \in From(incoming', c) : incoming'[j].type # "exited" PROVE FALSE
  BY <1>1, <1>3 DEF Alive, Still
<1>4. CASE ChildStarts(c) \/ ChildPulses(c) \/ ChildExits(c) \/ ChildCrashes(c)
  BY <1>1, <1>4 DEF ChildStarts, ChildPulses, ChildExits, ChildCrashes
<1>5. CASE Deliver(c) \/ GiveUp(c)
  <2>1. /\ \A k \in DOMAIN wire'[c] : wire'[c][k].type # "exited"
        /\ life'[c] = "ended"
    BY <1>1, <1>5, WireSub
  <2>2. \A j \in From(incoming', c) : incoming'[j].type # "exited"
    <3>1. CASE GiveUp(c)
      BY <1>1, <3>1 DEF GiveUp
    <3>2. CASE Deliver(c)
      <4>1. PICK i \in DOMAIN wire[c] :
              incoming' = Append(incoming, [type |-> wire[c][i].type, from |-> c])
        BY <3>2 DEF Deliver
      <4> DEFINE m == [type |-> wire[c][i].type, from |-> c]
      <4>2. m.type # "exited" /\ incoming' = Append(incoming, m)
        BY <1>1, <4>1
      <4> HIDE DEF m
      <4>3. \A j \in DOMAIN incoming' :
              incoming'[j] = m \/ (j \in DOMAIN incoming /\ incoming'[j] = incoming[j])
        BY <1>2, <4>2
      <4> QED BY <1>1, <4>2, <4>3 DEF From
    <3> QED BY <1>5, <3>1, <3>2
  <2> QED BY <2>1, <2>2 DEF Alive
<1>6. CASE Beside(c)
  <2>1. CASE incoming' = incoming
    BY <1>1, <1>3, <1>6, <2>1 DEF Beside
  <2>2. ASSUME NEW m \in Message, m.from # c, incoming' = Append(incoming, m) PROVE FALSE
    <3>1. /\ From(incoming', c) = From(incoming, c)
          /\ \A j \in From(incoming, c) : incoming'[j] = incoming[j]
      BY <1>2, <2>2, FromOthers
    <3> QED BY <1>1, <1>3, <1>6, <3>1 DEF Beside
  <2> QED BY <1>6, <2>1, <2>2 DEF Beside
<1>7. CASE Still(c) /\ incoming' = incoming
  BY <1>1, <1>3, <1>7
<1>8. CASE ReceiveMessage /\ Still(c)
  <2>1. incoming # <<>> /\ incoming' = Tail(incoming)
    BY <1>8 DEF ReceiveMessage
  <2>2. \A k \in DOMAIN incoming' : k + 1 \in DOMAIN incoming /\ incoming'[k] = incoming[k + 1]
    BY <2>1, TailOf
  <2> QED BY <1>1, <1>3, <1>8, <2>2 DEF From
<1>9. CASE Tick
  BY <1>1, <1>9, TickIs DEF Alive, From
<1> QED BY <1>4, <1>5, <1>6, <1>7, <1>8, <1>9, Kinds DEF Own

(* There is always some time left until a pulse arrives.                    *)
LEMMA ArrivalIs ==
    ASSUME Timing, Heartbeats, NEW c \in Child
    PROVE  /\ Chances(c) \in Nat /\ Chances(c) <= MaxLost + 1
           /\ wire[c] = <<>> => Chances(c) = (MaxLost - lost[c]) + 1
           /\ wire[c] # <<>> => Chances(c) = MaxLost - lost[c]
           /\ Gaps(Chances(c)) \in Nat /\ Arrival(c) \in Int
           /\ life[c] = "running" => Arrival(c) >= 0
<1>1. lost[c] \in Nat /\ lost[c] <= MaxLost /\ MaxLost \in Nat /\ MaxDelay \in Nat
      /\ last[c] \in Nat
  BY TypesOf, Constants DEF Heartbeats
<1>2. Chances(c) \in Nat /\ Chances(c) <= MaxLost + 1
      /\ (wire[c] = <<>> => Chances(c) = (MaxLost - lost[c]) + 1 /\ Chances(c) >= 1)
      /\ (wire[c] # <<>> => Chances(c) = MaxLost - lost[c])
  BY <1>1 DEF Chances
<1>3. Gaps(Chances(c)) \in Nat /\ Arrival(c) \in Int
  <2>1. \A n \in Nat : Gaps(n) \in Nat
    BY GapsAre
  <2>2. Gaps(Chances(c)) \in Nat
    BY <1>2, <2>1
  <2> QED BY <1>1, <2>2 DEF Arrival
<1>4. ASSUME life[c] = "running" PROVE Arrival(c) >= 0
  <2>1. last[c] <= Gap /\ \A k \in DOMAIN wire[c] : wire[c][k].age = last[c]
    BY <1>4 DEF Heartbeats, ChildInv, Young
  <2>2. CASE wire[c] = <<>>
    <3>1. Gaps(0) = 0 /\ Gaps(0 + 1) = Gaps(0) + Gap /\ Gaps(0 + 1) <= Gaps(Chances(c))
      BY <1>2, <2>2, GapsAre
    <3>2. Gap <= Gaps(Chances(c)) /\ Gap \in Nat
      BY <3>1, Numbers
    <3> QED BY <1>1, <1>3, <2>1, <3>2 DEF Arrival
  <2>3. CASE wire[c] # <<>>
    <3>1. 1 \in DOMAIN wire[c]
      BY <2>3, TypesOf DEF Heartbeats
    <3>2. last[c] <= MaxDelay
      BY <2>1, <3>1, TypesOf DEF Heartbeats
    <3> QED BY <1>1, <1>3, <3>2 DEF Arrival
  <2> QED BY <2>2, <2>3
<1> QED BY <1>2, <1>3, <1>4

(* A child that is alive and sent nothing the parent has still to handle is *)
(* not in danger.                                                           *)
LEMMA Soon ==
    ASSUME Timing, Heartbeats, NEW c \in Child, Alive(c), spawned[c] # Absent,
           News(incoming, c) = {}
    PROVE  spawned[c] <= Slack + MaxDelay
<1>1. TypeOK /\ Timely(c) /\ History
  BY DEF Heartbeats, ChildInv
<1>2. Slack \in Nat /\ MaxDelay \in Nat
  BY Numbers, Constants
<1>3. spawned[c] \in Nat /\ life[c] # "unborn"
  BY <1>1, TypesOf DEF History, UnbornSilent, Fresh
<1>4. CASE life[c] = "running"
  <2>1. spawned[c] + Arrival(c) <= Slack /\ Arrival(c) \in Int /\ Arrival(c) >= 0
    BY <1>1, <1>4, ArrivalIs DEF Timely
  <2> QED BY <1>2, <1>3, <2>1
<1>5. CASE life[c] = "ended"
  <2>1. ~\E j \in From(incoming, c) : incoming[j].type = "exited"
    BY DEF News
  <2>2. PICK k \in DOMAIN wire[c] : wire[c][k].type = "exited"
    BY <1>5, <2>1 DEF Alive
  <2>3. spawned[c] <= Slack + wire[c][k].age
    BY <1>1, <2>2 DEF Timely
  <2>4. wire[c][k].age \in Nat /\ wire[c][k].age <= MaxDelay
    BY <1>1, TypesOf
  <2> QED BY <1>2, <1>3, <2>3, <2>4
<1> QED BY <1>1, <1>3, <1>4, <1>5, TypesOf

(* The heartbeat of a child that is alive is not overdue.                   *)
LEMMA NotOverdue ==
    ASSUME Timing, Heartbeats, NEW c \in Child, Alive(c)
    PROVE  ~(spawned[c] > HeartbeatTimeout)
<1>1. TypeOK /\ Idle /\ Timely(c) /\ c \notin dead /\ History
  BY DEF Heartbeats, ChildInv, Once
<1>2. HeartbeatTimeout \in Nat /\ Limit \in Nat /\ Limit <= HeartbeatTimeout
      /\ Slack \in Nat /\ MaxDelay \in Nat /\ Crowd - 2 \in Nat
      /\ Limit = Slack + MaxDelay + Rounds(Crowd - 2)
  BY Numbers, Constants
<1>3. Rounds(Crowd - 2) \in Nat
  BY <1>2, RoundsAre
<1>4. CASE spawned[c] = Absent
  BY <1>2, <1>4 DEF Absent
<1>5. CASE spawned[c] # Absent
  <2>1. spawned[c] \in Nat /\ life[c] # "unborn"
    BY <1>1, <1>5, TypesOf DEF History, UnbornSilent, Fresh
  <2>2. CASE News(incoming, c) # {}
    <3>1. PICK j \in News(incoming, c) : spawned[c] + Until(j) <= Limit
      BY <1>1, <1>5, <2>2 DEF Timely
    <3>2. j - 1 \in Nat
      BY <1>1, FromIs DEF News
    <3>3. Left \in Nat /\ Rounds(j - 1) \in Nat
      BY <1>1, <3>2, LeftIs, RoundsAre
    <3> QED BY <1>2, <2>1, <3>1, <3>3 DEF Until
  <2>3. CASE News(incoming, c) = {}
    BY <1>2, <1>3, <1>5, <2>1, <2>3, Soon
  <2> QED BY <2>2, <2>3
<1> QED BY <1>4, <1>5

(* A child that is alive is not taken for dead.                             *)
LEMMA DeadNext ==
    ASSUME Timing, Heartbeats, [Next]_vars, NEW c \in Child, Alive(c)
    PROVE  c \notin dead'
<1>1. c \notin dead
  BY DEF Heartbeats, ChildInv, Once
<1>2. CASE CheckChildren
  BY <1>2, NotOverdue DEF CheckChildren, Overdue
<1>3. CASE ~CheckChildren
  <2>1. dead' \subseteq dead
    BY <1>3 DEF Next, Parent, vars, loopVars, ChildStarts, ChildPulses, ChildExits, ChildCrashes,
       Deliver, GiveUp, OthersSend, ReportErrored, ReportExited, BeginReceive, ReceiveMessage,
       ReceiveNothing, Tick
  <2> QED BY <1>1, <2>1
<1> QED BY <1>2, <1>3

(* The step at which a child is buried: the one CheckChildren reports, or   *)
(* whose "exited" is received, its last message.                            *)
LEMMA BuriedNext ==
    ASSUME Timing, Heartbeats, [Next]_vars, NEW c \in Child
    PROVE  \/ buried'[c] = buried[c]
           \/ buried[c] = 0 /\ buried'[c] = 1 /\ ~Alive(c)'
<1>1. TypeOK /\ Idle /\ History /\ Once(c) /\ Pipe(wire[c], incoming, c, life[c])
  BY DEF Heartbeats, ChildInv
<1>2. buried \in [Child -> Nat] /\ buried[c] \in Nat
  BY <1>1 DEF TypeOK
<1>3. ASSUME NEW m \in Message, HandleMessage(m)
      PROVE  \/ buried'[c] = buried[c]
             \/ m.type = "exited" /\ m.from = c /\ buried'[c] = buried[c] + 1
  BY <1>2, <1>3 DEF HandleMessage
<1>4. CASE ReportExited
  <2>1. /\ HandleMessage([type |-> "exited", from |-> reporting])
        /\ [type |-> "exited", from |-> reporting] \in Message /\ reporting \in dead
    BY <1>1, <1>4, MessagesHandled DEF ReportExited
  <2>2. CASE reporting = c
    <3>1. c \in dead /\ spawned[c] # Absent
      BY <2>1, <2>2, <1>1 DEF TypeOK
    <3>2. ~Alive(c)'
      BY <3>1, <1>1, AliveNext DEF Once
    <3>3. ~(buried[c] > 0)
      BY <3>1, <1>1 DEF History, BuriedForGood
    <3> QED BY <1>2, <1>3, <2>1, <3>2, <3>3
  <2>3. CASE reporting # c
    BY <1>3, <2>1, <2>3
  <2> QED BY <2>2, <2>3
<1>5. CASE ReceiveMessage
  <2>1. /\ 1 \in DOMAIN incoming /\ HandleMessage(incoming[1]) /\ incoming[1] \in Message
        /\ \A j \in From(incoming', c) : j + 1 \in From(incoming, c)
        /\ \A j \in DOMAIN incoming' : j \in Nat \ {0} /\ incoming'[j] = incoming[j + 1]
    BY <1>5, ReceiveShifts
  <2>2. CASE incoming[1].type = "exited" /\ incoming[1].from = c
    <3>1. 1 \in From(incoming, c)
      BY <2>1, <2>2 DEF From
    <3>2. Alive(c)
      BY <2>2, <3>1 DEF Alive
    <3>3. buried[c] = 0
      BY <1>1, <3>2 DEF Once
    <3>4. life[c] = "ended"
      BY <1>1, <2>2, <3>1 DEF Pipe, Beat
    <3>5. DOMAIN wire[c] = {}
      BY <1>1, <2>2, <3>1 DEF Pipe, Follows, Beat
    <3>6. \A j \in From(incoming', c) : FALSE
      <4> TAKE j \in From(incoming', c)
      <4>1. j \in Nat \ {0} /\ j + 1 \in From(incoming, c)
        BY <2>1 DEF From
      <4>2. 1 < j + 1
        BY <4>1
      <4>3. Follows(incoming[1].type, incoming[j + 1].type)
        BY <1>1, <3>1, <4>1, <4>2 DEF Pipe
      <4> QED BY <2>2, <4>3 DEF Follows, Beat
    <3>7. life'[c] = life[c] /\ wire'[c] = wire[c]
      BY <1>5 DEF ReceiveMessage, childVars
    <3>8. ~Alive(c)'
      BY <3>4, <3>5, <3>6, <3>7 DEF Alive
    <3> QED BY <1>2, <1>3, <2>1, <3>3, <3>8
  <2>3. CASE ~(incoming[1].type = "exited" /\ incoming[1].from = c)
    BY <1>3, <2>1, <2>3
  <2> QED BY <2>2, <2>3
<1>6. ASSUME NEW d \in Child, ReportErrored(d) PROVE buried'[c] = buried[c]
  BY <1>6 DEF ReportErrored, HandleMessage
<1>7. CASE /\ ~ReportExited /\ ~ReceiveMessage /\ \A d \in Child : ~ReportErrored(d)
  BY <1>7 DEF Next, Parent, vars, ChildStarts, ChildPulses, ChildExits, ChildCrashes,
       Deliver, GiveUp, OthersSend, CheckChildren, BeginReceive, ReceiveNothing, Tick
<1> QED BY <1>4, <1>5, <1>6, <1>7

(* A child is buried once, and only when nothing tells of it any more.      *)
LEMMA OnceNext ==
    ASSUME Timing, Heartbeats, [Next]_vars, NEW c \in Child
    PROVE  Once(c)'
<1>1. Once(c) /\ TypeOK /\ Idle
  BY DEF Heartbeats, ChildInv
<1>2. Alive(c)' => Alive(c) /\ c \notin dead'
  BY <1>1, AliveNext, DeadNext
<1>3. CASE buried'[c] = buried[c]
  BY <1>1, <1>2, <1>3 DEF Once
<1>4. CASE buried[c] = 0 /\ buried'[c] = 1 /\ ~Alive(c)'
  BY <1>4 DEF Once
<1> QED BY <1>3, <1>4, BuriedNext

-----------------------------------------------------------------------------
(* The parent's clock is not older than a waiting loop makes it.            *)
LEMMA NowBoundNext ==
    ASSUME Timing, Heartbeats, [Next]_vars, TypeOK', NEW c \in Child
    PROVE  NowBound(c)'
<1> SUFFICES ASSUME Alive(c)'
             PROVE  /\ pc' = "lost" => now' + Left' <= Reports
                    /\ pc' = "receive" => now' <= Reports + waited'
  BY DEF NowBound
<1>1. TypeOK /\ Idle /\ NowBound(c) /\ Alive(c) /\ c \notin dead /\ c \notin dead'
  <2>1. TypeOK /\ Idle /\ Once(c) /\ NowBound(c)
    BY DEF Heartbeats, ChildInv
  <2>2. Alive(c)
    BY <2>1, AliveNext
  <2> QED BY <2>1, <2>2, DeadNext DEF Once
<1>2. /\ now \in Nat /\ Left \in Nat /\ Reports \in Nat /\ waited \in Nat /\ busy \in Nat
      /\ pc = "check" => Left = busy + Reports
  <2>1. now \in Nat /\ waited \in Nat /\ busy \in Nat
    BY <1>1, Constants DEF TypeOK
  <2>2. Reports \in Nat
    BY Numbers
  <2> QED BY <1>1, <2>1, <2>2, LeftIs
<1>3. /\ pc = "lost" => now + Left <= Reports
      /\ pc = "receive" => now <= Reports + waited
  BY <1>1 DEF NowBound
<1>9. pc = "lost" => \A n, l \in Nat :
        (n <= now /\ l <= Left) \/ (n <= now + 1 /\ l = Left - 1) => n + l <= Reports
  BY <1>2, <1>3
<1>10. \A n, l \in Nat : n = 0 /\ l <= Reports => n + l <= Reports
  BY <1>2
<1>4. CASE Own(c) \/ Beside(c)
  <2>1. UNCHANGED <<pc, now, waited>>
    BY <1>4 DEF Own, Beside, loopVars, ChildStarts, ChildPulses, ChildExits, ChildCrashes,
         Deliver, GiveUp
  <2>2. Left' = Left
    BY <1>4, LeftSame
  <2> QED BY <1>3, <2>1, <2>2
<1>5. CASE Internal
  <2>1. Left' \in Nat /\ (ReceiveNothing \/ Left' <= Left)
    BY <1>1, <1>5, LeftInternal
  <2>2. CASE CheckChildren
    <3>1. pc = "check" /\ busy = 0 /\ now' = 0 /\ pc' = "lost"
      BY <2>2 DEF CheckChildren
    <3>2. Left' <= Left
      BY <2>1, <3>1 DEF ReceiveNothing
    <3>3. Left = Reports
      BY <1>2, <3>1
    <3>5. now' + Left' <= Reports
      <4>1. PICK n \in Nat, l \in Nat : n = now' /\ l = Left'
        BY <2>1, <3>1
      <4>2. n = 0 /\ l <= Reports
        BY <3>1, <3>2, <3>3, <4>1
      <4>3. n + l <= Reports
        BY <1>10, <4>2
      <4> QED BY <4>1, <4>3
    <3> QED BY <3>1, <3>5
  <2>3. CASE ReportExited \/ \E d \in Child : ReportErrored(d)
    <3>1. pc = "lost" /\ now' = now /\ pc' = "lost"
      BY <2>3 DEF ReportErrored, ReportExited
    <3>2. Left' <= Left
      BY <2>1, <3>1 DEF ReceiveNothing
    <3>3. now' + Left' <= Reports
      <4>1. now' \in Nat /\ now' <= now /\ now + Left <= Reports
        BY <1>2, <1>3, <3>1
      <4>2. PICK n \in Nat, l \in Nat : n = now' /\ l = Left'
        BY <2>1, <4>1
      <4>3. n <= now /\ l <= Left
        BY <3>2, <4>1, <4>2
      <4>4. n + l <= Reports
        BY <1>9, <3>1, <4>3
      <4> QED BY <4>2, <4>4
    <3> QED BY <3>1, <3>3
  <2>4. CASE BeginReceive
    <3>1. pc = "lost" /\ now' = now /\ pc' = "receive" /\ waited' = 0
      BY <2>4 DEF BeginReceive
    <3> QED BY <1>2, <1>3, <3>1
  <2>5. CASE ReceiveNothing
    BY <2>5 DEF ReceiveNothing
  <2> QED BY <1>5, <2>2, <2>3, <2>4, <2>5 DEF Internal
<1>6. CASE ReceiveMessage
  BY <1>6 DEF ReceiveMessage
<1>7. CASE Tick
  <2>1. pc' = pc /\ now' \in Nat /\ now' <= now + 1
    BY <1>1, <1>7, TickIs
  <2>2. CASE busy = 0
    <3>1. pc = "receive" /\ waited' = waited + 1
      BY <1>1, <1>7, <2>2, LeftTick
    <3> QED BY <1>2, <1>3, <2>1, <3>1
  <2>3. CASE busy # 0
    <3>1. Left > 0 /\ Left' = Left - 1 /\ waited' = waited
      BY <1>1, <1>7, <2>3, LeftTick
    <3>2. pc # "receive"
      BY <1>1, <2>3 DEF Idle
    <3>3. pc = "lost" => now' + Left' <= Reports
      <4>1. Left' \in Nat
        BY <1>2, <3>1
      <4>2. PICK n \in Nat, l \in Nat : n = now' /\ l = Left'
        BY <2>1, <4>1
      <4>3. n <= now + 1 /\ l = Left - 1
        BY <2>1, <3>1, <4>2
      <4>4. pc = "lost" => n + l <= Reports
        BY <1>9, <4>3
      <4> QED BY <4>2, <4>4
    <3> QED BY <2>1, <3>2, <3>3
  <2> QED BY <2>2, <2>3
<1> QED BY <1>1, <1>4, <1>5, <1>6, <1>7, Kinds

-----------------------------------------------------------------------------
(* A running child has one message on the wire at most, and then one in the *)
(* mailbox at most.                                                         *)
LEMMA OnePulse ==
    ASSUME TypeOK, NEW c \in Child, Pipe(wire[c], incoming, c, life[c]), life[c] # "ended",
           NEW i \in DOMAIN wire[c]
    PROVE  /\ \A k \in DOMAIN wire[c] : k = i
           /\ SubSeq(wire[c], i + 1, Len(wire[c])) = <<>>
           /\ \A j \in From(incoming, c) : j \in Beats(incoming, c)
           /\ \A j, k \in From(incoming, c) : j = k
<1>1. /\ DOMAIN wire[c] = 1..Len(wire[c]) /\ Len(wire[c]) \in Nat /\ wire[c] \in Seq(InFlight)
      /\ \A k \in DOMAIN wire[c] : k \in Nat
  BY TypesOf
<1>2. \A k, n \in DOMAIN wire[c] : ~(k < n)
  BY DEF Pipe
<1>3. \A k \in DOMAIN wire[c] : k = i
  BY <1>1, <1>2
<1>4. i = Len(wire[c])
  BY <1>1, <1>3
<1>5. SubSeq(wire[c], i + 1, Len(wire[c])) = <<>>
  BY <1>1, <1>4
<1>6. \A j \in From(incoming, c) : j \in Beats(incoming, c)
  BY DEF Pipe, Beats
<1>7. wire[c][i].type \in Beat
  BY DEF Pipe
<1>8. \A j, k \in Beats(incoming, c) : j = k
  BY <1>7 DEF Pipe
<1> QED BY <1>3, <1>5, <1>6, <1>8

(* Pulses keep their distance, in every step.                               *)
LEMMA SpacedNext ==
    ASSUME Timing, Heartbeats, [Next]_vars, TypeOK', NEW c \in Child
    PROVE  Spaced(c)'
<1> DEFINE Wait(i) == IF Followed(c, i) THEN PulseInterval + 1 ELSE 0
           Bound == MaxDelay + Rounds(Crowd)
<1> SUFFICES ASSUME NEW j \in Beats(incoming', c), life'[c] = "running",
                    NEW l, l = Left', NEW n, n = last'[c], NEW e, e = Wait(j)'
             PROVE  l + Rounds(j - 1) + n + e <= Bound
  BY DEF Spaced, Until, Beats, From
<1>1. /\ TypeOK /\ Idle /\ OthersFew /\ Pipes /\ Young(c) /\ Spaced(c) /\ Once(c) /\ History
      /\ Pipe(wire[c], incoming, c, life[c])
  BY DEF Heartbeats, ChildInv, Pipes
<1>2. /\ PulseInterval \in Nat /\ MaxDelay \in Nat /\ Crowd \in Nat /\ Round \in Nat
      /\ last[c] \in Nat /\ last'[c] \in Nat
  <2>1. last[c] \in Nat /\ last'[c] \in Nat
    BY <1>1 DEF TypeOK
  <2> QED BY <2>1, Constants, Numbers
<1>3. \A m \in Nat : Rounds(m) \in Nat /\ Rounds(m + 1) = Rounds(m) + Round
  BY RoundsAre
<1>4. /\ \A i \in Beats(incoming, c) : i - 1 \in Nat /\ i \in Nat /\ i <= Len(incoming)
      /\ Len(incoming) \in Nat /\ DOMAIN incoming = 1..Len(incoming)
  BY <1>1, FromIs, MailIs DEF Beats
<1>5. (life[c] # "ended" => c \notin dead) /\ (c \notin dead => Left \in Nat /\ Left <= Round)
  <2>1. life[c] # "ended" => c \notin dead
    BY <1>1 DEF Once, Alive
  <2> QED BY <2>1, <1>1, LeftIs
<1>6. \A i : Wait(i) \in {0, PulseInterval + 1}
  OBVIOUS
<1>7. e \in {0, PulseInterval + 1} /\ n \in Nat
  BY <1>2
<1>18. (\A i \in Beats(incoming, c) : Rounds(i - 1) \in Nat) /\ Bound \in Nat
  <2>1. Rounds(Crowd) \in Nat
    BY <1>2, <1>3
  <2>2. \A i \in Beats(incoming, c) : Rounds(i - 1) \in Nat
    BY <1>3, <1>4
  <2> QED BY <2>1, <2>2, <1>2
<1>8. ASSUME life[c] = "running", NEW i \in Beats(incoming, c), NEW x \in Nat, NEW y \in Nat,
             NEW z \in Nat, z <= Wait(i),
             (x <= Left /\ y <= last[c]) \/ (Left > 0 /\ x = Left - 1 /\ y = last[c] + 1)
      PROVE  x + Rounds(i - 1) + y + z <= Bound
  <2>1. Left + Rounds(i - 1) + last[c] + Wait(i) <= Bound
    BY <1>1, <1>8 DEF Spaced, Until
  <2>2. Left \in Nat /\ Rounds(i - 1) \in Nat /\ Wait(i) \in Nat /\ Bound \in Nat
    BY <1>2, <1>5, <1>6, <1>8, <1>18
  <2> HIDE DEF Wait, Bound
  <2> QED BY <2>1, <2>2, <1>2, <1>8
<1>9. CASE ChildStarts(c)
  <2>1. life[c] = "unborn" /\ incoming' = incoming
    BY <1>9 DEF ChildStarts
  <2>2. From(incoming, c) = {}
    BY <1>1, <2>1 DEF History, UnbornSilent, From
  <2> QED BY <2>1, <2>2 DEF Beats
<1>10. CASE ChildPulses(c)
  <2>1. wire[c] = <<>> /\ \A i, k \in Beats(incoming, c) : i = k
    BY <1>10, PulseAlone
  <2>2. /\ life[c] = "running" /\ incoming' = incoming /\ last[c] > PulseInterval /\ n = 0
        /\ l = Left
    BY <1>1, <1>10, LeftSame DEF ChildPulses, TypeOK, Own
  <2>3. j \in Beats(incoming, c)
    BY <2>2
  <2>4. ~Followed(c, j)
    BY <2>1, <2>3, <1>4 DEF Followed
  <2>5. Left + Rounds(j - 1) + last[c] + 0 <= Bound
    BY <2>2, <2>3, <2>4, <1>1 DEF Spaced, Until
  <2>6. Left \in Nat /\ Rounds(j - 1) \in Nat /\ Bound \in Nat
    BY <1>5, <1>18, <2>2, <2>3
  <2> HIDE DEF Bound
  <2> QED BY <2>2, <2>5, <2>6, <1>2, <1>7
<1>11. CASE ChildExits(c) \/ ChildCrashes(c)
  BY <1>1, <1>11 DEF ChildExits, ChildCrashes, TypeOK
<1>12. CASE Deliver(c)
  <2>1. PICK i \in DOMAIN wire[c] :
          /\ incoming' = Append(incoming, [type |-> wire[c][i].type, from |-> c])
          /\ wire' = [wire EXCEPT ![c] = SubSeq(@, i + 1, Len(@))]
    BY <1>12 DEF Deliver
  <2>2. life[c] = "running" /\ n = last[c] /\ l = Left
    BY <1>12, LeftSame DEF Deliver, Own
  <2>3. /\ SubSeq(wire[c], i + 1, Len(wire[c])) = <<>>
        /\ \A k, m \in From(incoming, c) : k = m
    BY <1>1, <2>2, OnePulse
  <2>4. wire'[c] = <<>>
    BY <2>1, <2>3, <1>1 DEF TypeOK
  <2>5. Len(incoming) + 3 <= Crowd
    BY <1>1, <2>3, CrowdIs
  <2> DEFINE m == [type |-> wire[c][i].type, from |-> c]
  <2>6. /\ DOMAIN incoming' = 1..(Len(incoming) + 1)
        /\ \A k \in 1..Len(incoming) : incoming'[k] = incoming[k]
    <3>1. m \in Message
      <4>1. wire[c][i].type \in LifecycleType
        BY <1>1, TypesOf
      <4> QED BY <4>1 DEF Message
    <3>2. incoming \in Seq(Message) /\ incoming' = Append(incoming, m)
      BY <1>1, <2>1, MailIs
    <3> HIDE DEF m
    <3> QED BY <3>1, <3>2
  <2>7. CASE j = Len(incoming) + 1
    <3>1. ~Followed(c, j)'
      <4>1. \A k \in DOMAIN incoming' : ~(k > j)
        BY <1>4, <2>6, <2>7
      <4> QED BY <4>1, <2>4 DEF Followed, Beats, From
    <3>2. e = 0
      BY <3>1
    <3>3. last[c] <= MaxDelay
      BY <1>1, <2>2, TypesOf DEF Young
    <3>4. Rounds(Len(incoming)) \in Nat /\ Rounds(Len(incoming)) + Round <= Rounds(Crowd)
          /\ Rounds(Crowd) \in Nat
      <4>1. Len(incoming) + 1 \in Nat /\ Len(incoming) + 1 <= Crowd
        BY <1>2, <1>4, <2>5
      <4>2. Rounds(Len(incoming) + 1) <= Rounds(Crowd)
        BY <4>1, <1>2, RoundsAre
      <4> QED BY <4>2, <1>2, <1>3, <1>4
    <3>5. j - 1 = Len(incoming)
      BY <1>4, <2>7
    <3>6. Left \in Nat /\ Left <= Round
      BY <1>5, <2>2
    <3>7. Left + Rounds(Len(incoming)) + last[c] + 0 <= MaxDelay + Rounds(Crowd)
      BY <3>3, <3>4, <3>6, <1>2
    <3> QED BY <2>2, <3>2, <3>5, <3>7
  <2>8. CASE j # Len(incoming) + 1
    <3>1. j \in 1..Len(incoming)
      BY <1>4, <2>6, <2>8 DEF Beats, From
    <3>2. j \in Beats(incoming, c)
      BY <3>1, <1>4, <2>6 DEF Beats, From
    <3>3. Followed(c, j)
      BY <2>1 DEF Followed
    <3>4. Wait(j) = PulseInterval + 1 /\ e <= Wait(j) /\ e \in Nat
      BY <3>3, <1>2, <1>7
    <3>5. l \in Nat /\ l <= Left /\ n <= last[c]
      BY <2>2, <1>2, <1>5
    <3> QED BY <1>7, <1>8, <2>2, <3>2, <3>4, <3>5
  <2> QED BY <2>7, <2>8
<1>13. CASE GiveUp(c)
  <2>1. life[c] = "running" /\ n = last[c] /\ l = Left /\ incoming' = incoming /\ wire[c] # <<>>
    BY <1>1, <1>13, LeftSame, WireSub DEF GiveUp, Own
  <2>2. j \in Beats(incoming, c) /\ Followed(c, j)
    BY <2>1 DEF Followed
  <2>3. Wait(j) = PulseInterval + 1 /\ e <= Wait(j) /\ e \in Nat
    BY <2>2, <1>2, <1>7
  <2>4. l \in Nat /\ l <= Left /\ n <= last[c]
    BY <2>1, <1>2, <1>5
  <2> QED BY <1>7, <1>8, <2>1, <2>2, <2>3, <2>4
<1>14. ASSUME Beside(c) \/ (Still(c) /\ incoming' = incoming /\ ~ReceiveNothing /\ Internal)
       PROVE  l + Rounds(j - 1) + n + e <= Bound
  <2>1. life[c] = "running" /\ n = last[c] /\ wire'[c] = wire[c]
    BY <1>14 DEF Beside, Still
  <2>2. Beats(incoming', c) = Beats(incoming, c)
    BY <1>14, BesideKeeps
  <2>3. (Followed(c, j)' <=> Followed(c, j)) /\ j \in Beats(incoming, c)
    <3>1. Beats(incoming, c)' = Beats(incoming, c)
      BY <2>2 DEF Beats, From
    <3> QED BY <2>1, <2>2, <3>1 DEF Followed
  <2>4. e = Wait(j)
    BY <2>3
  <2>5. l \in Nat /\ l <= Left
    <3>1. CASE Beside(c)
      BY <3>1, <2>1, <1>5, LeftSame
    <3>2. CASE Internal /\ ~ReceiveNothing
      <4>1. c \notin dead /\ Alive(c)
        BY <2>1, <1>5 DEF Alive
      <4>2. c \notin dead'
        BY <4>1, DeadNext
      <4> QED BY <3>2, <4>1, <4>2, <1>1, LeftInternal
    <3> QED BY <1>14, <3>1, <3>2
  <2>6. e \in Nat /\ e <= Wait(j) /\ n <= last[c]
    BY <2>1, <2>4, <1>2, <1>7
  <2> QED BY <1>7, <1>8, <2>1, <2>3, <2>5, <2>6
<1>15. CASE ReceiveNothing
  BY <1>15 DEF ReceiveNothing, Beats, From
<1>16. CASE ReceiveMessage /\ Still(c)
  <2>1. life[c] = "running" /\ n = last[c] /\ wire'[c] = wire[c]
    BY <1>16 DEF Still
  <2>2. /\ \A k \in DOMAIN incoming' : k \in Nat \ {0} /\ incoming'[k] = incoming[k + 1]
        /\ \A k \in From(incoming', c) : k + 1 \in From(incoming, c)
    BY <1>16, ReceiveShifts
  <2>3. \A k \in Beats(incoming', c) : k \in Nat \ {0} /\ k + 1 \in Beats(incoming, c)
    BY <2>2 DEF Beats, From
  <2>4. Followed(c, j)' => Followed(c, j + 1)
    <3>1. Beats(incoming, c)' = Beats(incoming', c)
      BY DEF Beats, From
    <3>2. \A k \in Beats(incoming', c) : k > j => k + 1 > j + 1
      BY <2>3
    <3> QED BY <2>1, <2>3, <3>1, <3>2 DEF Followed
  <2>5. e <= Wait(j + 1) /\ e \in Nat
    BY <2>4, <1>2, <1>6, <1>7
  <2>6. Left = 0 /\ l \in Nat /\ l <= Round
    BY <1>1, <1>16, LeftReceive
  <2>7. 0 + Rounds((j + 1) - 1) + last[c] + e <= Bound
    <3>1. 0 <= Left /\ last[c] <= last[c] /\ j + 1 \in Beats(incoming, c)
      BY <2>3, <2>6, <1>2
    <3> QED BY <1>2, <1>8, <2>1, <2>5, <3>1
  <2>8. (j + 1) - 1 = (j - 1) + 1 /\ j - 1 \in Nat
    BY <2>3
  <2>9. Rounds((j + 1) - 1) = Rounds(j - 1) + Round /\ Rounds(j - 1) \in Nat
    BY <2>8, <1>3
  <2>10. Bound \in Nat
    BY <1>2, <1>3
  <2> HIDE DEF Bound
  <2> QED BY <2>1, <2>5, <2>6, <2>7, <2>9, <2>10, <1>2, <1>7
<1>17. CASE Tick
  <2>1. /\ life[c] = "running" /\ n = last[c] + 1 /\ incoming' = incoming
        /\ (wire'[c] = <<>> <=> wire[c] = <<>>)
    BY <1>1, <1>17, TickIs
  <2>2. j \in Beats(incoming, c) /\ incoming # <<>>
    <3>1. j \in Beats(incoming, c)
      BY <2>1
    <3> QED BY <3>1 DEF Beats, From
  <2>3. Left > 0 /\ l = Left - 1 /\ l \in Nat
    <3>1. Left > 0 /\ l = Left - 1 /\ Left \in Nat
      BY <1>1, <1>5, <1>17, <2>1, <2>2, LeftTick
    <3> QED BY <3>1
  <2>4. Followed(c, j)' <=> Followed(c, j)
    BY <2>1 DEF Followed, Beats, From
  <2>5. e = Wait(j) /\ e \in Nat /\ e <= Wait(j)
    BY <2>4, <1>2, <1>7
  <2> QED BY <1>7, <1>8, <2>1, <2>2, <2>3, <2>5
<1> QED
  BY <1>1, <1>9, <1>10, <1>11, <1>12, <1>13, <1>14, <1>15, <1>16, <1>17, Kinds DEF Own

-----------------------------------------------------------------------------
(* What has just been heard of a child, while its next news is in a full    *)
(* mailbox, is soon enough.                                                 *)
LEMMA JustEnough ==
    ASSUME Timing, NEW c \in Child
    PROVE  /\ Reports + ReceiveTimeout + Round + Rounds(Crowd - 2) <= Limit
           /\ Reports + ReceiveTimeout + Gaps(MaxLost + 1) + MaxDelay = Slack
           /\ Gaps(MaxLost + 1) \in Nat /\ Crowd - 2 \in Nat /\ Rounds(Crowd - 2) \in Nat
<1>1. /\ Reports \in Nat /\ Round \in Nat /\ Gap \in Nat /\ Crowd \in Nat /\ Crowd >= 4
      /\ Slack = Reports + ReceiveTimeout + Gaps(MaxLost + 1) + MaxDelay
      /\ Limit = Slack + MaxDelay + Rounds(Crowd - 2)
      /\ Rounds(Crowd) + MaxDelay < 2 * (PulseInterval + 1)
      /\ Gap = PulseInterval + ReceiveTimeout + MaxBusy + 1
  BY Numbers
<1>2. /\ PulseInterval \in Nat /\ ReceiveTimeout \in Nat /\ MaxBusy \in Nat /\ MaxDelay \in Nat
      /\ MaxLost \in Nat
  BY Constants
<1>3. Rounds(4) <= Rounds(Crowd) /\ Rounds(Crowd) \in Nat
  BY <1>1, RoundsAre
<1>4. Rounds(4) = 4 * Round
  BY DEF Rounds
<1>5. Gaps(MaxLost + 1) \in Nat /\ Gap <= Gaps(MaxLost + 1)
  <2>1. MaxLost + 1 \in Nat /\ 1 <= MaxLost + 1 /\ 0 + 1 = 1
    BY <1>2
  <2>2. Gaps(0 + 1) = Gaps(0) + Gap /\ Gaps(0) = 0 /\ Gaps(1) <= Gaps(MaxLost + 1)
        /\ Gaps(MaxLost + 1) \in Nat
    BY <2>1, GapsAre
  <2> QED BY <1>1, <2>1, <2>2
<1>6. Crowd - 2 \in Nat /\ Rounds(Crowd - 2) \in Nat
  <2>1. Crowd - 2 \in Nat
    BY <1>1
  <2> QED BY <2>1, RoundsAre
<1>7. Round <= Gaps(MaxLost + 1)
  BY <1>1, <1>2, <1>3, <1>4, <1>5
<1> QED BY <1>1, <1>2, <1>5, <1>6, <1>7

(* The heartbeat is refreshed in time, in every step.                       *)
LEMMA TimelyNext ==
    ASSUME Timing, Heartbeats, [Next]_vars, TypeOK', NEW c \in Child
    PROVE  Timely(c)'
<1> DEFINE Goal ==
             IF News(incoming', c) # {}
             THEN \E j \in News(incoming', c) : spawned'[c] + Until(j)' <= Limit
             ELSE /\ life'[c] = "running" => spawned'[c] + Arrival(c)' <= Slack
                  /\ \A k \in DOMAIN wire'[c] :
                       wire'[c][k].type = "exited" => spawned'[c] <= Slack + wire'[c][k].age
<1> SUFFICES ASSUME spawned'[c] # Absent, Alive(c)', NEW l, l = Left', NEW s, s = spawned'[c]
             PROVE  Goal
  BY DEF Timely, News, From
<1>1. /\ TypeOK /\ Idle /\ OthersFew /\ Pipes /\ Young(c) /\ Timely(c) /\ NowBound(c) /\ History
      /\ Pipe(wire[c], incoming, c, life[c]) /\ Alive(c) /\ c \notin dead /\ c \notin dead'
  <2>1. /\ TypeOK /\ Idle /\ OthersFew /\ Pipes /\ Young(c) /\ Timely(c) /\ NowBound(c)
        /\ History /\ Pipe(wire[c], incoming, c, life[c]) /\ Once(c)
    BY DEF Heartbeats, ChildInv, Pipes
  <2>2. Alive(c)
    BY <2>1, AliveNext
  <2> QED BY <2>1, <2>2, DeadNext DEF Once
<1>2. /\ Slack \in Nat /\ Limit \in Nat /\ MaxDelay \in Nat /\ Round \in Nat /\ Crowd \in Nat
      /\ Left \in Nat /\ Left <= Round /\ last[c] \in Nat /\ s \in Nat
      /\ (spawned[c] # Absent => spawned[c] \in Nat)
  <2>1. s \in Nat
    <3>1. spawned' \in [Child -> Nat \cup {Absent}]
      BY DEF TypeOK
    <3> QED BY <3>1
  <2>2. last[c] \in Nat /\ (spawned[c] # Absent => spawned[c] \in Nat)
    BY <1>1, TypesOf
  <2>3. Left \in Nat /\ Left <= Round
    BY <1>1, LeftIs
  <2> QED BY <2>1, <2>2, <2>3, Numbers, Constants
<1>3. /\ \A m \in Nat : Rounds(m) \in Nat /\ Rounds(m + 1) = Rounds(m) + Round
      /\ \A j \in News(incoming, c) : j \in Nat \ {0} /\ j - 1 \in Nat /\ Rounds(j - 1) \in Nat
  <2>1. \A m \in Nat : Rounds(m) \in Nat /\ Rounds(m + 1) = Rounds(m) + Round
    BY RoundsAre
  <2>2. \A j \in News(incoming, c) : j \in Nat \ {0} /\ j - 1 \in Nat
    BY <1>1, FromIs DEF News
  <2> QED BY <2>1, <2>2
(* The three ways in which the parent hears of the child in time.           *)
<1>4. ASSUME NEW j \in News(incoming', c), s + (l + Rounds(j - 1)) <= Limit PROVE Goal
  <2>1. Until(j)' = l + Rounds(j - 1)
    BY DEF Until
  <2>2. spawned'[c] + Until(j)' <= Limit
    BY <1>4, <2>1
  <2> QED BY <2>2
<1>5. ASSUME News(incoming', c) = {},
             life'[c] = "running" =>
               \A g, n : g = Gaps(Chances(c))' /\ n = last'[c] => s + (g + MaxDelay - n) <= Slack,
             \A k \in DOMAIN wire'[c] :
               wire'[c][k].type = "exited" => \A a : a = wire'[c][k].age => s <= Slack + a
      PROVE  Goal
  <2>1. life'[c] = "running" => spawned'[c] + Arrival(c)' <= Slack
    BY <1>5 DEF Arrival
  <2> QED BY <1>5, <2>1
<1>6. ASSUME spawned'[c] = spawned[c], News(incoming', c) = {}, News(incoming, c) = {}, Still(c)
      PROVE  Goal
  <2>1. /\ life[c] = "running" => spawned[c] + Arrival(c) <= Slack
        /\ \A k \in DOMAIN wire[c] :
             wire[c][k].type = "exited" => spawned[c] <= Slack + wire[c][k].age
    BY <1>1, <1>6 DEF Timely
  <2>2. Arrival(c)' = Arrival(c)
    BY <1>6 DEF Arrival, Chances, Still
  <2> QED BY <1>6, <2>1, <2>2 DEF Still
<1>7. ASSUME spawned[c] # Absent, News(incoming, c) # {}
      PROVE  \E j \in News(incoming, c) : spawned[c] + (Left + Rounds(j - 1)) <= Limit
  BY <1>1, <1>7 DEF Timely, Until
<1>8. ASSUME spawned[c] # Absent, spawned'[c] = spawned[c], l \in Nat, l <= Left,
             NEW j \in News(incoming, c), j \in News(incoming', c),
             spawned[c] + (Left + Rounds(j - 1)) <= Limit
      PROVE  Goal
  <2>1. s + (l + Rounds(j - 1)) <= Limit
    <3>1. Rounds(j - 1) \in Nat /\ spawned[c] \in Nat /\ s = spawned[c]
      BY <1>2, <1>3, <1>8
    <3> QED BY <1>2, <1>8, <3>1
  <2> QED BY <1>4, <1>8, <2>1
<1> HIDE DEF Goal
<1>9. CASE ChildStarts(c)
  <2>1. spawned[c] = Absent
    BY <1>1, <1>9 DEF ChildStarts, History, UnbornSilent, Fresh
  <2> QED BY <1>9, <2>1 DEF ChildStarts
<1>10. CASE ChildPulses(c)
  <2>1. wire[c] = <<>> /\ life[c] = "running"
    BY <1>10, PulseAlone DEF ChildPulses
  <2>2. /\ spawned' = spawned /\ spawned[c] # Absent /\ incoming' = incoming /\ lost' = lost
        /\ last'[c] = 0 /\ l = Left
    BY <1>1, <1>10, LeftSame DEF ChildPulses, Own, TypeOK
  <2>3. wire'[c] = <<[type |-> "pulsed", age |-> 0]>>
    BY <1>1, <1>10, <2>1, SendAlone DEF ChildPulses
  <2>4. CASE News(incoming, c) # {}
    BY <1>2, <1>7, <1>8, <2>2, <2>4
  <2>5. CASE News(incoming, c) = {}
    <3>1. spawned[c] + Arrival(c) <= Slack
      BY <1>1, <2>1, <2>2, <2>5 DEF Timely
    <3>2. Chances(c) = (MaxLost - lost[c]) + 1 /\ Chances(c) \in Nat
      BY <2>1, ArrivalIs
    <3>3. Chances(c)' = MaxLost - lost[c] /\ MaxLost - lost[c] \in Nat
      <4>1. wire'[c] # <<>>
        BY <2>3
      <4>2. lost[c] \in Nat /\ lost[c] <= MaxLost /\ MaxLost \in Nat
        BY <1>1, TypesOf, Constants
      <4> QED BY <2>2, <4>1, <4>2 DEF Chances
    <3>4. /\ Gaps(Chances(c)) = Gaps(MaxLost - lost[c]) + Gap
          /\ Gaps(MaxLost - lost[c]) \in Nat /\ Gap \in Nat
      BY <3>2, <3>3, GapsAre, Numbers
    <3>5. Gaps(Chances(c))' = Gaps(MaxLost - lost[c])
      <4>1. \A m : m = Chances(c)' => Gaps(m) = Gaps(MaxLost - lost[c])
        BY <3>3
      <4> QED BY <4>1 DEF Gaps, Gap
    <3>6. last[c] <= Gap
      BY <1>1, <2>1 DEF Young
    <3>7. spawned[c] + (Gaps(MaxLost - lost[c]) + MaxDelay - 0) <= Slack
      BY <1>2, <2>2, <3>1, <3>4, <3>6 DEF Arrival
    <3>8. \A k \in DOMAIN wire'[c] : wire'[c][k].type # "exited"
      BY <2>3
    <3> QED BY <1>5, <2>2, <2>5, <3>5, <3>7, <3>8
  <2> QED BY <2>4, <2>5
<1>11. CASE ChildExits(c)
  <2>1. /\ life[c] = "running" /\ life'[c] = "ended" /\ spawned' = spawned
        /\ spawned[c] # Absent /\ incoming' = incoming /\ l = Left
    BY <1>1, <1>11, LeftSame DEF ChildExits, Own, TypeOK
  <2>2. CASE News(incoming, c) # {}
    BY <1>2, <1>7, <1>8, <2>1, <2>2
  <2>3. CASE News(incoming, c) = {}
    <3>1. spawned[c] + Arrival(c) <= Slack /\ Arrival(c) \in Int /\ Arrival(c) >= 0
      BY <1>1, <2>1, <2>3, ArrivalIs DEF Timely
    <3>2. s <= Slack
      BY <1>2, <2>1, <3>1
    <3>3. \A a \in Nat : s <= Slack + a
      BY <1>2, <3>2
    <3>4. \A k \in DOMAIN wire'[c] : wire'[c][k].age \in Nat
      <4>1. wire'[c] \in Seq(InFlight)
        BY DEF TypeOK, InFlight
      <4>2. \A m \in InFlight : m.age \in Nat
        BY Constants DEF InFlight
      <4> QED BY <4>1, <4>2
    <3> QED BY <1>5, <2>1, <2>3, <3>3, <3>4
  <2> QED BY <2>2, <2>3
<1>12. CASE ChildCrashes(c)
  <2>1. /\ life[c] = "running" /\ life'[c] = "ended" /\ incoming' = incoming
        /\ wire'[c] \in {wire[c], <<>>}
    BY <1>1, <1>12 DEF ChildCrashes, TypeOK
  <2>2. /\ \A k \in DOMAIN wire[c] : wire[c][k].type # "exited"
        /\ \A k \in From(incoming, c) : incoming[k].type # "exited"
    BY <1>1, <2>1 DEF Pipe, Beat
  <2> QED BY <2>1, <2>2 DEF Alive, From
<1>13. CASE Deliver(c)
  <2>1. PICK i \in DOMAIN wire[c] :
          /\ incoming' = Append(incoming, [type |-> wire[c][i].type, from |-> c])
          /\ wire' = [wire EXCEPT ![c] = SubSeq(@, i + 1, Len(@))]
    BY <1>13 DEF Deliver
  <2> DEFINE m == [type |-> wire[c][i].type, from |-> c]
             n == Len(incoming) + 1
  <2>2. /\ life' = life /\ last' = last /\ spawned' = spawned /\ spawned[c] # Absent /\ l = Left
    BY <1>13, LeftSame DEF Deliver, Own
  <2>3. /\ wire[c][i].type \in {"pulsed", "errored", "exited"}
        /\ \A j \in From(incoming, c) : incoming[j].type \in {"pulsed", "errored", "exited"}
    <3>1. ~Fresh(c)
      BY <2>2 DEF Fresh
    <3>2. wire[c][i].type # "started" /\ \A j \in From(incoming, c) : incoming[j].type # "started"
      BY <1>1, <3>1 DEF History, StartedFirst, From
    <3>3. wire[c][i].type \in LifecycleType
          /\ \A j \in From(incoming, c) : incoming[j].type \in LifecycleType
      BY <1>1, TypesOf, FromIs
    <3> QED BY <3>2, <3>3 DEF LifecycleType
  <2>4. /\ n \in Nat \ {0} /\ n - 1 = Len(incoming)
        /\ DOMAIN incoming' = 1..n /\ DOMAIN incoming = 1..Len(incoming) /\ Len(incoming) \in Nat
        /\ \A k \in 1..Len(incoming) : k \in 1..n /\ incoming'[k] = incoming[k]
        /\ n \in 1..n /\ \A k \in 1..n : k = n \/ k \in 1..Len(incoming)
        /\ incoming'[n].from = c /\ incoming'[n].type = wire[c][i].type
    <3>1. m \in Message /\ m.from = c /\ m.type = wire[c][i].type
      BY <2>3 DEF Message, LifecycleType
    <3>2. incoming \in Seq(Message) /\ incoming' = Append(incoming, m)
          /\ Len(incoming) \in Nat /\ DOMAIN incoming = 1..Len(incoming)
      BY <1>1, <2>1, MailIs
    <3> HIDE DEF m
    <3> QED BY <3>1, <3>2
  <2> HIDE DEF n
  <2>5. /\ \A j \in News(incoming, c) : j \in News(incoming', c)
        /\ \A j \in News(incoming', c) : j = n \/ j \in News(incoming, c)
        /\ n \in News(incoming', c) <=> wire[c][i].type \in {"pulsed", "exited"}
    BY <2>4 DEF News, From
  <2>6. CASE News(incoming, c) # {}
    BY <1>2, <1>7, <1>8, <2>2, <2>5, <2>6
  <2>7. CASE News(incoming, c) = {} /\ wire[c][i].type \in {"pulsed", "exited"}
    <3>1. spawned[c] <= Slack + MaxDelay
      BY <1>1, <2>2, <2>7, Soon
    <3>2. \A j, k \in From(incoming, c) : j = k
      <4>1. \A j \in From(incoming, c) : incoming[j].type = "errored"
        BY <2>3, <2>7 DEF News
      <4>2. \A j, k \in From(incoming, c) : ~(j < k)
        BY <1>1, <4>1 DEF Pipe, Follows, Beat
      <4>3. \A j \in From(incoming, c) : j \in Nat
        BY <1>1, FromIs
      <4> QED BY <4>2, <4>3
    <3>3. Len(incoming) + 3 <= Crowd
      BY <1>1, <3>2, CrowdIs
    <3>4. Rounds(Len(incoming)) + Round <= Rounds(Crowd - 2) /\ Rounds(Len(incoming)) \in Nat
          /\ Rounds(Crowd - 2) \in Nat
      <4>1. Len(incoming) + 1 \in Nat /\ Crowd - 2 \in Nat /\ Len(incoming) + 1 <= Crowd - 2
        BY <1>2, <2>4, <3>3
      <4>2. Rounds(Len(incoming) + 1) <= Rounds(Crowd - 2) /\ Rounds(Crowd - 2) \in Nat
        BY <4>1, RoundsAre
      <4> QED BY <1>3, <2>4, <4>2
    <3>5. Limit = Slack + MaxDelay + Rounds(Crowd - 2)
      BY Numbers
    <3>6. s + (l + Rounds(Len(incoming))) <= Limit
      BY <1>2, <2>2, <3>1, <3>4, <3>5
    <3>7. s + (l + Rounds(n - 1)) <= Limit
      BY <2>4, <3>6
    <3> QED BY <1>4, <2>5, <2>7, <3>7
  <2>8. CASE News(incoming, c) = {} /\ wire[c][i].type = "errored"
    <3>1. News(incoming', c) = {}
      BY <2>5, <2>8
    <3>2. life'[c] # "running"
      BY <1>1, <2>2, <2>8 DEF Pipe, Beat
    <3>3. \A k \in DOMAIN wire'[c] : \E h \in DOMAIN wire[c] : wire'[c][k] = wire[c][h]
      BY <1>1, <1>13, WireSub
    <3>4. \A h \in DOMAIN wire[c] :
            wire[c][h].type = "exited" => spawned[c] <= Slack + wire[c][h].age
      BY <1>1, <2>2, <2>8 DEF Timely
    <3> QED BY <1>5, <2>2, <3>1, <3>2, <3>3, <3>4
  <2> QED BY <2>3, <2>6, <2>7, <2>8
<1>14. CASE GiveUp(c)
  <2>1. /\ life' = life /\ last' = last /\ spawned' = spawned /\ spawned[c] # Absent /\ l = Left
        /\ incoming' = incoming /\ lost'[c] = lost[c] + 1
    BY <1>1, <1>14, LeftSame DEF GiveUp, Own, TypeOK
  <2>2. wire[c] # <<>> /\ \A k \in DOMAIN wire'[c] : \E h \in DOMAIN wire[c] : wire'[c][k] = wire[c][h]
    BY <1>1, <1>14, WireSub
  <2>3. CASE News(incoming, c) # {}
    BY <1>2, <1>7, <1>8, <2>1, <2>3
  <2>4. CASE News(incoming, c) = {}
    <3>1. ASSUME life[c] = "running"
          PROVE  \A g, n : g = Gaps(Chances(c))' /\ n = last'[c] => s + (g + MaxDelay - n) <= Slack
      <4>1. PICK i \in DOMAIN wire[c] : wire' = [wire EXCEPT ![c] = RemoveAt(@, i)]
        BY <1>14 DEF GiveUp
      <4>2. wire[c] \in Seq(InFlight) /\ wire'[c] = RemoveAt(wire[c], i)
        BY <1>1, <4>1, TypesOf DEF TypeOK
      <4>3. \A k, h \in DOMAIN wire[c] : k = h
        BY <1>1, <3>1, OnePulse
      <4>4. wire'[c] = <<>>
        <5>1. Len(wire[c]) = 1
          <6>1. Len(wire[c]) \in Nat /\ DOMAIN wire[c] = 1..Len(wire[c]) /\ i \in Nat
            BY <1>1, TypesOf
          <6>2. 1 \in 1..Len(wire[c]) /\ Len(wire[c]) \in 1..Len(wire[c])
            BY <6>1
          <6> QED BY <4>3, <6>1, <6>2
        <5>2. RemoveAt(wire[c], i) \in Seq(InFlight) /\ DOMAIN RemoveAt(wire[c], i) = 1..(Len(wire[c]) - 1)
          BY <4>2, RemoveOne
        <5> QED BY <4>2, <5>1, <5>2
      <4>5. Chances(c)' = Chances(c)
        <5>1. Chances(c) = MaxLost - lost[c] /\ lost[c] \in Nat /\ MaxLost \in Nat
          BY <1>1, <2>2, ArrivalIs, TypesOf, Constants
        <5>2. Chances(c)' = (MaxLost - (lost[c] + 1)) + 1
          BY <2>1, <4>4 DEF Chances
        <5> QED BY <5>1, <5>2
      <4>6. Gaps(Chances(c))' = Gaps(Chances(c))
        BY <4>5 DEF Gaps, Gap
      <4>7. spawned[c] + (Gaps(Chances(c)) + MaxDelay - last[c]) <= Slack
        BY <1>1, <2>1, <2>4, <3>1 DEF Timely, Arrival
      <4> QED BY <2>1, <4>6, <4>7
    <3>2. \A h \in DOMAIN wire[c] :
            wire[c][h].type = "exited" => spawned[c] <= Slack + wire[c][h].age
      BY <1>1, <2>1, <2>4 DEF Timely
    <3> QED BY <1>5, <2>1, <2>2, <2>4, <3>1, <3>2
  <2> QED BY <2>3, <2>4
<1>15. CASE Beside(c)
  <2>1. Still(c) /\ spawned'[c] = spawned[c] /\ News(incoming', c) = News(incoming, c) /\ l = Left
    BY <1>15, BesideKeeps, LeftSame DEF Beside
  <2> QED BY <1>2, <1>6, <1>7, <1>8, <2>1
<1>16. CASE Internal /\ Still(c) /\ incoming' = incoming
  <2>1. spawned'[c] = spawned[c]
    <3>1. ASSUME NEW d \in Child, ReportErrored(d) PROVE spawned'[c] = spawned[c]
      BY <1>1, <3>1, HandleEffect, MessagesHandled DEF ReportErrored
    <3>2. CASE ReportExited
      <4>1. /\ HandleMessage([type |-> "exited", from |-> reporting])
            /\ [type |-> "exited", from |-> reporting] \in Message /\ reporting \in dead
        BY <1>1, <3>2, MessagesHandled DEF ReportExited
      <4>2. c # reporting
        BY <1>1, <4>1
      <4> QED BY <1>1, <4>1, <4>2, HandleEffect
    <3> QED
      BY <1>16, <3>1, <3>2 DEF Internal, CheckChildren, BeginReceive, ReceiveNothing
  <2>2. CASE News(incoming, c) # {}
    <3>1. ~ReceiveNothing
      BY <2>2 DEF ReceiveNothing, News, From
    <3>2. l \in Nat /\ l <= Left
      BY <1>1, <1>16, <3>1, LeftInternal
    <3> QED BY <1>7, <1>8, <1>16, <2>1, <2>2, <3>2
  <2>3. CASE News(incoming, c) = {}
    BY <1>6, <1>16, <2>1, <2>3
  <2> QED BY <2>2, <2>3
<1>17. CASE ReceiveMessage /\ Still(c)
  <2>1. /\ 1 \in DOMAIN incoming /\ HandleMessage(incoming[1]) /\ incoming[1] \in Message
        /\ \A j \in DOMAIN incoming' : j \in Nat \ {0} /\ j + 1 \in DOMAIN incoming
                                       /\ incoming'[j] = incoming[j + 1]
        /\ \A j \in From(incoming', c) : j + 1 \in From(incoming, c)
        /\ \A j \in From(incoming, c) : j = 1 \/ j - 1 \in From(incoming', c)
    BY <1>17, ReceiveShifts
  <2>2. Left = 0 /\ l \in Nat /\ l <= Round
    BY <1>1, <1>17, LeftReceive
  <2>3. /\ \A j \in News(incoming', c) : j + 1 \in News(incoming, c)
        /\ \A j \in News(incoming, c) : j = 1 \/ j - 1 \in News(incoming', c)
    <3>1. \A j \in News(incoming', c) : j + 1 \in News(incoming, c)
      BY <2>1 DEF News, From
    <3>2. ASSUME NEW j \in News(incoming, c), j # 1 PROVE j - 1 \in News(incoming', c)
      <4>1. j - 1 \in From(incoming', c)
        BY <2>1, <3>2 DEF News
      <4>2. incoming'[j - 1] = incoming[(j - 1) + 1] /\ (j - 1) + 1 = j
        BY <1>3, <2>1, <4>1 DEF From
      <4> QED BY <3>2, <4>1, <4>2 DEF News
    <3> QED BY <3>1, <3>2
  <2>4. CASE 1 \notin News(incoming, c) /\ spawned'[c] = spawned[c]
    <3>1. CASE News(incoming, c) # {}
      <4>1. PICK j \in News(incoming, c) : spawned[c] + (Left + Rounds(j - 1)) <= Limit
        BY <1>7, <2>4, <3>1
      <4>2. j # 1 /\ j - 1 \in News(incoming', c) /\ (j - 1) - 1 \in Nat /\ ((j - 1) - 1) + 1 = j - 1
        BY <1>3, <2>3, <2>4
      <4>3. Rounds(j - 1) = Rounds((j - 1) - 1) + Round /\ Rounds((j - 1) - 1) \in Nat
        BY <1>3, <4>2
      <4>4. s + (l + Rounds((j - 1) - 1)) <= Limit
        BY <1>2, <2>2, <2>4, <4>1, <4>3
      <4> QED BY <1>4, <4>2, <4>4
    <3>2. CASE News(incoming, c) = {}
      BY <1>6, <1>17, <2>3, <2>4, <3>2
    <3> QED BY <3>1, <3>2
  <2>5. CASE spawned'[c] = now
    <3>1. s <= Reports + ReceiveTimeout /\ Reports \in Nat /\ ReceiveTimeout \in Nat
      <4>1. pc = "receive" /\ now <= Reports + waited /\ waited \in 0..ReceiveTimeout
        BY <1>1, <1>17 DEF ReceiveMessage, NowBound, TypeOK
      <4>2. Reports \in Nat /\ ReceiveTimeout \in Nat /\ s = now
        BY <2>5, Numbers, Constants
      <4> QED BY <1>2, <4>1, <4>2
    <3>2. CASE News(incoming', c) # {}
      <4>1. PICK j \in News(incoming', c) : TRUE
        BY <3>2
      <4>2. j \in Nat \ {0} /\ j + 1 <= Len(incoming) /\ Len(incoming) <= Crowd /\ Len(incoming) \in Nat
        <5>1. j \in Nat \ {0} /\ j + 1 \in From(incoming, c)
          BY <2>1, <4>1 DEF News, From
        <5> QED BY <1>1, <5>1, FromIs, CrowdIs, MailIs
      <4>3. j - 1 \in Nat /\ Crowd - 2 \in Nat /\ j - 1 <= Crowd - 2
        BY <1>2, <4>2
      <4>4. Rounds(j - 1) <= Rounds(Crowd - 2) /\ Rounds(j - 1) \in Nat
        BY <4>3, RoundsAre
      <4>5. Reports + ReceiveTimeout + Round + Rounds(Crowd - 2) <= Limit /\ Rounds(Crowd - 2) \in Nat
        BY JustEnough
      <4>6. s + (l + Rounds(j - 1)) <= Limit
        BY <1>2, <2>2, <3>1, <4>4, <4>5
      <4> QED BY <1>4, <4>1, <4>6
    <3>3. CASE News(incoming', c) = {}
      <4>1. Reports + ReceiveTimeout + Gaps(MaxLost + 1) + MaxDelay = Slack /\ Gaps(MaxLost + 1) \in Nat
        BY JustEnough
      <4>2. Gaps(Chances(c)) \in Nat /\ Gaps(Chances(c)) <= Gaps(MaxLost + 1)
        <5>1. Chances(c) \in Nat /\ Chances(c) <= MaxLost + 1 /\ MaxLost + 1 \in Nat
          BY ArrivalIs, Constants
        <5> QED BY <5>1, GapsAre
      <4>3. s + (Gaps(Chances(c)) + MaxDelay - last[c]) <= Slack /\ s <= Slack
        BY <1>2, <3>1, <4>1, <4>2
      <4>4. Gaps(Chances(c))' = Gaps(Chances(c)) /\ last'[c] = last[c]
        BY <1>17 DEF Gaps, Gap, Chances, Still
      <4>5. \A k \in DOMAIN wire[c] : s <= Slack + wire[c][k].age
        <5>1. \A a \in Nat : s <= Slack + a
          BY <1>2, <4>3
        <5> QED BY <1>1, <5>1, TypesOf
      <4> QED BY <1>5, <1>17, <3>3, <4>3, <4>4, <4>5 DEF Still
    <3> QED BY <3>2, <3>3
  <2>6. CASE incoming[1].from # c
    <3>1. spawned'[c] = spawned[c] /\ 1 \notin News(incoming, c)
      BY <1>1, <2>1, <2>6, HandleEffect DEF News, From
    <3> QED BY <2>4, <3>1
  <2>7. CASE incoming[1].from = c
    <3>1. incoming[1].type \in LifecycleType /\ 1 \in From(incoming, c)
      <4>1. 1 \in From(incoming, c)
        BY <2>1, <2>7 DEF From
      <4> QED BY <1>1, <4>1, FromIs
    <3>2. CASE incoming[1].type = "exited"
      BY <1>1, <2>1, <2>7, <3>2, HandleEffect
    <3>3. CASE incoming[1].type = "errored"
      <4>1. spawned'[c] = spawned[c]
        BY <1>1, <2>1, <3>3, HandleEffect
      <4> QED BY <2>4, <3>3, <4>1 DEF News
    <3>4. CASE incoming[1].type = "started"
      <4>1. spawned[c] = Absent
        BY <1>1, <2>1, <2>7, <3>4 DEF History, StartedFirst, Fresh
      <4>2. spawned' = [spawned EXCEPT ![c] = now]
        BY <2>1, <2>7, <3>4, <4>1 DEF HandleMessage
      <4> QED BY <1>1, <2>5, <4>2 DEF TypeOK
    <3>5. CASE incoming[1].type = "pulsed"
      <4>1. spawned[c] # Absent
        BY <1>1, <2>1, <2>7, <3>5, HandleEffect
      <4>2. spawned' = [spawned EXCEPT ![c] = now]
        BY <2>1, <2>7, <3>5, <4>1 DEF HandleMessage
      <4> QED BY <1>1, <2>5, <4>2 DEF TypeOK
    <3> QED BY <3>1, <3>2, <3>3, <3>4, <3>5 DEF LifecycleType
  <2> QED BY <2>6, <2>7
<1>18. CASE Tick
  <2>1. /\ life'[c] = life[c] /\ lost'[c] = lost[c] /\ incoming' = incoming
        /\ (life[c] = "running" => last'[c] = last[c] + 1)
        /\ DOMAIN wire'[c] = DOMAIN wire[c] /\ (wire'[c] = <<>> <=> wire[c] = <<>>)
        /\ \A k \in DOMAIN wire[c] : /\ wire'[c][k].type = wire[c][k].type
                                     /\ wire'[c][k].age = wire[c][k].age + 1
        /\ spawned[c] # Absent /\ spawned[c] \in Nat /\ s <= spawned[c] + 1
    BY <1>1, <1>18, TickIs
  <2>2. CASE News(incoming, c) # {}
    <3>1. PICK j \in News(incoming, c) : spawned[c] + (Left + Rounds(j - 1)) <= Limit
      BY <1>7, <2>1, <2>2
    <3>2. Left > 0 /\ l = Left - 1
      <4>1. incoming # <<>>
        BY <3>1 DEF News, From
      <4> QED BY <1>1, <1>18, <4>1, LeftTick
    <3>3. s + (l + Rounds(j - 1)) <= Limit
      <4>1. Rounds(j - 1) \in Nat
        BY <1>3, <3>1
      <4> QED BY <1>2, <2>1, <3>1, <3>2, <4>1
    <3>4. j \in News(incoming', c)
      BY <2>1, <3>1
    <3> QED BY <1>4, <3>3, <3>4
  <2>3. CASE News(incoming, c) = {}
    <3>1. Chances(c)' = Chances(c)
      BY <2>1 DEF Chances
    <3>2. Gaps(Chances(c))' = Gaps(Chances(c))
      BY <3>1 DEF Gaps, Gap
    <3>3. life[c] = "running" =>
            s + (Gaps(Chances(c)) + MaxDelay - (last[c] + 1)) <= Slack
      <4>1. life[c] = "running" => spawned[c] + (Gaps(Chances(c)) + MaxDelay - last[c]) <= Slack
        BY <1>1, <2>1, <2>3 DEF Timely, Arrival
      <4>2. Gaps(Chances(c)) \in Nat
        BY ArrivalIs
      <4>3. \A x \in Int : spawned[c] + x <= Slack => s + (x - 1) <= Slack
        BY <1>2, <2>1
      <4>4. /\ Gaps(Chances(c)) + MaxDelay - last[c] \in Int
            /\ Gaps(Chances(c)) + MaxDelay - (last[c] + 1) = (Gaps(Chances(c)) + MaxDelay - last[c]) - 1
        BY <1>2, <4>2
      <4> QED BY <4>1, <4>3, <4>4
    <3>4. ASSUME NEW k \in DOMAIN wire[c], wire[c][k].type = "exited"
          PROVE  s <= Slack + (wire[c][k].age + 1)
      <4>1. spawned[c] <= Slack + wire[c][k].age
        BY <1>1, <2>1, <2>3, <3>4 DEF Timely
      <4>2. wire[c][k].age \in Nat
        BY <1>1, TypesOf
      <4> QED BY <1>2, <2>1, <4>1, <4>2
    <3> QED BY <1>5, <2>1, <2>3, <3>2, <3>3, <3>4
  <2> QED BY <2>2, <2>3
<1> QED
  BY <1>1, <1>9, <1>10, <1>11, <1>12, <1>13, <1>14, <1>15, <1>16, <1>17, <1>18, Kinds DEF Own

-----------------------------------------------------------------------------
(* The invariant holds at the start.                                        *)
LEMMA HeartbeatsInit == Timing /\ Init => Heartbeats
<1> SUFFICES ASSUME Timing, Init PROVE Heartbeats
  OBVIOUS
<1>1. TypeOK
  BY TypeInit
<1>2. History
  BY DEF Init, History, StartedFirst, UnbornSilent, BuriedForGood, Fresh
<1>3. Idle
  BY DEF Init, Idle
<1>4. OthersFew
  <2>1. Others = {}
    BY DEF Init, Others
  <2> QED BY <2>1, FS_EmptySet, Constants DEF OthersFew
<1>5. ASSUME NEW c \in Child PROVE ChildInv(c)
  <2>1. /\ life[c] = "unborn" /\ last[c] = 0 /\ wire[c] = <<>> /\ DOMAIN wire[c] = {}
        /\ From(incoming, c) = {} /\ Beats(incoming, c) = {} /\ spawned[c] = Absent
        /\ pc = "check" /\ dead = {} /\ buried[c] = 0
    BY DEF Init, From, Beats
  <2>2. Pipe(wire[c], incoming, c, life[c])
    BY <2>1 DEF Pipe
  <2>3. Young(c) /\ Spaced(c) /\ Once(c) /\ NowBound(c) /\ Timely(c)
    BY <2>1 DEF Young, Spaced, Once, NowBound, Timely
  <2> QED BY <2>2, <2>3 DEF ChildInv
<1> QED BY <1>1, <1>2, <1>3, <1>4, <1>5 DEF Heartbeats

(* Every step keeps the invariant.                                          *)
LEMMA HeartbeatsNext == Timing /\ Heartbeats /\ [Next]_vars => Heartbeats'
<1> SUFFICES ASSUME Timing, Heartbeats, [Next]_vars PROVE Heartbeats'
  OBVIOUS
<1>1. TypeOK' /\ History' /\ Idle' /\ OthersFew'
  BY TypeStep, HistoryStep, IdleNext, OthersFewNext DEF Heartbeats
<1>2. ASSUME NEW c \in Child PROVE ChildInv(c)'
  <2>1. Pipe(wire[c], incoming, c, life[c])'
    <3>1. Pipe(wire'[c], incoming', c, life'[c])
      BY PipeNext
    <3> QED BY <3>1 DEF Pipe, Beats, From
  <2>2. Young(c)' /\ Spaced(c)' /\ Once(c)' /\ NowBound(c)' /\ Timely(c)'
    BY <1>1, YoungNext, SpacedNext, OnceNext, NowBoundNext, TimelyNext
  <2> QED BY <2>1, <2>2 DEF ChildInv
<1> QED BY <1>1, <1>2 DEF Heartbeats

(* A child that the parent takes for dead has ended: for any number of      *)
(* children, and for all times that fit together as in Timing, no delay or  *)
(* loss of pulses and nothing the parent is busy with makes it give up a    *)
(* running child.                                                           *)
THEOREM NoFalseDeathHolds ==
    ASSUME Timing PROVE Spec => []NoFalseDeath
<1>1. Init => Heartbeats
  BY HeartbeatsInit
<1>2. Heartbeats /\ [Next]_vars => Heartbeats'
  BY HeartbeatsNext
<1>3. Heartbeats => NoFalseDeath
  BY DEF Heartbeats, TypeOK, ChildInv, Once, Alive, NoFalseDeath
<1> QED BY <1>1, <1>2, <1>3, PTL DEF Spec

(* The receivers get "exited" once at most for a child: what the child said *)
(* itself and what CheckChildren makes up exclude each other, under the     *)
(* same condition.                                                          *)
THEOREM BuriedOnceHolds ==
    ASSUME Timing PROVE Spec => []BuriedOnce
<1>1. Init => Heartbeats
  BY HeartbeatsInit
<1>2. Heartbeats /\ [Next]_vars => Heartbeats'
  BY HeartbeatsNext
<1>3. Heartbeats => BuriedOnce
  BY DEF Heartbeats, ChildInv, Once, BuriedOnce
<1> QED BY <1>1, <1>2, <1>3, PTL DEF Spec
=============================================================================
