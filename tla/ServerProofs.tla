---------------------------- MODULE ServerProofs ----------------------------
(***************************************************************************)
(* Proofs about Server, for any number of ports, processes and requests.   *)
(***************************************************************************)
EXTENDS Server, TLAPS

-----------------------------------------------------------------------------
(* The inductive invariant.                                                 *)

(* Ports are given to forked processes; registered and signalled processes  *)
(* and parents have started.                                                *)
ProcessInv ==
    /\ \A i \in Pid : status[i] # "none" => port[i] \in Port
    /\ \A i \in Pid : status[i] = "none" => port[i] = Nobody
    /\ \A p \in Port : registry[p] # Nobody => Started(registry[p])
    /\ \A i \in parents : Started(i)
    /\ SignalsAreHandled

(* What a process that got that far has sent.                               *)
Sent(m) ==
    /\ Started(m.pid)
    /\ \/ m = RegisterOf(m.pid)
       \/ m = StartOf(m.pid) /\ m.pid \in parents
       \/ m = UnregisterOf(m.pid) /\ status[m.pid] # "running"
       \/ m = StopOf(m.pid) /\ m.pid \in parents /\ status[m.pid] # "running"

(* A process ends when nothing of it is on its way, but it may have ended   *)
(* when what the server acknowledged is handled.                            *)
MailInv ==
    /\ \A m \in wire : Sent(m) /\ status[m.pid] # "exited"
    /\ \A m \in held : Sent(m) /\ held = {m}
    /\ \A k \in 1..Len(incoming) :
         Sent(incoming[k]) /\ incoming[k].pid \in heard[incoming[k].port]
    /\ \A p \in Port : \A j \in heard[p] : Started(j)

Spawned(p) == \E i \in parents : port[i] = p
UnregisterQueued(p, k) ==
    \E l \in 1..Len(incoming) :
        l > k /\ incoming[l].type = "unregister" /\ incoming[l].port = p

(* The filter is what keeps the registry from filling with ghosts: where    *)
(* nobody spawns, an entry stands, and a registration is queued, while 0 is *)
(* the last number accepted from its port or an "unregister" comes after    *)
(* it; and an "unregister" that was sent and has a higher number than the   *)
(* last one accepted is still to be filtered or was given up.               *)
FilterInv ==
    /\ \A p \in Port : registry[p] # Nobody =>
         inSeq[p] = 0 \/ Spawned(p) \/ UnregisterQueued(p, 0)
    /\ \A k \in 1..Len(incoming) : incoming[k].type = "register" =>
         \/ inSeq[incoming[k].port] = 0
         \/ Spawned(incoming[k].port)
         \/ UnregisterQueued(incoming[k].port, k)
    /\ \A i \in Pid :
         status[i] \in {"leaving", "exited"} /\ inSeq[port[i]] < UnregisterOf(i).seq =>
             UnregisterOf(i) \in wire \cup held \cup lost

(* The registration of a machine that spawns nothing is on its way, was     *)
(* given up, or stands, while nothing of another process of its port was    *)
(* accepted; and there is only one copy of it to accept.                    *)
Standing(i) ==
    /\ RegisterOf(i) \in held => RegisterOf(i) \notin wire
    /\ i \in heard[port[i]] => RegisterOf(i) \notin wire \cup held
    /\ heard[port[i]] \subseteq {i} =>
         \/ RegisterOf(i) \in wire \cup held \cup lost
         \/ \E k \in 1..Len(incoming) : incoming[k] = RegisterOf(i)
         \/ registry[port[i]] = i
         \/ i \in signalled

HeardInv ==
    /\ \A p \in Port : heard[p] = {} => inSeq[p] = -1
    /\ \A p \in Port : registry[p] # Nobody => registry[p] \in heard[p]
    /\ \A i \in Pid \ parents : status[i] = "running" => Standing(i)

ServerInv == TypeOK /\ ProcessInv /\ MailInv /\ FilterInv /\ HeardInv

(* Processes are numbered from 1, so Nobody is none of them.                *)
LEMMA NobodyIsNoProcess == Nobody \notin Pid /\ Nobody \notin Port
BY ServerAssumption DEF Nobody, Pid

(* The messages of a process that has a port are messages.                  *)
LEMMA MessageType ==
    ASSUME NEW i \in Pid, port[i] \in Port
    PROVE  /\ RegisterOf(i) \in Message /\ UnregisterOf(i) \in Message
           /\ StartOf(i) \in Message /\ StopOf(i) \in Message
BY DEF RegisterOf, UnregisterOf, StartOf, StopOf, Numbered, Message

(* The messages differ, and each says who sent it, from where.              *)
LEMMA MessageFields ==
    ASSUME NEW i \in Pid
    PROVE  /\ RegisterOf(i).pid = i /\ RegisterOf(i).port = port[i]
           /\ RegisterOf(i).type = "register" /\ RegisterOf(i).seq = 0
           /\ StartOf(i).pid = i /\ StartOf(i).port = port[i]
           /\ StartOf(i).type = "start" /\ StartOf(i).seq = 1
           /\ UnregisterOf(i).pid = i /\ UnregisterOf(i).port = port[i]
           /\ UnregisterOf(i).type = "unregister"
           /\ UnregisterOf(i).seq = IF i \in parents THEN 2 ELSE 1
           /\ StopOf(i).pid = i /\ StopOf(i).port = port[i]
           /\ StopOf(i).type = "stop" /\ StopOf(i).seq = 3
BY DEF RegisterOf, UnregisterOf, StartOf, StopOf, Numbered

(* The queue when its head is taken, and when a message is added.           *)
LEMMA TakeFromQueue ==
    ASSUME TypeOK, incoming # <<>>, incoming' = Tail(incoming)
    PROVE  /\ incoming' \in Seq(Message)
           /\ Len(incoming) \in Nat /\ Len(incoming) > 0
           /\ Len(incoming') = Len(incoming) - 1
           /\ \A k \in 1..Len(incoming') : k + 1 \in 1..Len(incoming)
           /\ \A k \in 1..Len(incoming') : incoming'[k] = incoming[k + 1]
           /\ Head(incoming) = incoming[1] /\ Head(incoming) \in Message
BY DEF TypeOK

LEMMA AddToQueue ==
    ASSUME TypeOK, NEW m \in Message, incoming' = Append(incoming, m)
    PROVE  /\ incoming' \in Seq(Message)
           /\ Len(incoming) \in Nat
           /\ Len(incoming') = Len(incoming) + 1
           /\ \A k \in 1..Len(incoming) : incoming'[k] = incoming[k]
           /\ incoming'[Len(incoming) + 1] = m
BY DEF TypeOK

(* The first state.                                                         *)
LEMMA InitServerInv == Init => ServerInv
<1> SUFFICES ASSUME Init PROVE ServerInv
  OBVIOUS
<1>1. TypeOK
  BY ServerAssumption DEF Init, TypeOK, Status
<1>2. ProcessInv /\ MailInv /\ FilterInv /\ HeardInv
  BY NobodyIsNoProcess DEF Init, ProcessInv, MailInv, FilterInv, HeardInv,
     SignalsAreHandled, Started
<1> QED
  BY <1>1, <1>2 DEF ServerInv

-----------------------------------------------------------------------------
(* What stopping and starting do to the registry and the processes.         *)

(* Entries only go, and whose entry goes is signalled.                      *)
RegistryShrinks ==
    /\ registry' \in [Port -> Pid \cup {Nobody}]
    /\ \A p \in Port : \/ registry'[p] = registry[p]
                       \/ registry'[p] = Nobody /\ registry[p] \in signalled'
                       \/ registry'[p] = Nobody /\ registry[p] = Nobody
    /\ signalled \subseteq signalled' /\ signalled' \subseteq Pid
    /\ \A i \in signalled' \ signalled : \E p \in Port : registry[p] = i

(* Processes come, and those there are stay as they are.                    *)
ProcessesGrow ==
    /\ serving' \in BOOLEAN
    /\ parents' = parents
    /\ status' \in [Pid -> Status] /\ port' \in [Pid -> Port \cup {Nobody}]
    /\ \A i \in Pid : \/ status'[i] = status[i] /\ port'[i] = port[i]
                      \/ status[i] = "none" /\ status'[i] = "forked" /\ port'[i] \in Port

LEMMA StopEffect ==
    ASSUME TypeOK, NEW p \in Port, Stop(p)
    PROVE  RegistryShrinks
BY DEF TypeOK, Stop, RegistryShrinks

LEMMA ForkEffect ==
    ASSUME TypeOK, NEW p \in Port, Fork(p)
    PROVE  ProcessesGrow
<1>1. CASE ForkFails
  BY <1>1 DEF TypeOK, ForkFails, processVars, ProcessesGrow
<1>2. ASSUME NEW i \in Pid, Forked(i, p) PROVE ProcessesGrow
  BY <1>2 DEF TypeOK, Forked, Status, ProcessesGrow
<1> QED
  BY <1>1, <1>2 DEF Fork

LEMMA StartEffect ==
    ASSUME TypeOK, StartSomewhere
    PROVE  RegistryShrinks /\ ProcessesGrow
<1>1. ASSUME NEW p \in Port, StartAt(p) PROVE RegistryShrinks /\ ProcessesGrow
  BY <1>1, StopEffect, ForkEffect DEF StartAt
<1>2. ASSUME NEW p \in Port, StartAnywhere(p) PROVE RegistryShrinks /\ ProcessesGrow
  <2>1. RegistryShrinks
    BY <1>2 DEF StartAnywhere, TypeOK, RegistryShrinks
  <2> QED
    BY <1>2, <2>1, ForkEffect DEF StartAnywhere
<1> QED
  BY <1>1, <1>2 DEF StartSomewhere

-----------------------------------------------------------------------------
(* Every step.                                                              *)

(* The server takes a message from its queue.                               *)
Taken == incoming # <<>> /\ incoming' = Tail(incoming)

(* A start or a stop, asked for by a client or by a machine.                *)
Request ==
    /\ RegistryShrinks /\ ProcessesGrow
    /\ UNCHANGED <<wire, held, inSeq, heard, lost>>
    /\ \/ incoming' = incoming
       \/ Taken /\ Head(incoming).type \in {"start", "stop"}

Registers ==
    /\ Taken /\ Head(incoming).type = "register" /\ Register(Head(incoming))
    /\ UNCHANGED <<serving, processVars, signalled, wire, held, inSeq, heard, lost>>

Unregisters ==
    /\ Taken /\ Head(incoming).type = "unregister" /\ Unregister(Head(incoming))
    /\ UNCHANGED <<serving, processVars, signalled, wire, held, inSeq, heard, lost>>

(* What the server's side can do.                                           *)
LEMMA ServerSteps ==
    ASSUME TypeOK, ClientStarts \/ ClientStops \/ Serve
    PROVE  Request \/ Registers \/ Unregisters
<1>1. CASE ClientStarts
  BY <1>1, StartEffect DEF ClientStarts, Request, mailVars, queueVars
<1>2. ASSUME UNCHANGED <<serving, processVars>> PROVE ProcessesGrow
  BY <1>2 DEF processVars, ProcessesGrow, TypeOK
<1>3. CASE ClientStops
  BY <1>2, <1>3, StopEffect DEF ClientStops, Request, mailVars, queueVars
<1>4. CASE Serve
  <2>1. /\ Taken /\ Handle(Head(incoming))
        /\ UNCHANGED <<wire, held, inSeq, heard, lost>>
    BY <1>4 DEF Serve, Taken
  <2>2. CASE Head(incoming).type = "start" /\ StartSomewhere
    BY <2>1, <2>2, StartEffect DEF Request
  <2>3. CASE /\ Head(incoming).type = "stop" /\ \E p \in Port : Stop(p)
             /\ UNCHANGED <<serving, processVars>>
    BY <1>2, <2>1, <2>3, StopEffect DEF Request
  <2> QED
    BY <2>1, <2>2, <2>3 DEF Handle, Registers, Unregisters
<1> QED
  BY <1>1, <1>3, <1>4

(* What a process has done stays done.                                      *)
Advance ==
    /\ parents \subseteq parents'
    /\ \A i \in Pid : Started(i) => Started(i)' /\ port'[i] = port[i]
    /\ \A i \in Pid : Started(i) /\ status[i] # "running" =>
         status'[i] # "running" /\ (i \in parents' => i \in parents)

LEMMA EveryStepAdvances == TypeOK /\ ProcessInv /\ [Next]_vars => Advance
<1> SUFFICES ASSUME TypeOK, ProcessInv, [Next]_vars PROVE Advance
  OBVIOUS
<1>1. CASE Request
  BY <1>1 DEF Request, ProcessesGrow, Advance, Started
<1>2. CASE UNCHANGED processVars
  BY <1>2 DEF processVars, Advance, Started
<1>3. ASSUME NEW i \in Pid, MachineStarts(i) PROVE Advance
  BY <1>3 DEF MachineStarts, TypeOK, Advance, Started
<1>4. ASSUME NEW i \in Pid, MachineSpawns(i) PROVE Advance
  BY <1>4 DEF MachineSpawns, TypeOK, Advance, Started
<1>5. ASSUME NEW i \in Pid, MachineLeaves(i) PROVE Advance
  BY <1>5 DEF MachineLeaves, TypeOK, Advance, Started
<1>6. ASSUME NEW i \in Pid, MachineEnds(i) PROVE Advance
  BY <1>6 DEF MachineEnds, TypeOK, Advance, Started
<1>7. ASSUME NEW i \in Pid, MachineCrashes(i) PROVE Advance
  BY <1>7 DEF MachineCrashes, TypeOK, Advance, Started
<1> QED
  BY <1>1, <1>2, <1>3, <1>4, <1>5, <1>6, <1>7, ServerSteps DEF Next, vars,
     Registers, Unregisters, ReceiveData, GiveUp, FilterData

LEMMA SentStays ==
    ASSUME Advance, NEW m \in Message, Sent(m)
    PROVE  Sent(m)'
<1>1. m.pid \in Pid
  BY DEF Message
<1>2. /\ RegisterOf(m.pid)' = RegisterOf(m.pid) /\ StartOf(m.pid)' = StartOf(m.pid)
      /\ StopOf(m.pid)' = StopOf(m.pid)
  BY <1>1 DEF Sent, Advance, RegisterOf, StartOf, StopOf, Numbered
<1>3. status[m.pid] # "running" =>
        UnregisterOf(m.pid)' = UnregisterOf(m.pid) /\ status'[m.pid] # "running"
  BY <1>1 DEF Sent, Advance, UnregisterOf, Numbered
<1> QED
  BY <1>1, <1>2, <1>3 DEF Sent, Advance

(* The processes that are there keep what the invariant says of them.       *)
LEMMA Growth ==
    ASSUME TypeOK, ProcessInv, RegistryShrinks, ProcessesGrow
    PROVE  /\ ProcessInv'
           /\ \A i \in Pid : status'[i] \in {"leaving", "exited"} =>
                status'[i] = status[i] /\ port'[i] = port[i]
           /\ \A p \in Port : (\E i \in parents : port[i] = p) =>
                              \E i \in parents' : port'[i] = p
<1>1. \A i \in Pid : Started(i) => status'[i] = status[i] /\ port'[i] = port[i]
  BY DEF ProcessesGrow, Started
<1>2. \A i \in Pid : Started(i) => Started(i)'
  BY <1>1 DEF Started
<1>3. /\ \A i \in Pid : status'[i] # "none" => port'[i] \in Port
      /\ \A i \in Pid : status'[i] = "none" => port'[i] = Nobody
  BY DEF ProcessInv, ProcessesGrow
<1>4. \A p \in Port : registry'[p] # Nobody => Started(registry[p])'
  <2> SUFFICES ASSUME NEW p \in Port, registry'[p] # Nobody
               PROVE  Started(registry[p])'
    OBVIOUS
  <2>1. registry'[p] = registry[p] /\ registry[p] \in Pid
    BY DEF RegistryShrinks, TypeOK
  <2>2. Started(registry[p])
    BY <2>1 DEF ProcessInv
  <2> QED
    BY <1>1, <2>1, <2>2 DEF Started
<1>5. \A i \in parents' : i \in Pid /\ Started(i)
  BY ServerAssumption DEF TypeOK, ProcessesGrow, ProcessInv
<1>6. \A i \in signalled' : i \in Pid /\ Started(i)
  <2> SUFFICES ASSUME NEW i \in signalled' PROVE i \in Pid /\ Started(i)
    OBVIOUS
  <2>1. CASE i \in signalled
    BY <2>1 DEF TypeOK, ProcessInv, SignalsAreHandled
  <2>2. CASE i \notin signalled
    BY <2>2, NobodyIsNoProcess DEF RegistryShrinks, ProcessInv
  <2> QED
    BY <2>1, <2>2
<1>7. ProcessInv'
  BY <1>2, <1>3, <1>4, <1>5, <1>6 DEF ProcessInv, SignalsAreHandled
<1>8. \A i \in Pid : status'[i] \in {"leaving", "exited"} =>
        status'[i] = status[i] /\ port'[i] = port[i]
  BY DEF ProcessesGrow
<1>9. \A p \in Port : (\E i \in parents : port[i] = p) =>
                        \E i \in parents' : port'[i] = p
  BY <1>1, <1>5 DEF ProcessesGrow
<1> QED
  BY <1>7, <1>8, <1>9

(* TypeOK: the registry is filled from messages that carry their sender's   *)
(* port, and a port is never taken from a process.                          *)
LEMMA TypeStep == ServerInv /\ [Next]_vars => TypeOK'
<1> SUFFICES ASSUME ServerInv, [Next]_vars PROVE TypeOK'
  OBVIOUS
<1> USE DEF ServerInv
<1>1. CASE Request
  <2>1. incoming' \in Seq(Message)
    BY <1>1, TakeFromQueue DEF Request, Taken, TypeOK
  <2> QED
    BY <1>1, <2>1, NobodyIsNoProcess DEF Request, RegistryShrinks,
       ProcessesGrow, TypeOK, ProcessInv
<1>2. CASE Registers
  <2> DEFINE m == Head(incoming)
  <2>1. /\ incoming' \in Seq(Message) /\ m \in Message /\ m.pid \in Pid
        /\ m.port \in Port /\ m.port = port[m.pid]
    BY <1>2, TakeFromQueue, MessageFields DEF Registers, Taken, MailInv,
       Sent, ProcessInv, Started, Message
  <2>2. registry' = [registry EXCEPT ![m.port] = IF @ = Nobody THEN m.pid ELSE @]
    BY <1>2 DEF Registers, Register
  <2> HIDE DEF m
  <2>3. registry' \in [Port -> Pid \cup {Nobody}]
    BY <2>1, <2>2 DEF TypeOK
  <2>4. \A p \in Port : registry'[p] # Nobody => port[registry'[p]] = p
    BY <2>1, <2>2 DEF TypeOK
  <2> QED
    BY <1>2, <2>1, <2>3, <2>4 DEF Registers, processVars, TypeOK
<1>3. CASE Unregisters
  BY <1>3, TakeFromQueue DEF Unregisters, Taken, Unregister, processVars, TypeOK
<1>4. ASSUME NEW m \in wire, ReceiveData(m) PROVE TypeOK'
  BY <1>4 DEF ReceiveData, processVars, TypeOK
<1>5. ASSUME NEW i \in Pid, MachineStarts(i) PROVE TypeOK'
  BY <1>5, MessageType DEF MachineStarts, TypeOK, ProcessInv, Status, queueVars
<1>6. ASSUME NEW i \in Pid, MachineSpawns(i) PROVE TypeOK'
  BY <1>6, MessageType DEF MachineSpawns, TypeOK, ProcessInv, queueVars
<1>7. ASSUME NEW i \in Pid, MachineLeaves(i) PROVE TypeOK'
  BY <1>7, MessageType DEF MachineLeaves, TypeOK, ProcessInv, Status, queueVars
<1>8. ASSUME NEW i \in Pid, MachineEnds(i) PROVE TypeOK'
  BY <1>8 DEF MachineEnds, mailVars, queueVars, TypeOK, Status
<1>9. ASSUME NEW i \in Pid, MachineCrashes(i) PROVE TypeOK'
  BY <1>9 DEF MachineCrashes, mailVars, queueVars, TypeOK, Status
<1>10. CASE UNCHANGED vars
  BY <1>10 DEF vars, processVars, mailVars, queueVars, TypeOK
<1>11. ASSUME NEW m \in wire, GiveUp(m) PROVE TypeOK'
  BY <1>11 DEF GiveUp, processVars, queueVars, TypeOK
<1>12. ASSUME NEW m \in held, FilterData(m) PROVE TypeOK'
  <2>1. m \in Message /\ m.pid \in Pid /\ m.port \in Port
    BY MessageFields DEF MailInv, Sent, TypeOK, ProcessInv, Started, Message
  <2>2. CASE Duplicate(m)
    BY <1>12, <2>2 DEF FilterData, processVars, TypeOK
  <2>3. CASE ~Duplicate(m)
    <3>1. incoming' \in Seq(Message)
      BY <1>12, <2>1, <2>3, AddToQueue DEF FilterData
    <3>2. inSeq' \in [Port -> -1..3] /\ heard' \in [Port -> SUBSET Pid]
      BY <1>12, <2>1, <2>3 DEF FilterData, TypeOK, Message
    <3> QED
      BY <1>12, <3>1, <3>2 DEF FilterData, processVars, TypeOK
  <2> QED
    BY <2>2, <2>3
<1> QED
  BY <1>1, <1>2, <1>3, <1>4, <1>5, <1>6, <1>7, <1>8, <1>9, <1>10, <1>11, <1>12,
     ServerSteps DEF Next

(* ProcessInv: nobody is registered before its first message is sent.       *)
LEMMA ProcessStep == ServerInv /\ [Next]_vars => ProcessInv'
<1> SUFFICES ASSUME ServerInv, [Next]_vars PROVE ProcessInv'
  OBVIOUS
<1> USE DEF ServerInv
<1>1. CASE Request
  BY <1>1, Growth DEF Request
<1>2. CASE Registers
  <2>1. Head(incoming) \in Message /\ Started(Head(incoming).pid)
    BY <1>2, TakeFromQueue DEF Registers, Taken, MailInv, Sent
  <2> QED
    BY <1>2, <2>1 DEF Registers, Register, processVars, TypeOK, ProcessInv,
       Started, SignalsAreHandled
<1>3. CASE Unregisters
  BY <1>3 DEF Unregisters, Unregister, processVars, TypeOK, ProcessInv,
     Started, SignalsAreHandled
<1>4. ASSUME NEW m \in wire, ReceiveData(m) PROVE ProcessInv'
  BY <1>4 DEF ReceiveData, processVars, ProcessInv, Started, SignalsAreHandled
<1>5. ASSUME NEW i \in Pid, MachineStarts(i) PROVE ProcessInv'
  BY <1>5, ServerAssumption DEF MachineStarts, TypeOK, ProcessInv, Started,
     SignalsAreHandled
<1>6. ASSUME NEW i \in Pid, MachineSpawns(i) PROVE ProcessInv'
  BY <1>6, ServerAssumption DEF MachineSpawns, TypeOK, ProcessInv, Started,
     SignalsAreHandled
<1>7. ASSUME NEW i \in Pid, MachineLeaves(i) PROVE ProcessInv'
  BY <1>7, ServerAssumption DEF MachineLeaves, TypeOK, ProcessInv, Started,
     SignalsAreHandled
<1>8. ASSUME NEW i \in Pid, MachineEnds(i) PROVE ProcessInv'
  BY <1>8, ServerAssumption DEF MachineEnds, TypeOK, ProcessInv, Started,
     SignalsAreHandled
<1>9. ASSUME NEW i \in Pid, MachineCrashes(i) PROVE ProcessInv'
  BY <1>9, ServerAssumption DEF MachineCrashes, TypeOK, Alive, ProcessInv,
     Started, SignalsAreHandled
<1>10. CASE UNCHANGED vars
  BY <1>10 DEF vars, processVars, ProcessInv, Started, SignalsAreHandled
<1>11. ASSUME NEW m \in wire, GiveUp(m) PROVE ProcessInv'
  BY <1>11 DEF GiveUp, processVars, ProcessInv, Started, SignalsAreHandled
<1>12. ASSUME NEW m \in held, FilterData(m) PROVE ProcessInv'
  BY <1>12 DEF FilterData, processVars, ProcessInv, Started, SignalsAreHandled
<1> QED
  BY <1>1, <1>2, <1>3, <1>4, <1>5, <1>6, <1>7, <1>8, <1>9, <1>10, <1>11, <1>12,
     ServerSteps DEF Next

(* MailInv: a process ends when nothing of it is on its way.                *)
LEMMA MailStep == ServerInv /\ [Next]_vars => MailInv'
<1> SUFFICES ASSUME ServerInv, [Next]_vars PROVE MailInv'
  OBVIOUS
<1> USE DEF ServerInv
<1> Advance
  BY EveryStepAdvances
<1>a. \A m \in Message : Sent(m) => Sent(m)'
  BY SentStays
<1>b. \A p \in Port : \A j \in heard[p] : Started(j)'
  BY DEF Advance, MailInv, TypeOK
<1>c. \A k \in 1..Len(incoming) : incoming[k] \in Message
  BY DEF TypeOK
<1>d. ASSUME UNCHANGED <<incoming, heard>>
      PROVE  /\ \A k \in 1..Len(incoming') :
                  Sent(incoming[k])' /\ incoming'[k].pid \in heard'[incoming'[k].port]
             /\ \A p \in Port : \A j \in heard'[p] : Started(j)'
  BY <1>a, <1>b, <1>c, <1>d DEF MailInv
<1>e. ASSUME Taken, UNCHANGED heard
      PROVE  \A k \in 1..Len(incoming') :
               Sent(incoming[k])' /\ incoming'[k].pid \in heard'[incoming'[k].port]
  <2> SUFFICES ASSUME NEW k \in 1..Len(incoming')
               PROVE  Sent(incoming[k])' /\ incoming'[k].pid \in heard'[incoming'[k].port]
    OBVIOUS
  <2>1. incoming'[k] = incoming[k + 1] /\ k + 1 \in 1..Len(incoming)
    BY <1>e, TakeFromQueue DEF Taken
  <2>2. /\ incoming[k + 1] \in Message /\ Sent(incoming[k + 1])
        /\ incoming[k + 1].pid \in heard[incoming[k + 1].port]
    BY <1>c, <2>1 DEF MailInv
  <2>3. Sent(incoming[k])'
    BY <1>a, <2>1, <2>2 DEF Sent, Started, RegisterOf, StartOf,
       UnregisterOf, StopOf, Numbered
  <2> QED
    BY <1>e, <2>1, <2>2, <2>3
<1>f. \A m \in held : Sent(m)' /\ held = {m}
  BY <1>a DEF MailInv, TypeOK
<1>1. CASE Request
  <2>1. \A m \in wire : status'[m.pid] # "exited"
    BY <1>1 DEF Request, ProcessesGrow, MailInv, TypeOK, Message
  <2> QED
    BY <1>1, <1>a, <1>b, <1>d, <1>e, <1>f, <2>1 DEF Request, MailInv, TypeOK
<1>2. CASE Registers
  BY <1>2, <1>a, <1>b, <1>e, <1>f DEF Registers, processVars, MailInv, TypeOK
<1>3. CASE Unregisters
  BY <1>3, <1>a, <1>b, <1>e, <1>f DEF Unregisters, processVars, MailInv, TypeOK
<1>4. ASSUME NEW m \in wire, ReceiveData(m) PROVE MailInv'
  BY <1>4, <1>a, <1>d DEF ReceiveData, processVars, MailInv, TypeOK
<1>5. ASSUME NEW i \in Pid, MachineStarts(i) PROVE MailInv'
  <2>1. RegisterOf(i)' = RegisterOf(i) /\ Started(i)' /\ status'[i] = "running"
    BY <1>5 DEF MachineStarts, RegisterOf, Numbered, Started, TypeOK
  <2>2. Sent(RegisterOf(i))' /\ RegisterOf(i).pid = i
    BY <2>1, MessageFields DEF Sent, Started, RegisterOf, Numbered
  <2>3. \A m \in wire : status'[m.pid] # "exited"
    BY <1>5 DEF MachineStarts, MailInv, TypeOK
  <2> QED
    BY <1>5, <1>a, <1>d, <1>f, <2>1, <2>2, <2>3
       DEF MachineStarts, queueVars, MailInv, TypeOK
<1>6. ASSUME NEW i \in Pid, MachineSpawns(i) PROVE MailInv'
  <2>1. StartOf(i)' = StartOf(i) /\ Started(i)' /\ i \in parents'
    BY <1>6 DEF MachineSpawns, StartOf, Numbered, Started
  <2>2. Sent(StartOf(i))' /\ StartOf(i).pid = i
    BY <2>1, MessageFields DEF Sent, Started, StartOf, Numbered
  <2>3. \A m \in wire' : m \in wire \/ m = StartOf(i)
    BY <1>6 DEF MachineSpawns
  <2>4. status' = status /\ status[i] # "exited"
    BY <1>6 DEF MachineSpawns
  <2>5. \A m \in wire' : Sent(m)' /\ status'[m.pid] # "exited"
    BY <1>a, <2>1, <2>2, <2>3, <2>4 DEF MailInv, TypeOK, Sent
  <2> QED
    BY <1>6, <1>d, <1>f, <2>5 DEF MachineSpawns, queueVars, MailInv
<1>7. ASSUME NEW i \in Pid, MachineLeaves(i) PROVE MailInv'
  <2>1. /\ UnregisterOf(i)' = UnregisterOf(i) /\ StopOf(i)' = StopOf(i)
        /\ Started(i)' /\ status'[i] = "leaving" /\ parents' = parents
    BY <1>7 DEF MachineLeaves, UnregisterOf, StopOf, Numbered, Started, TypeOK
  <2>2. Sent(UnregisterOf(i))' /\ UnregisterOf(i).pid = i
    BY <2>1, MessageFields DEF Sent, Started, UnregisterOf, Numbered
  <2>3. i \in parents => Sent(StopOf(i))' /\ StopOf(i).pid = i
    BY <2>1, MessageFields DEF Sent, Started, StopOf, Numbered
  <2>4. \A m \in wire : status'[m.pid] # "exited"
    BY <1>7 DEF MachineLeaves, MailInv, TypeOK
  <2>5. \A m \in wire' : \/ m \in wire
                         \/ m = UnregisterOf(i)
                         \/ i \in parents /\ m = StopOf(i)
    BY <1>7 DEF MachineLeaves
  <2> QED
    BY <1>7, <1>a, <1>d, <1>f, <2>1, <2>2, <2>3, <2>4, <2>5
       DEF MachineLeaves, queueVars, MailInv, TypeOK
<1>8. ASSUME NEW i \in Pid, MachineEnds(i) PROVE MailInv'
  BY <1>8, <1>a, <1>d, <1>f DEF MachineEnds, mailVars, queueVars, MailInv, TypeOK
<1>9. ASSUME NEW i \in Pid, MachineCrashes(i) PROVE MailInv'
  BY <1>9, <1>a, <1>d, <1>f DEF MachineCrashes, mailVars, queueVars, MailInv, TypeOK
<1>10. CASE UNCHANGED vars
  BY <1>10, <1>a, <1>d, <1>f DEF vars, processVars, mailVars, queueVars, MailInv, TypeOK
<1>11. ASSUME NEW m \in wire, GiveUp(m) PROVE MailInv'
  BY <1>11, <1>a, <1>d, <1>f DEF GiveUp, processVars, queueVars, MailInv, TypeOK
<1>12. ASSUME NEW m \in held, FilterData(m) PROVE MailInv'
  <2>1. /\ \A n \in wire : Sent(n)' /\ status'[n.pid] # "exited"
        /\ held' = {} /\ wire' = wire
    BY <1>12, <1>a DEF FilterData, processVars, MailInv, TypeOK
  <2>2. CASE Duplicate(m)
    BY <1>12, <1>d, <2>1, <2>2 DEF FilterData, MailInv
  <2>3. CASE ~Duplicate(m)
    <3>1. /\ m \in Message /\ m.pid \in Pid /\ m.port \in Port /\ Sent(m)'
          /\ Started(m.pid)'
      BY <1>a, MessageFields DEF MailInv, Sent, TypeOK, ProcessInv, Started,
         Message, Advance
    <3>2. /\ incoming' = Append(incoming, m)
          /\ heard' = [heard EXCEPT ![m.port] = @ \cup {m.pid}]
      BY <1>12, <2>3 DEF FilterData
    <3>3. \A p \in Port : heard[p] \subseteq heard'[p]
      BY <3>2 DEF TypeOK
    <3>4. \A k \in 1..Len(incoming') :
            Sent(incoming[k])' /\ incoming'[k].pid \in heard'[incoming'[k].port]
      <4> SUFFICES ASSUME NEW k \in 1..Len(incoming')
                   PROVE  Sent(incoming[k])' /\ incoming'[k].pid \in heard'[incoming'[k].port]
        OBVIOUS
      <4>1. CASE k \in 1..Len(incoming)
        <5>1. incoming'[k] = incoming[k] /\ incoming[k] \in Message
          BY <1>c, <3>1, <3>2, <4>1, AddToQueue
        <5>2. Sent(incoming[k]) /\ incoming[k].pid \in heard[incoming[k].port]
          BY <4>1 DEF MailInv
        <5>3. incoming[k].port \in Port
          BY <5>1, <5>2, MessageFields DEF Sent, ProcessInv, Started, Message
        <5>4. Sent(incoming[k])'
          BY <1>a, <5>1, <5>2 DEF Sent, Started, RegisterOf, StartOf,
             UnregisterOf, StopOf, Numbered
        <5> QED
          BY <3>3, <5>1, <5>2, <5>3, <5>4
      <4>2. CASE k = Len(incoming) + 1
        <5>1. incoming'[k] = m
          BY <3>1, <3>2, <4>2, AddToQueue
        <5>2. Sent(incoming[k])'
          BY <3>1, <5>1 DEF Sent, Started, RegisterOf, StartOf,
             UnregisterOf, StopOf, Numbered
        <5> QED
          BY <3>1, <3>2, <5>1, <5>2 DEF TypeOK
      <4> QED
        BY <3>1, <3>2, <4>1, <4>2, AddToQueue
    <3>5. \A p \in Port : \A j \in heard'[p] : Started(j)'
      BY <1>b, <3>1, <3>2 DEF TypeOK
    <3> QED
      BY <2>1, <3>4, <3>5 DEF MailInv
  <2> QED
    BY <2>2, <2>3
<1> QED
  BY <1>1, <1>2, <1>3, <1>4, <1>5, <1>6, <1>7, <1>8, <1>9, <1>10, <1>11, <1>12,
     ServerSteps DEF Next

(* What is queued behind the head stays queued.                             *)
LEMMA QueuedStays ==
    ASSUME TypeOK, Taken, NEW p \in Port
    PROVE  /\ \A k \in Nat : UnregisterQueued(p, k + 1) => UnregisterQueued(p, k)'
           /\ \/ Head(incoming).type = "unregister" /\ Head(incoming).port = p
              \/ UnregisterQueued(p, 0) => UnregisterQueued(p, 0)'
<1>1. /\ Len(incoming) \in Nat /\ Len(incoming) > 0
      /\ Len(incoming') = Len(incoming) - 1 /\ Head(incoming) = incoming[1]
      /\ \A k \in 1..Len(incoming') : incoming'[k] = incoming[k + 1]
  BY TakeFromQueue DEF Taken
<1>2. ASSUME NEW k \in Nat, UnregisterQueued(p, k + 1) PROVE UnregisterQueued(p, k)'
  <2>1. PICK l \in 1..Len(incoming) :
           l > k + 1 /\ incoming[l].type = "unregister" /\ incoming[l].port = p
    BY <1>2 DEF UnregisterQueued
  <2>2. l - 1 \in 1..Len(incoming') /\ l - 1 > k /\ incoming'[l - 1] = incoming[l]
    BY <1>1, <2>1
  <2> QED
    BY <2>1, <2>2 DEF UnregisterQueued
<1>3. ASSUME UnregisterQueued(p, 0)
      PROVE  \/ Head(incoming).type = "unregister" /\ Head(incoming).port = p
             \/ UnregisterQueued(p, 0 + 1)
  BY <1>1, <1>3 DEF UnregisterQueued
<1>4. 0 \in Nat /\ (UnregisterQueued(p, 0 + 1) => UnregisterQueued(p, 0)')
  BY <1>2
<1> QED
  BY <1>2, <1>3, <1>4

(* FilterInv: after an "unregister" no registration is accepted.             *)
LEMMA FilterStep == ServerInv /\ [Next]_vars => FilterInv'
<1> SUFFICES ASSUME ServerInv, [Next]_vars PROVE FilterInv'
  OBVIOUS
<1> USE DEF ServerInv
<1> Advance
  BY EveryStepAdvances
<1>a. \A p \in Port : Spawned(p) => Spawned(p)'
  BY ServerAssumption DEF Spawned, Advance, ProcessInv, TypeOK
<1>b. \A k \in 1..Len(incoming) : incoming[k] \in Message /\ incoming[k].port \in Port
  <2>1. \A k \in 1..Len(incoming) : incoming[k] \in Message
    BY DEF TypeOK
  <2>2. \A m \in Message : m.port \in Port
    BY DEF Message
  <2> QED
    BY <2>1, <2>2
<1>c. \A i \in Pid : status[i] \in {"leaving", "exited"} =>
        /\ UnregisterOf(i)' = UnregisterOf(i) /\ UnregisterOf(i).seq \in 0..3
        /\ port'[i] = port[i] /\ port[i] \in Port
        /\ UnregisterOf(i).port = port[i]
  BY MessageFields DEF Advance, Started, UnregisterOf, Numbered, ProcessInv
<1> DEFINE Entries == \A p \in Port : registry[p] # Nobody =>
                        inSeq[p] = 0 \/ Spawned(p) \/ UnregisterQueued(p, 0)
           Requests == \A k \in 1..Len(incoming) : incoming[k].type = "register" =>
                         \/ inSeq[incoming[k].port] = 0
                         \/ Spawned(incoming[k].port)
                         \/ UnregisterQueued(incoming[k].port, k)
           Leavers == \A i \in Pid :
                        status[i] \in {"leaving", "exited"}
                        /\ inSeq[port[i]] < UnregisterOf(i).seq =>
                          UnregisterOf(i) \in wire \cup held \cup lost
<1>d. ASSUME UNCHANGED inSeq, wire \cup held \cup lost \subseteq (wire \cup held \cup lost)',
             \A i \in Pid : status'[i] \in {"leaving", "exited"} =>
                              status[i] \in {"leaving", "exited"}
      PROVE  Leavers'
  BY <1>c, <1>d DEF FilterInv
<1>e. ASSUME UNCHANGED <<inSeq, incoming>>,
             \A p \in Port : registry'[p] # Nobody => registry'[p] = registry[p]
      PROVE  Entries' /\ Requests'
  <2>1. \A p \in Port, k \in Nat : UnregisterQueued(p, k) => UnregisterQueued(p, k)'
    BY <1>e DEF UnregisterQueued
  <2>2. Entries'
    BY <1>a, <1>e, <2>1 DEF FilterInv
  <2>3. Requests'
    BY <1>a, <1>b, <1>e, <2>1 DEF FilterInv, Spawned, UnregisterQueued
  <2> QED
    BY <2>2, <2>3
<1>f. ASSUME Taken, UNCHANGED inSeq
      PROVE  Requests'
  <2> SUFFICES ASSUME NEW k \in 1..Len(incoming'), incoming'[k].type = "register"
               PROVE  \/ inSeq'[incoming'[k].port] = 0
                      \/ Spawned(incoming[k].port)'
                      \/ UnregisterQueued(incoming[k].port, k)'
    OBVIOUS
  <2>1. incoming'[k] = incoming[k + 1] /\ k + 1 \in 1..Len(incoming) /\ k \in Nat
    BY <1>f, TakeFromQueue DEF Taken
  <2> DEFINE p == incoming[k + 1].port
  <2>2. p \in Port /\ (inSeq[p] = 0 \/ Spawned(p) \/ UnregisterQueued(p, k + 1))
    BY <1>b, <2>1 DEF FilterInv
  <2> HIDE DEF p
  <2>3. \A r \in Port : UnregisterQueued(r, k + 1) => UnregisterQueued(r, k)'
    BY <1>f, <2>1, QueuedStays
  <2>4. ASSUME NEW r \in Port, r = p
        PROVE  inSeq'[r] = 0 \/ Spawned(r)' \/ UnregisterQueued(r, k)'
    BY <1>a, <1>f, <2>2, <2>3, <2>4
  <2>5. p = incoming'[k].port
    BY <2>1 DEF p
  <2> QED
    BY <2>2, <2>4, <2>5 DEF Spawned, UnregisterQueued
<1>g. ASSUME Taken, UNCHANGED inSeq,
             \A p \in Port : registry'[p] # Nobody => registry'[p] = registry[p],
             \A p \in Port : \/ Head(incoming).type # "unregister"
                             \/ Head(incoming).port # p
                             \/ registry'[p] = Nobody
      PROVE  Entries'
  BY <1>a, <1>g, QueuedStays DEF FilterInv
<1> HIDE DEF Entries, Requests, Leavers
<1>h. Entries' /\ Requests' /\ Leavers' => FilterInv'
  BY DEF FilterInv, Entries, Requests, Leavers
<1>1. CASE Request
  <2>1. Leavers'
    BY <1>1, <1>d DEF Request, ProcessesGrow
  <2>2. \A p \in Port : registry'[p] # Nobody => registry'[p] = registry[p]
    BY <1>1 DEF Request, RegistryShrinks
  <2>3. CASE incoming' = incoming
    BY <1>1, <1>e, <1>h, <2>1, <2>2, <2>3 DEF Request
  <2>4. CASE Taken /\ Head(incoming).type \in {"start", "stop"}
    BY <1>1, <1>f, <1>g, <1>h, <2>1, <2>2, <2>4 DEF Request
  <2> QED
    BY <1>1, <2>3, <2>4 DEF Request
<1>2. CASE Registers
  <2> DEFINE m == Head(incoming)
  <2>1. /\ m = incoming[1] /\ m \in Message /\ 1 \in 1..Len(incoming)
        /\ m.type = "register" /\ m.port \in Port
    BY <1>2, <1>b, TakeFromQueue DEF Registers, Taken
  <2>2. Taken /\ UNCHANGED inSeq /\ Requests' /\ Leavers'
    BY <1>2, <1>d, <1>f DEF Registers, processVars
  <2>3. \A p \in Port : p # m.port => registry'[p] = registry[p]
    BY <1>2, <2>1 DEF Registers, Register, TypeOK
  <2>4. inSeq[m.port] = 0 \/ Spawned(m.port) \/ UnregisterQueued(m.port, 1)
    BY <2>1 DEF FilterInv
  <2>5. Entries'
    <3> SUFFICES ASSUME NEW p \in Port, registry'[p] # Nobody
                 PROVE  inSeq'[p] = 0 \/ Spawned(p)' \/ UnregisterQueued(p, 0)'
      BY DEF Entries
    <3>1. CASE p = m.port
      <4>1. UnregisterQueued(p, 0 + 1) => UnregisterQueued(p, 0)'
        BY <2>2, QueuedStays
      <4> QED
        BY <1>a, <2>2, <2>4, <3>1, <4>1
    <3>2. CASE p # m.port
      <4>1. UnregisterQueued(p, 0) => UnregisterQueued(p, 0)'
        BY <2>1, <2>2, QueuedStays
      <4> QED
        BY <1>a, <2>2, <2>3, <3>2, <4>1 DEF FilterInv
    <3> QED
      BY <3>1, <3>2
  <2> QED
    BY <1>h, <2>2, <2>5
<1>3. CASE Unregisters
  <2>1. Leavers' /\ Requests'
    BY <1>3, <1>d, <1>f DEF Unregisters, processVars
  <2>2. \A p \in Port : registry'[p] # Nobody => registry'[p] = registry[p]
    BY <1>3 DEF Unregisters, Unregister, TypeOK
  <2>3. \A p \in Port : Head(incoming).port # p \/ registry'[p] = Nobody
    BY <1>3 DEF Unregisters, Unregister, TypeOK
  <2> QED
    BY <1>3, <1>g, <1>h, <2>1, <2>2, <2>3 DEF Unregisters
<1>4. ASSUME NEW m \in wire, ReceiveData(m) PROVE FilterInv'
  <2>1. Leavers'
    BY <1>4, <1>d DEF ReceiveData, processVars
  <2> QED
    BY <1>4, <1>e, <1>h, <2>1 DEF ReceiveData
<1>5. ASSUME NEW i \in Pid, MachineStarts(i) PROVE FilterInv'
  <2>1. Leavers'
    BY <1>5, <1>d DEF MachineStarts, queueVars, TypeOK
  <2> QED
    BY <1>5, <1>e, <1>h, <2>1 DEF MachineStarts, queueVars
<1>6. ASSUME NEW i \in Pid, MachineSpawns(i) PROVE FilterInv'
  <2>1. Leavers'
    BY <1>6, <1>d DEF MachineSpawns, queueVars
  <2> QED
    BY <1>6, <1>e, <1>h, <2>1 DEF MachineSpawns, queueVars
<1>7. ASSUME NEW i \in Pid, MachineLeaves(i) PROVE FilterInv'
  <2>1. /\ UnregisterOf(i)' = UnregisterOf(i) /\ UnregisterOf(i) \in wire'
        /\ UNCHANGED <<inSeq, held, lost>> /\ wire \subseteq wire'
    BY <1>7 DEF MachineLeaves, queueVars, UnregisterOf, Numbered
  <2>2. \A j \in Pid : j # i => status'[j] = status[j]
    BY <1>7 DEF MachineLeaves, TypeOK
  <2>3. Leavers'
    BY <1>c, <2>1, <2>2 DEF FilterInv, Leavers
  <2> QED
    BY <1>7, <1>e, <1>h, <2>3 DEF MachineLeaves, queueVars
<1>8. ASSUME NEW i \in Pid, MachineEnds(i) PROVE FilterInv'
  <2>1. Leavers'
    BY <1>8, <1>d DEF MachineEnds, mailVars, queueVars, TypeOK
  <2> QED
    BY <1>8, <1>e, <1>h, <2>1 DEF MachineEnds, mailVars, queueVars
<1>9. ASSUME NEW i \in Pid, MachineCrashes(i) PROVE FilterInv'
  <2>1. Leavers'
    BY <1>9, <1>d DEF MachineCrashes, mailVars, queueVars, TypeOK
  <2> QED
    BY <1>9, <1>e, <1>h, <2>1 DEF MachineCrashes, mailVars, queueVars
<1>10. CASE UNCHANGED vars
  BY <1>10, <1>d, <1>e, <1>h DEF vars, processVars, mailVars, queueVars
<1>11. ASSUME NEW m \in wire, GiveUp(m) PROVE FilterInv'
  <2>1. \A i \in Pid : UnregisterOf(i) = m => UnregisterOf(i) \in lost'
    BY <1>11, MessageFields DEF GiveUp
  <2>2. Leavers'
    BY <1>c, <1>11, <2>1 DEF GiveUp, processVars, queueVars, FilterInv, Leavers
  <2> QED
    BY <1>11, <1>e, <1>h, <2>2 DEF GiveUp, queueVars
<1>12. ASSUME NEW m \in held, FilterData(m) PROVE FilterInv'
  <2>1. /\ m \in Message /\ m.pid \in Pid /\ m.port \in Port /\ Sent(m)
        /\ held = {m}
    BY DEF MailInv, TypeOK, Message
  <2>2. CASE Duplicate(m)
    <3>1. UNCHANGED <<wire, lost, inSeq, processVars>>
      BY <1>12, <2>2 DEF FilterData
    <3>2. \A i \in Pid : status[i] \in {"leaving", "exited"} /\ UnregisterOf(i) = m =>
            ~(inSeq[port[i]] < UnregisterOf(i).seq)
      <4> SUFFICES ASSUME NEW i \in Pid, status[i] \in {"leaving", "exited"},
                          UnregisterOf(i) = m
                   PROVE  ~(inSeq[port[i]] < m.seq)
        OBVIOUS
      <4>1. port[i] = m.port /\ m.seq \in 0..3 /\ inSeq[m.port] \in Int
        BY <1>c, <2>1 DEF TypeOK
      <4> QED
        BY <2>2, <4>1 DEF Duplicate
    <3>3. Leavers'
      BY <1>c, <2>1, <3>1, <3>2 DEF processVars, FilterInv, Leavers
    <3> QED
      BY <1>12, <1>e, <1>h, <2>2, <3>3 DEF FilterData
  <2>3. CASE ~Duplicate(m)
    <3>1. /\ inSeq' = [inSeq EXCEPT ![m.port] = m.seq] /\ inSeq[m.port] < m.seq
          /\ incoming' = Append(incoming, m) /\ registry' = registry
          /\ UNCHANGED <<wire, lost, processVars>>
      BY <1>12, <2>1, <2>3 DEF FilterData, Duplicate, TypeOK, Message
    <3>2. \A p \in Port : inSeq[p] <= inSeq'[p] /\ inSeq'[p] \in Int /\ inSeq[p] \in Int
      BY <2>1, <3>1 DEF TypeOK, Message
    <3>3. Leavers'
      <4> SUFFICES ASSUME NEW i \in Pid, status[i] \in {"leaving", "exited"},
                          inSeq'[port[i]] < UnregisterOf(i).seq
                   PROVE  UnregisterOf(i) \in wire \cup held' \cup lost
        BY <1>c, <3>1 DEF Leavers, processVars
      <4>1. UnregisterOf(i) \in wire \cup held \cup lost
        BY <1>c, <3>2 DEF FilterInv
      <4>2. UnregisterOf(i) # m
        BY <1>c, <2>1, <3>1 DEF TypeOK
      <4> QED
        BY <2>1, <4>1, <4>2
    <3>4. /\ Len(incoming) \in Nat /\ Len(incoming') = Len(incoming) + 1
          /\ \A k \in 1..Len(incoming) : incoming'[k] = incoming[k]
          /\ incoming'[Len(incoming) + 1] = m
      BY <2>1, <3>1, AddToQueue
    <3>5. \A p \in Port, k \in Nat : UnregisterQueued(p, k) => UnregisterQueued(p, k)'
      BY <3>4 DEF UnregisterQueued
    <3>6. /\ m.type = "register" => inSeq'[m.port] = 0
          /\ m.type # "register" =>
               \A p \in Port : p = m.port =>
                 Spawned(p)' \/ \A k \in 0..Len(incoming) : UnregisterQueued(p, k)'
      <4>1. CASE m = RegisterOf(m.pid)
        BY <2>1, <3>1, <4>1, MessageFields DEF TypeOK
      <4>2. CASE m.pid \in parents /\ (m = StartOf(m.pid) \/ m = StopOf(m.pid))
        <5>1. Spawned(m.port) /\ m.type # "register"
          BY <2>1, <4>2, MessageFields DEF Spawned
        <5> QED
          BY <1>a, <2>1, <5>1
      <4>3. CASE m = UnregisterOf(m.pid)
        <5>1. m.type = "unregister"
          BY <2>1, <4>3, MessageFields
        <5>2. Len(incoming) + 1 \in 1..Len(incoming')
          BY <3>4
        <5>3. \A k \in 0..Len(incoming) : Len(incoming) + 1 > k
          BY <3>4
        <5>4. \A p \in Port : p = m.port =>
                \A k \in 0..Len(incoming) : UnregisterQueued(p, k)'
          BY <3>4, <5>1, <5>2, <5>3 DEF UnregisterQueued
        <5> QED
          BY <5>1, <5>4
      <4> QED
        BY <2>1, <4>1, <4>2, <4>3 DEF Sent
    <3>7. Entries'
      <4> SUFFICES ASSUME NEW p \in Port, registry[p] # Nobody
                   PROVE  inSeq'[p] = 0 \/ Spawned(p)' \/ UnregisterQueued(p, 0)'
        BY <3>1 DEF Entries
      <4>1. CASE p = m.port
        BY <3>4, <3>6, <4>1
      <4>2. CASE p # m.port
        <5>1. inSeq'[p] = inSeq[p]
          BY <2>1, <3>1, <4>2 DEF TypeOK
        <5> QED
          BY <1>a, <3>5, <5>1 DEF FilterInv
      <4> QED
        BY <4>1, <4>2
    <3>8. Requests'
      <4> SUFFICES ASSUME NEW k \in 1..Len(incoming'), incoming'[k].type = "register",
                          NEW p \in Port, p = incoming'[k].port
                   PROVE  inSeq'[p] = 0 \/ Spawned(p)' \/ UnregisterQueued(p, k)'
        <5>1. \A k \in 1..Len(incoming') : incoming'[k].port \in Port
          BY <1>b, <2>1, <3>4
        <5> QED
          BY <5>1 DEF Requests, Spawned, UnregisterQueued
      <4>1. CASE k = Len(incoming) + 1
        BY <3>4, <3>6, <4>1
      <4>2. CASE k \in 1..Len(incoming) /\ p = m.port
        BY <3>4, <3>6, <4>2
      <4>3. CASE k \in 1..Len(incoming) /\ p # m.port
        <5>1. inSeq'[p] = inSeq[p]
          BY <2>1, <3>1, <4>3 DEF TypeOK
        <5>2. incoming[k].type = "register" /\ p = incoming[k].port /\ k \in Nat
          BY <3>4, <4>3
        <5>3. inSeq[p] = 0 \/ Spawned(p) \/ UnregisterQueued(p, k)
          BY <4>3, <5>2 DEF FilterInv
        <5> QED
          BY <1>a, <3>5, <5>1, <5>2, <5>3
      <4> QED
        BY <3>4, <4>1, <4>2, <4>3
    <3> QED
      BY <1>h, <3>3, <3>7, <3>8
  <2> QED
    BY <2>2, <2>3
<1> QED
  BY <1>1, <1>2, <1>3, <1>4, <1>5, <1>6, <1>7, <1>8, <1>9, <1>10, <1>11, <1>12,
     ServerSteps DEF Next

(* HeardInv: only the machine itself, or a stop request, undoes a           *)
(* registration at a port from which nobody else was heard.                 *)
LEMMA HeardStep == ServerInv /\ [Next]_vars => HeardInv'
<1> SUFFICES ASSUME ServerInv, [Next]_vars PROVE HeardInv'
  OBVIOUS
<1> USE DEF ServerInv
<1> Advance
  BY EveryStepAdvances
<1> DEFINE QueuedReg(i) == \E k \in 1..Len(incoming) : incoming[k] = RegisterOf(i)
           Undone(i) == \/ RegisterOf(i) \in wire \cup held \cup lost
                        \/ QueuedReg(i)
                        \/ registry[port[i]] = i
                        \/ i \in signalled
           Running == \A i \in Pid \ parents : status[i] = "running" => Standing(i)
           Firsts == \A p \in Port : heard[p] = {} => inSeq[p] = -1
           Entries == \A p \in Port : registry[p] # Nobody => registry[p] \in heard[p]
<1>a. \A i \in Pid : status[i] = "running" =>
        /\ RegisterOf(i)' = RegisterOf(i) /\ port'[i] = port[i] /\ port[i] \in Port
        /\ (i \notin parents' => i \notin parents)
  BY DEF Advance, Started, RegisterOf, Numbered, ProcessInv
<1>b. /\ \A i \in Pid \ parents : status[i] = "running" =>
           /\ RegisterOf(i) \in held => RegisterOf(i) \notin wire
           /\ i \in heard[port[i]] => RegisterOf(i) \notin wire \cup held
           /\ heard[port[i]] \subseteq {i} => Undone(i)
      /\ Firsts /\ Entries
  BY DEF HeardInv, Standing
<1>c. ASSUME Taken
      PROVE  \A i \in Pid : QueuedReg(i) /\ RegisterOf(i)' = RegisterOf(i) =>
               Head(incoming) = RegisterOf(i) \/ QueuedReg(i)'
  <2> SUFFICES ASSUME NEW i \in Pid, RegisterOf(i)' = RegisterOf(i),
                      NEW k \in 1..Len(incoming), incoming[k] = RegisterOf(i),
                      Head(incoming) # RegisterOf(i)
               PROVE  QueuedReg(i)'
    OBVIOUS
  <2>1. /\ Len(incoming) \in Nat /\ Head(incoming) = incoming[1]
        /\ Len(incoming') = Len(incoming) - 1
        /\ \A l \in 1..Len(incoming') : incoming'[l] = incoming[l + 1]
    BY <1>c, TakeFromQueue DEF Taken
  <2>2. k - 1 \in 1..Len(incoming') /\ incoming'[k - 1] = incoming[k]
    BY <2>1
  <2> QED
    BY <2>2
<1>d. Running' /\ Firsts' /\ Entries' => HeardInv'
  BY DEF HeardInv
<1>e. ASSUME NEW i \in Pid \ parents',
             /\ RegisterOf(i) \in held' => RegisterOf(i) \notin wire'
             /\ i \in heard'[port[i]] => RegisterOf(i) \notin wire' \cup held'
             /\ heard'[port[i]] \subseteq {i} =>
                  \/ RegisterOf(i) \in wire' \cup held' \cup lost'
                  \/ QueuedReg(i)'
                  \/ registry'[port[i]] = i
                  \/ i \in signalled',
             status[i] = "running"
      PROVE  Standing(i)'
  BY <1>a, <1>e DEF Standing
<1>f. ASSUME Running', UNCHANGED <<inSeq, heard>>,
             \A p \in Port : registry'[p] # Nobody => registry'[p] = registry[p]
      PROVE  HeardInv'
  BY <1>b, <1>d, <1>f
<1>g. ASSUME UNCHANGED <<registry, signalled, queueVars>>, lost \subseteq lost',
             ASSUME NEW i \in Pid, status'[i] = "running"
             PROVE  /\ status[i] = "running"
                    /\ RegisterOf(i) \in wire' <=> RegisterOf(i) \in wire
      PROVE  HeardInv'
  <2>1. ASSUME NEW i \in Pid \ parents', status'[i] = "running" PROVE Standing(i)'
    <3>1. /\ status[i] = "running" /\ i \notin parents
          /\ RegisterOf(i) \in wire' <=> RegisterOf(i) \in wire
      BY <1>a, <1>g, <2>1
    <3>2. QueuedReg(i) => QueuedReg(i)'
      BY <1>a, <1>g, <3>1 DEF queueVars
    <3> QED
      BY <1>b, <1>e, <1>g, <3>1, <3>2 DEF queueVars
  <2> QED
    BY <1>f, <1>g, <2>1 DEF queueVars
<1> HIDE DEF QueuedReg, Running, Firsts, Entries
<1>1. CASE Request
  <2>1. ASSUME NEW i \in Pid \ parents', status'[i] = "running" PROVE Standing(i)'
    <3>1. status[i] = "running" /\ i \in Pid \ parents
      BY <1>1, <2>1 DEF Request, ProcessesGrow
    <3>2. registry[port[i]] = i => registry'[port[i]] = i \/ i \in signalled'
      BY <1>1, <1>a, <3>1 DEF Request, RegistryShrinks
    <3>3. QueuedReg(i) => QueuedReg(i)'
      <4>1. CASE incoming' = incoming
        BY <1>a, <3>1, <4>1 DEF QueuedReg
      <4>2. CASE Taken /\ Head(incoming).type \in {"start", "stop"}
        BY <1>a, <1>c, <3>1, <4>2, MessageFields
      <4> QED
        BY <1>1, <4>1, <4>2 DEF Request
    <3>4. signalled \subseteq signalled'
      BY <1>1 DEF Request, RegistryShrinks
    <3> QED
      BY <1>1, <1>b, <1>e, <3>1, <3>2, <3>3, <3>4 DEF Request
  <2> QED
    BY <1>1, <1>f, <2>1 DEF Request, RegistryShrinks, Running
<1>2. CASE Registers
  <2> DEFINE m == Head(incoming)
  <2>1. /\ m = incoming[1] /\ m \in Message /\ 1 \in 1..Len(incoming)
        /\ m.type = "register" /\ m.port \in Port /\ m.pid \in Pid
    BY <1>2, TakeFromQueue DEF Registers, Taken, Message
  <2>2. Sent(m) /\ m.pid \in heard[m.port]
    BY <2>1 DEF MailInv
  <2>3. /\ registry' = [registry EXCEPT ![m.port] = IF @ = Nobody THEN m.pid ELSE @]
        /\ Taken /\ UNCHANGED <<processVars, signalled, wire, held, inSeq, heard, lost>>
    BY <1>2 DEF Registers, Register
  <2> HIDE DEF m
  <2>4. Entries' /\ Firsts'
    BY <1>b, <2>1, <2>2, <2>3 DEF Entries, Firsts, TypeOK
  <2>5. ASSUME NEW i \in Pid \ parents', status'[i] = "running" PROVE Standing(i)'
    <3>1. status[i] = "running" /\ i \in Pid \ parents /\ port[i] \in Port
      BY <1>a, <2>3, <2>5 DEF processVars
    <3>2. registry[port[i]] = i => registry'[port[i]] = i
      BY <2>1, <2>3, <3>1, NobodyIsNoProcess DEF TypeOK
    <3>3. ASSUME heard[port[i]] \subseteq {i}, m = RegisterOf(i)
          PROVE  registry'[port[i]] = i
      <4>1. m.port = port[i] /\ m.pid = i
        BY <3>1, <3>3, MessageFields
      <4>2. registry[port[i]] = Nobody \/ registry[port[i]] = i
        BY <1>b, <3>1, <3>3 DEF Entries
      <4> QED
        BY <2>1, <2>3, <3>1, <4>1, <4>2 DEF TypeOK
    <3>4. QueuedReg(i) => m = RegisterOf(i) \/ QueuedReg(i)'
      BY <1>a, <1>c, <2>3, <3>1 DEF m
    <3> QED
      BY <1>b, <1>e, <2>3, <3>1, <3>2, <3>3, <3>4
  <2> QED
    BY <1>d, <2>4, <2>5 DEF Running
<1>3. CASE Unregisters
  <2> DEFINE m == Head(incoming)
  <2>1. /\ m = incoming[1] /\ m \in Message /\ 1 \in 1..Len(incoming)
        /\ m.type = "unregister" /\ m.port \in Port /\ m.pid \in Pid
    BY <1>3, TakeFromQueue DEF Unregisters, Taken, Message
  <2>2. m.pid \in heard[m.port] /\ status[m.pid] # "running"
    BY <2>1, MessageFields DEF MailInv, Sent
  <2>3. /\ registry' = [registry EXCEPT ![m.port] = Nobody]
        /\ Taken /\ UNCHANGED <<processVars, signalled, wire, held, inSeq, heard, lost>>
    BY <1>3 DEF Unregisters, Unregister
  <2>4. \A i \in Pid : m # RegisterOf(i)
    BY <2>1, MessageFields
  <2>5. ASSUME NEW i \in Pid \ parents', status'[i] = "running" PROVE Standing(i)'
    <3>1. status[i] = "running" /\ i \in Pid \ parents /\ port[i] \in Port
      BY <1>a, <2>3, <2>5 DEF processVars
    <3>2. heard[port[i]] \subseteq {i} => registry'[port[i]] = registry[port[i]]
      BY <2>2, <2>3, <3>1 DEF TypeOK
    <3>3. QueuedReg(i) => QueuedReg(i)'
      BY <1>a, <1>c, <2>3, <2>4, <3>1
    <3> QED
      BY <1>b, <1>e, <2>3, <3>1, <3>2, <3>3
  <2> QED
    BY <1>f, <2>3, <2>5 DEF Running, TypeOK
<1>4. ASSUME NEW m \in wire, ReceiveData(m) PROVE HeardInv'
  <2>1. ASSUME NEW i \in Pid \ parents', status'[i] = "running" PROVE Standing(i)'
    <3>1. status[i] = "running" /\ i \in Pid \ parents
      BY <1>4, <2>1 DEF ReceiveData, processVars
    <3>2. QueuedReg(i) => QueuedReg(i)'
      BY <1>4, <1>a, <3>1 DEF ReceiveData, QueuedReg
    <3> QED
      BY <1>4, <1>b, <1>e, <3>1, <3>2 DEF ReceiveData
  <2> QED
    BY <1>4, <1>f, <2>1 DEF ReceiveData, Running
<1>5. ASSUME NEW i \in Pid, MachineStarts(i) PROVE HeardInv'
  <2>1. /\ status[i] = "forked" /\ RegisterOf(i)' = RegisterOf(i)
        /\ wire' = wire \cup {RegisterOf(i)} /\ port' = port /\ parents' = parents
        /\ UNCHANGED <<registry, signalled, held, inSeq, incoming, heard, lost>>
    BY <1>5 DEF MachineStarts, RegisterOf, Numbered, queueVars
  <2>2. \A j \in Pid : j # i => status'[j] = status[j]
    BY <1>5 DEF MachineStarts, TypeOK
  <2>3. Standing(i)'
    <3>1. i \notin heard[port[i]]
      BY <2>1 DEF MailInv, Started, ProcessInv
    <3>2. RegisterOf(i) \notin held
      BY <2>1, MessageFields DEF MailInv, Sent, Started
    <3> QED
      BY <2>1, <3>1, <3>2 DEF Standing
  <2>4. ASSUME NEW j \in Pid \ parents', status'[j] = "running", j # i
        PROVE  Standing(j)'
    <3>1. status[j] = "running" /\ j \in Pid \ parents
      BY <2>1, <2>2, <2>4
    <3>2. RegisterOf(j) # RegisterOf(i)
      BY <2>4, MessageFields
    <3>3. QueuedReg(j) => QueuedReg(j)'
      BY <1>a, <2>1, <3>1 DEF QueuedReg
    <3> QED
      BY <1>b, <1>e, <2>1, <2>4, <3>1, <3>2, <3>3
  <2> QED
    BY <1>f, <2>1, <2>3, <2>4 DEF Running
<1>6. ASSUME NEW i \in Pid, MachineSpawns(i) PROVE HeardInv'
  <2>1. \A j \in Pid : RegisterOf(j) # StartOf(i)
    BY MessageFields
  <2> QED
    BY <1>6, <1>g, <2>1 DEF MachineSpawns
<1>7. ASSUME NEW i \in Pid, MachineLeaves(i) PROVE HeardInv'
  <2>1. \A j \in Pid : RegisterOf(j) # UnregisterOf(i) /\ RegisterOf(j) # StopOf(i)
    BY MessageFields
  <2>2. \A j \in Pid : RegisterOf(j) \in wire' <=> RegisterOf(j) \in wire
    BY <1>7, <2>1 DEF MachineLeaves
  <2>3. \A j \in Pid : status'[j] = "running" => status[j] = "running"
    BY <1>7 DEF MachineLeaves, TypeOK
  <2> QED
    BY <1>7, <1>g, <2>2, <2>3 DEF MachineLeaves
<1>8. ASSUME NEW i \in Pid, MachineEnds(i) PROVE HeardInv'
  BY <1>8, <1>g DEF MachineEnds, mailVars, TypeOK
<1>9. ASSUME NEW i \in Pid, MachineCrashes(i) PROVE HeardInv'
  BY <1>9, <1>g DEF MachineCrashes, mailVars, TypeOK
<1>10. CASE UNCHANGED vars
  BY <1>10, <1>g DEF vars, processVars, mailVars
<1>11. ASSUME NEW m \in wire, GiveUp(m) PROVE HeardInv'
  <2>1. ASSUME NEW i \in Pid \ parents', status'[i] = "running" PROVE Standing(i)'
    <3>1. status[i] = "running" /\ i \in Pid \ parents
      BY <1>11, <2>1 DEF GiveUp, processVars
    <3>2. QueuedReg(i) => QueuedReg(i)'
      BY <1>11, <1>a, <3>1 DEF GiveUp, queueVars, QueuedReg
    <3>3. RegisterOf(i) = m => RegisterOf(i) \in lost'
      BY <1>11, MessageFields DEF GiveUp
    <3> QED
      BY <1>11, <1>b, <1>e, <3>1, <3>2, <3>3 DEF GiveUp, queueVars
  <2> QED
    BY <1>11, <1>f, <2>1 DEF GiveUp, queueVars, Running
<1>12. ASSUME NEW m \in held, FilterData(m) PROVE HeardInv'
  <2>1. /\ m \in Message /\ m.pid \in Pid /\ m.port \in Port /\ Sent(m)
        /\ held = {m} /\ held' = {} /\ m.port = port[m.pid]
        /\ UNCHANGED <<registry, processVars, signalled, wire, lost>>
    BY <1>12, MessageFields DEF FilterData, MailInv, Sent, TypeOK, Message
  <2>2. CASE Duplicate(m)
    <3>1. UNCHANGED <<inSeq, incoming, heard>> /\ inSeq[m.port] # -1
      BY <1>12, <2>1, <2>2 DEF FilterData, Duplicate, TypeOK, Message
    <3>2. ASSUME NEW i \in Pid \ parents', status'[i] = "running" PROVE Standing(i)'
      <4>1. status[i] = "running" /\ i \in Pid \ parents /\ port[i] \in Port
        BY <1>a, <2>1, <3>2 DEF processVars
      <4>2. QueuedReg(i) => QueuedReg(i)'
        BY <1>a, <3>1, <4>1 DEF QueuedReg
      <4>3. ASSUME m = RegisterOf(i), heard[port[i]] \subseteq {i} PROVE FALSE
        <5>1. m.port = port[i]
          BY <4>1, <4>3, MessageFields
        <5>2. i \notin heard[port[i]]
          BY <1>b, <2>1, <4>1, <4>3
        <5>3. heard[port[i]] = {}
          BY <4>3, <5>2
        <5> QED
          BY <1>b, <3>1, <4>1, <5>1, <5>3 DEF Firsts
      <4> QED
        BY <1>b, <1>e, <2>1, <3>1, <4>1, <4>2, <4>3
    <3> QED
      BY <1>f, <2>1, <3>1, <3>2 DEF Running
  <2>3. CASE ~Duplicate(m)
    <3>1. /\ inSeq' = [inSeq EXCEPT ![m.port] = m.seq]
          /\ incoming' = Append(incoming, m)
          /\ heard' = [heard EXCEPT ![m.port] = @ \cup {m.pid}]
      BY <1>12, <2>3 DEF FilterData
    <3>2. /\ \A p \in Port : heard[p] \subseteq heard'[p]
          /\ \A p \in Port : p # m.port => heard'[p] = heard[p] /\ inSeq'[p] = inSeq[p]
          /\ heard'[m.port] = heard[m.port] \cup {m.pid}
      BY <2>1, <3>1 DEF TypeOK
    <3>3. Firsts' /\ Entries'
      BY <1>b, <2>1, <3>2 DEF Firsts, Entries
    <3>4. ASSUME NEW i \in Pid \ parents', status'[i] = "running" PROVE Standing(i)'
      <4>1. /\ status[i] = "running" /\ i \in Pid \ parents /\ port[i] \in Port
            /\ RegisterOf(i)' = RegisterOf(i)
        BY <1>a, <2>1, <3>4 DEF processVars
      <4>2. QueuedReg(i) \/ m = RegisterOf(i) => QueuedReg(i)'
        <5>1. /\ Len(incoming) \in Nat /\ Len(incoming') = Len(incoming) + 1
              /\ \A k \in 1..Len(incoming) : incoming'[k] = incoming[k]
              /\ incoming'[Len(incoming) + 1] = m
          BY <2>1, <3>1, AddToQueue
        <5> QED
          BY <4>1, <5>1 DEF QueuedReg
      <4>3. i \in heard'[port[i]] => RegisterOf(i) \notin wire
        <5>1. CASE i \in heard[port[i]]
          BY <1>b, <4>1, <5>1
        <5>2. CASE i \notin heard[port[i]] /\ i \in heard'[port[i]]
          <6>1. m.pid = i
            BY <3>2, <4>1, <5>2
          <6>2. m = RegisterOf(i)
            BY <2>1, <4>1, <6>1 DEF Sent
          <6> QED
            BY <1>b, <2>1, <4>1, <6>2
        <5> QED
          BY <5>1, <5>2
      <4>4. heard'[port[i]] \subseteq {i} => heard[port[i]] \subseteq {i}
        BY <3>2, <4>1
      <4> QED
        BY <1>b, <1>e, <2>1, <4>1, <4>2, <4>3, <4>4
    <3> QED
      BY <1>d, <3>3, <3>4 DEF Running
  <2> QED
    BY <2>2, <2>3
<1> QED
  BY <1>1, <1>2, <1>3, <1>4, <1>5, <1>6, <1>7, <1>8, <1>9, <1>10, <1>11, <1>12,
     ServerSteps DEF Next

-----------------------------------------------------------------------------
(* What follows.                                                            *)

(* The conjunction is inductive.                                            *)
LEMMA ServerInvariant == Spec => []ServerInv
<1>1. ServerInv /\ [Next]_vars => ServerInv'
  BY TypeStep, ProcessStep, MailStep, FilterStep, HeardStep DEF ServerInv
<1> QED
  BY InitServerInv, <1>1, PTL DEF Spec

(* The registry of a server only holds processes that run, or ran, at that  *)
(* very port.                                                               *)
THEOREM RegistryTypeCorrect == Spec => []TypeOK
BY ServerInvariant, PTL DEF ServerInv

(* A machine that ended in order is only registered while an "unregister"   *)
(* from its port waits to be handled, unless its own was given up or a      *)
(* parent used its port.                                                    *)
THEOREM NoGhostHolds == Spec => []NoGhost
<1>1. ServerInv => NoGhost
  <2> SUFFICES ASSUME ServerInv, NEW p \in Port, NEW i \in Pid, registry[p] = i,
                      status[i] = "exited", \A j \in parents : port[j] # port[i],
                      \A m \in Waiting : ~(m.type = "unregister" /\ m.port = port[i])
               PROVE  UnregisterOf(i) \in lost
    BY DEF NoGhost, Listed
  <2>1. port[i] = p /\ i # Nobody /\ ~Spawned(p)
    BY NobodyIsNoProcess DEF ServerInv, TypeOK, Spawned
  <2>2. ~UnregisterQueued(p, 0)
    BY <2>1 DEF UnregisterQueued, Waiting, Queued, ServerInv, TypeOK
  <2>3. inSeq[p] = 0
    BY <2>1, <2>2 DEF ServerInv, FilterInv
  <2>4. UnregisterOf(i).seq = 1
    BY <2>1, MessageFields
  <2>5. UnregisterOf(i) \in wire \cup held \cup lost
    BY <2>1, <2>3, <2>4 DEF ServerInv, FilterInv
  <2>6. UnregisterOf(i) \notin wire /\ UnregisterOf(i) \notin held
    BY MessageFields DEF ServerInv, MailInv, Waiting
  <2> QED
    BY <2>5, <2>6
<1> QED
  BY <1>1, ServerInvariant, PTL

(* SIGTERM finds its handler installed.                                     *)
THEOREM SignalsAreHandledHolds == Spec => []SignalsAreHandled
<1>1. ServerInv => SignalsAreHandled
  BY DEF ServerInv, ProcessInv
<1> QED
  BY <1>1, ServerInvariant, PTL

(* A machine that spawns nothing, whose registration was not given up and   *)
(* has been handled, is listed until it is stopped, while nothing of        *)
(* another process of its port is accepted.                                 *)
THEOREM ListsRegisteredHolds == Spec => []ListsRegistered
<1>1. ServerInv => ListsRegistered
  <2> SUFFICES ASSUME ServerInv, NEW i \in Pid \ parents,
                      status[i] = "running", i \notin signalled,
                      RegisterOf(i) \notin wire \cup Waiting \cup lost,
                      heard[port[i]] \subseteq {i}
               PROVE  registry[port[i]] = i
    BY DEF ListsRegistered
  <2>1. Standing(i)
    BY DEF ServerInv, HeardInv
  <2>2. \A k \in 1..Len(incoming) : incoming[k] # RegisterOf(i)
    BY DEF Waiting, Queued, ServerInv, TypeOK
  <2> QED
    BY <2>1, <2>2 DEF Standing, Waiting
<1> QED
  BY <1>1, ServerInvariant, PTL
=============================================================================
