---------------------------- MODULE ClientProofs ----------------------------
(***************************************************************************)
(* Proofs about Client, for any clients, commands, addresses, number of    *)
(* machines and of transmissions.                                          *)
(***************************************************************************)
EXTENDS Client, FiniteSetTheorems, TLAPS

Types == {"start", "stop", "list", "message", "reply", "started", "errored", "exited",
          "register", "unregister"}
Starts(c) == command[c] \in {"start", "follow"}

ClientTypes ==
    /\ command \in [Client -> {"start", "follow", "stop", "list", "send"}]
    /\ pc \in [Client -> {"none", "reply", "follow", "flush", "done"}]
    /\ waits \in [Client -> 0..kMaxRetries]
    /\ result \in [Client -> {Pending, 0, -1}]
    /\ incoming \in [Client -> Seq(Types)]
    /\ \A c \in Client : result[c] # Pending <=> pc[c] \in {"flush", "done"}

Mail == [from : Mailbox, to : Mailbox, type : Types, seq : 0..2, left : 1..kMaxRetries]

MailTypes == mail \subseteq Mail /\ IsFiniteSet(mail)

MachineTypes ==
    /\ seen \in [Mailbox -> [Mailbox -> -1..2]]
    /\ status \in [Machine -> {"none", "forked", "running", "exited", "crashed"}]
    /\ parent \in [Machine -> Mailbox \cup {Nobody}]
    /\ signalled \subseteq Machine
    /\ lost \in 0..kMaxRetries /\ slow \in BOOLEAN /\ wronged \subseteq Client

Typed == ClientTypes /\ MailTypes /\ MachineTypes

(* Who sends what to whom: a client its command, the server and the machines*)
(* their answers, a machine its parent what happens to it, and its server.  *)
Request(m) ==
    /\ m.from \in Client /\ m.seq = 0
    /\ \/ m.to = Server /\ m.type = "start" /\ Starts(m.from)
       \/ m.to = Server /\ m.type \in {"stop", "list"} /\ command[m.from] = m.type
       \/ m.to \in Machine /\ m.type = "message" /\ command[m.from] = "send"

Answer(m) ==
    /\ m.to \in Client /\ m.seq = 0
    /\ \/ m.from = Server /\ m.type = "list" /\ command[m.to] = "list"
       \/ /\ m.from \in Machine /\ status[m.from] \in {"running", "exited"}
          /\ m.type = "reply" /\ command[m.to] = "send"

Told(m) ==
    /\ m.from \in Machine /\ m.to = parent[m.from] /\ m.to \in Client
    /\ \/ m.type = "started" /\ m.seq = 0 /\ status[m.from] \in {"running", "exited"}
       \/ m.type \in {"errored", "exited"} /\ m.seq > 0 /\ status[m.from] = "exited"

Report(m) ==
    m.from \in Machine /\ m.to = Server /\ m.type \in {"register", "unregister"}

Letters == \A m \in mail : Request(m) \/ Answer(m) \/ Told(m) \/ Report(m)

(* A machine has for its parent a client whose request was served, and no   *)
(* other machine has; what did not begin has sent and received nothing.     *)
Parents ==
    /\ \A i \in Machine : IF status[i] = "none"
         THEN parent[i] = Nobody
         ELSE parent[i] \in Client /\ Starts(parent[i]) /\ seen[Server][parent[i]] >= 0
    /\ \A i, j \in Machine : parent[i] = parent[j] /\ parent[i] \in Client => i = j

Beginnings ==
    /\ \A c \in Client : pc[c] = "none" =>
         /\ waits[c] = 0 /\ incoming[c] = <<>> /\ seen[Server][c] = -1
         /\ \A m \in mail : m.from # c /\ m.to # c
    /\ \A i \in Machine : status[i] \in {"none", "forked"} => \A c \in Client : seen[c][i] = -1

(* What a client was told of the end of its machine, is true.               *)
Ends ==
    \A c \in Client :
      /\ \A k \in 1..Len(incoming[c]) : incoming[c][k] = "exited" =>
           \E i \in MachinesOf(c) : status[i] = "exited"
      /\ command[c] = "follow" /\ result[c] = 0 => \E i \in MachinesOf(c) : status[i] = "exited"

(* Where the request of a client that waits for "started" is: on its way,   *)
(* with the machine, with the answer on its way back, or the answer is in.  *)
(* No unit passed without a loss.                                           *)
Asked(c) ==
    /\ seen[Server][c] = -1
    /\ \E m \in mail : m.from = c /\ m.to = Server /\ m.left >= kMaxRetries - waits[c]

Forked(c) == \E i \in MachinesOf(c) : status[i] = "forked"

Answered(c) ==
    \E i \in MachinesOf(c) :
      /\ status[i] = "running" /\ seen[c][i] = -1
      /\ \E m \in mail : m.from = i /\ m.to = c /\ m.left >= kMaxRetries - waits[c]

Heard(c) == incoming[c] # <<>> /\ Head(incoming[c]) = "started"

Reason(c) ==
    \/ lost >= kMaxRetries
    \/ slow
    \/ c \in wronged
    \/ \E i \in MachinesOf(c) : status[i] \in {"exited", "crashed"}

Underway(c) ==
    \/ incoming[c] = <<>> /\ (Asked(c) \/ Forked(c) \/ Answered(c))
    \/ Heard(c)

OnTime ==
    \A c \in Client : Starts(c) =>
      /\ pc[c] = "reply" => Reason(c) \/ (lost >= waits[c] /\ Underway(c))
      /\ result[c] = -1 => Reason(c)

ClientInv == Typed /\ Letters /\ Parents /\ Beginnings /\ Ends /\ OnTime

-----------------------------------------------------------------------------
LEMMA Constants ==
    /\ Client \cap Machine = {} /\ Server \notin Client /\ Server \notin Machine
    /\ Nobody \notin Client /\ Nobody \notin Mailbox
    /\ kMaxRetries \in Nat /\ kMaxRetries >= 1
    /\ \A c \in Client : c \in Mailbox
    /\ \A i \in Machine : i \in Mailbox
    /\ Server \in Mailbox
BY ClientAssumption DEF Server, Nobody, Mailbox

LEMMA TypesAre ==
    /\ "start" \in Types /\ "stop" \in Types /\ "list" \in Types /\ "message" \in Types
    /\ "reply" \in Types /\ "started" \in Types /\ "errored" \in Types /\ "exited" \in Types
    /\ "register" \in Types /\ "unregister" \in Types
    /\ 0 \in 0..2 /\ 1 \in 0..2 /\ 2 \in 0..2
BY DEF Types

LEMMA ClientInvInit == Init => ClientInv
<1> SUFFICES ASSUME Init PROVE ClientInv
  OBVIOUS
<1> USE DEF Init
<1>1. command \in [Client -> {"start", "follow", "stop", "list", "send"}]
  BY ClientAssumption
<1>2. Typed
  <2>1. MailTypes
    BY FS_EmptySet DEF MailTypes
  <2>2. incoming \in [Client -> Seq(Types)]
    OBVIOUS
  <2>3. ClientTypes
    BY <1>1, <2>2, Constants DEF ClientTypes, Pending
  <2>4. MachineTypes
    <3>1. Nobody \in Mailbox \cup {Nobody} /\ -1 \in -1..2 /\ 0 \in 0..kMaxRetries
      BY Constants
    <3> QED BY <3>1 DEF MachineTypes
  <2> QED BY <2>1, <2>3, <2>4 DEF Typed
<1>3. Letters
  BY DEF Letters
<1>4. Parents
  BY Constants DEF Parents
<1>5. Beginnings
  BY Constants DEF Beginnings
<1>6. Ends
  BY DEF Ends, Pending
<1>7. OnTime
  BY DEF OnTime, Pending
<1> QED BY <1>2, <1>3, <1>4, <1>5, <1>6, <1>7 DEF ClientInv

(* Sending a message more, and fewer messages.                              *)
LEMMA MailGrows ==
    ASSUME MailTypes, NEW m \in Mail, mail' = mail \cup {m}
    PROVE  MailTypes'
BY FS_AddElement DEF MailTypes

LEMMA MailShrinks ==
    ASSUME MailTypes, mail' \subseteq mail
    PROVE  MailTypes'
BY FS_Subset DEF MailTypes

(* A reason lasts: the ends of machines, losses, a slow start.              *)
LEMMA ReasonLasts ==
    ASSUME Typed, Typed', NEW c \in Client, Reason(c),
           slow => slow', lost <= lost', wronged \subseteq wronged',
           \A i \in Machine : status[i] \in {"exited", "crashed"} =>
              status'[i] = status[i] /\ parent'[i] = parent[i]
    PROVE  Reason(c)'
<1>1. CASE lost >= kMaxRetries
  BY <1>1, Constants DEF Reason, Typed, MachineTypes
<1>2. CASE slow
  BY <1>2 DEF Reason
<1>3. CASE \E i \in MachinesOf(c) : status[i] \in {"exited", "crashed"}
  BY <1>3 DEF Reason, MachinesOf
<1>4. CASE c \in wronged
  BY <1>4 DEF Reason
<1> QED BY <1>1, <1>2, <1>3, <1>4 DEF Reason

(* A client goes on, or ends.                                               *)
LEMMA PcAndResult ==
    ASSUME ClientTypes, NEW c \in Client,
           NEW where \in {"reply", "follow", "flush", "done"},
           NEW code \in {Pending, 0, -1}, code # Pending <=> where \in {"flush", "done"},
           pc' = [pc EXCEPT ![c] = where], result' = [result EXCEPT ![c] = code],
           command' = command, waits' \in [Client -> 0..kMaxRetries],
           incoming' \in [Client -> Seq(Types)]
    PROVE  /\ ClientTypes' /\ pc'[c] = where /\ result'[c] = code
           /\ \A d \in Client : d # c => pc'[d] = pc[d] /\ result'[d] = result[d]
<1>1. pc' \in [Client -> {"none", "reply", "follow", "flush", "done"}]
  BY DEF ClientTypes
<1>2. result' \in [Client -> {Pending, 0, -1}]
  BY DEF ClientTypes
<1>3. /\ pc'[c] = where /\ result'[c] = code
      /\ \A d \in Client : d # c => pc'[d] = pc[d] /\ result'[d] = result[d]
  BY DEF ClientTypes
<1>4. \A d \in Client : result'[d] # Pending <=> pc'[d] \in {"flush", "done"}
  BY <1>3 DEF ClientTypes
<1> QED BY <1>1, <1>2, <1>3, <1>4 DEF ClientTypes

-----------------------------------------------------------------------------
(* The client's steps.                                                      *)
LEMMA BeginKeeps ==
    ASSUME ClientInv, NEW c \in Client, Begin(c)
    PROVE  ClientInv'
<1> USE DEF ClientInv
<1>1. /\ pc[c] = "none" /\ UNCHANGED <<command, waits, incoming, seen, status, parent, signalled,
                                       lost, wronged, slow>>
      /\ \E m \in Mail :
           /\ mail' = mail \cup {m} /\ m.from = c /\ Request(m) /\ m.left = kMaxRetries
           /\ Starts(c) => m.to = Server
           /\ \/ /\ pc' = [pc EXCEPT ![c] = "reply"] /\ result' = result
              \/ /\ pc' = [pc EXCEPT ![c] = "flush"] /\ result' = [result EXCEPT ![c] = 0]
                 /\ command[c] = "stop"
  <2>1. UNCHANGED <<command, waits, incoming, seen, status, parent, signalled, lost, wronged, slow>>
    BY DEF Begin, machineVars, history
  <2>2. CASE StartCommand(c)
    <3> DEFINE m == Letter(c, Server, "start", 0)
    <3>1. /\ m \in Mail
          /\ m.from = c /\ m.to = Server /\ m.type = "start" /\ m.seq = 0 /\ m.left = kMaxRetries
      BY Constants, TypesAre DEF Letter, Mail
    <3> HIDE DEF m
    <3>2. Starts(c) /\ mail' = mail \cup {m} /\ pc' = [pc EXCEPT ![c] = "reply"] /\ result' = result
      BY <2>2 DEF StartCommand, Ask, SendMessage, Starts, m
    <3>3. Request(m)
      BY <3>1, <3>2 DEF Request
    <3> QED BY <2>1, <3>1, <3>2, <3>3 DEF Begin
  <2>3. CASE ListCommand(c)
    <3> DEFINE m == Letter(c, Server, "list", 0)
    <3>1. /\ m \in Mail
          /\ m.from = c /\ m.to = Server /\ m.type = "list" /\ m.seq = 0 /\ m.left = kMaxRetries
      BY Constants, TypesAre DEF Letter, Mail
    <3> HIDE DEF m
    <3>2. /\ command[c] = "list" /\ mail' = mail \cup {m}
          /\ pc' = [pc EXCEPT ![c] = "reply"] /\ result' = result
      BY <2>3 DEF ListCommand, Ask, SendMessage, m
    <3>3. Request(m)
      BY <3>1, <3>2 DEF Request
    <3> QED BY <2>1, <3>1, <3>2, <3>3 DEF Begin
  <2>4. CASE SendCommand(c)
    <3>1. PICK i \in Machine : Ask(c, Letter(c, i, "message", 0))
      BY <2>4 DEF SendCommand
    <3> DEFINE m == Letter(c, i, "message", 0)
    <3>2. /\ m \in Mail
          /\ m.from = c /\ m.to = i /\ m.type = "message" /\ m.seq = 0 /\ m.left = kMaxRetries
      BY Constants, TypesAre DEF Letter, Mail
    <3>3. /\ command[c] = "send" /\ mail' = mail \cup {m}
          /\ pc' = [pc EXCEPT ![c] = "reply"] /\ result' = result
      BY <2>4, <3>1 DEF SendCommand, Ask, SendMessage
    <3> HIDE DEF m
    <3>4. Request(m) /\ ~Starts(c)
      BY <3>2, <3>3 DEF Request, Starts
    <3> QED BY <2>1, <3>2, <3>3, <3>4 DEF Begin
  <2>5. CASE StopCommand(c)
    <3> DEFINE m == Letter(c, Server, "stop", 0)
    <3>1. /\ m \in Mail
          /\ m.from = c /\ m.to = Server /\ m.type = "stop" /\ m.seq = 0 /\ m.left = kMaxRetries
      BY Constants, TypesAre DEF Letter, Mail
    <3>2. /\ command[c] = "stop" /\ mail' = mail \cup {m}
          /\ pc' = [pc EXCEPT ![c] = "flush"] /\ result' = [result EXCEPT ![c] = 0]
      BY <2>5 DEF StopCommand, StopMachine, SendMessage, Return
    <3> HIDE DEF m
    <3>3. Request(m)
      BY <3>1, <3>2 DEF Request
    <3> QED BY <2>1, <3>1, <3>2, <3>3 DEF Begin
  <2> QED BY <2>2, <2>3, <2>4, <2>5 DEF Begin
<1>2. PICK m \in Mail :
           /\ mail' = mail \cup {m} /\ m.from = c /\ Request(m) /\ m.left = kMaxRetries
           /\ Starts(c) => m.to = Server
           /\ \/ /\ pc' = [pc EXCEPT ![c] = "reply"] /\ result' = result
              \/ /\ pc' = [pc EXCEPT ![c] = "flush"] /\ result' = [result EXCEPT ![c] = 0]
                 /\ command[c] = "stop"
  BY <1>1
<1>3. Typed'
  <2>1. MailTypes'
    BY <1>2, MailGrows DEF Typed
  <2>2. result[c] = Pending
    BY <1>1 DEF Typed, ClientTypes, MachineTypes
  <2>3. ASSUME NEW where \in {"reply", "flush"}, pc' = [pc EXCEPT ![c] = where],
               NEW code \in {Pending, 0}, result' = [result EXCEPT ![c] = code],
               code = Pending <=> where = "reply"
        PROVE  ClientTypes'
    BY <1>1, <2>3, PcAndResult DEF Typed, ClientTypes
  <2>4. result' = result => result' = [result EXCEPT ![c] = Pending]
    BY <2>2 DEF Typed, ClientTypes
  <2>5. ClientTypes'
    BY <1>2, <2>3, <2>4 DEF Pending
  <2>6. MachineTypes'
    BY <1>1 DEF Typed, MachineTypes
  <2> QED BY <2>1, <2>5, <2>6 DEF Typed
<1>4. Letters'
  BY <1>1, <1>2 DEF Letters, Request, Answer, Told, Report, Starts
<1>5. Parents'
  BY <1>1 DEF Parents, Starts
<1>6. Beginnings'
  <2>1. /\ pc'[c] # "none" /\ m.to \notin Client
        /\ \A d \in Client : d # c => pc'[d] = pc[d]
    BY <1>2, Constants DEF Typed, ClientTypes, Request
  <2> QED BY <1>1, <1>2, <2>1 DEF Beginnings
<1>7. Ends'
  <2>1. \A d \in Client : command[d] = "follow" => result'[d] = result[d]
    BY <1>2 DEF Typed, ClientTypes, MachineTypes
  <2> QED BY <1>1, <2>1 DEF Ends, MachinesOf
<1>8. OnTime'
  <2> SUFFICES ASSUME NEW d \in Client, Starts(d)
               PROVE  /\ pc'[d] = "reply" =>
                            Reason(d)' \/ (lost >= waits[d] /\ Underway(d)')
                      /\ result'[d] = -1 => Reason(d)'
    BY <1>1 DEF OnTime, Starts
  <2>1. Reason(d)' <=> Reason(d)
    BY <1>1 DEF Reason, MachinesOf
  <2>2. CASE d # c
    <3>1. pc'[d] = pc[d] /\ result'[d] = result[d]
      BY <1>2, <2>2 DEF Typed, ClientTypes, MachineTypes
    <3>2. Underway(d) => Underway(d)'
      BY <1>1, <1>2 DEF Underway, Asked, Forked, Answered, Heard, MachinesOf
    <3> QED BY <2>1, <3>1, <3>2 DEF OnTime
  <2>3. CASE d = c
    <3>1. result'[c] = Pending
      BY <1>1, <1>2, <2>3 DEF Typed, ClientTypes, Starts
    <3>2. waits[c] = 0 /\ incoming[c] = <<>> /\ seen[Server][c] = -1 /\ m.to = Server
      BY <1>1, <1>2, <2>3 DEF Beginnings
    <3>3. Asked(c)'
      BY <1>1, <1>2, <3>2, Constants DEF Asked
    <3>4. lost >= waits[c] /\ Underway(c)'
      BY <1>1, <3>2, <3>3, Constants DEF Underway, Typed, ClientTypes, MachineTypes
    <3> QED BY <2>3, <3>1, <3>4 DEF Pending
  <2> QED BY <2>2, <2>3
<1> QED BY <1>3, <1>4, <1>5, <1>6, <1>7, <1>8

(* What a client does with what it has received changes nothing for the     *)
(* others; its command does not wait for "started" any more.                *)
LEMMA ClientStepKeeps ==
    ASSUME ClientInv, NEW c \in Client,
           UNCHANGED <<command, seen, status, parent, signalled, lost, wronged, slow>>,
           mail' \subseteq mail, \A m \in mail : m \notin mail' => m.to = c,
           ClientTypes', pc[c] # "none", pc'[c] # "none", Starts(c) => pc'[c] # "reply",
           \A d \in Client : d # c => /\ pc'[d] = pc[d] /\ result'[d] = result[d]
                                      /\ waits'[d] = waits[d] /\ incoming'[d] = incoming[d],
           \A k \in 1..Len(incoming'[c]) : \E j \in 1..Len(incoming[c]) :
              incoming[c][j] = incoming'[c][k],
           command[c] = "follow" /\ result'[c] = 0 => \E i \in MachinesOf(c) : status[i] = "exited",
           Starts(c) /\ result'[c] = -1 => Reason(c)
    PROVE  ClientInv'
<1> USE DEF ClientInv
<1>1. Typed'
  BY MailShrinks DEF Typed, MachineTypes
<1>2. Letters'
  BY DEF Letters, Request, Answer, Told, Report, Starts
<1>3. Parents'
  BY DEF Parents, Starts
<1>4. Beginnings'
  BY DEF Beginnings
<1>5. Ends'
  <2> SUFFICES ASSUME NEW d \in Client
               PROVE  /\ \A k \in 1..Len(incoming'[d]) : incoming'[d][k] = "exited" =>
                           \E i \in MachinesOf(d) : status[i] = "exited"
                      /\ command[d] = "follow" /\ result'[d] = 0 =>
                           \E i \in MachinesOf(d) : status[i] = "exited"
    BY DEF Ends, MachinesOf
  <2>1. CASE d = c
    BY <2>1 DEF Ends
  <2>2. CASE d # c
    BY <2>2 DEF Ends
  <2> QED BY <2>1, <2>2
<1>6. OnTime'
  <2> SUFFICES ASSUME NEW d \in Client, Starts(d)
               PROVE  /\ pc'[d] = "reply" =>
                            Reason(d) \/ (lost >= waits'[d] /\ Underway(d)')
                      /\ result'[d] = -1 => Reason(d)
    BY DEF OnTime, Starts, Reason, MachinesOf
  <2>1. CASE d = c
    BY <2>1
  <2>2. CASE d # c
    <3>1. Underway(d) => Underway(d)'
      BY <2>2, Constants DEF Underway, Asked, Forked, Answered, Heard, MachinesOf
    <3> QED BY <2>2, <3>1 DEF OnTime
  <2> QED BY <2>1, <2>2
<1> QED BY <1>1, <1>2, <1>3, <1>4, <1>5, <1>6

(* Taking the first message.                                                *)
LEMMA PopEffect ==
    ASSUME ClientTypes, NEW c \in Client, incoming[c] # <<>>, Pop(c)
    PROVE  /\ incoming' \in [Client -> Seq(Types)]
           /\ First(c) = incoming[c][1] /\ 1 \in 1..Len(incoming[c])
           /\ \A d \in Client : d # c => incoming'[d] = incoming[d]
           /\ \A k \in 1..Len(incoming'[c]) : \E j \in 1..Len(incoming[c]) :
                 incoming[c][j] = incoming'[c][k]
<1>1. incoming[c] \in Seq(Types) /\ incoming'[c] = Tail(incoming[c])
  BY DEF ClientTypes, Pop
<1>2. Tail(incoming[c]) \in Seq(Types)
  BY <1>1
<1>3. ASSUME NEW k \in 1..Len(Tail(incoming[c]))
      PROVE  k + 1 \in 1..Len(incoming[c]) /\ incoming[c][k + 1] = Tail(incoming[c])[k]
  BY <1>1
<1>4. First(c) = incoming[c][1] /\ 1 \in 1..Len(incoming[c])
  BY <1>1 DEF First
<1> QED BY <1>1, <1>2, <1>3, <1>4 DEF Pop, ClientTypes

LEMMA ReceiveMessageKeeps ==
    ASSUME ClientInv, NEW c \in Client, ReceiveMessage(c)
    PROVE  ClientInv'
<1> USE DEF ClientInv, Typed
<1>1. /\ pc[c] = "reply" /\ incoming[c] # <<>> /\ Pop(c)
      /\ UNCHANGED <<command, waits, mail, seen, status, parent, signalled, lost, wronged, slow>>
      /\ ReceiveStarted(c) \/ ReceiveReply(c)
  BY DEF ReceiveMessage, machineVars, history
<1>2. result[c] = Pending /\ result = [result EXCEPT ![c] = Pending]
  BY <1>1 DEF ClientTypes
<1>3. \E where \in {"follow", "flush"} : \E code \in {Pending, 0, -1} :
        /\ pc' = [pc EXCEPT ![c] = where] /\ result' = [result EXCEPT ![c] = code]
        /\ code # Pending <=> where = "flush"
        /\ Starts(c) /\ code = -1 => First(c) # "started"
        /\ command[c] = "follow" => code # 0
  BY <1>1, <1>2 DEF ReceiveStarted, ReceiveReply, Return, Starts, Pending
<1>4. PICK where \in {"follow", "flush"}, code \in {Pending, 0, -1} :
        /\ pc' = [pc EXCEPT ![c] = where] /\ result' = [result EXCEPT ![c] = code]
        /\ code # Pending <=> where = "flush"
        /\ Starts(c) /\ code = -1 => First(c) # "started"
        /\ command[c] = "follow" => code # 0
  BY <1>3
<1>5. /\ incoming' \in [Client -> Seq(Types)]
      /\ \A d \in Client : d # c => incoming'[d] = incoming[d]
      /\ \A k \in 1..Len(incoming'[c]) : \E j \in 1..Len(incoming[c]) :
                 incoming[c][j] = incoming'[c][k]
  BY <1>1, PopEffect
<1>6. /\ ClientTypes' /\ pc'[c] = where /\ result'[c] = code
      /\ \A d \in Client : d # c => pc'[d] = pc[d] /\ result'[d] = result[d]
  BY <1>1, <1>4, <1>5, PcAndResult DEF ClientTypes
<1>7. Starts(c) /\ result'[c] = -1 => Reason(c)
  BY <1>1, <1>4, <1>6 DEF OnTime, Underway, Heard, First
<1> QED BY <1>1, <1>4, <1>5, <1>6, <1>7, ClientStepKeeps

LEMMA FollowKeeps ==
    ASSUME ClientInv, NEW c \in Client, Follow(c)
    PROVE  ClientInv'
<1> USE DEF ClientInv, Typed
<1>1. /\ pc[c] = "follow" /\ incoming[c] # <<>> /\ Pop(c)
      /\ UNCHANGED <<command, waits, mail, seen, status, parent, signalled, lost, wronged, slow>>
      /\ IF First(c) = "exited" THEN Return(c, 0) ELSE UNCHANGED <<pc, result>>
  BY DEF Follow, machineVars, history
<1>2. /\ incoming' \in [Client -> Seq(Types)]
      /\ First(c) = incoming[c][1] /\ 1 \in 1..Len(incoming[c])
      /\ \A d \in Client : d # c => incoming'[d] = incoming[d]
      /\ \A k \in 1..Len(incoming'[c]) : \E j \in 1..Len(incoming[c]) :
                 incoming[c][j] = incoming'[c][k]
  BY <1>1, PopEffect
<1>3. CASE First(c) = "exited"
  <2>1. \E i \in MachinesOf(c) : status[i] = "exited"
    BY ZenonT(40), <1>2, <1>3 DEF Ends
  <2>2. pc' = [pc EXCEPT ![c] = "flush"] /\ result' = [result EXCEPT ![c] = 0]
    BY <1>1, <1>3 DEF Return
  <2>3. 0 # Pending /\ 0 # -1
    BY DEF Pending
  <2>4. /\ ClientTypes' /\ pc'[c] = "flush" /\ result'[c] = 0
        /\ \A d \in Client : d # c => pc'[d] = pc[d] /\ result'[d] = result[d]
    BY <1>1, <1>2, <2>2, <2>3, PcAndResult DEF ClientTypes
  <2> QED BY <1>1, <1>2, <2>1, <2>3, <2>4, ClientStepKeeps
<1>4. CASE First(c) # "exited"
  <2>1. pc' = pc /\ result' = result /\ result[c] = Pending
    BY <1>1, <1>4 DEF ClientTypes
  <2>2. ClientTypes'
    BY <1>1, <1>2, <2>1 DEF ClientTypes
  <2>3. 0 # Pending /\ -1 # Pending
    BY DEF Pending
  <2> QED BY <1>1, <1>2, <2>1, <2>2, <2>3, ClientStepKeeps
<1> QED BY <1>3, <1>4

LEMMA ReceiveFailsKeeps ==
    ASSUME ClientInv, NEW c \in Client, ReceiveFails(c)
    PROVE  ClientInv'
<1> USE DEF ClientInv, Typed
<1>1. /\ pc[c] = "reply" /\ waits[c] = kMaxRetries
      /\ UNCHANGED <<command, incoming, mail, seen, status, parent, signalled, lost, wronged, slow>>
      /\ IF command[c] = "send"
           THEN waits' = [waits EXCEPT ![c] = 0] /\ UNCHANGED <<pc, result>>
           ELSE Return(c, -1) /\ UNCHANGED waits
  BY DEF ReceiveFails, Exhausted, machineVars, history
<1>2. \A k \in 1..Len(incoming'[c]) : \E j \in 1..Len(incoming[c]) :
         incoming[c][j] = incoming'[c][k]
  BY <1>1
<1>3. CASE command[c] = "send"
  <2>1. /\ waits' \in [Client -> 0..kMaxRetries]
        /\ \A d \in Client : d # c => waits'[d] = waits[d]
    <3>1. waits' = [waits EXCEPT ![c] = 0] /\ 0 \in 0..kMaxRetries
      BY <1>1, <1>3, Constants
    <3>2. waits \in [Client -> 0..kMaxRetries]
      BY DEF ClientTypes
    <3> QED BY <3>1, <3>2
  <2>2. ClientTypes' /\ pc' = pc /\ result' = result
    BY <1>1, <1>3, <2>1 DEF ClientTypes
  <2>3. ~Starts(c)
    BY <1>3 DEF Starts
  <2> QED BY <1>1, <1>2, <1>3, <2>1, <2>2, <2>3, ClientStepKeeps
<1>4. CASE command[c] # "send"
  <2>1. pc' = [pc EXCEPT ![c] = "flush"] /\ result' = [result EXCEPT ![c] = -1] /\ waits' = waits
    BY <1>1, <1>4 DEF Return
  <2>2. -1 # Pending /\ -1 # 0 /\ -1 \in {Pending, 0, -1}
    BY DEF Pending
  <2>3. /\ ClientTypes' /\ pc'[c] = "flush" /\ result'[c] = -1
        /\ \A d \in Client : d # c => pc'[d] = pc[d] /\ result'[d] = result[d]
    BY <1>1, <2>1, <2>2, PcAndResult DEF ClientTypes
  <2>4. Starts(c) => Reason(c)
    BY <1>1 DEF OnTime, Reason
  <2> QED BY <1>1, <1>2, <2>1, <2>2, <2>3, <2>4, ClientStepKeeps
<1> QED BY <1>3, <1>4

LEMMA EndKeeps ==
    ASSUME ClientInv, NEW c \in Client, End(c)
    PROVE  ClientInv'
<1> USE DEF ClientInv, Typed
<1>1. /\ pc[c] = "flush" /\ pc' = [pc EXCEPT ![c] = "done"]
      /\ mail' = {m \in mail : m.to # c}
      /\ waits' = [waits EXCEPT ![c] = 0] /\ incoming' = [incoming EXCEPT ![c] = <<>>]
      /\ UNCHANGED <<command, result, seen, status, parent, signalled, lost, wronged, slow>>
  BY DEF End, machineVars, history
<1>2. /\ incoming' \in [Client -> Seq(Types)] /\ incoming'[c] = <<>>
      /\ waits' \in [Client -> 0..kMaxRetries]
      /\ \A d \in Client : d # c => incoming'[d] = incoming[d] /\ waits'[d] = waits[d]
  <2>1. <<>> \in Seq(Types) /\ 0 \in 0..kMaxRetries
    BY Constants
  <2> QED BY <1>1, <2>1 DEF ClientTypes
<1>3. result' = [result EXCEPT ![c] = result[c]] /\ result[c] # Pending
      /\ result[c] \in {Pending, 0, -1}
  BY <1>1 DEF ClientTypes
<1>4. /\ ClientTypes' /\ pc'[c] = "done" /\ result'[c] = result[c]
      /\ \A d \in Client : d # c => pc'[d] = pc[d] /\ result'[d] = result[d]
  BY <1>1, <1>2, <1>3, PcAndResult DEF ClientTypes
<1>5. \A k \in 1..Len(incoming'[c]) : \E j \in 1..Len(incoming[c]) :
         incoming[c][j] = incoming'[c][k]
  BY <1>2
<1>6. /\ command[c] = "follow" /\ result'[c] = 0 => \E i \in MachinesOf(c) : status[i] = "exited"
      /\ Starts(c) /\ result'[c] = -1 => Reason(c)
  BY <1>4 DEF Ends, OnTime
<1> QED BY <1>1, <1>2, <1>4, <1>5, <1>6, ClientStepKeeps

-----------------------------------------------------------------------------
(* The machines' steps.                                                     *)

(* The parent is sent all of the messages if it listens, and none if not.   *)
LEMMA TellEffect ==
    ASSUME MailTypes, NEW i \in Machine, NEW types, NEW registration \in Mail,
           parent[i] \in Client, Tell(i, types, registration),
           registration.from = i /\ Report(registration),
           DOMAIN types \in {{"started"}, {"exited"}, {"errored", "exited"}},
           \A t \in DOMAIN types : types[t] \in 0..2
    PROVE  /\ MailTypes'
           /\ mail \subseteq mail'
           /\ \A m \in mail' \ mail :
                \/ m.from = i /\ m.to = Server /\ Report(m)
                \/ /\ m.from = i /\ m.to = parent[i]
                   /\ m.type \in DOMAIN types /\ m.seq = types[m.type]
           /\ Listening(parent[i]) => \A t \in DOMAIN types :
                \E m \in mail' : m.from = i /\ m.to = parent[i] /\ m.left = kMaxRetries
<1> DEFINE told(t) == Letter(i, parent[i], t, types[t])
           new == {told(t) : t \in {u \in DOMAIN types : Listening(parent[i])}}
<1>1. mail' = mail \cup {registration} \cup new
  BY DEF Tell
<1>2. \A t \in DOMAIN types : /\ told(t) \in Mail
                              /\ told(t).from = i /\ told(t).to = parent[i]
                              /\ told(t).type = t /\ told(t).seq = types[t]
                              /\ told(t).left = kMaxRetries
  <2>1. DOMAIN types \subseteq Types
    BY DEF Types
  <2> QED BY <2>1, Constants DEF Letter, Mail
<1>3. new \subseteq Mail
  BY <1>2
<1>4. IsFiniteSet(new)
  <2>1. new \in SUBSET ({told("started")} \cup {told("errored")} \cup {told("exited")})
    OBVIOUS
  <2> HIDE DEF told
  <2>2. /\ IsFiniteSet({told("started")}) /\ IsFiniteSet({told("errored")})
        /\ IsFiniteSet({told("exited")})
    BY FS_Singleton
  <2>3. IsFiniteSet({told("started")} \cup {told("errored")})
    BY <2>2, FS_Union
  <2>4. IsFiniteSet({told("started")} \cup {told("errored")} \cup {told("exited")})
    BY <2>2, <2>3, FS_Union
  <2> QED BY <2>1, <2>4, FS_Subset
<1>5. MailTypes'
  <2> HIDE DEF new
  <2>1. mail \cup {registration} \subseteq Mail /\ IsFiniteSet(mail \cup {registration})
    BY FS_AddElement DEF MailTypes
  <2>2. IsFiniteSet((mail \cup {registration}) \cup new)
    BY <1>4, <2>1, FS_Union
  <2> QED BY <1>1, <1>3, <2>1, <2>2 DEF MailTypes
<1>6. ASSUME NEW m \in mail' \ mail
      PROVE  \/ m.from = i /\ m.to = Server /\ Report(m)
             \/ /\ m.from = i /\ m.to = parent[i]
                /\ m.type \in DOMAIN types /\ m.seq = types[m.type]
  <2>1. CASE m = registration
    BY <2>1 DEF Report
  <2>2. CASE m \in new
    BY <1>2, <2>2
  <2> QED BY <1>1, <2>1, <2>2
<1>7. ASSUME Listening(parent[i]), NEW t \in DOMAIN types
      PROVE  \E m \in mail' : m.from = i /\ m.to = parent[i] /\ m.left = kMaxRetries
  <2>1. told(t) \in mail'
    BY <1>1, <1>7
  <2> QED BY <1>2, <2>1
<1> HIDE DEF new
<1> QED BY <1>1, <1>5, <1>6, <1>7

(* What a machine sends its server, as it starts and as it ends.            *)
LEMMA Registration ==
    ASSUME NEW i \in Machine, NEW type \in {"register", "unregister"}, NEW seq \in 0..1
    PROVE  /\ Letter(i, Server, type, seq) \in Mail
           /\ Letter(i, Server, type, seq).from = i
           /\ Report(Letter(i, Server, type, seq))
BY Constants, TypesAre DEF Letter, Mail, Report

LEMMA MachineStartsKeeps ==
    ASSUME ClientInv, NEW i \in Machine, MachineStarts(i)
    PROVE  ClientInv'
<1> USE DEF ClientInv
<1>1. /\ status[i] = "forked" /\ status' = [status EXCEPT ![i] = "running"]
      /\ Tell(i, [started |-> 0], Letter(i, Server, "register", 0))
      /\ UNCHANGED <<command, pc, waits, result, incoming, seen, parent, signalled, lost, wronged, slow>>
  BY DEF MachineStarts, clientVars, history
<1>2. parent[i] \in Client /\ Starts(parent[i]) /\ seen[Server][parent[i]] >= 0
  BY <1>1 DEF Parents
<1>3. /\ MailTypes' /\ mail \subseteq mail'
      /\ \A m \in mail' \ mail :
           \/ m.from = i /\ m.to = Server /\ Report(m)
           \/ m.from = i /\ m.to = parent[i] /\ m.type = "started" /\ m.seq = 0
      /\ Listening(parent[i]) =>
           \E m \in mail' : m.from = i /\ m.to = parent[i] /\ m.left = kMaxRetries
  <2> DEFINE types == [started |-> 0]
             registration == Letter(i, Server, "register", 0)
  <2>1. DOMAIN types = {"started"} /\ types["started"] = 0 /\ types["started"] \in 0..2
    OBVIOUS
  <2>2. Tell(i, types, registration)
    BY <1>1
  <2>3. registration \in Mail /\ registration.from = i /\ Report(registration)
    BY Registration
  <2> HIDE DEF types, registration
  <2> QED BY <1>2, <2>1, <2>2, <2>3, TellEffect DEF Typed
<1>4. /\ status' \in [Machine -> {"none", "forked", "running", "exited", "crashed"}]
      /\ status'[i] = "running" /\ \A j \in Machine : j # i => status'[j] = status[j]
  BY <1>1 DEF Typed, MachineTypes
<1>5. Typed'
  BY <1>1, <1>3, <1>4 DEF Typed, ClientTypes, MachineTypes
<1>6. Letters'
  <2> SUFFICES ASSUME NEW m \in mail' PROVE Request(m)' \/ Answer(m)' \/ Told(m)' \/ Report(m)'
    BY DEF Letters
  <2>1. CASE m \in mail
    BY <1>1, <1>4, <2>1 DEF Letters, Request, Answer, Told, Report, Starts
  <2>2. CASE m \notin mail
    BY <1>1, <1>2, <1>3, <1>4, <2>2 DEF Told, Report
  <2> QED BY <2>1, <2>2
<1>7. Parents'
  BY <1>1, <1>4 DEF Parents, Starts
<1>8. Beginnings'
  <2>1. pc[parent[i]] # "none"
    BY <1>2 DEF Beginnings
  <2> QED BY <1>1, <1>2, <1>3, <1>4, <2>1, Constants DEF Beginnings
<1>9. Ends'
  BY <1>1, <1>4 DEF Ends, MachinesOf
<1>10. OnTime'
  <2> SUFFICES ASSUME NEW d \in Client, Starts(d)
               PROVE  /\ pc[d] = "reply" => Reason(d)' \/ (lost >= waits[d] /\ Underway(d)')
                      /\ result[d] = -1 => Reason(d)'
    BY <1>1 DEF OnTime, Starts
  <2>1. Reason(d) => Reason(d)'
    BY <1>1, <1>4 DEF Reason, MachinesOf
  <2>2. ASSUME pc[d] = "reply", Underway(d), d # parent[i]
        PROVE  Underway(d)'
    BY <1>1, <1>3, <1>4, <2>2 DEF Underway, Asked, Forked, Answered, Heard, MachinesOf
  <2>3. ASSUME pc[d] = "reply", Underway(d), d = parent[i]
        PROVE  Underway(d)'
    <3>1. ~Asked(d)
      BY <1>2, <2>3 DEF Asked, MachineTypes, Typed
    <3>2. i \in MachinesOf(d) /\ \A j \in MachinesOf(d) : j = i
      BY <1>2, <2>3 DEF MachinesOf, Parents
    <3>3. Answered(d)'
      <4>1. seen[d][i] = -1
        BY <1>1, <1>2, <2>3 DEF Beginnings
      <4>2. Listening(d)
        BY <2>3 DEF Listening
      <4>3. kMaxRetries >= kMaxRetries - waits[d]
        BY Constants DEF Typed, ClientTypes
      <4> QED BY <1>1, <1>3, <1>4, <2>3, <3>2, <4>1, <4>2, <4>3 DEF Answered, MachinesOf
    <3> QED BY <1>1, <2>3, <3>1, <3>3 DEF Underway, Heard
  <2> QED BY <2>1, <2>2, <2>3 DEF OnTime
<1> QED BY <1>5, <1>6, <1>7, <1>8, <1>9, <1>10

(* A machine comes to its end, and that is a reason.                        *)
LEMMA MachineEndsKeeps ==
    ASSUME ClientInv, NEW i \in Machine, NEW end \in {"exited", "crashed"},
           status[i] \in {"forked", "running"}, status' = [status EXCEPT ![i] = end],
           UNCHANGED <<command, pc, waits, result, incoming, seen, parent, signalled, lost, wronged, slow>>,
           MailTypes', \A m \in mail : m.from # i => m \in mail',
           \A m \in mail' : Request(m)' \/ Answer(m)' \/ Told(m)' \/ Report(m)',
           \A m \in mail' \ mail : m.from = i /\ m.to \in {parent[i], Server}
    PROVE  ClientInv'
<1> USE DEF ClientInv
<1>1. /\ status' \in [Machine -> {"none", "forked", "running", "exited", "crashed"}]
      /\ status'[i] = end /\ \A j \in Machine : j # i => status'[j] = status[j]
  BY DEF Typed, MachineTypes
<1>2. parent[i] \in Client /\ Starts(parent[i]) /\ seen[Server][parent[i]] >= 0
  BY DEF Parents
<1>3. Typed'
  BY <1>1 DEF Typed, ClientTypes, MachineTypes
<1>4. Letters'
  BY DEF Letters
<1>5. Parents'
  BY <1>1 DEF Parents, Starts
<1>6. Beginnings'
  <2>1. pc[parent[i]] # "none"
    BY <1>2 DEF Beginnings
  <2> QED BY <1>1, <1>2, <2>1, Constants DEF Beginnings
<1>7. Ends'
  BY <1>1 DEF Ends, MachinesOf
<1>8. OnTime'
  <2> SUFFICES ASSUME NEW d \in Client, Starts(d)
               PROVE  /\ pc[d] = "reply" => Reason(d)' \/ (lost >= waits[d] /\ Underway(d)')
                      /\ result[d] = -1 => Reason(d)'
    BY DEF OnTime, Starts
  <2>1. CASE d = parent[i]
    BY <1>1, <2>1 DEF Reason, MachinesOf
  <2>2. CASE d # parent[i]
    <3>1. Reason(d) => Reason(d)'
      BY <1>1 DEF Reason, MachinesOf
    <3>2. \A j \in MachinesOf(d) : j # i
      BY <2>2 DEF MachinesOf
    <3>3. i # d
      BY Constants
    <3>4. Underway(d) => Underway(d)'
      BY <1>1, <3>2, <3>3 DEF Underway, Asked, Forked, Answered, Heard, MachinesOf
    <3> QED BY <3>1, <3>4 DEF OnTime
  <2> QED BY <2>1, <2>2
<1> QED BY <1>3, <1>4, <1>5, <1>6, <1>7, <1>8

LEMMA MachineExitsKeeps ==
    ASSUME ClientInv, NEW i \in Machine, MachineExits(i)
    PROVE  ClientInv'
<1> USE DEF ClientInv
<1>1. /\ status[i] = "running" /\ status' = [status EXCEPT ![i] = "exited"]
      /\ UNCHANGED <<command, pc, waits, result, incoming, seen, parent, signalled, lost, wronged, slow>>
  BY DEF MachineExits, clientVars, history
<1>2. parent[i] \in Client
  BY <1>1 DEF Parents
<1>3. /\ status'[i] = "exited" /\ \A j \in Machine : j # i => status'[j] = status[j]
  BY <1>1 DEF Typed, MachineTypes
<1> DEFINE registration == Letter(i, Server, "unregister", 1)
<1>4. PICK types \in {[exited |-> 1], [errored |-> 1, exited |-> 2]} : Tell(i, types, registration)
  BY DEF MachineExits
<1>9. registration \in Mail /\ registration.from = i /\ Report(registration)
  BY Registration
<1> HIDE DEF registration
<1>5. /\ DOMAIN types \in {{"exited"}, {"errored", "exited"}}
      /\ \A t \in DOMAIN types : types[t] \in 1..2
  <2>1. CASE types = [exited |-> 1]
    BY <2>1
  <2>2. CASE types = [errored |-> 1, exited |-> 2]
    BY <2>2
  <2> QED BY <2>1, <2>2
<1>6. /\ DOMAIN types \in {{"started"}, {"exited"}, {"errored", "exited"}}
      /\ \A t \in DOMAIN types : types[t] \in 0..2
  BY <1>5
<1>7. /\ MailTypes' /\ mail \subseteq mail'
      /\ \A m \in mail' \ mail :
           \/ m.from = i /\ m.to = Server /\ Report(m)
           \/ /\ m.from = i /\ m.to = parent[i]
              /\ m.type \in DOMAIN types /\ m.seq = types[m.type]
  BY <1>2, <1>4, <1>6, <1>9, TellEffect DEF Typed
<1>8. ASSUME NEW m \in mail' PROVE Request(m)' \/ Answer(m)' \/ Told(m)' \/ Report(m)'
  <2>1. CASE m \in mail
    BY <1>1, <1>3, <2>1 DEF Letters, Request, Answer, Told, Report, Starts
  <2>2. CASE m \notin mail
    <3>1. CASE Report(m)
      BY <3>1 DEF Report
    <3>2. CASE ~Report(m)
      <4>1. m.from = i /\ m.to = parent[i] /\ m.type \in {"errored", "exited"} /\ m.seq \in 1..2
        BY <1>5, <1>7, <2>2, <3>2
      <4> QED BY <1>1, <1>2, <1>3, <4>1 DEF Told
    <3> QED BY <3>1, <3>2
  <2> QED BY <2>1, <2>2
<1> QED BY <1>1, <1>7, <1>8, MachineEndsKeeps

LEMMA MachineCrashesKeeps ==
    ASSUME ClientInv, NEW i \in Machine, MachineCrashes(i)
    PROVE  ClientInv'
<1> USE DEF ClientInv
<1>1. /\ status[i] \in {"forked", "running"} /\ status' = [status EXCEPT ![i] = "crashed"]
      /\ mail' = {m \in mail : m.from # i}
      /\ UNCHANGED <<command, pc, waits, result, incoming, seen, parent, signalled, lost, wronged, slow>>
  BY DEF MachineCrashes, clientVars, history
<1>2. \A j \in Machine : j # i => status'[j] = status[j]
  BY <1>1 DEF Typed, MachineTypes
<1>3. MailTypes'
  BY <1>1, MailShrinks DEF Typed
<1>4. ASSUME NEW m \in mail' PROVE Request(m)' \/ Answer(m)' \/ Told(m)' \/ Report(m)'
  BY <1>1, <1>2 DEF Letters, Request, Answer, Told, Report, Starts
<1> QED BY <1>1, <1>3, <1>4, MachineEndsKeeps

-----------------------------------------------------------------------------
(* A transmission arrives.                                                  *)

(* A message stays, or has arrived, or the starter it is from or to has been*)
(* wronged.                                                                 *)
Kept(n) ==
    \/ n \in mail'
    \/ n.seq <= seen'[n.to][n.from]
    \/ \A c \in Client : Starts(c) /\ c \in {n.from, n.to} => c \in wronged'

(* What a delivery leaves as it is.                                         *)
LEMMA DeliverEffect ==
    ASSUME Typed, NEW m \in mail, Deliver(m)
    PROVE  /\ Listening(m.to) /\ m \in Mail
           /\ UNCHANGED <<command, pc, waits, result, lost, slow>>
           /\ wronged \subseteq wronged' /\ wronged' \subseteq Client
           /\ \A n \in mail : Kept(n)
           /\ mail' \subseteq mail \cup (IF Duplicate(m) THEN {} ELSE Answers(m))
           /\ IF Duplicate(m)
                THEN UNCHANGED <<seen, status, parent, signalled, incoming>>
                ELSE /\ seen'[m.to][m.from] = m.seq
                     /\ \A a, b \in Mailbox : a # m.to \/ b # m.from => seen'[a][b] = seen[a][b]
                     /\ Handle(m)
           /\ seen' \in [Mailbox -> [Mailbox -> -1..2]]
<1>1. m \in Mail /\ m.from \in Mailbox /\ m.to \in Mailbox /\ m.seq \in -1..2
  BY DEF Typed, MailTypes, Mail
<1>2. seen' = [seen EXCEPT ![m.to][m.from] = IF Duplicate(m) THEN @ ELSE m.seq]
  BY DEF Deliver
<1>3. PICK erased \in {{}} \cup {{n} : n \in Acknowledged(m)} :
        /\ mail' = (mail \ erased) \cup (IF Duplicate(m) THEN {} ELSE Answers(m))
        /\ wronged' = wronged \cup {c \in Starters : \E n \in erased \ {m} :
                                    c \in {n.from, n.to} /\ n.seq > seen'[n.to][n.from]}
  BY DEF Deliver
<1>4. Duplicate(m) => seen' = seen
  BY <1>1, <1>2 DEF Typed, MachineTypes
<1>5. ~Duplicate(m) => /\ seen'[m.to][m.from] = m.seq
                       /\ \A a, b \in Mailbox : a # m.to \/ b # m.from => seen'[a][b] = seen[a][b]
                       /\ seen' \in [Mailbox -> [Mailbox -> -1..2]]
  <2> SUFFICES ASSUME ~Duplicate(m)
               PROVE  /\ seen'[m.to][m.from] = m.seq
                      /\ \A a, b \in Mailbox : a # m.to \/ b # m.from => seen'[a][b] = seen[a][b]
                      /\ seen' \in [Mailbox -> [Mailbox -> -1..2]]
    OBVIOUS
  <2>1. seen' = [seen EXCEPT ![m.to] = [seen[m.to] EXCEPT ![m.from] = m.seq]]
    BY <1>2
  <2>2. seen \in [Mailbox -> [Mailbox -> -1..2]]
    BY DEF Typed, MachineTypes
  <2>3. [seen[m.to] EXCEPT ![m.from] = m.seq] \in [Mailbox -> -1..2]
    BY <1>1, <2>2
  <2>4. seen' \in [Mailbox -> [Mailbox -> -1..2]]
    BY <1>1, <2>1, <2>2, <2>3
  <2>5. seen'[m.to] = [seen[m.to] EXCEPT ![m.from] = m.seq]
    BY <1>1, <2>1, <2>2
  <2>6. \A a \in Mailbox : a # m.to => seen'[a] = seen[a]
    BY <2>1, <2>2
  <2>7. seen'[m.to][m.from] = m.seq
    BY <1>1, <2>2, <2>5
  <2>8. \A b \in Mailbox : b # m.from => seen'[m.to][b] = seen[m.to][b]
    BY <1>1, <2>2, <2>5
  <2> QED BY <2>4, <2>6, <2>7, <2>8
<1>6. /\ Listening(m.to) /\ UNCHANGED <<command, pc, waits, result, lost, slow>>
      /\ IF Duplicate(m) THEN UNCHANGED <<machineVars, incoming>> ELSE Handle(m)
  BY DEF Deliver
<1>7. seen' \in [Mailbox -> [Mailbox -> -1..2]] /\ seen'[m.to][m.from] >= m.seq
  <2>1. CASE Duplicate(m)
    BY <1>4, <2>1 DEF Duplicate, Typed, MachineTypes
  <2>2. CASE ~Duplicate(m)
    BY <1>1, <1>5, <2>2
  <2> QED BY <2>1, <2>2
<1>8. wronged \subseteq wronged' /\ wronged' \subseteq Client
  BY <1>3 DEF Typed, MachineTypes, Starters
<1>9. ASSUME NEW n \in mail PROVE Kept(n)
  <2>1. n \in Mail /\ n.from \in Mailbox /\ n.to \in Mailbox /\ n.seq \in 0..2
    BY DEF Typed, MailTypes, Mail
  <2>2. seen'[n.to][n.from] \in -1..2
    BY <1>7, <2>1
  <2>3. CASE n \notin erased
    BY <1>3, <2>3 DEF Kept
  <2>4. CASE n = m
    BY <1>1, <1>7, <2>2, <2>4 DEF Kept
  <2>5. CASE n \in erased \ {m} /\ n.seq > seen'[n.to][n.from]
    BY <1>3, <2>5 DEF Kept, Starts, Starters
  <2> QED BY <2>1, <2>2, <2>3, <2>4, <2>5 DEF Kept
<1> QED BY <1>1, <1>3, <1>4, <1>5, <1>6, <1>7, <1>8, <1>9 DEF Typed, MachineTypes, machineVars

(* A reason lasts through a delivery, and what is under way for a client    *)
(* that is not concerned stays so, unless it is wronged.                    *)
LEMMA ReasonDelivered ==
    ASSUME Typed, NEW m \in mail, Deliver(m), NEW d \in Client,
           \A i \in Machine : status[i] # "none" => status'[i] = status[i] /\ parent'[i] = parent[i]
    PROVE  /\ Reason(d) => Reason(d)'
           /\ d \in wronged' => Reason(d)'
<1>1. lost' = lost /\ slow' = slow /\ wronged \subseteq wronged'
  BY DeliverEffect
<1>2. \A i \in MachinesOf(d) : status[i] \in {"exited", "crashed"} =>
         i \in MachinesOf(d)' /\ status'[i] = status[i]
  BY DEF MachinesOf
<1> QED BY <1>1, <1>2 DEF Reason

LEMMA OthersUnderway ==
    ASSUME Typed, NEW m \in mail, Deliver(m), NEW d \in Client, Starts(d),
           incoming'[d] = incoming[d], seen'[Server][d] = seen[Server][d],
           \A i \in Machine : seen'[d][i] = seen[d][i],
           \A i \in Machine : status[i] # "none" => status'[i] = status[i] /\ parent'[i] = parent[i]
    PROVE  Underway(d) => Underway(d)' \/ d \in wronged'
<1>1. UNCHANGED waits /\ \A n \in mail : Kept(n) /\ n.seq \in 0..2
  BY DeliverEffect DEF Typed, MailTypes, Mail
<1>2. Asked(d) => Asked(d)' \/ d \in wronged'
  <2> SUFFICES ASSUME seen[Server][d] = -1,
                      NEW n \in mail, n.from = d, n.to = Server, n.left >= kMaxRetries - waits[d]
               PROVE  Asked(d)' \/ d \in wronged'
    BY DEF Asked
  <2>1. n \in mail' \/ d \in wronged'
    BY <1>1 DEF Kept
  <2> QED BY <1>1, <2>1 DEF Asked
<1>3. Forked(d) => Forked(d)'
  BY DEF Forked, MachinesOf
<1>4. Answered(d) => Answered(d)' \/ d \in wronged'
  <2> SUFFICES ASSUME NEW i \in MachinesOf(d), status[i] = "running", seen[d][i] = -1,
                      NEW n \in mail, n.from = i, n.to = d, n.left >= kMaxRetries - waits[d]
               PROVE  Answered(d)' \/ d \in wronged'
    BY DEF Answered
  <2>1. seen'[d][i] = -1 /\ i \in MachinesOf(d)' /\ status'[i] = "running"
    BY DEF MachinesOf
  <2>2. n \in mail' \/ d \in wronged'
    BY <1>1, <2>1 DEF Kept
  <2> QED BY <1>1, <2>1, <2>2 DEF Answered
<1> QED BY <1>2, <1>3, <1>4 DEF Underway, Heard

(* A delivery without effect on clients and machines: of a duplicate, or of *)
(* what a machine tells its server.                                         *)
LEMMA QuietKeeps ==
    ASSUME ClientInv, NEW m \in mail, Deliver(m), mail' \subseteq mail,
           UNCHANGED <<status, parent, signalled, incoming>>,
           \A c \in Client : seen'[Server][c] = seen[Server][c]
                            /\ \A i \in Machine : seen'[c][i] = seen[c][i]
    PROVE  ClientInv'
<1> USE DEF ClientInv
<1>1. /\ UNCHANGED <<command, pc, waits, result, lost, slow>> /\ wronged' \subseteq Client
      /\ seen' \in [Mailbox -> [Mailbox -> -1..2]]
  BY DeliverEffect
<1>2. Typed'
  BY <1>1, MailShrinks DEF Typed, ClientTypes, MachineTypes
<1>3. Letters'
  BY <1>1 DEF Letters, Request, Answer, Told, Report, Starts
<1>4. Parents' /\ Beginnings' /\ Ends'
  BY <1>1 DEF Starts, Parents, Beginnings, Ends, MachinesOf
<1>5. OnTime'
  <2> SUFFICES ASSUME NEW d \in Client, Starts(d)
               PROVE  /\ pc[d] = "reply" => Reason(d)' \/ (lost >= waits[d] /\ Underway(d)')
                      /\ result[d] = -1 => Reason(d)'
    BY <1>1 DEF OnTime, Starts
  <2>1. (Reason(d) => Reason(d)') /\ (d \in wronged' => Reason(d)')
    BY ReasonDelivered
  <2>2. Underway(d) => Underway(d)' \/ d \in wronged'
    BY OthersUnderway
  <2> QED BY <2>1, <2>2 DEF OnTime
<1> QED BY <1>2, <1>3, <1>4, <1>5

LEMMA DuplicateKeeps ==
    ASSUME ClientInv, NEW m \in mail, Deliver(m), Duplicate(m)
    PROVE  ClientInv'
<1>1. /\ UNCHANGED <<seen, status, parent, signalled, incoming>> /\ mail' \subseteq mail
  BY DeliverEffect DEF ClientInv
<1> QED BY <1>1, QuietKeeps

(* "register" and "unregister" are for the registry, which is elsewhere.    *)
LEMMA ReportKeeps ==
    ASSUME ClientInv, NEW m \in mail, Deliver(m), ~Duplicate(m), Report(m)
    PROVE  ClientInv'
<1>1. m.from \in Machine /\ m.to = Server /\ m.type \in {"register", "unregister"}
  BY DEF Report
<1>2. /\ mail' \subseteq mail \cup Answers(m) /\ Handle(m)
      /\ \A a, b \in Mailbox : a # m.to \/ b # m.from => seen'[a][b] = seen[a][b]
  BY DeliverEffect DEF ClientInv
<1>3. Answers(m) = {}
  BY <1>1 DEF Answers
<1>4. UNCHANGED <<status, parent, signalled>> /\ incoming' = [c \in Client |-> incoming[c]]
  BY <1>1, <1>2, Constants DEF Handle, Serve, machineVars
<1>5. incoming' = incoming
  BY <1>4 DEF ClientInv, Typed, ClientTypes
<1>6. \A c \in Client : seen'[Server][c] = seen[Server][c]
                       /\ \A i \in Machine : seen'[c][i] = seen[c][i]
  BY <1>1, <1>2, Constants
<1> QED BY <1>2, <1>3, <1>4, <1>5, <1>6, QuietKeeps

(* At the server: a machine is forked for the client, or nothing changes.   *)
LEMMA ServeKeeps ==
    ASSUME ClientInv, NEW m \in mail, Deliver(m), ~Duplicate(m), m.to = Server, ~Report(m)
    PROVE  ClientInv'
<1> USE DEF ClientInv
<1>1. /\ UNCHANGED <<command, pc, waits, result, lost, slow>> /\ m \in Mail
      /\ mail' \subseteq mail \cup Answers(m) /\ wronged' \subseteq Client
      /\ seen'[Server][m.from] = m.seq
      /\ \A a, b \in Mailbox : a # Server \/ b # m.from => seen'[a][b] = seen[a][b]
      /\ seen' \in [Mailbox -> [Mailbox -> -1..2]]
      /\ Handle(m)
  BY DeliverEffect
<1>2. /\ m.from \in Client /\ m.seq = 0
      /\ \/ m.type = "start" /\ Starts(m.from)
         \/ m.type \in {"stop", "list"} /\ command[m.from] = m.type
  BY Constants DEF Letters, Request, Answer, Told, Report
<1>3. Serve(m) /\ incoming' = [c \in Client |-> incoming[c]]
  BY <1>1, Constants DEF Handle
<1>4. incoming' = incoming
  BY <1>3 DEF Typed, ClientTypes
<1>5. seen[Server][m.from] = -1
  <2>1. seen[Server][m.from] \in -1..2
    BY <1>2, Constants DEF Typed, MachineTypes
  <2>2. ~(0 <= seen[Server][m.from])
    BY <1>2 DEF Duplicate
  <2> QED BY <2>1, <2>2
<1>6. pc[m.from] # "none"
  BY <1>2 DEF Beginnings
<1>7. /\ \A n \in Answers(m) : /\ n \in Mail /\ n.from = Server /\ n.to = m.from
                               /\ n.type = "list" /\ n.seq = 0 /\ command[m.from] = "list"
      /\ IsFiniteSet(Answers(m))
  <2>1. CASE m.type = "list"
    <3>1. Answers(m) = {Letter(Server, m.from, "list", 0)}
      BY <2>1 DEF Answers
    <3>2. command[m.from] = "list"
      BY <1>2, <2>1
    <3>3. /\ Letter(Server, m.from, "list", 0) \in Mail
          /\ Letter(Server, m.from, "list", 0).from = Server
          /\ Letter(Server, m.from, "list", 0).to = m.from
          /\ Letter(Server, m.from, "list", 0).type = "list"
          /\ Letter(Server, m.from, "list", 0).seq = 0
      BY <1>2, Constants, TypesAre DEF Letter, Mail
    <3> QED BY <3>1, <3>2, <3>3, FS_Singleton
  <2>2. CASE m.type # "list"
    <3>1. m.type # "message"
      BY <1>2
    <3>2. Answers(m) = {}
      BY <2>2, <3>1 DEF Answers
    <3> QED BY <3>2, FS_EmptySet
  <2> QED BY <2>1, <2>2
<1>8. MailTypes'
  <2>1. mail \cup Answers(m) \subseteq Mail /\ IsFiniteSet(mail \cup Answers(m))
    BY <1>7, FS_Union DEF Typed, MailTypes
  <2> QED BY <1>1, <2>1, FS_Subset DEF MailTypes
<1>9. \/ /\ status' = status /\ parent' = parent /\ signalled' \subseteq Machine
         /\ ~Starts(m.from)
      \/ \E i \in Machine : /\ status[i] = "none" /\ status' = [status EXCEPT ![i] = "forked"]
                            /\ parent' = [parent EXCEPT ![i] = m.from] /\ Starts(m.from)
                            /\ signalled' \subseteq Machine
  <2> DEFINE stopped == {signalled} \cup {signalled \cup {i} : i \in Running}
  <2>3. ASSUME signalled' \in stopped PROVE signalled' \subseteq Machine
    BY <2>3 DEF Running, Typed, MachineTypes
  <2>1. CASE m.type = "start"
    BY <1>2, <1>3, <2>1, <2>3 DEF Serve, Start, Starts, StopRegistered
  <2>2. CASE m.type \in {"stop", "list"}
    <3>1. status' = status /\ parent' = parent /\ signalled' \subseteq Machine
      BY <1>3, <2>2, <2>3 DEF Serve, Stop, StopRegistered, machineVars, Typed, MachineTypes
    <3>2. ~Starts(m.from)
      BY <1>2, <2>2 DEF Starts
    <3> QED BY <3>1, <3>2
  <2> QED BY <1>2, <2>1, <2>2
<1>10. /\ status' \in [Machine -> {"none", "forked", "running", "exited", "crashed"}]
       /\ parent' \in [Machine -> Mailbox \cup {Nobody}]
       /\ signalled' \subseteq Machine
       /\ \A i \in Machine : status[i] # "none" => status'[i] = status[i] /\ parent'[i] = parent[i]
       /\ \A i \in Machine : \/ status'[i] = status[i] /\ parent'[i] = parent[i]
                             \/ /\ status[i] = "none" /\ status'[i] = "forked"
                                /\ parent'[i] = m.from /\ Starts(m.from)
       /\ \A i, j \in Machine : i # j => \/ status'[i] = status[i] /\ parent'[i] = parent[i]
                                         \/ status'[j] = status[j] /\ parent'[j] = parent[j]
       /\ Starts(m.from) => \E i \in Machine : status'[i] = "forked" /\ parent'[i] = m.from
  <2>1. CASE status' = status /\ parent' = parent /\ signalled' \subseteq Machine /\ ~Starts(m.from)
    BY <2>1 DEF Typed, MachineTypes
  <2>2. ASSUME NEW i \in Machine, status[i] = "none", status' = [status EXCEPT ![i] = "forked"],
               parent' = [parent EXCEPT ![i] = m.from], Starts(m.from), signalled' \subseteq Machine
        PROVE  /\ status' \in [Machine -> {"none", "forked", "running", "exited", "crashed"}]
               /\ parent' \in [Machine -> Mailbox \cup {Nobody}]
               /\ signalled' \subseteq Machine
               /\ status'[i] = "forked" /\ parent'[i] = m.from
               /\ \A j \in Machine : j # i => status'[j] = status[j] /\ parent'[j] = parent[j]
    BY <1>2, <2>2, Constants DEF Typed, MachineTypes
  <2> QED BY <1>9, <2>1, <2>2
<1>11. Typed'
  BY <1>1, <1>4, <1>8, <1>10 DEF Typed, ClientTypes, MachineTypes
<1>12. Letters'
  <2> SUFFICES ASSUME NEW n \in mail' PROVE Request(n)' \/ Answer(n)' \/ Told(n)' \/ Report(n)'
    BY DEF Letters
  <2>1. CASE n \in mail
    <3>1. Request(n) => Request(n)'
      BY <1>1 DEF Request, Starts
    <3>2. Answer(n) => Answer(n)'
      BY <1>1, <1>10 DEF Answer
    <3>3. Told(n) => Told(n)'
      BY <1>10 DEF Told
    <3> QED BY <2>1, <3>1, <3>2, <3>3 DEF Letters
  <2>2. CASE n \notin mail
    BY <1>1, <1>2, <1>7, <2>2 DEF Answer
  <2> QED BY <2>1, <2>2
<1>13. Parents'
  <2>1. ASSUME NEW i \in Machine
        PROVE  IF status'[i] = "none"
                 THEN parent'[i] = Nobody
                 ELSE parent'[i] \in Client /\ Starts(parent'[i]) /\ seen'[Server][parent'[i]] >= 0
    <3>1. CASE status'[i] = status[i] /\ parent'[i] = parent[i]
      <4>1. \A c \in Client : seen[Server][c] >= 0 => seen'[Server][c] >= 0
        BY <1>1, <1>2, Constants
      <4> QED BY <3>1, <4>1 DEF Parents
    <3>2. CASE status'[i] = "forked" /\ parent'[i] = m.from /\ Starts(m.from)
      BY <1>1, <1>2, <3>2
    <3> QED BY <1>10, <3>1, <3>2
  <2>2. ASSUME NEW j \in Machine PROVE parent[j] # m.from
    BY <1>2, <1>5, Constants DEF Parents
  <2>3. ASSUME NEW i \in Machine, NEW j \in Machine, parent'[i] = parent'[j], parent'[i] \in Client
        PROVE  i = j
    BY <1>10, <2>2, <2>3 DEF Parents
  <2> QED BY <1>1, <2>1, <2>3 DEF Parents, Starts
<1>14. Beginnings'
  <2>1. \A n \in mail' \ mail : n.from = Server /\ n.to = m.from
    BY <1>1, <1>7
  <2>2. ASSUME NEW c \in Client, pc[c] = "none"
        PROVE  /\ waits[c] = 0 /\ incoming'[c] = <<>> /\ seen'[Server][c] = -1
               /\ \A n \in mail' : n.from # c /\ n.to # c
    BY <1>1, <1>4, <1>6, <2>1, <2>2, Constants DEF Beginnings
  <2>3. ASSUME NEW i \in Machine, status'[i] \in {"none", "forked"}, NEW c \in Client
        PROVE  seen'[c][i] = -1
    BY <1>1, <1>10, <2>3, Constants DEF Beginnings
  <2> QED BY <1>1, <2>2, <2>3 DEF Beginnings
<1>15. Ends'
  BY <1>1, <1>4, <1>10 DEF Ends, MachinesOf
<1>16. OnTime'
  <2> SUFFICES ASSUME NEW d \in Client, Starts(d)
               PROVE  /\ pc[d] = "reply" => Reason(d)' \/ (lost >= waits[d] /\ Underway(d)')
                      /\ result[d] = -1 => Reason(d)'
    BY <1>1 DEF OnTime, Starts
  <2>1. (Reason(d) => Reason(d)') /\ (d \in wronged' => Reason(d)')
    BY <1>10, ReasonDelivered
  <2>2. Underway(d) => Underway(d)' \/ d \in wronged'
    <3>1. CASE d = m.from
      <4>1. Forked(d)'
        BY <1>10, <3>1 DEF Forked, MachinesOf
      <4> QED BY <1>4, <4>1 DEF Underway, Heard
    <3>2. CASE d # m.from
      BY <1>1, <1>4, <1>10, <3>2, OthersUnderway, Constants
    <3> QED BY <3>1, <3>2
  <2> QED BY <2>1, <2>2 DEF OnTime
<1> QED BY <1>11, <1>12, <1>13, <1>14, <1>15, <1>16

(* At a machine: it replies.                                                *)
LEMMA MessageKeeps ==
    ASSUME ClientInv, NEW m \in mail, Deliver(m), ~Duplicate(m), m.to \in Machine
    PROVE  ClientInv'
<1> USE DEF ClientInv
<1>1. /\ UNCHANGED <<command, pc, waits, result, lost, slow>> /\ m \in Mail /\ Listening(m.to)
      /\ mail' \subseteq mail \cup Answers(m) /\ wronged' \subseteq Client
      /\ \A a, b \in Mailbox : a # m.to \/ b # m.from => seen'[a][b] = seen[a][b]
      /\ seen' \in [Mailbox -> [Mailbox -> -1..2]]
      /\ Handle(m)
  BY DeliverEffect
<1>2. m.from \in Client /\ m.type = "message" /\ command[m.from] = "send"
  BY Constants DEF Letters, Request, Answer, Told, Report
<1>3. status' = status /\ parent' = parent /\ signalled' = signalled /\ incoming' = incoming
  <2>1. incoming' = [c \in Client |-> incoming[c]]
    BY <1>1, Constants DEF Handle
  <2> QED BY <1>1, <2>1, Constants DEF Handle, machineVars, Typed, ClientTypes
<1>4. status[m.to] = "running"
  BY <1>1, Constants DEF Listening, Running
<1>5. \A c \in Client : c # m.to
  BY Constants
<1>6. /\ \A n \in Answers(m) : /\ n \in Mail /\ n.from = m.to /\ n.to = m.from
                               /\ n.type = "reply" /\ n.seq = 0
      /\ IsFiniteSet(Answers(m))
  <2>1. Answers(m) = {Letter(m.to, m.from, "reply", 0)}
    BY <1>2, Constants DEF Answers
  <2>2. /\ Letter(m.to, m.from, "reply", 0) \in Mail
        /\ Letter(m.to, m.from, "reply", 0).from = m.to
        /\ Letter(m.to, m.from, "reply", 0).to = m.from
        /\ Letter(m.to, m.from, "reply", 0).type = "reply"
        /\ Letter(m.to, m.from, "reply", 0).seq = 0
    BY <1>2, Constants, TypesAre DEF Letter, Mail
  <2> QED BY <2>1, <2>2, FS_Singleton
<1>7. MailTypes'
  <2>1. mail \cup Answers(m) \subseteq Mail /\ IsFiniteSet(mail \cup Answers(m))
    BY <1>6, FS_Union DEF Typed, MailTypes
  <2> QED BY <1>1, <2>1, FS_Subset DEF MailTypes
<1>8. Typed'
  BY <1>1, <1>3, <1>7 DEF Typed, ClientTypes, MachineTypes
<1>9. Letters'
  <2> SUFFICES ASSUME NEW n \in mail' PROVE Request(n)' \/ Answer(n)' \/ Told(n)' \/ Report(n)'
    BY DEF Letters
  <2>1. CASE n \in mail
    BY <1>1, <1>3, <2>1 DEF Letters, Request, Answer, Told, Report, Starts
  <2>2. CASE n \notin mail
    BY <1>1, <1>2, <1>3, <1>4, <1>6, <2>2 DEF Answer
  <2> QED BY <2>1, <2>2
<1>10. \A c \in Client : \A b \in Mailbox : seen'[c][b] = seen[c][b] /\ seen'[Server][b] = seen[Server][b]
  BY <1>1, <1>5, Constants
<1>11. Parents'
  BY <1>1, <1>3, <1>10, Constants DEF Parents, Starts
<1>12. Beginnings'
  <2>1. pc[m.from] # "none"
    BY <1>2 DEF Beginnings
  <2>2. \A n \in mail' \ mail : n.from = m.to /\ n.to = m.from
    BY <1>1, <1>6
  <2>3. ASSUME NEW c \in Client, pc[c] = "none"
        PROVE  /\ waits[c] = 0 /\ incoming[c] = <<>> /\ seen'[Server][c] = -1
               /\ \A n \in mail' : n.from # c /\ n.to # c
    BY <1>1, <1>5, <1>10, <2>1, <2>2, <2>3, Constants DEF Beginnings
  <2>4. ASSUME NEW i \in Machine, status[i] \in {"none", "forked"}, NEW c \in Client
        PROVE  seen'[c][i] = -1
    BY <1>10, <2>4, Constants DEF Beginnings
  <2> QED BY <1>1, <1>3, <2>3, <2>4 DEF Beginnings
<1>13. Ends'
  BY <1>1, <1>3 DEF Ends, MachinesOf
<1>14. OnTime'
  <2> SUFFICES ASSUME NEW d \in Client, Starts(d)
               PROVE  /\ pc[d] = "reply" => Reason(d)' \/ (lost >= waits[d] /\ Underway(d)')
                      /\ result[d] = -1 => Reason(d)'
    BY <1>1 DEF OnTime, Starts
  <2>1. Reason(d) => Reason(d)'
    BY <1>3, ReasonDelivered
  <2>2. d \in wronged' => Reason(d)'
    BY <1>3, ReasonDelivered
  <2>3. Underway(d) => Underway(d)' \/ d \in wronged'
    BY <1>3, <1>10, Constants, OthersUnderway
  <2> QED BY <2>1, <2>2, <2>3 DEF OnTime
<1> QED BY <1>8, <1>9, <1>11, <1>12, <1>13, <1>14

(* At a client: what it was told of its machine is in its queue.            *)
LEMMA ToldKeeps ==
    ASSUME ClientInv, NEW m \in mail, Deliver(m), ~Duplicate(m), m.to \in Client
    PROVE  ClientInv'
<1> USE DEF ClientInv
<1> DEFINE c == m.to
<1>1. /\ UNCHANGED <<command, pc, waits, result, lost, slow>> /\ m \in Mail
      /\ mail' \subseteq mail \cup Answers(m) /\ wronged' \subseteq Client
      /\ \A a, b \in Mailbox : a # m.to \/ b # m.from => seen'[a][b] = seen[a][b]
      /\ seen' \in [Mailbox -> [Mailbox -> -1..2]]
      /\ Handle(m)
  BY DeliverEffect
<1>2. Answer(m) \/ Told(m)
  BY Constants DEF Letters, Request, Report
<1>3. mail' \subseteq mail
  <2>1. m.to # Server /\ m.type # "message"
    BY <1>2, Constants DEF Answer, Told
  <2>2. Answers(m) = {}
    BY <2>1 DEF Answers
  <2> QED BY <1>1, <2>2
<1>4. /\ status' = status /\ parent' = parent /\ signalled' = signalled
      /\ incoming' = [d \in Client |-> IF d = m.to THEN Append(incoming[d], m.type)
                                                   ELSE incoming[d]]
  BY <1>1, Constants DEF Handle, machineVars
<1>5. /\ incoming[c] \in Seq(Types) /\ incoming'[c] = Append(incoming[c], m.type)
      /\ \A d \in Client : d # c => incoming'[d] = incoming[d]
      /\ incoming' \in [Client -> Seq(Types)]
  <2>1. m.type \in Types
    BY <1>1 DEF Mail
  <2>2. incoming \in [Client -> Seq(Types)]
    BY DEF Typed, ClientTypes
  <2>3. Append(incoming[c], m.type) \in Seq(Types)
    BY <2>1, <2>2
  <2> QED BY <1>4, <2>2, <2>3
<1>6. Typed'
  BY <1>1, <1>3, <1>4, <1>5, MailShrinks DEF Typed, ClientTypes, MachineTypes
<1>7. Letters'
  BY <1>1, <1>3, <1>4 DEF Letters, Request, Answer, Told, Report, Starts
<1>8. \A b \in Mailbox : seen'[Server][b] = seen[Server][b]
  BY <1>1, Constants
<1>9. Parents'
  BY <1>1, <1>4, <1>8, Constants DEF Parents, Starts
<1>10. Beginnings'
  <2>1. pc[c] # "none"
    BY DEF Beginnings
  <2>2. ASSUME NEW i \in Machine, status[i] \in {"none", "forked"}, NEW d \in Client
        PROVE  seen'[d][i] = -1
    <3>1. i # m.from
      BY <1>2, <2>2, Constants DEF Answer, Told
    <3> QED BY <1>1, <2>2, <3>1, Constants DEF Beginnings
  <2> QED BY <1>1, <1>3, <1>4, <1>5, <1>8, <2>1, <2>2, Constants DEF Beginnings
<1>11. Ends'
  <2> SUFFICES ASSUME NEW d \in Client, NEW k \in 1..Len(incoming'[d]), incoming'[d][k] = "exited"
               PROVE  \E i \in MachinesOf(d) : status[i] = "exited"
    BY <1>1, <1>4 DEF Ends, MachinesOf
  <2>1. CASE d # c
    BY <1>5, <2>1 DEF Ends
  <2>2. d = c => IF k \in 1..Len(incoming[c]) THEN incoming'[c][k] = incoming[c][k]
                                             ELSE incoming'[c][k] = m.type
    <3> DEFINE q == incoming[c]
    <3>1. q \in Seq(Types) /\ incoming'[c] = Append(q, m.type)
      BY <1>5
    <3> HIDE DEF q
    <3>2. \A i \in 1..Len(Append(q, m.type)) :
            IF i \in 1..Len(q) THEN Append(q, m.type)[i] = q[i]
                               ELSE Append(q, m.type)[i] = m.type
      BY <3>1
    <3> QED BY <3>1, <3>2 DEF q
  <2>3. CASE d = c /\ k \in 1..Len(incoming[c])
    <3>1. incoming[c][k] = "exited"
      BY <2>2, <2>3
    <3> QED BY <2>3, <3>1 DEF Ends
  <2>4. CASE d = c /\ k \notin 1..Len(incoming[c])
    <3>1. m.type = "exited"
      BY <2>2, <2>4
    <3> QED BY <1>2, <2>4, <3>1 DEF Answer, Told, MachinesOf
  <2> QED BY <2>1, <2>3, <2>4
<1>12. OnTime'
  <2> SUFFICES ASSUME NEW d \in Client, Starts(d)
               PROVE  /\ pc[d] = "reply" => Reason(d)' \/ (lost >= waits[d] /\ Underway(d)')
                      /\ result[d] = -1 => Reason(d)'
    BY <1>1 DEF OnTime, Starts
  <2>1. Reason(d) => Reason(d)'
    BY <1>4, ReasonDelivered
  <2>4. d \in wronged' => Reason(d)'
    BY <1>4, ReasonDelivered
  <2>2. ASSUME Underway(d), d # c, ~Reason(d)
        PROVE  Underway(d)' \/ d \in wronged'
    <3>1. \A i \in Machine : seen'[d][i] = seen[d][i]
      BY <1>1, <2>2, Constants
    <3> QED BY <1>4, <1>5, <1>8, <2>2, <3>1, Constants, OthersUnderway
  <2>3. ASSUME Underway(d), d = c, ~Reason(d)
        PROVE  Underway(d)'
    <3>1. Told(m)
      BY <1>2, <2>3 DEF Answer, Starts
    <3>2. m.type = "started"
      BY <2>3, <3>1 DEF Told, Reason, MachinesOf
    <3>3. CASE incoming[c] = <<>>
      <4>1. Append(incoming[c], m.type) # <<>> /\ Head(Append(incoming[c], m.type)) = "started"
        BY <3>2, <3>3
      <4> QED BY <1>5, <2>3, <4>1 DEF Underway, Heard
    <3>4. CASE incoming[c] # <<>>
      <4>1. Head(incoming[c]) = "started"
        BY <2>3, <3>4 DEF Underway, Heard
      <4>2. Append(incoming[c], m.type) # <<>> /\ Head(Append(incoming[c], m.type)) = "started"
        <5> DEFINE q == incoming[c]
        <5>1. q \in Seq(Types) /\ q # <<>> /\ q[1] = "started"
          BY <1>5, <3>4, <4>1
        <5> HIDE DEF q
        <5>2. Len(q) >= 1
          BY <5>1
        <5>3. Append(q, m.type)[1] = "started" /\ Append(q, m.type) # <<>>
          BY <5>1, <5>2
        <5> QED BY <5>3 DEF q
      <4> QED BY <1>5, <2>3, <4>2 DEF Underway, Heard
    <3> QED BY <3>3, <3>4
  <2> QED BY <2>1, <2>2, <2>3, <2>4 DEF OnTime
<1> QED BY <1>6, <1>7, <1>9, <1>10, <1>11, <1>12

-----------------------------------------------------------------------------
(* A unit passes.                                                           *)
LEMMA TickMail ==
    ASSUME MailTypes, mail' = {[m EXCEPT !.left = @ - 1] : m \in {n \in mail : n.left > 1}}
    PROVE  /\ MailTypes'
           /\ \A k \in mail' : \E m \in mail : /\ k.from = m.from /\ k.to = m.to
                                               /\ k.type = m.type /\ k.seq = m.seq
           /\ \A m \in mail : m.left > 1 =>
                \E k \in mail' : k.from = m.from /\ k.to = m.to /\ k.left = m.left - 1
<1> DEFINE old == {n \in mail : n.left > 1}
           later == [m \in old |-> [m EXCEPT !.left = m.left - 1]]
<1>1. IsFiniteSet(old) /\ old \subseteq Mail
  BY FS_Subset DEF MailTypes
<1>2. \A m \in old : /\ later[m] \in Mail /\ later[m].from = m.from /\ later[m].to = m.to
                     /\ later[m].type = m.type /\ later[m].seq = m.seq
                     /\ later[m].left = m.left - 1
  BY <1>1, Constants DEF Mail
<1>3. \A k \in mail' : \E m \in old : k = later[m]
  OBVIOUS
<1>4. \A m \in old : later[m] \in mail'
  OBVIOUS
<1> HIDE DEF later
<1>5. later \in Surjection(old, mail')
  <2>1. later \in [old -> mail']
    BY <1>4 DEF later
  <2> QED BY <2>1, <1>3 DEF Surjection
<1>6. IsFiniteSet(mail')
  BY <1>1, <1>5, FS_Surjection
<1>7. mail' \subseteq Mail
  BY <1>2, <1>3
<1> QED BY <1>2, <1>3, <1>4, <1>6, <1>7 DEF MailTypes

(* What was on its way and did not arrive has lost a transmission.          *)
OfStarter(m) == Listening(m.to) /\ {m.from, m.to} \cap Starters # {}

LEMMA LostNowBound ==
    ASSUME MailTypes
    PROVE  LostNow \in Nat /\ ((\E m \in mail : OfStarter(m)) => LostNow >= 1)
<1> DEFINE waiting == {m \in mail : OfStarter(m)}
<1>1. IsFiniteSet(waiting)
  BY FS_Subset DEF MailTypes
<1> QED BY <1>1, FS_CardinalityType, FS_EmptySet DEF LostNow, OfStarter

LEMMA TickKeeps ==
    ASSUME ClientInv, Tick
    PROVE  ClientInv'
<1> USE DEF ClientInv
<1>1. /\ \A c \in Client : ~Busy(c)
      /\ UNCHANGED <<command, pc, result, incoming, seen, status, parent, signalled, wronged>>
      /\ waits' = [c \in Client |-> IF pc[c] = "reply" THEN waits[c] + 1 ELSE waits[c]]
      /\ mail' = {[m EXCEPT !.left = @ - 1] : m \in {n \in mail : n.left > 1}}
      /\ lost' = IF lost + LostNow > kMaxRetries THEN kMaxRetries ELSE lost + LostNow
      /\ slow' = (slow \/ \E i \in Machine : status[i] = "forked")
  BY DEF Tick, machineVars
<1>2. /\ MailTypes'
      /\ \A k \in mail' : \E m \in mail : /\ k.from = m.from /\ k.to = m.to
                                          /\ k.type = m.type /\ k.seq = m.seq
      /\ \A m \in mail : m.left > 1 =>
           \E k \in mail' : k.from = m.from /\ k.to = m.to /\ k.left = m.left - 1
  BY <1>1, TickMail DEF Typed
<1>3. LostNow \in Nat /\ ((\E m \in mail : OfStarter(m)) => LostNow >= 1)
  BY LostNowBound DEF Typed
<1>4. lost' \in 0..kMaxRetries /\ lost <= lost' /\ slow' \in BOOLEAN /\ (slow => slow')
  BY <1>1, <1>3, Constants DEF Typed, MachineTypes
<1>5. waits' \in [Client -> 0..kMaxRetries]
  <2>1. \A c \in Client : pc[c] = "reply" => waits[c] # kMaxRetries
    BY <1>1 DEF Busy, Exhausted
  <2> QED BY <1>1, <2>1, Constants DEF Typed, ClientTypes
<1>6. Typed'
  BY <1>1, <1>2, <1>4, <1>5 DEF Typed, ClientTypes, MachineTypes
<1>7. Letters'
  <2> SUFFICES ASSUME NEW k \in mail' PROVE Request(k)' \/ Answer(k)' \/ Told(k)' \/ Report(k)'
    BY DEF Letters
  <2>1. PICK m \in mail : /\ k.from = m.from /\ k.to = m.to
                          /\ k.type = m.type /\ k.seq = m.seq
    BY <1>2
  <2> QED BY <1>1, <2>1 DEF Letters, Request, Answer, Told, Report, Starts
<1>8. Parents'
  BY <1>1 DEF Parents, Starts
<1>9. Beginnings'
  BY <1>1, <1>2 DEF Beginnings
<1>10. Ends'
  BY <1>1 DEF Ends, MachinesOf
<1>11. OnTime'
  <2> SUFFICES ASSUME NEW d \in Client, Starts(d)
               PROVE  /\ pc[d] = "reply" => Reason(d)' \/ (lost' >= waits'[d] /\ Underway(d)')
                      /\ result[d] = -1 => Reason(d)'
    BY <1>1 DEF OnTime, Starts
  <2>1. Reason(d) => Reason(d)'
    BY <1>1, <1>4, <1>6, ReasonLasts
  <2>2. ASSUME pc[d] = "reply", lost >= waits[d], Underway(d), ~Reason(d)'
        PROVE  lost' >= waits'[d] /\ Underway(d)'
    <3>1. ~Busy(d)
      BY <1>1
    <3>2. incoming[d] = <<>> /\ waits'[d] = waits[d] + 1 /\ waits[d] \in 0..kMaxRetries
      BY <1>1, <2>2, <3>1 DEF Busy, Typed, ClientTypes
    <3>3. ~Forked(d)
      BY <1>1, <2>2 DEF Forked, Reason, MachinesOf
    <3>4. Asked(d) \/ Answered(d)
      BY <2>2, <3>2, <3>3 DEF Underway, Heard
    <3>5. \E m \in mail : OfStarter(m)
      BY <2>2, <3>4 DEF Asked, Answered, Listening, OfStarter, Starts, Starters
    <3>6. lost' >= waits'[d]
      BY <1>1, <1>3, <1>6, <2>2, <3>2, <3>5, Constants DEF Typed, MachineTypes, Reason
    <3>7. lost' < kMaxRetries
      BY <1>4, <2>2, Constants DEF Reason
    <3>8. ASSUME NEW m \in mail, m.left >= kMaxRetries - waits[d]
          PROVE  \E k \in mail' : /\ k.from = m.from /\ k.to = m.to
                                  /\ k.left >= kMaxRetries - waits'[d]
      <4>1. m.left \in 1..kMaxRetries
        BY DEF Typed, MailTypes, Mail
      <4>2. m.left > 1
        BY <1>4, <3>2, <3>6, <3>7, <3>8, <4>1, Constants
      <4>3. PICK k \in mail' : k.from = m.from /\ k.to = m.to /\ k.left = m.left - 1
        BY <1>2, <4>2
      <4> QED BY <3>2, <3>8, <4>1, <4>3, Constants
    <3>9. Asked(d) => Asked(d)'
      BY <1>1, <3>8 DEF Asked
    <3>10. Answered(d) => Answered(d)'
      BY <1>1, <3>8 DEF Answered, MachinesOf
    <3> QED BY <1>1, <3>2, <3>4, <3>6, <3>9, <3>10 DEF Underway
  <2> QED BY <2>1, <2>2 DEF OnTime
<1> QED BY <1>6, <1>7, <1>8, <1>9, <1>10, <1>11

-----------------------------------------------------------------------------
LEMMA ClientInvNext == ClientInv /\ [Next]_vars => ClientInv'
<1> SUFFICES ASSUME ClientInv, [Next]_vars PROVE ClientInv'
  OBVIOUS
<1>1. ASSUME NEW c \in Client, Begin(c) \/ Step(c) PROVE ClientInv'
  BY <1>1, BeginKeeps, ReceiveMessageKeeps, ReceiveFailsKeeps, FollowKeeps, EndKeeps DEF Step
<1>2. ASSUME NEW i \in Machine, MachineStarts(i) \/ MachineExits(i) \/ MachineCrashes(i)
      PROVE  ClientInv'
  BY <1>2, MachineStartsKeeps, MachineExitsKeeps, MachineCrashesKeeps
<1>3. ASSUME NEW m \in mail, Deliver(m) PROVE ClientInv'
  <2>1. m.to \in Mailbox
    BY DEF ClientInv, Typed, MailTypes, Mail
  <2> QED BY <1>3, <2>1, DuplicateKeeps, ReportKeeps, ServeKeeps, MessageKeeps, ToldKeeps DEF Mailbox
<1>4. CASE Tick
  BY <1>4, TickKeeps
<1>5. CASE UNCHANGED vars
  <2>1. UNCHANGED <<command, pc, waits, result, incoming, mail, seen, status, parent, signalled,
                    lost, wronged, slow>>
    BY <1>5 DEF vars, clientVars, machineVars, history
  <2> QED BY <2>1 DEF ClientInv, Typed, ClientTypes, MailTypes, MachineTypes, Letters, Request,
        Answer, Told, Report, Starts, Parents, Beginnings, Ends, OnTime, Reason, Underway, Asked, Forked,
        Answered, Heard, MachinesOf
<1> QED BY <1>1, <1>2, <1>3, <1>4, <1>5 DEF Next

LEMMA ClientInvAlways == Spec => []ClientInv
BY ClientInvInit, ClientInvNext, PTL DEF Spec

(* The types of the mailboxes, the commands and the machines.               *)
THEOREM ClientTypeOK == Spec => []TypeOK
<1>1. ClientInv => TypeOK
  BY DEF ClientInv, Typed, ClientTypes, MailTypes, Mail, MachineTypes, TypeOK
<1> QED BY <1>1, ClientInvAlways, PTL

(* However often a request is transmitted, acknowledged in vain and         *)
(* transmitted again, the server forks one machine for it.                  *)
THEOREM StartsOneHolds == Spec => []StartsOne
<1>1. ClientInv => StartsOne
  <2> SUFFICES ASSUME ClientInv, NEW c \in Client PROVE Cardinality(MachinesOf(c)) <= 1
    BY DEF StartsOne
  <2>1. \A i, j \in MachinesOf(c) : i = j
    BY DEF ClientInv, Parents, MachinesOf
  <2>2. CASE MachinesOf(c) = {}
    BY <2>2, FS_EmptySet
  <2>3. CASE MachinesOf(c) # {}
    <3>1. PICK i \in MachinesOf(c) : MachinesOf(c) = {i}
      BY <2>1, <2>3
    <3> QED BY <3>1, FS_Singleton
  <2> QED BY <2>2, <2>3
<1> QED BY <1>1, ClientInvAlways, PTL

(* "start" returns an error only when kMaxRetries transmissions were lost,  *)
(* or the machine took longer than a unit to start, or it has ended, or the *)
(* acknowledgement of another message was taken for that of "started".      *)
THEOREM FailsForAReasonHolds == Spec => []FailsForAReason
<1>1. ClientInv => FailsForAReason
  BY DEF ClientInv, OnTime, Starts, Reason, FailsForAReason
<1> QED BY <1>1, ClientInvAlways, PTL

(* The clients operator== can tell from everybody: on hosts of their own,   *)
(* with ports of their own.                                                 *)
Apart == \A c \in Client, a \in Mailbox : SameAddress(Endpoint[c], Endpoint[a]) => a = c

(* That never happens to clients on other hosts than the server, with ports *)
(* that are nobody else's: for them "start" fails of losses, slow machines  *)
(* and machines that end alone.                                             *)
THEOREM NobodyIsWronged == Spec => [](Apart => wronged = {})
<1>1. Init => (Apart => wronged = {})
  BY DEF Init
<1>2. ClientInv /\ (Apart => wronged = {}) /\ [Next]_vars => (Apart => wronged = {})'
  <2> SUFFICES ASSUME ClientInv, wronged = {}, [Next]_vars, Apart PROVE wronged' = {}
    BY DEF Apart
  <2> USE DEF ClientInv
  <2>1. ASSUME NEW m \in mail, Deliver(m) PROVE wronged' = {}
    <3>1. PICK erased \in {{}} \cup {{n} : n \in Acknowledged(m)} :
            wronged' = wronged \cup {c \in Starters : \E n \in erased \ {m} :
                                    c \in {n.from, n.to} /\ n.seq > seen'[n.to][n.from]}
      BY <2>1 DEF Deliver
    <3>2. ASSUME NEW c \in Starters, NEW n \in erased, c \in {n.from, n.to}
          PROVE  ~(n.seq > seen'[n.to][n.from])
      <4>1. /\ n \in mail /\ n.from = m.from /\ n.seq = m.seq /\ c \in Client /\ Starts(c)
            /\ SameAddress(Endpoint[n.to], Endpoint[m.to])
        BY <3>2 DEF Acknowledged, Fitting, Starters, Starts
      <4>2. m \in Mail /\ m.to \in Mailbox /\ m.from \in Mailbox /\ m.seq \in 0..2
        BY <2>1 DEF Typed, MailTypes, Mail
      <4>3. n.to = m.to
        <5>1. CASE c = n.to
          BY <4>1, <4>2, <5>1 DEF Apart
        <5>2. CASE c = n.from
          <6>1. n.to = Server
            BY <2>1, <4>1, <5>2, Constants DEF Letters, Request, Answer, Told, Report, Starts
          <6>2. m.to = Server
            BY <2>1, <4>1, <5>2, Constants DEF Letters, Request, Answer, Told, Report, Starts
          <6> QED BY <6>1, <6>2
        <5> QED BY <3>2, <5>1, <5>2
      <4>4. seen'[m.to][m.from] \in -1..2 /\ seen'[m.to][m.from] >= m.seq
        <5>1. CASE Duplicate(m)
          BY <2>1, <4>2, <5>1, DeliverEffect DEF Duplicate
        <5>2. CASE ~Duplicate(m)
          BY <2>1, <4>2, <5>2, DeliverEffect
        <5> QED BY <5>1, <5>2
      <4> QED BY <4>1, <4>2, <4>3, <4>4
    <3> QED BY <3>1, <3>2
  <2>2. CASE UNCHANGED wronged
    BY <2>2
  <2>3. CASE Tick
    BY <2>3 DEF Tick
  <2>4. ASSUME NEW c \in Client, Begin(c) \/ Step(c) PROVE UNCHANGED wronged
    BY <2>4 DEF Begin, Step, ReceiveMessage, ReceiveFails, Follow, End, history
  <2>5. ASSUME NEW i \in Machine, MachineStarts(i) \/ MachineExits(i) \/ MachineCrashes(i)
        PROVE  UNCHANGED wronged
    BY <2>5 DEF MachineStarts, MachineExits, MachineCrashes, history
  <2>6. CASE UNCHANGED vars
    BY <2>6, <2>2 DEF vars, history
  <2> QED BY <2>1, <2>2, <2>3, <2>4, <2>5, <2>6 DEF Next
<1> QED BY <1>1, <1>2, ClientInvAlways, PTL DEF Spec

(* A client that returns from following a machine was told the truth by the *)
(* only machine it has: the machine has exited.                             *)
THEOREM FollowsToTheEndHolds == Spec => []FollowsToTheEnd
<1>1. ClientInv => FollowsToTheEnd
  BY DEF ClientInv, Ends, Parents, MachinesOf, FollowsToTheEnd
<1> QED BY <1>1, ClientInvAlways, PTL

=============================================================================
