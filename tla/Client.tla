------------------------------- MODULE Client -------------------------------
(***************************************************************************)
(* The commands of the client (src/client.cpp, src/client/main.cpp), the   *)
(* server they ask and the machines it starts for them, over mailboxes     *)
(* that transmit a message once in kReceiveTimeout, at most kMaxRetries    *)
(* times, filter what looks like a duplicate, and take an acknowledgement  *)
(* for that of the first message operator== matches (modules AsyncMailbox  *)
(* and Address).                                                           *)
(*                                                                         *)
(* Time passes in units of kReceiveTimeout.  Within a unit a message is    *)
(* delivered, or this transmission of it is lost.                          *)
(***************************************************************************)
EXTENDS Address, FiniteSets, Sequences

CONSTANTS
    Client,         \* client processes, each at an address of its own
    Commands,       \* what the clients may be called with, together
    Machine,        \* bound: the machines started
    Endpoint,       \* Endpoint[a]: the address of the process a
    kMaxRetries

Server == "server"
Mailbox == Client \cup Machine \cup {Server}
Nobody == "nobody"
Pending == 1        \* the exit code of a process that has none yet

ASSUME ClientAssumption ==
    /\ Commands \subseteq [Client -> {"start", "follow", "stop", "list", "send"}]
    /\ kMaxRetries \in Nat \ {0}
    /\ Client \cap Machine = {} /\ {Server, Nobody} \cap (Client \cup Machine) = {}

(* Machines run on the host of the server that forked them; clients may run *)
(* there or elsewhere.                                                      *)
ASSUME EndpointAssumption == \A i \in Machine : Endpoint[i].ip = Endpoint[Server].ip

VARIABLES
    command,        \* command[c]: argv[1]; "follow" is start -f, "send" is send -r 1
    pc,             \* pc[c]: where the process is
    waits,          \* waits[c]: calls of Receive by ReceiveMessage
    result,         \* result[c]: what main will return
    incoming,       \* incoming[c]: incoming_messages_
    mail,           \* messages their mailboxes have not been acknowledged
    seen,           \* seen[a][b]: incoming_seq_nums_[b] of the mailbox at a
    status,         \* status[i]: what machine i is doing
    parent,         \* parent[i]: the client it was started for
    signalled,      \* machines that were sent SIGTERM
    lost,           \* transmissions from or to starters that were lost, up to
                    \* kMaxRetries (history)
    wronged,        \* starters of which, or for which, a message was erased by
                    \* the acknowledgement of another before it arrived (history)
    slow            \* a machine took longer than a unit to start (history)

clientVars == <<command, pc, waits, result, incoming>>
machineVars == <<status, parent, signalled>>
history == <<lost, wronged, slow>>
vars == <<clientVars, mail, seen, machineVars, history>>

Init ==
    /\ command \in Commands
    /\ pc = [c \in Client |-> "none"]
    /\ waits = [c \in Client |-> 0]
    /\ result = [c \in Client |-> Pending]
    /\ incoming = [c \in Client |-> <<>>]
    /\ mail = {}
    /\ seen = [a \in Mailbox |-> [b \in Mailbox |-> -1]]
    /\ status = [i \in Machine |-> "none"]
    /\ parent = [i \in Machine |-> Nobody]
    /\ signalled = {} /\ lost = 0 /\ wronged = {} /\ slow = FALSE

(* A message a mailbox keeps: its number and the transmissions left.        *)
Letter(from, to, type, seq) ==
    [from |-> from, to |-> to, type |-> type, seq |-> seq, left |-> kMaxRetries]

Running == {i \in Machine : status[i] = "running"}

(* The clients that start a machine.                                        *)
Starters == {c \in Client : command[c] \in {"start", "follow"}}

(* The addresses a receiver thread reads at.                                *)
Listening(a) ==
    \/ a = Server
    \/ a \in Running
    \/ a \in Client /\ pc[a] # "done"

-----------------------------------------------------------------------------
(* The client.                                                              *)

Return(c, code) ==
    /\ result' = [result EXCEPT ![c] = code]
    /\ pc' = [pc EXCEPT ![c] = "flush"]

SendMessage(m) == mail' = mail \cup {m}

(* The commands, called with the parameters they need: main opens the       *)
(* socket and the mailbox and sends the request.  ListMachines, StartMachine*)
(* and main's loop over the replies go on to ReceiveMessage.                *)
Ask(c, m) ==
    /\ SendMessage(m)
    /\ pc' = [pc EXCEPT ![c] = "reply"] /\ UNCHANGED result

StartCommand(c) == command[c] \in {"start", "follow"} /\ Ask(c, Letter(c, Server, "start", 0))

ListCommand(c) == command[c] = "list" /\ Ask(c, Letter(c, Server, "list", 0))

SendCommand(c) ==
    command[c] = "send" /\ \E i \in Machine : Ask(c, Letter(c, i, "message", 0))

(* StopMachine waits for nothing.                                           *)
StopMachine(c) == SendMessage(Letter(c, Server, "stop", 0)) /\ Return(c, 0)

StopCommand(c) == command[c] = "stop" /\ StopMachine(c)

Begin(c) ==
    /\ pc[c] = "none"
    /\ StartCommand(c) \/ ListCommand(c) \/ SendCommand(c) \/ StopCommand(c)
    /\ UNCHANGED <<command, waits, incoming, seen, machineVars, history>>

First(c) == Head(incoming[c])
Pop(c) == incoming' = [incoming EXCEPT ![c] = Tail(@)]

(* StartMachine: the first message must read "started".  Its sender becomes *)
(* the destination; the name in it is compared with nothing.                *)
ReceiveStarted(c) ==
    /\ command[c] \in {"start", "follow"}
    /\ IF First(c) # "started" THEN Return(c, -1)
       ELSE IF command[c] = "start" THEN Return(c, 0)
       ELSE pc' = [pc EXCEPT ![c] = "follow"] /\ UNCHANGED result

(* ListMachines prints whatever comes first, main counts it as a reply.     *)
ReceiveReply(c) == command[c] \in {"list", "send"} /\ Return(c, 0)

ReceiveMessage(c) ==
    /\ pc[c] = "reply" /\ incoming[c] # <<>>
    /\ ReceiveStarted(c) \/ ReceiveReply(c)
    /\ Pop(c)
    /\ UNCHANGED <<command, waits, mail, seen, machineVars, history>>

(* Mutants: a try less, a try more.                                         *)
ExhaustedEarly(c) == waits[c] >= kMaxRetries - 1
ExhaustedLate(c) == waits[c] = kMaxRetries + 1

Exhausted(c) == waits[c] = kMaxRetries

(* Mutant: every command tries again.                                       *)
ReceiveFailsNever(c) ==
    /\ pc[c] = "reply" /\ incoming[c] = <<>> /\ Exhausted(c)
    /\ waits' = [waits EXCEPT ![c] = 0]
    /\ UNCHANGED <<command, pc, result, incoming, mail, seen, machineVars, history>>

(* ReceiveMessage gives up, and so does the command; only "send" tries      *)
(* again.                                                                   *)
ReceiveFails(c) ==
    /\ pc[c] = "reply" /\ incoming[c] = <<>> /\ Exhausted(c)
    /\ IF command[c] = "send"
         THEN waits' = [waits EXCEPT ![c] = 0] /\ UNCHANGED <<pc, result>>
         ELSE Return(c, -1) /\ UNCHANGED waits
    /\ UNCHANGED <<command, incoming, mail, seen, machineVars, history>>

(* Mutant: so does a Receive in vain.                                       *)
FollowImpatient(c) ==
    /\ pc[c] = "follow"
    /\ IF incoming[c] = <<>> \/ First(c) = "exited" THEN Return(c, 0)
                                                    ELSE UNCHANGED <<pc, result>>
    /\ incoming' = [incoming EXCEPT ![c] = <<>>]
    /\ UNCHANGED <<command, waits, mail, seen, machineVars, history>>

(* The loop of StartMachine: "exited" of anybody ends it, nothing else.     *)
Follow(c) ==
    /\ pc[c] = "follow" /\ incoming[c] # <<>>
    /\ IF First(c) = "exited" THEN Return(c, 0) ELSE UNCHANGED <<pc, result>>
    /\ Pop(c)
    /\ UNCHANGED <<command, waits, mail, seen, machineVars, history>>

(* main returns when ~AsyncMailbox has waited for the mailbox to be flushed.*)
(* What others still send to it is forgotten, nobody will answer.           *)
End(c) ==
    /\ pc[c] = "flush"
    /\ \A m \in mail : m.from # c
    /\ pc' = [pc EXCEPT ![c] = "done"]
    /\ mail' = {m \in mail : m.to # c}
    /\ waits' = [waits EXCEPT ![c] = 0] /\ incoming' = [incoming EXCEPT ![c] = <<>>]
    /\ UNCHANGED <<command, result, seen, machineVars, history>>

-----------------------------------------------------------------------------
(* The server.                                                              *)

(* SIGTERM to the machine registered on a port, or nobody is.               *)
StopRegistered ==
    signalled' \in {signalled} \cup {signalled \cup {i} : i \in Running}

(* "start": what is registered on the port it names, if it names one, is    *)
(* stopped; the process is forked and has the sender of the request for its *)
(* parent.                                                                  *)
Start(m) ==
    \E i \in Machine :
      /\ i = CHOOSE j \in Machine : status[j] = "none"
      /\ status[i] = "none"
      /\ status' = [status EXCEPT ![i] = "forked"]
      /\ parent' = [parent EXCEPT ![i] = m.from]
      /\ StopRegistered

Stop == StopRegistered /\ UNCHANGED <<status, parent>>

(* The registry itself is in module Server: whether a port names a machine  *)
(* is left open here.                                                       *)
Serve(m) ==
    \/ m.type = "start" /\ Start(m)
    \/ m.type = "stop" /\ Stop
    \/ m.type \in {"list", "register", "unregister"} /\ UNCHANGED machineVars

(* What a message is answered with: the server's list, a machine's reply.   *)
Answers(m) ==
    CASE m.to = Server /\ m.type = "list" -> {Letter(Server, m.from, "list", 0)}
      [] m.type = "message" -> {Letter(m.to, m.from, "reply", 0)}
      [] OTHER -> {}

-----------------------------------------------------------------------------
(* The machines.                                                            *)

(* What a machine sends its parent, then its server.                        *)
Tell(i, types, registration) ==
    mail' = mail \cup {registration}
                 \cup {Letter(i, parent[i], t, types[t]) :
                          t \in {u \in DOMAIN types : Listening(parent[i])}}

MachineStarts(i) ==
    /\ status[i] = "forked"
    /\ status' = [status EXCEPT ![i] = "running"]
    /\ Tell(i, [started |-> 0], Letter(i, Server, "register", 0))
    /\ UNCHANGED <<clientVars, seen, parent, signalled, history>>

MachineExits(i) ==
    /\ status[i] = "running"
    /\ status' = [status EXCEPT ![i] = "exited"]
    /\ \E types \in {[exited |-> 1], [errored |-> 1, exited |-> 2]} :
           Tell(i, types, Letter(i, Server, "unregister", 1))
    /\ UNCHANGED <<clientVars, seen, parent, signalled, history>>

(* The process dies with its mailbox, or execv failed.                      *)
MachineCrashes(i) ==
    /\ status[i] \in {"forked", "running"}
    /\ status' = [status EXCEPT ![i] = "crashed"]
    /\ mail' = {m \in mail : m.from # i}
    /\ UNCHANGED <<clientVars, seen, parent, signalled, history>>

-----------------------------------------------------------------------------
(* The mailboxes.                                                           *)

(* Mutants: no filter, a filter that lets only the next number pass.        *)
DuplicateNever(m) == FALSE
DuplicateUnlessNext(m) == m.seq # seen[m.to][m.from] + 1

Duplicate(m) == m.seq <= seen[m.to][m.from]

(* What passes the filter is handled by the server, answered by a machine,  *)
(* or queued for the client at the address.                                 *)
Handle(m) ==
    /\ IF m.to = Server THEN Serve(m) ELSE UNCHANGED machineVars
    /\ incoming' = [c \in Client |-> IF c = m.to THEN Append(incoming[c], m.type)
                                                 ELSE incoming[c]]

(* Where the message is among the outgoing_messages_ of its sender; that of *)
(* answers to several clients, which have one rank, is left open.           *)
Rank(m) ==
    CASE m.type = "started"    -> 0
      [] m.type = "register"   -> 1
      [] m.type = "errored"    -> 3
      [] m.type = "exited"     -> 4
      [] m.type = "unregister" -> 5
      [] OTHER                 -> 2

(* The messages the acknowledgement of m fits: of the same number, to an    *)
(* address that operator== cannot tell from the one it comes from.  The     *)
(* first is erased.                                                         *)
Fitting(m) ==
    {n \in mail : /\ n.from = m.from /\ n.seq = m.seq
                  /\ SameAddress(Endpoint[n.to], Endpoint[m.to])}

Acknowledged(m) == {n \in Fitting(m) : \A k \in Fitting(m) : Rank(n) <= Rank(k)}

(* A transmission arrives.  When the acknowledgement is lost, all messages  *)
(* stay and are transmitted again.                                          *)
Deliver(m) ==
    /\ Listening(m.to)
    /\ seen' = [seen EXCEPT ![m.to][m.from] = IF Duplicate(m) THEN @ ELSE m.seq]
    /\ IF Duplicate(m) THEN UNCHANGED <<machineVars, incoming>> ELSE Handle(m)
    /\ \E erased \in {{}} \cup {{n} : n \in Acknowledged(m)} :
         /\ mail' = (mail \ erased) \cup (IF Duplicate(m) THEN {} ELSE Answers(m))
         /\ wronged' = wronged \cup {c \in Starters : \E n \in erased \ {m} :
                                     c \in {n.from, n.to} /\ n.seq > seen'[n.to][n.from]}
    /\ UNCHANGED <<command, pc, waits, result, lost, slow>>

(* A unit passes, unless a client has something to do: what was not         *)
(* delivered has lost a transmission, and those that read the clock wait.   *)
Busy(c) ==
    \/ pc[c] = "reply" /\ (incoming[c] # <<>> \/ Exhausted(c))
    \/ pc[c] = "follow" /\ incoming[c] # <<>>

LostNow ==
    Cardinality({m \in mail : Listening(m.to) /\ {m.from, m.to} \cap Starters # {}})

Tick ==
    /\ \A c \in Client : ~Busy(c)
    /\ waits' = [c \in Client |-> IF pc[c] = "reply" THEN waits[c] + 1 ELSE waits[c]]
    /\ mail' = {[m EXCEPT !.left = @ - 1] : m \in {n \in mail : n.left > 1}}
    /\ lost' = IF lost + LostNow > kMaxRetries THEN kMaxRetries ELSE lost + LostNow
    /\ slow' = (slow \/ \E i \in Machine : status[i] = "forked")
    /\ UNCHANGED <<command, pc, result, incoming, seen, machineVars, wronged>>

Step(c) == ReceiveMessage(c) \/ ReceiveFails(c) \/ Follow(c) \/ End(c)

Next ==
    \/ \E c \in Client : Begin(c) \/ Step(c)
    \/ \E i \in Machine : MachineStarts(i) \/ MachineExits(i) \/ MachineCrashes(i)
    \/ \E m \in mail : Deliver(m)
    \/ Tick

(* The client's thread runs, a signalled machine leaves its loop, and time  *)
(* goes on.  Nothing need ever arrive.                                      *)
Fairness ==
    /\ WF_vars(Tick)
    /\ \A c \in Client : WF_vars(Step(c))
    /\ \A i \in Machine : WF_vars(i \in signalled /\ MachineExits(i))

Spec == Init /\ [][Next]_vars
FairSpec == Spec /\ Fairness

-----------------------------------------------------------------------------
(* Properties.                                                              *)

TypeOK ==
    /\ pc \in [Client -> {"none", "reply", "follow", "flush", "done"}]
    /\ waits \in [Client -> 0..kMaxRetries]
    /\ result \in [Client -> {Pending, 0, -1}]
    /\ \A m \in mail : m.from \in Mailbox /\ m.to \in Mailbox /\ m.left \in 1..kMaxRetries
    /\ seen \in [Mailbox -> [Mailbox -> -1..2]]
    /\ status \in [Machine -> {"none", "forked", "running", "exited", "crashed"}]
    /\ parent \in [Machine -> Mailbox \cup {Nobody}]
    /\ signalled \subseteq Machine /\ wronged \subseteq Client
    /\ \A c \in Client : result[c] # Pending <=> pc[c] \in {"flush", "done"}

MachinesOf(c) == {i \in Machine : parent[i] = c}

(* A request to start a machine starts one, however often it is             *)
(* transmitted.                                                             *)
StartsOne == \A c \in Client : Cardinality(MachinesOf(c)) <= 1

(* "start" fails only for a reason: with less than kMaxRetries transmissions*)
(* lost altogether, the request and the answer get through in the time      *)
(* ReceiveMessage waits, unless the machine takes long to start or ends, or *)
(* the acknowledgement of another message, that of its "register", had it   *)
(* erase "started".                                                         *)
FailsForAReason ==
    \A c \in Client : result[c] = -1 /\ command[c] \in {"start", "follow"} =>
        \/ lost >= kMaxRetries
        \/ slow
        \/ c \in wronged
        \/ \E i \in MachinesOf(c) : status[i] \in {"exited", "crashed"}

(* A client that followed its machine to the end is right: it has ended.    *)
FollowsToTheEnd ==
    \A c \in Client : command[c] = "follow" /\ result[c] = 0 =>
        \A i \in MachinesOf(c) : status[i] = "exited"

(* Every command but "follow" and "send" ends, whatever arrives: again and  *)
(* again none is under way.                                                 *)
Unfinished ==
    {c \in Client : command[c] \in {"start", "stop", "list"} /\ pc[c] \notin {"none", "done"}}
CommandsEnd == []<>(Unfinished = {})

(* A follower whose machine leaves in order, or is stopped by anybody, ends,*)
(* unless the machine crashes first, its last message is given up, or that  *)
(* is erased by the acknowledgement of another.                             *)
Stranded ==
    {c \in Client :
       /\ command[c] = "follow" /\ pc[c] \in {"follow", "flush"}
       /\ \E i \in MachinesOf(c) : status[i] = "exited" \/ i \in signalled
       /\ lost < kMaxRetries /\ c \notin wronged
       /\ \A i \in MachinesOf(c) : status[i] # "crashed"}
FollowersEnd == []<>(Stranded = {})
==============================================================================
