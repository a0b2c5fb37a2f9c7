------------------------------- MODULE Server -------------------------------
(***************************************************************************)
(* A server, the machine processes it forks and the registry it keeps of   *)
(* them (src/server/server.cpp).  A machine registers when it starts and   *)
(* unregisters when it leaves (Machine::Start); in between it may ask for  *)
(* another machine, and at the end for that one to be stopped.  These      *)
(* messages travel through the mailboxes, which may deliver them in any    *)
(* order, give them up, and drop what looks like a duplicate (module       *)
(* AsyncMailbox).  The server's mailbox acknowledges a message before it   *)
(* filters and queues it, and Serve handles it some time after that: a     *)
(* machine may be gone while its "unregister" still waits.                 *)
(*                                                                         *)
(* machines_ and pids_ change together and are one function here: the      *)
(* machine's name is known from its process.                               *)
(***************************************************************************)
EXTENDS Integers, FiniteSets, Sequences

CONSTANTS
    Port,           \* the ports machines are started on
    Spawner,        \* the processes whose application calls Spawn
    MaxProcesses    \* bound: processes forked

Pid == 1..MaxProcesses
Nobody == 0

ASSUME ServerAssumption ==
    /\ Port \subseteq Nat
    /\ MaxProcesses \in Nat
    /\ Nobody \notin Port
    /\ Spawner \subseteq Pid

VARIABLES
    serving,        \* Serve has not returned
    registry,       \* registry[p]: pids_[p], Nobody when absent
    status,         \* status[i]: what process i is doing
    port,           \* port[i]: the port process i is bound to
    parents,        \* the processes that called Spawn
    signalled,      \* the processes that were sent SIGTERM
    wire,           \* messages to the server the mailboxes still try to deliver
    held,           \* the message the server's receiver thread has acknowledged
    inSeq,          \* incoming_seq_nums_ of the server's mailbox, by port
    incoming,       \* incoming_messages_ of the server's mailbox
    heard,          \* heard[p]: the senders at p the filter let pass (history)
    lost            \* "register"s and "unregister"s given up (history)

processVars == <<status, port, parents>>
queueVars == <<held, inSeq, incoming, heard>>
mailVars == <<wire, queueVars, lost>>
vars == <<serving, registry, processVars, signalled, mailVars>>

Status == {"none", "forked", "running", "leaving", "exited", "crashed"}
Message == [type : {"register", "start", "unregister", "stop"}, pid : Pid,
            port : Port, seq : 0..3]

(* The messages of a machine to its server, as its mailbox numbers them.    *)
(* Only a parent has sent a "start" before its "unregister" (bound: one),   *)
(* and only a parent may have a child to stop.                              *)
Numbered(type, i, seq) == [type |-> type, pid |-> i, port |-> port[i], seq |-> seq]

RegisterOf(i) == Numbered("register", i, 0)
StartOf(i) == Numbered("start", i, 1)
UnregisterOf(i) == Numbered("unregister", i, IF i \in parents THEN 2 ELSE 1)
StopOf(i) == Numbered("stop", i, 3)

(* Zombies are gone: their port is free, although nobody waits for them.    *)
Alive(i) == status[i] \in {"forked", "running", "leaving"}

Init ==
    /\ serving = TRUE
    /\ registry = [p \in Port |-> Nobody]
    /\ status = [i \in Pid |-> "none"]
    /\ port = [i \in Pid |-> Nobody]
    /\ parents = {}
    /\ signalled = {}
    /\ wire = {}
    /\ held = {}
    /\ inSeq = [p \in Port |-> -1]
    /\ incoming = <<>>
    /\ heard = [p \in Port |-> {}]
    /\ lost = {}

-----------------------------------------------------------------------------
(* The server's requests.                                                   *)

(* Mutant: the pid is not looked at, and kill(0, SIGTERM) is for everybody. *)
StopAnybody(p) ==
    /\ registry' = [registry EXCEPT ![p] = Nobody]
    /\ signalled' = signalled \cup {registry[p]}

(* Stop(port): SIGTERM to the process registered at the port.  kill fails   *)
(* for no process the server forked: it never waits for them, so their pids *)
(* remain theirs.                                                           *)
Stop(p) ==
    /\ registry' = [registry EXCEPT ![p] = Nobody]
    /\ signalled' = signalled \cup ({registry[p]} \ {Nobody})

Unused == {i \in Pid : status[i] = "none"}

(* Start: the next process is forked, or fork fails and Serve returns.     *)
Forked(i, p) ==
    /\ status[i] = "none"
    /\ status' = [status EXCEPT ![i] = "forked"]
    /\ port' = [port EXCEPT ![i] = p]
    /\ UNCHANGED <<serving, parents>>

ForkFails == serving' = FALSE /\ UNCHANGED processVars

Fork(p) == ForkFails \/ \E i \in Pid : Forked(i, p) /\ 1..(i - 1) \cap Unused = {}

(* Mutant: the process is registered as soon as it is forked.               *)
StartAtRegistering(p) ==
    /\ signalled' = signalled \cup ({registry[p]} \ {Nobody})
    /\ \E i \in Pid : Forked(i, p) /\ registry' = [registry EXCEPT ![p] = i]

(* "start <name> :<port>": what is registered there is stopped first.       *)
StartAt(p) == Stop(p) /\ Fork(p)

(* "start <name>": the machine binds to a port that is free.                *)
StartAnywhere(p) ==
    /\ \A i \in Pid : port[i] = p => ~Alive(i)
    /\ Fork(p)
    /\ UNCHANGED <<registry, signalled>>

StartSomewhere == \E p \in Port : StartAt(p) \/ StartAnywhere(p)

(* A client's "start".  Each client is a process and port of its own, and   *)
(* the filter does not drop its first message.                              *)
ClientStarts ==
    /\ serving
    /\ StartSomewhere
    /\ UNCHANGED mailVars

(* A client's "stop".                                                       *)
ClientStops ==
    /\ serving
    /\ \E p \in Port : Stop(p)
    /\ UNCHANGED <<serving, processVars, mailVars>>

(* "register": emplace keeps an entry there is.                             *)
Register(m) ==
    registry' = [registry EXCEPT ![m.port] = IF @ = Nobody THEN m.pid ELSE @]

(* "unregister": whoever is registered at the sender's port.                *)
Unregister(m) == registry' = [registry EXCEPT ![m.port] = Nobody]

Handle(m) ==
    \/ /\ m.type = "register" /\ Register(m)
       /\ UNCHANGED <<serving, processVars, signalled>>
    \/ /\ m.type = "unregister" /\ Unregister(m)
       /\ UNCHANGED <<serving, processVars, signalled>>
    \/ /\ m.type = "start" /\ StartSomewhere
    \/ /\ m.type = "stop" /\ \E p \in Port : Stop(p)
       /\ UNCHANGED <<serving, processVars>>

(* Mutant: the next message is taken from the end of the queue.             *)
ServeLast ==
    /\ serving /\ incoming # <<>>
    /\ Handle(incoming[Len(incoming)])
    /\ incoming' = SubSeq(incoming, 1, Len(incoming) - 1)
    /\ UNCHANGED <<wire, held, inSeq, heard, lost>>

(* Serve: one message after the other.  When Start has failed it returns,   *)
(* and what is queued is not handled any more.                              *)
Serve ==
    /\ serving /\ incoming # <<>>
    /\ Handle(Head(incoming))
    /\ incoming' = Tail(incoming)
    /\ UNCHANGED <<wire, held, inSeq, heard, lost>>

-----------------------------------------------------------------------------
(* The server's mailbox.                                                    *)

(* The receiver thread acknowledges a machine's message, and the machine's  *)
(* mailbox forgets it.  The mailbox goes on for a while when Serve has      *)
(* returned.                                                                *)
ReceiveData(m) ==
    /\ held = {}
    /\ wire' = wire \ {m}
    /\ held' = {m}
    /\ UNCHANGED <<serving, registry, processVars, signalled, inSeq, incoming, heard, lost>>

(* Mutants: no filter; a filter that takes an absent number for 0.          *)
DuplicateNever(m) == FALSE
DuplicateFirst(m) == m.seq <= IF inSeq[m.port] = -1 THEN 0 ELSE inSeq[m.port]

Duplicate(m) == m.seq <= inSeq[m.port]

(* Then what passes the filter is queued.                                   *)
FilterData(m) ==
    /\ held' = {}
    /\ IF Duplicate(m)
         THEN UNCHANGED <<inSeq, incoming, heard>>
         ELSE /\ inSeq' = [inSeq EXCEPT ![m.port] = m.seq]
              /\ incoming' = Append(incoming, m)
              /\ heard' = [heard EXCEPT ![m.port] = @ \cup {m.pid}]
    /\ UNCHANGED <<serving, registry, processVars, signalled, wire, lost>>

(* The sender's mailbox gives the message up after kMaxRetries attempts, or *)
(* forgets it for the acknowledgement of a message of the same number to    *)
(* another process of the host (operator==, see Address).                   *)
GiveUp(m) ==
    /\ wire' = wire \ {m}
    /\ lost' = lost \cup {n \in {m} : n.type \in {"register", "unregister"}}
    /\ UNCHANGED <<serving, registry, processVars, signalled, queueVars>>

-----------------------------------------------------------------------------
(* The machine processes.                                                   *)

(* Machine::Start.                                                          *)
MachineStarts(i) ==
    /\ status[i] = "forked"
    /\ status' = [status EXCEPT ![i] = "running"]
    /\ wire' = wire \cup {RegisterOf(i)}
    /\ UNCHANGED <<serving, registry, port, parents, signalled, queueVars, lost>>

(* Spawn, from a callback.                                                  *)
MachineSpawns(i) ==
    /\ status[i] = "running" /\ i \in Spawner \ parents
    /\ parents' = parents \cup {i}
    /\ wire' = wire \cup {StartOf(i)}
    /\ UNCHANGED <<serving, registry, status, port, signalled, queueVars, lost>>

(* The main loop ends, by itself or because of SIGTERM: the machine         *)
(* unregisters, and a parent whose child is in spawned_ has it stopped.     *)
MachineLeaves(i) ==
    /\ status[i] = "running"
    /\ status' = [status EXCEPT ![i] = "leaving"]
    /\ \E child \in SUBSET ({i} \cap parents) :
         wire' = wire \cup {UnregisterOf(i)} \cup {StopOf(c) : c \in child}
    /\ UNCHANGED <<serving, registry, port, parents, signalled, queueVars, lost>>

(* Mutant: flushed only when the server has handled everything.             *)
MachineEndsHandled(i) ==
    /\ status[i] = "leaving"
    /\ \A m \in wire \cup held \cup {incoming[k] : k \in DOMAIN incoming} : m.pid # i
    /\ status' = [status EXCEPT ![i] = "exited"]
    /\ UNCHANGED <<serving, registry, port, parents, signalled, mailVars>>

(* The mailbox is flushed: everything is acknowledged or given up.          *)
MachineEnds(i) ==
    /\ status[i] = "leaving"
    /\ \A m \in wire : m.pid # i
    /\ status' = [status EXCEPT ![i] = "exited"]
    /\ UNCHANGED <<serving, registry, port, parents, signalled, mailVars>>

(* The process dies, or execv fails and it never was a machine.             *)
MachineCrashes(i) ==
    /\ Alive(i)
    /\ status' = [status EXCEPT ![i] = "crashed"]
    /\ UNCHANGED <<serving, registry, port, parents, signalled, mailVars>>

Next ==
    \/ ClientStarts \/ ClientStops
    \/ Serve
    \/ \E m \in wire : ReceiveData(m) \/ GiveUp(m)
    \/ \E m \in held : FilterData(m)
    \/ \E i \in Pid :
         \/ MachineStarts(i)
         \/ MachineSpawns(i)
         \/ MachineLeaves(i)
         \/ MachineEnds(i)
         \/ MachineCrashes(i)

(* A machine that was sent SIGTERM leaves its loop, a mailbox delivers or   *)
(* gives up, a flushed process ends, and the server's threads run.          *)
Fairness ==
    /\ \A i \in Pid :
         /\ WF_vars(i \in signalled /\ MachineLeaves(i))
         /\ WF_vars(MachineEnds(i))
    /\ WF_vars(\E m \in wire : ReceiveData(m) \/ GiveUp(m))
    /\ WF_vars(\E m \in held : FilterData(m))
    /\ WF_vars(Serve)

Spec == Init /\ [][Next]_vars
FairSpec == Spec /\ Fairness

-----------------------------------------------------------------------------
(* Properties.                                                              *)

(* Types, and the registry only holds processes that run at that very port. *)
TypeOK ==
    /\ serving \in BOOLEAN
    /\ registry \in [Port -> Pid \cup {Nobody}]
    /\ \A p \in Port : registry[p] # Nobody => port[registry[p]] = p
    /\ status \in [Pid -> Status]
    /\ port \in [Pid -> Port \cup {Nobody}]
    /\ parents \subseteq Spawner
    /\ signalled \subseteq Pid
    /\ wire \subseteq Message /\ held \subseteq Message
    /\ inSeq \in [Port -> -1..3]
    /\ incoming \in Seq(Message)
    /\ heard \in [Port -> SUBSET Pid]
    /\ lost \subseteq Message

(* What the server has acknowledged and not handled.                        *)
Queued == {incoming[k] : k \in DOMAIN incoming}
Waiting == held \cup Queued

Listed(i) == \E p \in Port : registry[p] = i

(* A machine that ended in order stays registered only as long as an        *)
(* "unregister" from its port waits to be handled, in whatever order the    *)
(* messages of the processes that used the port arrive and whenever the     *)
(* server stops or starts something there; unless its "unregister" was      *)
(* given up, or the number of another message from that port had overtaken  *)
(* it, which only parents send.                                             *)
NoGhost ==
    \A i \in Pid : Listed(i) /\ status[i] = "exited" =>
        \/ \E m \in Waiting : m.type = "unregister" /\ m.port = port[i]
        \/ UnregisterOf(i) \in lost
        \/ \E j \in parents : port[j] = port[i]

(* So it disappears from the list, while the server serves.                 *)
GhostsVanish ==
    \A i \in Pid : Listed(i) /\ status[i] = "exited" ~>
        \/ ~Listed(i)
        \/ ~serving
        \/ UnregisterOf(i) \in lost
        \/ \E j \in parents : port[j] = port[i]

(* SIGTERM only goes to processes that have installed their handler: an     *)
(* earlier one would end the process without a word to its parent.          *)
Started(i) == status[i] \notin {"none", "forked"}
SignalsAreHandled == \A i \in signalled : Started(i)

(* "List existing machines running on a server" (README.md): a machine      *)
(* whose registration was acknowledged and handled is listed until it is    *)
(* stopped, whatever else is started or stopped at its port meanwhile and   *)
(* whatever is given up, as long as the server's mailbox accepts no message *)
(* of another process from that port.  It must not spawn others, whose      *)
(* "start" may overtake "register".                                         *)
ListsRegistered ==
    \A i \in Pid \ parents :
        /\ status[i] = "running" /\ i \notin signalled
        /\ RegisterOf(i) \notin wire \cup Waiting \cup lost
        /\ heard[port[i]] \subseteq {i}
        => registry[port[i]] = i

(* A process that was sent SIGTERM ends, whatever becomes of its messages,  *)
(* also when the server no longer serves.                                   *)
SignalledEnds ==
    \A i \in Pid : i \in signalled ~> status[i] \in {"exited", "crashed"}
=============================================================================
