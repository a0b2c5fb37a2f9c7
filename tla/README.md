# Wink in TLA+

Wink (`src/`) is a C++ library for programs that are hierarchical state machines.
Each machine is a process of its own; machines talk to each other in UDP messages
through mailboxes, a machine that spawns others supervises them, and a server on
every host starts and stops the processes and keeps a registry of them.

This directory holds models of its stateful cores (the mailbox, its sockets and its
receiver thread, the machine, the server, the client, and a parent that supervises its
children) and of one application that drives itself with messages, the TLC runs that check
them on small instances, and TLAPS proofs of their safety properties for every value of the
constants.

## The system

| Component | State | Operations | Talks to |
|---|---|---|---|
| `AsyncMailbox` (`src/async_mailbox.cpp`, `mailbox.h`) | `outgoing_messages_`, `outgoing_multicasts_`, `incoming_messages_`, `outgoing_seq_nums_`, `incoming_seq_nums_`, `running_` | `Send`, `Receive`, `Flushed`, destructor; sender thread (`BackgroundSend`, `BackgroundSendMulticast`); receiver thread (`BackgroundReceive`, `BackgroundReceiveMulticast`) | its socket; its application by two mutexes and conditions |
| `Address` (`address.cpp`, `address.h`) | `ip_`, `port_`, `resolved_` | parse, print, resolve, `operator==`, `operator<`, `IsMulticast` | - |
| `UDPSocket` (`udp.cpp`, `socket.h`) | `unicast_socket_`, `multicast_sockets_` | constructor, `JoinGroup`, `LeaveGroup`, `Send`, `Receive`, `ReceiveMulticast`, destructor | the kernel; the mailbox's threads and the application, without a lock |
| `Machine` (`machine.cpp`, `machine.h`, `state.h`) | `current_`, `states_`, `running_`, `got_sigterm`, `error_message_`, `spawned_`, `queue_` | `Start`, `Exit`, `Error`, `Transition`, `Send`, `SendAt`, `SendAfter`, `Spawn`; the loop's `CheckChildren`, `SendPulse`, `SendScheduled`, `ReceiveMessage` | its application by callbacks that call back; its parent ("started", "pulsed", "errored", "exited"); its server ("register", "unregister") |
| `Server` (`server/server.cpp`) | `machines_`, `pids_`, `running_` | "start", "stop", "register", "unregister", "list" | machine processes by `fork`, `execv` and SIGTERM; clients by messages |
| Client (`client.cpp`, `client/main.cpp`) | the command, the tries of `ReceiveMessage`, the exit code | `StartMachine`, `StopMachine`, `ListMachines`, `SendMessages`; "start", "stop", "list", "send", "listen" | server and started machine |
| Turing sample (`samples/turing`) | table, tape, `requester`, the machine's state | a receiver for each symbol, the requests | requesters; itself, by messages |
| `Log`, the server's `main.cpp`, other samples, tests | - | output, options, applications | - |

What is hard about it:

* Three threads share a mailbox; datagrams are lost, repeated and reordered; what is
  retried may be overtaken by what was sent later; a peer's process is replaced by
  another one at the same address, which has forgotten everything, while the mailbox
  has not.
* Callbacks re-enter `Transition` while a `Transition` is in progress; `Exit`, `Error`
  and SIGTERM come at any point of it.
* The server's registry is filled by messages of the machines, not by its own forks,
  so it lags behind the processes; "register" and "unregister" may swap, and a machine
  may be gone before its "unregister", acknowledged long ago, is handled.
* A parent judges its children by the time since their last message was handled, while
  messages are delayed, lost and wait their turn behind others and behind the parent's own
  callbacks; what it makes up about a child races with what the child says.
* One thread reads unicasts and all multicast groups in turn, two seconds each, while
  senders count their retries in the same two seconds; groups are joined beside it.
* A client waits as long for an answer as its request and the answer may take; a machine
  it started late runs all the same; it follows one until a message that may be lost, or
  be erased by an acknowledgement of the server, when all run on one host.
* A machine that sends itself messages shares its mailbox with everybody else.

What makes each component correct:

* Mailbox: a message is handed over at most once, in order; it is not forgotten
  without a cause; the mailbox drains, so that the waiting loops on `Flushed` end.
* Machine: `on_enter` and `on_exit` calls match along the hierarchy; messages meet a
  settled hierarchy; a machine that ends exits all its states and tells the truth.
* Server: the registry tells which machines run; only processes that can handle it get
  SIGTERM; a signalled process ends.
* Receiver: a message that arrived is read before its sender gives it up, and the thread
  ends when the mailbox is closed; every descriptor is closed.
* Client: a request is served once; a command fails only for a reason, and ends.
* Turing sample: it computes what a Turing machine does, and answers.
* Supervision: a dead child is noticed, a live one is not declared dead, and the end of
  a child is handled once, however it is learnt of. (Not modelled: a child does not
  outlive its parent.)

`PROJECT.json` lists the components with their status, and the hazards each at its
line, with the properties that watch them.

## The modules

| Module | What it is |
|---|---|
| `Address` | `operator==` as written (equal port **or** equal ip), `IsMulticast` |
| `AsyncMailbox` | the mailboxes of a set of processes, and the network between them |
| `OrderedDelivery` | the abstract specification: in order, at most once, from the real sender |
| `MCAsyncMailbox` | addresses and routes for TLC |
| `UDPSocket` | the descriptors of a socket and the kernel's queues |
| `Reception` | the receiver thread over a socket, a peer that retransmits, and time (extends `UDPSocket`) |
| `MCReception` | ports for TLC |
| `ReceptionProofs` | proofs about `UDPSocket` and `Reception` |
| `AsyncMailboxProofs`, `StopAndWaitProofs` | proofs about `AsyncMailbox` |
| `Machine` | the life of one state machine |
| `MCMachine` | a hierarchy of states for TLC |
| `MachineProofs` | proofs about `Machine` |
| `Server` | the server, its machine processes and the messages between them |
| `ServerProofs` | proofs about `Server` |
| `Client` | the commands of the client, the server and the machines it starts |
| `MCClient` | sets of commands for TLC |
| `ClientProofs` | proofs about `Client` |
| `TuringMachine` | the abstract specification: a Turing machine on an infinite tape that answers requests |
| `Turing` | the machine of `samples/turing` |
| `MCTuring` | a table and tapes for TLC |
| `TuringProofs` | proofs about `Turing`, with the refinement |
| `Supervision` | a parent and the machines it spawned, with time |
| `MCSupervision` | the times of the code, which fit together as the proofs assume |
| `SupervisionProofs` | proofs about `Supervision` |

Operators whose comment begins with "Mutant" are deliberate mistakes; no specification
uses them. They are there to show that the property they are paired with in
`PROJECT.json` notices the mistake.

### AsyncMailbox

One variable per member of the class, indexed by node: `outgoing`
(`outgoing_messages_`, each entry with its `attempts`), `multicasts`, `outSeq` and
`inSeq` (the two maps of numbers, -1 for an absent key), `incoming`
(`incoming_messages_`; popped messages stay in the sequence and `popped` counts them,
so that properties can speak of what was received). `net` and `groupNet` are the
network. `inc` and `sent` are history: which process this is at its address, and what
was sent.

A unicast datagram stays in `net` once it was sent; receiving it does not remove it.
That is loss (nobody ever receives it), repetition and reordering at once.

Atomicity is the code's. A pass of `BackgroundSend` runs under `outgoing_mutex_` and is
one action. `BackgroundReceive` is two: it acknowledges a datagram first
(`ReceiveData`) and filters and queues it later (`FilterData`), with the datagram in a
local variable (`held`) in between, so that a crash or a `Send` may fall between the two.
The clock is abstracted to the set of entries whose deadline passed, which respects what
the code's formula implies: an entry never sent is due at once, and one queued earlier
and sent no more often than a due one is due too.

`Restart` replaces the process at an address by a new one, which starts with the
constructor while the network and the peers keep theirs. `StopAndWait` makes the
applications keep one message per destination in flight; the code has no such rule.

Left out: malformed (short) datagrams, which are logged and dropped; the trailing newline
trimming; truncation at `kMaxUDPPayload`; a failing `socket_.Send`, which is the same as
loss; wrap-around at 2^64.

### UDPSocket and Reception

`open` are the descriptors the kernel has, each with its port, the group it is a member of
and its queue; `unicast` and `multicast` are the two members of the class. `Constructor`
and `JoinGroup` are whole calls, `ConstructorFails` and `JoinGroupFails` one of them for each
step that may fail: the constructor throws and closes nothing (the program ends),
`JoinGroup` closes what it opened. Joining a group twice replaces the descriptor in the map,
and the first one is never closed; `NoLeak` says that nothing else leaks. Multicast sockets
are bound to `INADDR_ANY`, so the kernel (`Targets`, external) gives a multicast to every
socket of its port once any socket is a member of its group.

`Reception` is the thread: `at`, `group` and `fd` are the `recvfrom` it is in, `waited`
whether that was called in an earlier unit of time. `BackgroundReceive`, `ReceiveMulticast`
and `TimesOut` are its three ways on, each followed by the first or the next group of the
map (`FirstGroup`, `NextGroup`), the unicast again, or the end. Nobody guards
the map: `JoinGroup` beside a running pass is a data race, modelled as the choice whether
the pass meets the new group (`fresh`). `LeaveGroup`, which no code of the repository calls
while a mailbox runs, would also close the descriptor the thread reads; it is modelled before the
thread starts. A peer queues messages and transmits them once in a unit,
`kMaxRetries` times, then gives them up; it reads acknowledgements at once. Nothing is lost
on the way, so what is given up is what the thread was too slow to read. `reads[m]` counts the
datagrams the thread has read since `m` was queued (up to `MaxReads`, above which nothing is
promised). The thread reads one unicast per pass over all groups, and returns to the first group
after each multicast, so every datagram read in between costs a message one pass: `InTime`
says that a message is given up only when these passes together are as long as the peer
transmits. `ReceiverServes` needs multicasts to pause. A
multicast that arrives every two seconds for ever starves unicasts,
acknowledgements and the destructor.

Left out: payloads and addresses of senders; `SO_REUSEADDR` between processes. (The tests'
`MockSocket::ReceiveMulticast`, `test/src/socket.cpp:37`, takes from one queue and pops the
other; the model is of `UDPSocket`.)

### Machine

`pc` says where `Start` is. A callback may call `Transition`, which runs inside the
`Transition` that invoked the callback, so the calls in progress are a `stack`, each with
the states it has still to exit and enter: these lists are computed when the call starts
and are not recomputed, as in the code. `InvokeExit`, `SetCurrent`, `InvokeEnter` and
`Return` run the innermost call; `Effect` is what the callback does before it returns:
nothing, one `Transition`, `Exit` or `Error`. `HandleMessage` is the supervision part and
the search for a receiver, from the current state up; it serves both the messages
received and those `CheckChildren` makes up for children it takes for dead. Which
children are overdue is left open, as are the order in which they are reported (that of the keys)
and the times of pulses.

`SendAt` puts a message into `queue`, where it is known by its number; `Elapse` is the passing
of its time, and `SendScheduled`, between the pulse and the next message, sends what is due and
keeps the rest (`sent` is history). The destination of a scheduled message is a reference to the caller's object
(`machine.h:124`); the model assumes it lives as long as the message.

The lineages are those of `StateLineage` and `PruneLineage`. `HierarchyAssumption` says that the
states are finitely many and that the parents lead to the root, in fewer steps than there are
states: a program with a cycle of parents does not return from `StateLineage`. A run of pulses is one
element of `told`.

Preconditions, where the code throws or never returns: states are known
(`states_.at` throws `std::out_of_range` for an unknown one), parents form a tree, a
machine has at least one state (`Start` skips its loop otherwise), and the text given to
`Error` is not empty (an empty one sends no "errored"). The `else` branch of
`machine.cpp:308` would loop for ever, since it changes neither the state nor the condition; with known
states it is not reached. A callback makes at most one call.

Left out: `Send`, `Spawn` and the final "stop" messages, none of which changes the state
modelled here (they are in `Server`).

`Exit` is documented to cease execution "immediately" (`machine.h:51`). It clears
`running_`, which `Start` reads once per iteration: `CheckChildren` still hands over the
messages it makes up, `ReceiveMessage` one more, and their receivers may call
`Transition` or `Error`. The model has these steps; `SettledInLineage` and `ParentToldTruly`
hold in spite of them.

### Server

`registry` is `pids_` (and `machines_`, which changes with it). `status` and `port` are
the operating system's: which processes were forked, and where. `wire` are the messages
the machines' mailboxes still try to deliver to the server, numbered per machine:
"register"; the "start" of a machine that spawns (`parents`); "unregister"; the "stop" a
parent sends at its end. A message takes the code's three steps. `ReceiveData` takes any of them, in
any order: it is acknowledged, so that its sender forgets it, and held by the
receiver thread. `FilterData` drops it as a duplicate (`inSeq`) or queues it (`incoming`). `Serve` handles the
first of the queue. In between, the sender may flush its mailbox and end (`MachineEnds` asks about
`wire` only), and `Serve` may return. `GiveUp` is the end of the retries; it
also stands for a message erased by the acknowledgement of another process on one host. It is the
composition with the mailbox, with `AsyncMailbox` abstracted to what it does to these
messages. A machine sends one "start" and one "stop" at most, to any port: more of them
only raise the numbers further. Clients' requests (`ClientStarts`, `ClientStops`) come
from processes of their own and are not filtered; their wait in the queue changes nothing, as they may come
at any time. `heard` and `lost` are history: the senders the filter let pass at each
port, and the registrations given up.

`StartAt` stops what is registered at the port and forks; `StartAnywhere` is a start
without a port, where the operating system chooses a free one. Nothing prevents `StartAt`
from starting a second process on a port in use: the socket is opened with
`SO_REUSEADDR`, and the first may not have registered yet. The server never waits for
its children, so their pids are not reused and `kill` never fails for one of them
(machines started by hand are no children of the server and are left out). A
crash (`MachineCrashes`) also stands for a failing `execv`.

A machine that spawns others sends "register" and, from its first `on_enter`, "start": two
messages in flight. If "start" arrives first, "register" is dropped as a duplicate
(`async_mailbox.cpp:129`) and the parent is never listed nor stopped. This is what
`mailbox_reorder` shows of the mailbox; `ListsRegistered` excepts such machines
(`parents`).

What holds of the registry is said at the points where the code promises something. A machine that is gone
may be listed, but only while an "unregister" that was acknowledged waits to be
handled (`NoGhost`), so it disappears (`GhostsVanish`). A machine that runs may not be
listed: before its "register" is handled, or for ever if another process was heard from its port.
`ListsRegistered` says that a machine whose registration went through stays listed through the starts
and stops of others, in particular of a second process started on its port that has not been heard
yet.

Left out: "list", which only reads (`Client` has it); logging to files; the parameters `execv` gets;
`LogToFile` failing in the forked child (listed as a hazard).

### Supervision

The part of a parent's loop that concerns its children, and the children's pulses, with
the times `Machine` leaves open. One child's `wire` is what its mailbox still tries to
deliver; `incoming` is the parent's mailbox. The mailboxes do what `OrderedDelivery`
promises, with a bound on the delay: `Deliver` takes any message of a child and drops
those it overtook, as the filter of `AsyncMailbox` does; `GiveUp` is the end of the retries, or an
acknowledgement meant for another process of the host (`address.h:74`), which ends them too.
The parent's iteration is `CheckChildren` (which reads the clock and collects the overdue
children), `ReportErrored` and `ReportExited` for each of them, `BeginReceive`, and
`ReceiveMessage` or `ReceiveNothing`. `HandleMessage` is the supervision part of the code's
followed by a receiver, which may take up to `MaxBusy`. `buried` is history.

Time: every clock value is kept as the time that passed since it was read, so `spawned[c]`
is `now - v.second` and nothing grows without bound; ages stop above `HeartbeatTimeout`, since the
code compares them with nothing larger. `Tick` lets a unit pass. It only happens where the
code waits (`Receive`, or a callback), and not when something is due: a running child
sends its pulse at latest one wait and one callback after the interval (`PulseIsLate`), a
mailbox delivers or gives up within `MaxDelay`. Those two bounds are assumptions about the
hosts; the code's numbers are the intervals and timeouts.

`Timing` says when the times fit together: a pulse leaves its mailbox before the next is sent
(`MaxDelay <= PulseInterval`); the parent's mailbox empties faster than pulses fill it (two
intervals are longer than the parent needs for the most messages it can hold, `Crowd`); and the next
news of a child is handled before its heartbeat is too old (`Limit <= HeartbeatTimeout`).
`Limit` adds up what may come in between: the reports of other children, the wait, `MaxLost`
lost messages and one that arrives, each up to `Gap` after the one before, their delay, and the messages that wait
before it. With the code's times in units of 2 s, one child and callbacks of up to 2 s it is 30
units, exactly the minute; `MCSupervision` has TLC evaluate this. Callbacks of up to 0.1 s leave room
for three children (units of 0.1 s: `Crowd` 13, `Limit` 523 of 600, and 165 of the 202 units of two intervals). `Timing` is
sufficient and not necessary: TLC finds the run satisfied with 29 units too.

Every address is used by one child. A second process at the address of a dead one starts
its numbers at 0, so its "started" meets the filter of the parent's mailbox, which has accepted
a message of the dead one with at least that number if there is an entry of `spawned_`: the
`emplace` that keeps an old heartbeat (`machine.cpp:281`) finds a key only where the
mailbox lets no "started" through. The second process is not heard until its numbers pass
the first one's, see `Restart` above. The parent sends its children nothing and stays in its loop. The order in which `dead`
is gone through (that of the keys) is left open, and the `find` before each report always
succeeds, because a receiver cannot reach `spawned_` (`TypeOK` says it).

### Client

`command[c]` is what a client process was called with: `start`, `start -f` ("follow"), `stop`,
`list`, or `send -r 1` ("send"; without `-r` it is like `stop`). `Begin` is `main` up to the
request that was sent, `ReceiveMessage` and `ReceiveFails` the wait for the answer, `Follow` the loop of
`StartMachine`, `Return` and `End` the way out, through the destructor of the mailbox that waits until
it is flushed. The server is what `Serve` does with "start", "stop" and "list"; the machines
tell their parent, the client, "started", "errored" and "exited", and their server "register" and
"unregister". The registry itself is in `Server`: here a "stop", or a "start" that names a port,
hits some running machine or none. `mail` are the
messages their mailboxes have not been acknowledged, each with the transmissions it has left;
`seen` is the filter. A unit of time is `kReceiveTimeout`: `Tick` takes a transmission
from each message and a try from each client. `Deliver` may come before `Tick` or not; the server and the
machines handle what arrives within the unit (their loops wait for nothing else).

The acknowledgement of a message may be lost: everything stays where it is, and is transmitted again. Or it
erases the first message of the sender that it fits (`Acknowledged`): of the same number, to an address (`Endpoint`) that
`operator==` takes for the one it comes from. On one host that may be another message. "started" and "register" are
both number 0, and "exited" or "errored" has the number of "unregister": the server's acknowledgement of the
latter erases the former, if that was not acknowledged before, for a client on the server's host. With one transmission lost, a "start"
fails although the machine runs, or a follower waits for ever. This is
what `mailbox_neighbours` shows of the mailbox. `FailsForAReason` and `FollowersEnd` except
the clients it happened to (`wronged`), and `NobodyIsWronged` proves that it never happens to clients
whose address `operator==` can tell from all others.

`lost`, `slow` and `wronged` are history: how many transmissions from or to clients that start a machine
failed altogether, whether a machine took longer than a unit to start, and which of these
clients had a message erased that had not arrived. `FailsForAReason` says that "start" fails only
then, or when the machine has ended. It does not say that a failed "start" left no machine: one
whose "started" comes after the client gave up runs on, and nobody follows it.
`send -r` asks again and again for ever when no reply comes, so `CommandsEnd` is about
the others.

`StartMachine` means to check that the right binary was started, but compares the requested
name with itself (`client.cpp:46`). No other machine has the client for its parent, so this
has no effect here.

Left out: parameters and usage; a server that restarts (`AsyncMailbox` has the restarts). Two machines may
have one port: `seen` is by process, which differs from the code's filter by address only for what
machines send their server, which has no effect here.

### Turing

The sample builds a machine of a table of quintuples. Entering a state, it sends the symbol
under the head to its own address (`EnterState`), and the receiver for that message writes, moves
and goes on (`Compute`). "Initial" takes any message as a tape and starts (`AcceptRequest`); "H"
answers the tape and goes back to "Initial" (`EnterHalt`). Characters are their codes, since
`std::map` puts them in that order. The tape has its cells and the index of its iterator.
`self` are the machine's messages to itself on their way, which its mailbox may give up.

`TuringMachine` is a Turing machine on an infinite tape with requests and answers;
`Turing` implements it under the mapping that cuts the blanks off both ends of the tape, as
long as no request is handled during a computation (`disturbed`). A request of one
symbol that is, is taken for the symbol read (`universal.cpp:68`); any other ends the
machine as an unexpected message. After that nothing is promised, and the model goes on to show
what may happen.

The computation starts in the first state of the map, that with the smallest character
(`universal.cpp:58`), where `samples/turing/README.md:24` has "the current state of the first quintuple".
`TuringMachine` has the start state as a constant, and `Turing` implements it with the smallest one; the table of the run is
in an order in which the two differ. `StartIsTheDocumentedOne` says for which tables they agree. With
the README's own tables they do. A next state there is none of throws
(`EnterUnknown`).

Assumed: moves are L, R or N (others throw), requests are not empty (an empty tape is
dereferenced, undefined behaviour).

## What TLC checks

| Run | Instance | Distinct states | Shows |
|---|---|---|---|
| `mailbox_order` | 2 nodes, one way, 3 sends, 2 transmissions each, 1 restart of each node, messages that may read "ack" | 115,128 | `AtMostOnceInOrder`; the mailboxes implement `OrderedDelivery` |
| `mailbox_stop_and_wait` | 2 nodes, one message at a time plus multicasts, 3 sends, no restart | 67,908 | `NoSilentLoss`; `EventuallyFlushed` |
| `machine` | 4 states (one with two below it), 2 children, 2 calls of `Transition` and 2 of `SendAt` by callbacks | 307,082 | `ActionsMatch`, `SettledInLineage`, `ParentToldTruly`, `EventuallyDone`, `ScheduledSent` |
| `reception` | 2 groups, 3 descriptors, 2 messages of 3 transmissions, datagrams counted up to 1 | 294,126 | `NoLeak`, `InTime`, `ReceiverServes` |
| `client` | 2 clients, one on the server's host (follow and stop, send and start, list and list), 2 machines, 2 transmissions and tries | 1,006,056 | `StartsOne`, `FailsForAReason`, `FollowsToTheEnd`, `CommandsEnd`, `FollowersEnd` |
| `turing` | the busy beaver of 3 states, 4 tapes, 2 requests | 9,480 | `HandlesSymbolUnderHead`, `ImplementsTuringMachine`, `EventuallyAnswered` |
| `server` | 2 ports, 2 processes, one of which spawns | 858,670 | `NoGhost`, `SignalsAreHandled`, `ListsRegistered`, `SignalledEnds`, `GhostsVanish` |
| `supervision` | 1 child, 1 message of others, the code's times in units of 2 s (pulse 5, heartbeat 30, receive 1), delay up to 5, callbacks up to 1, at most 1 message in a row lost | 351,883 | `NoFalseDeath`, `BuriedOnce`, `BuriedForGood`, `EventuallyNoticed` |

Four more runs check a sentence of the documentation the code does not keep; TLC prints the
shortest behaviour that breaks it.

| Run | The sentence | What happens |
|---|---|---|
| `mailbox_reorder` | "The receive sequence number is used to detect duplicate messages." (`src/README.md:297`) | Of two messages in flight the second arrives first; the first is acknowledged, so it is not retried, and dropped as a duplicate (`async_mailbox.cpp:129`). |
| `mailbox_neighbours` | "senders will retry unacknowledged messages up to 5 times" (`src/README.md:295`) | `operator==` takes two processes of a host for one, so the acknowledgement of one removes the message to the other (`address.h:74`). |
| `machine_nested` | "An action is triggered when a state is entered or exited." (`src/README.md:44`) | `current_` is set before the `on_enter` of any state runs; a `Transition` from the `on_enter` of an ancestor exits a state that was never entered (`machine.cpp:144`). |
| `supervision_unheard` | "If a parent doesn't receive a heartbeat for 1 minute it will assume the child has failed" (`src/README.md:131`) | `spawned_` is filled by "started", not by `Spawn`: a child that crashes first, or whose "started" is given up, has no heartbeat that could expire, and is never missed (`machine.cpp:281`). |

Two more sentences differ from the code without a run of their own, since what the code does instead is
what the models have:

* "If A does not receive K within 10 seconds, it will resend M, up to 5 times."
  (`src/README.md:302`): the sender thread transmits again after 2 seconds
  (`kReceiveTimeout`, `async_mailbox.cpp:181`), 5 times in all, so a message is given up
  when the documentation has it repeated for the first time.
* The start state of a Turing machine (`samples/turing/README.md:24`), see above.

The filter of `mailbox_reorder` also meets restarted processes: they number from 0, and
their peers acknowledge and drop what they send until it passes their predecessor's number
(`async_mailbox.cpp:139`), where `src/README.md:27` says a machine can be "Restarted without
affecting others". `mailbox_order` has these restarts, and what remains true in them; a server
drops the "register" of a new process on a port used before for the same reason.

The properties of the passing runs are stated so that they say exactly what remains true
beside these: order and at most once hold always; nothing is lost silently when
applications wait for an acknowledgement before they send again, addresses are
distinguishable and nobody restarts; transitions from receivers and from the `on_enter` of
the target itself are sound; machines that spawn nothing stay listed while nobody else is heard from
their port; supervised children, those whose "started" was
handled, are noticed.

### Bounds

* Mailbox: sequence numbers are compared only with each other, so 3 messages give every
  order of an old, a current and a later one, and an acknowledgement late by two messages.
  2 transmissions give "first", "retried" and "given up"; more only repeat the middle one
  (the violation runs use the real 5). One restart of each end gives all four pairs of old
  and new processes.
* Machine: the tree has a parent with two leaves and a root beside it, so that transitions
  go to a sibling, an ancestor, a descendant, a stranger and itself; the callers of the
  passing run are receivers and the `on_enter` of the target, and two calls nest or follow
  each other. Two children may be lost in the same iteration.
* Server: two processes share a port, one after the other or at once (a stale and a
  current one, the filter's memory of the first, and its "unregister" that waits when it is gone), or have one each, where the parent
  on one port starts and stops the other. A machine's "stop" and a client's hit a registered
  and an unregistered port. The proofs about `Server` do without all these bounds.
* Reception: two groups are the first and the next one of a pass; a group is joined twice, or
  a second one late, as there are three descriptors. A message that is given up without any other
  datagram, and one with, both occur. The theorem about `InTime` has no bounds.
* Client: 2 transmissions and tries leave a first, a repeated and a last one. Each pair of commands
  has two clients meet at the server or at a machine. The follower is on the host of the server, where
  acknowledgements are confused, the client that only starts is not. With the first machine taken, a
  second request (or a repeated one, if it were served) has another.
* Turing: the table moves in all directions, and leaves its short tapes on both sides; a
  symbol without a rule, a state there is none of, and a rule that comes too late to count
  are added. 9 cells are more than a computation needs.
* Supervision: the ratios are the code's (10 s, 60 s and 2 s); a message is delivered or
  given up within 10 s: its sender transmits for 8 s, and the rest is for the way and the reader.
  The bounds are nearly tight, so the run is not
  satisfied for lack of time: with a `HeartbeatTimeout` of 29 units it still passes, with 28
  `BuriedOnce` fails, with 23 `NoFalseDeath` does, and with two messages lost in a row instead
  of one `NoFalseDeath` fails at the code's 30. So 60 s
  survive the loss of one message and not of two. One child suffices for these, as the
  children only meet in the parent's mailbox, where the message of others stands for theirs. The
  theorems are about any number of children.

### Fairness

* `AsyncMailbox`: weak fairness of the sender thread. It loops until the destructor stops
  it, which waits for an empty queue first, and time passes, so a deadline does. No fairness
  of reception, of the network or of the application: `EventuallyFlushed` holds even when
  nothing ever arrives.
* `Machine`: weak fairness of the thread, that is, callbacks return and `Receive` has a
  time-out, and of time. None of the signal.
* `Reception`: weak fairness of the receiver thread, of the peer's sender thread and of
  time. None of the application or of multicasts.
* `Client`: weak fairness of each client's thread and of time; a machine that got SIGTERM
  leaves. None of delivery: a command ends also when nothing ever arrives.
* `Turing`: weak fairness of the machine's loop, and its own messages arrive or are given
  up. None of requests.
* `Supervision`: weak fairness of the parent's thread, and time goes on. None of the
  children, of delivery or of the others: a child that is silent because it is dead is
  noticed by the parent alone.
* `Server`: a machine that got SIGTERM leaves its loop (`Machine!EventuallyDone`), a mailbox
  delivers or gives up (`AsyncMailbox!EventuallyFlushed`), a flushed process ends, and the server's receiver
  thread and `Serve` go on. None
  of the requests, and none of the machines' leaving by themselves. The destructor joins the
  receiver thread, which `BackgroundReceiveMulticast` can keep while multicasts arrive
  without a pause; `Reception` has that, here it is assumed away.

## What is proved

All proofs are checked by TLAPS for every value of the constants, from the assumptions
named in the modules: `NodeAssumption` and `BoundAssumption` (addresses of nodes are not
multicast ones, the group's is; members and routes are of nodes; at least one
transmission) and `ServerAssumption` (ports are numbers, and not the value for "nobody"; those that spawn
are processes), `SupervisionAssumption` (times and bounds are natural numbers, "nobody" is no
child; `Timing` is a hypothesis of two theorems, not an assumption of the module), `UDPSocketAssumption` and `ReceptionAssumption` (groups and descriptors are numbers, the
groups finitely many), `MachineAssumption` and `HierarchyAssumption` (see above),
`ClientAssumption` and `EndpointAssumption` (clients, machines and the server are different mailboxes, and
machines run on the server's host) and
`TuringAssumption` (the table is a sequence of quintuples of characters, requests are tapes of one
to `MaxCells` symbols). TLC evaluates each of them on the instances it checks.

* `AsyncMailboxProofs`: `TypeCorrect`, `OrderedDeliveryHolds`, `MailboxesImplementPromise`.
  `AtMostOnceInOrder` is not inductive: that a new message is above all earlier ones of
  its sender follows only when the last number accepted (`inSeq`) is an upper bound of the
  numbers in `incoming`. For the refinement, every datagram, queue entry and held message
  must stem from a call of `Send` (`sent`), and the numbers of a process must be bounded by
  its `outSeq`. `DeliveryInv` is the conjunction of these; the refinement maps `log` to
  `incoming`, and every step to a `Send`, a `Deliver`, a `DeliverMulticast`, a `Restart` or a stutter.
* `StopAndWaitProofs`: `NothingLostSilently`, under `StopAndWaitSetting` (`StopAndWait`, distinguishable
  addresses, no restarts, and no message that reads "ack"). `LossInv` says why:
  numbers are used once, what waits for an acknowledgement is the last message sent to
  its destination, an acknowledgement is never for a number not yet used, and one for the last number
  used is for a message that has arrived. So an acknowledgement that comes late, when the next
  message waits, matches nothing, and one that matches was earned.
* `ServerProofs`: `RegistryTypeCorrect`, `NoGhostHolds`, `SignalsAreHandledHolds`,
  `ListsRegisteredHolds`. `ServerInv` adds to the types what each status says of a process (`ProcessInv`: a
  forked process has no port but its own and is neither registered, signalled nor a parent), where
  messages come from, on the wire, held or queued, and that an ended process has none on the wire (`MailInv`), what the
  filter knows (`FilterInv`: where nobody spawns, an entry stands only while an "unregister" of its
  process is still to come, waits, or was given up) and what was heard
  (`HeardInv`: of a machine whose port has heard nobody else, the "register" waits, or it is listed, or was
  stopped). `StopEffect` and `StartEffect` say once what
  requests do to registry and processes, for clients' requests and machines' alike.

* `SupervisionProofs`: `SupervisionTypeCorrect`, `BuriedForGoodHolds`, and under `Timing`
  `NoFalseDeathHolds` and `BuriedOnceHolds`. That a buried child
  never comes back to `spawned_` rests on the order of its messages, kept from its mailbox to the
  parent's: `StartedFirst` says a "started" has nothing of the same child before it, neither
  handled, nor waiting, nor on the wire, and `UnbornSilent` that a child that was not
  started has sent nothing. The lemmas say what the helpers on sequences do (`WireStep`,
  `Appended`, `TailOf`), and that handling, sending and delivering keep the order.
  The two theorems under `Timing` share one invariant, `Heartbeats`, since its parts need each other.
  `Pipe` follows the messages of a child from its mailbox to the parent's: pulses, then last words, and no
  more than two pulses in all, which bounds the parent's mailbox by `Crowd`. They are so few because of `Spaced`:
  a pulse is handled before the second one after it is sent. That rests on `Left`, the time until the parent
  receives again, and on the bound of the mailbox. `Timely` says that the heartbeat of a
  child that lives, or whose "exited" will arrive, is refreshed in time: by news in the mailbox, else
  by what is on the wire, else by the next pulse, where every loss that may still come (`Chances`) costs a
  `Gap`. `NowBound` bounds the age of the clock value the comparison uses, and `Once` says that the
  end of such a child was not handled and that it is not taken for dead.

* `ReceptionProofs`: `NoLeakHolds`, `ReceptionTypeOK`, `InTimeHolds`. `Ownership` says that an
  open descriptor has one owner: the unicast, one group of the map, or one that was replaced
  there; without "different groups have different descriptors" the closing of one could
  hit another. `Waits` says that the thread is in a descriptor the object has, also when its
  group was joined again meanwhile. For `InTime`, `Copies` says that a transmitted message the
  thread has not acknowledged lies in the queue of the unicast socket, and `Lateness` counts: the
  units since its first transmission and those the thread still spends in the groups
  (`Remaining`) are together no more than a pass for each datagram read, and one. So the thread is in the
  unicast socket, where it reads something, before a further pass begins.
* `MachineProofs`: `MachineTypeOK`, and under `CallsWhenEntered` `ActionsMatchHolds`,
  `SettledInLineageHolds`, `ParentToldTrulyHolds`. `CallsWhenEntered` says that callbacks call
  `Transition` from receivers and from the `on_enter` of the target only, which `machine_nested` shows to
  be needed: the `on_enter` of an ancestor or an `on_exit` that calls it breaks `ActionsMatch`. The
  lineages are a recursive function of the states; that it exists follows by taking the
  least depth at which it would not (`UpwardsExists`), and the facts about it likewise: a lineage leads to the root
  without repetition, and what `PruneLineage` leaves of two lineages is what lies between
  the states and their nearest common ancestor. `Placed` says of each call in
  progress where its lists lie in the hierarchy and that the states entered are the ancestry of
  the place reached, that what encloses it has nothing left to do, and `ToldSoFar` what the
  parent has been told at each place of the loop.
* `ClientProofs`: `ClientTypeOK`, `StartsOneHolds`, `FailsForAReasonHolds`,
  `NobodyIsWronged`, `FollowsToTheEndHolds`. `Letters` says who writes what to whom, `Parents` that a client has
  one machine at most and only after the server's filter has seen its request (so that a
  repeated request starts none), `Ends` that what a client was told of the end of its machine is true. For `FailsForAReason`, `OnTime` follows the request of a client that waits: it is
  on its way, or with the machine, or the answer is on its way back or in, with at least as many
  transmissions left as the client has tries, unless as many transmissions as the client has spent tries were lost.
  A delivery keeps every other message, but for those that have arrived and those of clients it wrongs (`Kept`).
  `NobodyIsWronged`: among the messages of a sender, an acknowledgement fits another of the same number only
  where `operator==` confuses the two destinations, and with clients that are `Apart` it does not.
* `TuringProofs`: `TuringTypeOK`, `HandlesSymbolUnderHeadHolds`, `TuringMachineImplemented` (`Turing`
  implements `TuringMachine` with the smallest state as its start), `StartIsTheDocumentedOne`. `OneSymbol` says that without a disturbance the machine has
  one message to itself under way, with the symbol under the head, or none when it is
  "Initial"; `Faithful` adds that after a lost one nothing is computed any more, and that requests carry tapes. The
  lemmas on tapes say that the mapping by which a list of cells stands for an infinite tape
  is kept by writing and by moving, where the list may grow at either end (`SameCells`,
  `MovedIs`, `ContentsIs`), and that the answer is what lies between the outermost symbols.
  Then `AcceptRequest` maps to a beginning, `Compute` to a step, and all else to a stutter (`OthersStutter`).

Only model-checked:

* Liveness, which needs fairness and ENABLED and is out of the prover's reach:
  `EventuallyFlushed`, `EventuallyDone`, `ScheduledSent`, `SignalledEnds`, `GhostsVanish`, `EventuallyNoticed`,
  `EventuallyAnswered`, `CommandsEnd`, `FollowersEnd`, `ReceiverServes`.
* The four sentences of the documentation, each by a behaviour that breaks it.
* That the code's times meet `Timing`, and that the other assumptions hold of the instances: TLC evaluates them.

All other properties of the passing runs are theorems.

## Plan

All components of the plan are modelled, and the safety properties of the runs are proved. What is
left, in order of importance:

1. `Timing` for several children says that all of them may be reported lost in one iteration, each
   with the longest callbacks. A bound on the children reported at once would let longer callbacks in.
2. `ActionsMatchHolds` and the two after it assume `CallsWhenEntered`. What is true of callbacks without it
   (a state is left at most once for each time it was entered, say) is neither stated nor proved.
3. `NothingLostSilently` assumes that nobody restarts. With restarts it should hold of the
   messages sent by a first process to a first process.
4. The end of a parent: which children are told to stop, and which run on because their
   "started" came too late (`machine.cpp:77`). This is a part of the model still to be written, in `Supervision`.
5. Two starts for one port before the first machine has registered (`server.cpp:47`): the server drops the
   "register" that comes second there as a repetition of the other's, and a "start" that finds
   nobody listed stops nobody. `ListsRegistered` says which process is listed then; that both
   run on is a behaviour of `Server` no property is about, as the documentation promises nothing.

## Not modelled

* `Log` and the server's `main.cpp`: output and options, no state after the process began.
* Usage, help and parameter checks of the client's `main.cpp`.
* Parsing, printing and resolving addresses (`address.cpp`): conversions of text, which
  the other modules use as values. `operator==` and `IsMulticast`, which decide something, are
  in `Address`.
* What `Server::Start` does in the forked child when its log file cannot be opened
  (`server.cpp:149`): it returns into `Serve` as a second server process; a hazard.
* The lifetime of the address of a scheduled message (`machine.h:124`), a matter of the objects of
  an application; a hazard.
* The other samples. The hierarchies (`bigger`, `forrest`) are instances of `Machine`, which has the
  same shape on a smaller scale; the others are a callback or two over what is modelled.
* The end of a parent whose child's "started" is still on its way (`machine.cpp:77`): the child
  is not told to stop and runs on; a hazard.
* The branch of `HandleMessage` for a state that does not exist, which would loop for ever:
  unreachable, since `Transition` throws first.
