---------------------------- MODULE Supervision ----------------------------
(***************************************************************************)
(* A machine and the machines it spawned (machine.cpp), with time: the     *)
(* children's loops send pulses, the parent's loop looks for children it   *)
(* has not heard of and takes one message per iteration.                   *)
(*                                                                         *)
(* A clock is kept as the time that passed since it was read.  Time passes *)
(* in Tick, which waits for what has to happen before.  Mailboxes and      *)
(* network are what OrderedDelivery promises, with a bound on the delay:   *)
(* the messages of a child are handed over in order, or given up.          *)
(***************************************************************************)
EXTENDS Integers, FiniteSets, SequencesExt

CONSTANTS
    Child,             \* the addresses of the spawned machines, each used once
    PulseInterval,     \* kPulseInterval
    HeartbeatTimeout,  \* kHeartbeatTimeout
    ReceiveTimeout,    \* kReceiveTimeout
    MaxDelay,          \* time after which a mailbox has delivered or given up
    MaxBusy,           \* time a callback takes at most
    MaxLost,           \* consecutive messages of a child given up at most
    MaxOther           \* messages of others in the parent's mailbox at most

Absent == -1           \* the heartbeat of a key that spawned_ does not have
Nobody == "nobody"

ASSUME SupervisionAssumption ==
    /\ {PulseInterval, HeartbeatTimeout, ReceiveTimeout, MaxDelay, MaxBusy,
        MaxLost, MaxOther} \subseteq Nat
    /\ Nobody \notin Child

VARIABLES
    life,      \* life[c]: "unborn", "running" or "ended"
    last,      \* last[c]: time since c sent a pulse, or entered its loop
    wire,      \* wire[c]: messages of c its mailbox still tries to deliver,
               \* each with its age
    lost,      \* lost[c]: messages of c given up since one was delivered
    incoming,  \* incoming_messages_ of the parent's mailbox
    spawned,   \* spawned_: for each key the time since its heartbeat, or Absent
    pc,        \* where the parent's loop is
    dead,      \* CheckChildren: the children it has still to report
    reporting, \* the one of them whose "errored" was handled, or Nobody
    now,       \* time since the parent's `now` was read
    waited,    \* time spent in mailbox_.Receive
    busy,      \* time the parent's running callback still takes
    buried     \* buried[c]: how often a receiver got "exited" for c (history)

childVars == <<life, last, wire, lost>>
loopVars == <<pc, dead, reporting, waited>>
vars == <<childVars, loopVars, incoming, spawned, now, busy, buried>>

LifecycleType == {"started", "pulsed", "errored", "exited"}

Init ==
    /\ life = [c \in Child |-> "unborn"]
    /\ last = [c \in Child |-> 0]
    /\ wire = [c \in Child |-> <<>>]
    /\ lost = [c \in Child |-> 0]
    /\ incoming = <<>>
    /\ spawned = [c \in Child |-> Absent]
    /\ pc = "check"
    /\ dead = {}
    /\ reporting = Nobody
    /\ now = 0
    /\ waited = 0
    /\ busy = 0
    /\ buried = [c \in Child |-> 0]

-----------------------------------------------------------------------------
(* The children.                                                            *)

Send(c, types) ==
    wire' = [wire EXCEPT ![c] = @ \o [i \in DOMAIN types |-> [type |-> types[i], age |-> 0]]]

(* The parent spawned the machine and the server has started it: it tells   *)
(* its parent and enters its loop.                                          *)
ChildStarts(c) ==
    /\ life[c] = "unborn"
    /\ life' = [life EXCEPT ![c] = "running"]
    /\ Send(c, <<"started">>)
    /\ UNCHANGED <<last, lost, incoming, spawned, loopVars, now, busy, buried>>

(* SendPulse, in the first iteration after the interval.                    *)
ChildPulses(c) ==
    /\ life[c] = "running" /\ last[c] > PulseInterval
    /\ last' = [last EXCEPT ![c] = 0]
    /\ Send(c, <<"pulsed">>)
    /\ UNCHANGED <<life, lost, incoming, spawned, loopVars, now, busy, buried>>

(* An iteration of the child's loop waits for a message and runs a callback.*)
PulseIsLate(c) ==
    life[c] = "running" /\ last[c] > PulseInterval + ReceiveTimeout + MaxBusy

ChildExits(c) ==
    /\ life[c] = "running"
    /\ life' = [life EXCEPT ![c] = "ended"]
    /\ \E types \in {<<"exited">>, <<"errored", "exited">>} : Send(c, types)
    /\ UNCHANGED <<last, lost, incoming, spawned, loopVars, now, busy, buried>>

(* The process is killed.  What it sent is under way, or is lost with its   *)
(* mailbox.                                                                 *)
ChildCrashes(c) ==
    /\ life[c] = "running"
    /\ life' = [life EXCEPT ![c] = "ended"]
    /\ wire' \in {wire, [wire EXCEPT ![c] = <<>>]}
    /\ UNCHANGED <<last, lost, incoming, spawned, loopVars, now, busy, buried>>

-----------------------------------------------------------------------------
(* The mailboxes.                                                           *)

(* Mutant: the receiver's filter lets a repeated message through.           *)
DeliverAgain(c) ==
    \E i \in DOMAIN wire[c] :
      /\ incoming' = Append(incoming, [type |-> wire[c][i].type, from |-> c])
      /\ wire' = [wire EXCEPT ![c] = SubSeq(@, i, Len(@))]
      /\ lost' = [lost EXCEPT ![c] = 0]
      /\ UNCHANGED <<life, last, spawned, loopVars, now, busy, buried>>

(* Mutant: the receiver's filter lets overtaken messages through.           *)
DeliverOutOfOrder(c) ==
    \E i \in DOMAIN wire[c] :
      /\ incoming' = Append(incoming, [type |-> wire[c][i].type, from |-> c])
      /\ wire' = [wire EXCEPT ![c] = RemoveAt(@, i)]
      /\ lost' = [lost EXCEPT ![c] = 0]
      /\ UNCHANGED <<life, last, spawned, loopVars, now, busy, buried>>

(* A message arrives; those of the child that it overtook will be dropped.  *)
Deliver(c) ==
    \E i \in DOMAIN wire[c] :
      /\ incoming' = Append(incoming, [type |-> wire[c][i].type, from |-> c])
      /\ wire' = [wire EXCEPT ![c] = SubSeq(@, i + 1, Len(@))]
      /\ lost' = [lost EXCEPT ![c] = 0]
      /\ UNCHANGED <<life, last, spawned, loopVars, now, busy, buried>>

GiveUp(c) ==
    /\ lost[c] < MaxLost
    /\ \E i \in DOMAIN wire[c] : wire' = [wire EXCEPT ![c] = RemoveAt(@, i)]
    /\ lost' = [lost EXCEPT ![c] = @ + 1]
    /\ UNCHANGED <<life, last, incoming, spawned, loopVars, now, busy, buried>>

(* Somebody else sends the parent a message.                                *)
Other == [type |-> "other", from |-> Nobody]

OthersSend ==
    /\ Cardinality({i \in DOMAIN incoming : incoming[i] = Other}) < MaxOther
    /\ incoming' = Append(incoming, Other)
    /\ UNCHANGED <<childVars, spawned, loopVars, now, busy, buried>>

-----------------------------------------------------------------------------
(* The parent.                                                              *)

(* Mutant: a pulse does not refresh the heartbeat.                          *)
HandleUnrefreshed(m) ==
    /\ spawned' =
         CASE m.type = "started" /\ spawned[m.from] = Absent -> [spawned EXCEPT ![m.from] = now]
           [] m.type = "exited" -> [spawned EXCEPT ![m.from] = Absent]
           [] OTHER -> spawned
    /\ buried' = IF m.type = "exited" THEN [buried EXCEPT ![m.from] = @ + 1] ELSE buried
    /\ busy' \in 0..MaxBusy

(* HandleMessage: the supervision, then a receiver, which takes some time.  *)
(* The heartbeat gets the time at which the iteration began.  emplace keeps *)
(* the heartbeat of a key that is there.                                    *)
HandleMessage(m) ==
    /\ spawned' =
         CASE m.type = "started" /\ spawned[m.from] = Absent -> [spawned EXCEPT ![m.from] = now]
           [] m.type = "pulsed" /\ spawned[m.from] # Absent -> [spawned EXCEPT ![m.from] = now]
           [] m.type = "exited" -> [spawned EXCEPT ![m.from] = Absent]
           [] OTHER -> spawned
    /\ buried' = IF m.type = "exited" THEN [buried EXCEPT ![m.from] = @ + 1] ELSE buried
    /\ busy' \in 0..MaxBusy

(* An iteration begins: the clock is read, and the children not heard of    *)
(* for too long are collected.                                              *)
Overdue == {c \in Child : spawned[c] > HeartbeatTimeout}

CheckChildren ==
    /\ pc = "check" /\ busy = 0
    /\ now' = 0
    /\ dead' = Overdue
    /\ pc' = "lost"
    /\ UNCHANGED <<childVars, incoming, spawned, reporting, waited, busy, buried>>

(* Two messages are made up for each of them, in the order of the keys,     *)
(* which is left open.                                                      *)
ReportErrored(c) ==
    /\ pc = "lost" /\ busy = 0 /\ reporting = Nobody /\ c \in dead
    /\ HandleMessage([type |-> "errored", from |-> c])
    /\ reporting' = c
    /\ UNCHANGED <<childVars, incoming, pc, dead, now, waited>>

(* Mutant: the second message is forgotten.                                 *)
ReportNothing ==
    /\ pc = "lost" /\ busy = 0 /\ reporting # Nobody
    /\ dead' = dead \ {reporting}
    /\ reporting' = Nobody
    /\ UNCHANGED <<childVars, incoming, spawned, pc, now, waited, busy, buried>>

ReportExited ==
    /\ pc = "lost" /\ busy = 0 /\ reporting # Nobody
    /\ HandleMessage([type |-> "exited", from |-> reporting])
    /\ dead' = dead \ {reporting}
    /\ reporting' = Nobody
    /\ UNCHANGED <<childVars, incoming, pc, now, waited>>

(* Mutant: the loop goes on after the first child of CheckChildren.         *)
BeginReceiveEarly ==
    /\ pc = "lost" /\ busy = 0
    /\ pc' = "receive"
    /\ waited' = 0
    /\ UNCHANGED <<childVars, incoming, spawned, dead, reporting, now, busy, buried>>

(* SendPulse and SendScheduled take no time.                                *)
BeginReceive ==
    /\ pc = "lost" /\ busy = 0 /\ dead = {}
    /\ pc' = "receive"
    /\ waited' = 0
    /\ UNCHANGED <<childVars, incoming, spawned, dead, reporting, now, busy, buried>>

ReceiveMessage ==
    /\ pc = "receive" /\ incoming # <<>>
    /\ HandleMessage(Head(incoming))
    /\ incoming' = Tail(incoming)
    /\ pc' = "check"
    /\ UNCHANGED <<childVars, dead, reporting, now, waited>>

ReceiveNothing ==
    /\ pc = "receive" /\ incoming = <<>> /\ waited = ReceiveTimeout
    /\ pc' = "check"
    /\ UNCHANGED <<childVars, incoming, spawned, dead, reporting, now, waited, busy, buried>>

-----------------------------------------------------------------------------
(* Time passes while the parent waits for a message or runs a callback,     *)
(* unless a child is due to pulse or a mailbox to deliver or give up.  An   *)
(* age above the limit is as good as any other.                             *)
Older(age) == IF age > HeartbeatTimeout THEN age ELSE age + 1

Tick ==
    /\ \/ busy > 0
       \/ pc = "receive" /\ incoming = <<>> /\ waited < ReceiveTimeout
    /\ \A c \in Child :
         /\ ~PulseIsLate(c)
         /\ \A m \in ToSet(wire[c]) : m.age < MaxDelay
    /\ last' = [c \in Child |-> IF life[c] = "running" THEN last[c] + 1 ELSE last[c]]
    /\ wire' = [c \in Child |-> [i \in DOMAIN wire[c] |-> [wire[c][i] EXCEPT !.age = @ + 1]]]
    /\ spawned' = [c \in Child |-> IF spawned[c] = Absent THEN Absent ELSE Older(spawned[c])]
    /\ now' = Older(now)
    /\ waited' = IF busy = 0 THEN waited + 1 ELSE waited
    /\ busy' = IF busy = 0 THEN 0 ELSE busy - 1
    /\ UNCHANGED <<life, lost, incoming, pc, dead, reporting, buried>>

Parent ==
    \/ CheckChildren \/ ReportExited \/ BeginReceive
    \/ \E c \in Child : ReportErrored(c)
    \/ ReceiveMessage \/ ReceiveNothing

Next ==
    \/ \E c \in Child :
         \/ ChildStarts(c) \/ ChildPulses(c) \/ ChildExits(c) \/ ChildCrashes(c)
         \/ Deliver(c) \/ GiveUp(c)
    \/ OthersSend
    \/ Parent
    \/ Tick

Spec == Init /\ [][Next]_vars

(* The parent's thread runs, and time goes on, whatever happens meanwhile.  *)
FairSpec == Spec /\ WF_vars(Parent) /\ []<><<Tick>>_vars

-----------------------------------------------------------------------------
(* When the times fit together, so that the silence of a child means that   *)
(* it has ended: the assumption of the proofs.  MCSupervision checks that   *)
(* the times of the code meet it.                                           *)
(*                                                                          *)
(* Reports is the time CheckChildren takes at most for all children but one,*)
(* Round that of an iteration which receives something.  Gap is the longest *)
(* time between two pulses, Crowd the largest number of messages in the     *)
(* mailbox.  Slack is the time until a message of the child has arrived     *)
(* after MaxLost were given up, Limit the time until it has been handled.   *)
Children == Cardinality(Child)
Reporting(n) == n * MaxBusy
Reports == Reporting(2 * (Children - 1))
Round == MaxBusy + Reports
Rounds(n) == n * Round
Gap == PulseInterval + ReceiveTimeout + MaxBusy + 1
Gaps(n) == n * Gap
Crowd == MaxOther + 4 * Children
Slack == Reports + ReceiveTimeout + Gaps(MaxLost + 1) + MaxDelay
Limit == Slack + MaxDelay + Rounds(Crowd - 2)

(* A pulse leaves its mailbox before the next is sent, the parent's mailbox *)
(* empties faster than the pulses of a child fill it, and the next of them  *)
(* is handled before the heartbeat is too old.                              *)
Timing ==
    /\ IsFiniteSet(Child)
    /\ MaxDelay <= PulseInterval
    /\ Rounds(Crowd) + MaxDelay < 2 * (PulseInterval + 1)
    /\ Limit <= HeartbeatTimeout

-----------------------------------------------------------------------------
(* Properties.                                                              *)

(* Types, and a child in `dead` is still in spawned_ until it is reported.  *)
TypeOK ==
    /\ life \in [Child -> {"unborn", "running", "ended"}]
    /\ last \in [Child -> Nat]
    /\ wire \in [Child -> Seq([type : LifecycleType, age : 0..MaxDelay])]
    /\ lost \in [Child -> 0..MaxLost]
    /\ incoming \in Seq([type : LifecycleType, from : Child] \cup {Other})
    /\ spawned \in [Child -> Nat \cup {Absent}]
    /\ pc \in {"check", "lost", "receive"}
    /\ dead \subseteq Child
    /\ reporting \in dead \cup {Nobody}
    /\ now \in Nat
    /\ waited \in 0..ReceiveTimeout
    /\ busy \in 0..MaxBusy
    /\ buried \in [Child -> Nat]
    /\ dead # {} => pc = "lost"
    /\ \A c \in dead : spawned[c] # Absent

(* "If a parent doesn't receive a heartbeat for 1 minute it will assume the *)
(* child has failed" (README.md): a child taken for dead has ended, however *)
(* the pulses were delayed and some of them lost, and whatever else the     *)
(* parent was busy with.                                                    *)
NoFalseDeath == \A c \in dead : life[c] = "ended"

(* The end of a child, which a message of its own and CheckChildren may     *)
(* both report, reaches the receivers once, so that one replacement is      *)
(* spawned for it.                                                          *)
BuriedOnce == \A c \in Child : buried[c] <= 1

(* A child whose end was handled is not supervised again.                   *)
BuriedForGood == \A c \in Child : buried[c] > 0 => spawned[c] = Absent

(* A supervised child that ended is noticed, even if its last words are     *)
(* lost.                                                                    *)
EventuallyNoticed ==
    \A c \in Child : life[c] = "ended" /\ spawned[c] # Absent ~> buried[c] > 0

(* The same of every child that was started.                                *)
EveryDeathNoticed ==
    \A c \in Child : life[c] = "ended" ~> buried[c] > 0
=============================================================================
