-------------------------- MODULE AsyncMailboxProofs --------------------------
(***************************************************************************)
(* Theorems about AsyncMailbox, for every set of nodes, every number of    *)
(* retries and any bounds.                                                 *)
(***************************************************************************)
EXTENDS AsyncMailbox, SequenceTheorems, TLAPS

-----------------------------------------------------------------------------
(* Nothing the mailboxes exchange is mistaken for an empty receiver.        *)
LEMMA NoneIsNoMessage == None \notin Message
  BY DEF None, Message

(* An acknowledgement is a message of its own.                              *)
LEMMA AckType ==
  ASSUME NEW n \in Node, NEW m \in Message, inc \in [Node -> Nat]
  PROVE  AckOf(n, m) \in Message
  BY DEF AckOf, Message

(* A destination is a node or the group, never both.                        *)
LEMMA GroupIsNoNode == Group \notin Node
  BY NodeAssumption

(* What a call of Send does with the message it makes, in one disjunct per  *)
(* kind of destination.                                                     *)
SendEffect(n, to, m) ==
    /\ m.from = n /\ m.to = to /\ m.inc = inc[n] /\ m.time = sends[n] + 1
    /\ m.text \in Text
    /\ sends' = [sends EXCEPT ![n] = @ + 1]
    /\ sent' = sent \cup {m}
    /\ UNCHANGED <<up, inc, inSeq, held, incoming, popped, net, groupNet>>
    /\ \/ /\ to = Group
          /\ multicasts' = [multicasts EXCEPT ![n] = @ \cup {m}]
          /\ UNCHANGED <<outgoing, outSeq>>
       \/ /\ to \in Node
          /\ m.seq = outSeq[n][to] + 1
          /\ StopAndWait => \A e \in outgoing[n] : e.msg.to # to
          /\ outSeq' = [outSeq EXCEPT ![n][to] = m.seq]
          /\ outgoing' = [outgoing EXCEPT ![n] =
                            @ \cup {[msg |-> m, attempts |-> 0]}]
          /\ UNCHANGED multicasts

(* A step of Send is an instance of SendEffect.                             *)
LEMMA SendStep ==
  ASSUME TypeOK, NEW n \in Node, NEW to \in Node \cup {Group}, NEW text \in Text,
         Send(n, to, text)
  PROVE  \E m \in Message : SendEffect(n, to, m)
<1> DEFINE m == [from |-> n, to |-> to, inc |-> inc[n], time |-> sends[n] + 1,
                 seq |-> NextSeq(n, to), text |-> text]
<1>1. ~IsMulticast(to) <=> to \in Node
  BY NodeAssumption
<1>2. NextSeq(n, to) \in Nat
  <2>1. to \in Node => outSeq[n][to] \in Nat \cup {-1}
    BY DEF TypeOK
  <2> QED
    BY <1>1, <2>1 DEF NextSeq
<1>3. m \in Message
  BY <1>2 DEF Message, TypeOK
<1>4. /\ m.from = n /\ m.to = to /\ m.inc = inc[n] /\ m.time = sends[n] + 1
      /\ m.seq = NextSeq(n, to) /\ m.text = text
  OBVIOUS
<1>5. /\ IF IsMulticast(to) THEN SendMulticast(n, m) ELSE SendUnicast(n, m)
      /\ sends' = [sends EXCEPT ![n] = @ + 1]
      /\ sent' = sent \cup {m}
      /\ UNCHANGED <<up, inc, inSeq, held, incoming, popped, net, groupNet>>
  BY DEF Send, inVars
<1> HIDE DEF m
<1>6. CASE IsMulticast(to)
  <2>1. SendMulticast(n, m) /\ to = Group
    BY <1>1, <1>5, <1>6
  <2> QED
    BY <1>3, <1>4, <1>5, <2>1 DEF SendMulticast, SendEffect
<1>7. CASE ~IsMulticast(to)
  <2>1. SendUnicast(n, m) /\ m.seq = outSeq[n][to] + 1
    BY <1>4, <1>5, <1>7 DEF NextSeq
  <2> QED
    BY <1>1, <1>3, <1>4, <1>5, <1>7, <2>1 DEF SendUnicast, SendEffect
<1> QED
  BY <1>6, <1>7

(* Every step preserves the types.                                          *)
LEMMA TypeStep == TypeOK /\ [Next]_vars => TypeOK'
<1> SUFFICES ASSUME TypeOK, [Next]_vars PROVE TypeOK'
  OBVIOUS
<1> USE DEF TypeOK
<1>1. ASSUME NEW n \in Node, NEW to \in Node \cup {Group},
             NEW text \in Text, Send(n, to, text)
      PROVE  TypeOK'
  <2>1. PICK m \in Message : SendEffect(n, to, m)
    BY <1>1, SendStep
  <2>2. [msg |-> m, attempts |-> 0] \in QueuedMessage
    BY BoundAssumption DEF QueuedMessage
  <2>3. /\ sends' \in [Node -> Nat] /\ sent' \subseteq Message
        /\ UNCHANGED <<up, inc, inSeq, held, incoming, popped, net, groupNet>>
    BY <2>1 DEF SendEffect
  <2>4. CASE to = Group
    <3>1. /\ multicasts' = [multicasts EXCEPT ![n] = @ \cup {m}]
          /\ UNCHANGED <<outgoing, outSeq>>
      BY <2>1, <2>4, GroupIsNoNode DEF SendEffect
    <3> QED
      BY <2>3, <3>1
  <2>5. CASE to \in Node
    <3>1. /\ m.seq \in Nat
          /\ outSeq' = [outSeq EXCEPT ![n][to] = m.seq]
          /\ outgoing' = [outgoing EXCEPT ![n] =
                            @ \cup {[msg |-> m, attempts |-> 0]}]
          /\ UNCHANGED multicasts
      BY <2>1, <2>5, GroupIsNoNode DEF SendEffect, Message
    <3>2. outgoing' \in [Node -> SUBSET QueuedMessage]
      BY <2>2, <3>1
    <3>3. outSeq' \in [Node -> [Node -> Nat \cup {-1}]]
      BY <2>5, <3>1
    <3> QED
      BY <2>3, <3>1, <3>2, <3>3
  <2> QED
    BY <2>4, <2>5
<1>2. ASSUME NEW n \in Node, Receive(n)
      PROVE  TypeOK'
  BY <1>2 DEF Receive, queueVars, seqVars
<1>3. ASSUME NEW n \in Node, Close(n)
      PROVE  TypeOK'
  BY <1>3 DEF Close, queueVars, seqVars, inVars
<1>4. ASSUME NEW n \in Node, NEW due \in SUBSET outgoing[n],
             BackgroundSend(n, due)
      PROVE  TypeOK'
  <2>1. ASSUME NEW e \in outgoing[n], ~Exhausted(e)
        PROVE  (IF e \in due THEN [e EXCEPT !.attempts = @ + 1] ELSE e)
                  \in QueuedMessage
    <3>1. e \in QueuedMessage
      OBVIOUS
    <3>2. e.msg \in Message /\ e.attempts \in 0..kMaxRetries
          /\ e.attempts + 1 \in 0..kMaxRetries
      BY <3>1, <2>1, BoundAssumption DEF Exhausted, QueuedMessage
    <3>3. [e EXCEPT !.attempts = @ + 1]
            = [msg |-> e.msg, attempts |-> e.attempts + 1]
      BY <3>1 DEF QueuedMessage
    <3> QED
      BY <3>1, <3>2, <3>3 DEF QueuedMessage
  <2>2. outgoing' \in [Node -> SUBSET QueuedMessage]
    BY <1>4, <2>1 DEF BackgroundSend
  <2>3. net' \subseteq Message
    BY <1>4 DEF BackgroundSend, QueuedMessage
  <2> QED
    BY <1>4, <2>2, <2>3 DEF BackgroundSend, seqVars, inVars
<1>5. ASSUME NEW n \in Node, BackgroundSendMulticast(n)
      PROVE  TypeOK'
  BY <1>5 DEF BackgroundSendMulticast, seqVars, inVars
<1>6. ASSUME NEW n \in Node, NEW m \in net, ReceiveData(n, m)
      PROVE  TypeOK'
  BY <1>6, AckType DEF ReceiveData, queueVars, seqVars
<1>7. ASSUME NEW n \in Node, FilterData(n)
      PROVE  TypeOK'
  <2>1. held[n] \in Message
    BY <1>7 DEF FilterData
  <2>2. held[n].from \in Node /\ held[n].seq \in Nat
    BY <2>1 DEF Message
  <2>3. Append(incoming[n], held[n]) \in Seq(Message)
        /\ Len(Append(incoming[n], held[n])) = Len(incoming[n]) + 1
    BY <2>1, AppendProperties
  <2>4. held' \in [Node -> Message \cup {None}]
    BY <1>7 DEF FilterData
  <2>5. CASE Duplicate(n, held[n])
    BY <1>7, <2>4, <2>5 DEF FilterData, queueVars
  <2>6. CASE ~Duplicate(n, held[n])
    <3>1. inSeq' \in [Node -> [Node -> Nat \cup {-1}]]
      <4>1. [inSeq[n] EXCEPT ![held[n].from] = held[n].seq]
              \in [Node -> Nat \cup {-1}]
        BY <2>2
      <4>2. inSeq' = [inSeq EXCEPT ![n] =
                        [inSeq[n] EXCEPT ![held[n].from] = held[n].seq]]
        BY <1>7, <2>6 DEF FilterData
      <4> QED
        BY <4>1, <4>2
    <3>2. incoming' = [incoming EXCEPT ![n] = Append(incoming[n], held[n])]
      BY <1>7, <2>6 DEF FilterData
    <3>3. \A k \in Node : popped[k] <= Len(incoming'[k])
      BY <3>2, <2>3, LenProperties
    <3> QED
      BY <1>7, <2>3, <2>4, <3>1, <3>2, <3>3 DEF FilterData, queueVars
  <2> QED
    BY <2>5, <2>6
<1>8. ASSUME NEW n \in Node, NEW a \in net, ReceiveAck(n, a)
      PROVE  TypeOK'
  BY <1>8 DEF ReceiveAck, Acknowledged, seqVars, inVars
<1>9. ASSUME NEW n \in Node, NEW g \in groupNet,
             BackgroundReceiveMulticast(n, g)
      PROVE  TypeOK'
  <2>1. g.msg \in Message
    OBVIOUS
  <2>2. Append(incoming[n], g.msg) \in Seq(Message)
        /\ Len(Append(incoming[n], g.msg)) = Len(incoming[n]) + 1
    BY <2>1, AppendProperties
  <2>3. incoming' = [incoming EXCEPT ![n] = Append(incoming[n], g.msg)]
    BY <1>9 DEF BackgroundReceiveMulticast
  <2>4. \A k \in Node : popped[k] <= Len(incoming'[k])
    BY <2>2, <2>3, LenProperties
  <2> QED
    BY <1>9, <2>2, <2>3, <2>4
    DEF BackgroundReceiveMulticast, queueVars, seqVars
<1>10. ASSUME NEW n \in Node, Restart(n)
       PROVE  TypeOK'
  BY <1>10 DEF Restart
<1>11. CASE UNCHANGED vars
  BY <1>11 DEF vars
<1> QED
  <2>1. ASSUME NEW r \in Route
        PROVE  r[1] \in Node /\ r[2] \in Node \cup {Group}
    BY NodeAssumption
  <2> QED
    BY <1>1, <1>2, <1>3, <1>4, <1>5, <1>6, <1>7, <1>8, <1>9, <1>10, <1>11,
       <2>1
    DEF Next

(* Type correctness: see TypeOK.                                            *)
THEOREM TypeCorrect == Spec => []TypeOK
<1>1. Init => TypeOK
  BY DEF Init, TypeOK
<1> QED
  BY <1>1, TypeStep, PTL DEF Spec

-----------------------------------------------------------------------------
(* The inductive invariant behind ordered delivery.                         *)

(* Nothing is made up: what is queued, on the wire or held was sent, and    *)
(* unicast and multicast traffic do not mix.                                *)
Provenance ==
    /\ \A n \in Node : \A e \in outgoing[n] : e.msg \in sent /\ e.msg.to \in Node
    /\ \A n \in Node : \A m \in multicasts[n] : m \in sent /\ m.to = Group
    /\ \A m \in net : m.text # Ack => m \in sent
    /\ \A n \in Node : held[n] # None => held[n] \in sent /\ held[n].to = n
    /\ \A g \in groupNet : g.msg \in sent /\ g.msg.to = Group

(* The counters of a process are ahead of every message it has sent.        *)
Numbering ==
    \A m \in sent :
        /\ m.time <= sends[m.from]
        /\ m.inc <= inc[m.from]
        /\ m.inc = inc[m.from] /\ m.to \in Node => m.seq <= outSeq[m.from][m.to]

(* incoming_seq_nums_ is ahead of every unicast message in the queue.       *)
FilterBound ==
    \A n \in Node : \A i \in 1..Len(incoming[n]) :
        incoming[n][i].to = n => incoming[n][i].seq <= inSeq[n][incoming[n][i].from]

DeliveryInv == TypeOK /\ Provenance /\ Numbering /\ FilterBound /\ AtMostOnceInOrder

(* Provenance survives every step.                                          *)
LEMMA ProvenanceStep == TypeOK /\ Provenance /\ [Next]_vars => Provenance'
<1> SUFFICES ASSUME TypeOK, Provenance, [Next]_vars PROVE Provenance'
  OBVIOUS
<1> USE DEF Provenance
<1>1. ASSUME NEW n \in Node, NEW to \in Node \cup {Group},
             NEW text \in Text, Send(n, to, text)
      PROVE  Provenance'
  <2>1. PICK m \in Message : SendEffect(n, to, m)
    BY <1>1, SendStep
  <2>2. /\ sent' = sent \cup {m} /\ m.to = to
        /\ UNCHANGED <<held, net, groupNet>>
    BY <2>1 DEF SendEffect
  <2>3. CASE to = Group
    <3>1. /\ multicasts' = [multicasts EXCEPT ![n] = @ \cup {m}]
          /\ UNCHANGED outgoing
      BY <2>1, <2>3, GroupIsNoNode DEF SendEffect
    <3> QED
      BY <2>2, <2>3, <3>1 DEF TypeOK
  <2>4. CASE to \in Node
    <3>1. /\ outgoing' = [outgoing EXCEPT ![n] =
                            @ \cup {[msg |-> m, attempts |-> 0]}]
          /\ UNCHANGED multicasts
      BY <2>1, <2>4, GroupIsNoNode DEF SendEffect
    <3> QED
      BY <2>2, <2>4, <3>1 DEF TypeOK
  <2> QED
    BY <2>3, <2>4
<1>2. ASSUME NEW n \in Node, Receive(n)
      PROVE  Provenance'
  BY <1>2 DEF Receive, queueVars
<1>3. ASSUME NEW n \in Node, Close(n)
      PROVE  Provenance'
  BY <1>3 DEF Close, queueVars, inVars
<1>4. ASSUME NEW n \in Node, NEW due \in SUBSET outgoing[n],
             BackgroundSend(n, due)
      PROVE  Provenance'
  <2>1. \A e \in outgoing'[n] : \E f \in outgoing[n] : e.msg = f.msg
    BY <1>4 DEF BackgroundSend, TypeOK, QueuedMessage
  <2>2. \A k \in Node \ {n} : outgoing'[k] = outgoing[k]
    BY <1>4 DEF BackgroundSend, TypeOK
  <2>3. \A m \in net' : m.text # Ack => m \in sent
    BY <1>4 DEF BackgroundSend
  <2>4. UNCHANGED <<multicasts, sent, held, groupNet>>
    BY <1>4 DEF BackgroundSend, inVars
  <2> QED
    BY <2>1, <2>2, <2>3, <2>4
<1>5. ASSUME NEW n \in Node, BackgroundSendMulticast(n)
      PROVE  Provenance'
  BY <1>5 DEF BackgroundSendMulticast, inVars, TypeOK
<1>6. ASSUME NEW n \in Node, NEW m \in net, ReceiveData(n, m)
      PROVE  Provenance'
  BY <1>6 DEF ReceiveData, AckOf, queueVars, TypeOK
<1>7. ASSUME NEW n \in Node, FilterData(n)
      PROVE  Provenance'
  BY <1>7 DEF FilterData, queueVars, TypeOK
<1>8. ASSUME NEW n \in Node, NEW a \in net, ReceiveAck(n, a)
      PROVE  Provenance'
  BY <1>8 DEF ReceiveAck, inVars, TypeOK
<1>9. ASSUME NEW n \in Node, NEW g \in groupNet,
             BackgroundReceiveMulticast(n, g)
      PROVE  Provenance'
  BY <1>9 DEF BackgroundReceiveMulticast, queueVars
<1>10. ASSUME NEW n \in Node, Restart(n)
       PROVE  Provenance'
  BY <1>10 DEF Restart, TypeOK
<1>11. CASE UNCHANGED vars
  BY <1>11 DEF vars
<1> QED
  <2>1. ASSUME NEW r \in Route
        PROVE  r[1] \in Node /\ r[2] \in Node \cup {Group}
    BY NodeAssumption
  <2> QED
    BY <1>1, <1>2, <1>3, <1>4, <1>5, <1>6, <1>7, <1>8, <1>9, <1>10, <1>11, <2>1
    DEF Next

(* Numbering survives every step: only Send and Restart touch its counters. *)
LEMMA NumberingStep == TypeOK /\ Numbering /\ [Next]_vars => Numbering'
<1> SUFFICES ASSUME TypeOK, Numbering, [Next]_vars PROVE Numbering'
  OBVIOUS
<1> USE DEF Numbering
<1>1. ASSUME NEW n \in Node, NEW to \in Node \cup {Group},
             NEW text \in Text, Send(n, to, text)
      PROVE  Numbering'
  <2>1. PICK m \in Message : SendEffect(n, to, m)
    BY <1>1, SendStep
  <2>2. /\ sent' = sent \cup {m} /\ UNCHANGED inc
        /\ m.from = n /\ m.to = to /\ m.inc = inc[n] /\ m.time = sends[n] + 1
        /\ sends' = [sends EXCEPT ![n] = @ + 1]
    BY <2>1 DEF SendEffect
  <2>3. \A k \in Node : sends[k] \in Nat /\ sends[k] <= sends'[k]
    BY <2>2 DEF TypeOK
  <2>4. \A k, d \in Node : outSeq[k][d] \in Int /\ outSeq'[k][d] \in Int
                          /\ outSeq[k][d] <= outSeq'[k][d]
    <3>1. CASE to = Group
      BY <2>1, <3>1, GroupIsNoNode DEF SendEffect, TypeOK
    <3>2. CASE to \in Node
      <4>1. /\ m.seq = outSeq[n][to] + 1 /\ m.seq \in Nat
            /\ outSeq' = [outSeq EXCEPT ![n][to] = m.seq]
        BY <2>1, <3>2, GroupIsNoNode DEF SendEffect, Message
      <4>2. /\ \A k \in Node \ {n} : outSeq'[k] = outSeq[k]
            /\ \A d \in Node \ {to} : outSeq'[n][d] = outSeq[n][d]
            /\ outSeq'[n][to] = m.seq
        BY <3>2, <4>1 DEF TypeOK
      <4>3. \A k, d \in Node : outSeq[k][d] \in Nat \cup {-1}
        BY DEF TypeOK
      <4> QED
        BY <3>2, <4>1, <4>2, <4>3
    <3> QED
      BY <3>1, <3>2
  <2>5. to \in Node => m.seq <= outSeq'[n][to]
    <3>1. to \in Node => /\ m.seq \in Nat
                         /\ outSeq' = [outSeq EXCEPT ![n][to] = m.seq]
      BY <2>1, GroupIsNoNode DEF SendEffect, Message
    <3> QED
      BY <3>1 DEF TypeOK
  <2>6. \A p \in sent : p \in Message
    BY DEF TypeOK
  <2>7. ASSUME NEW p \in sent
        PROVE  /\ p.time <= sends'[p.from]
               /\ p.inc <= inc'[p.from]
               /\ p.inc = inc'[p.from] /\ p.to \in Node
                    => p.seq <= outSeq'[p.from][p.to]
    BY <2>2, <2>3, <2>4, <2>6 DEF Message
  <2>8. m.time <= sends'[n] /\ m.inc <= inc'[n]
    BY <2>2, <2>3 DEF TypeOK
  <2> QED
    BY <2>2, <2>5, <2>7, <2>8
<1>2. ASSUME NEW n \in Node, Restart(n)
      PROVE  Numbering'
  <2>1. /\ UNCHANGED <<sends, sent>>
        /\ inc' = [inc EXCEPT ![n] = @ + 1]
        /\ \A k \in Node \ {n} : outSeq'[k] = outSeq[k]
    BY <1>2 DEF Restart, TypeOK
  <2>2. ASSUME NEW p \in sent
        PROVE  /\ p.time <= sends'[p.from]
               /\ p.inc <= inc'[p.from]
               /\ p.inc = inc'[p.from] /\ p.to \in Node
                    => p.seq <= outSeq'[p.from][p.to]
    <3>1. p \in Message
      BY DEF TypeOK
    <3>2. p.from \in Node /\ p.inc \in Nat /\ inc[p.from] \in Nat
      BY <3>1 DEF TypeOK, Message
    <3> QED
      BY SMTT(30), <2>1, <3>2 DEF TypeOK
  <2> QED
    BY <2>1, <2>2
<1>3. ASSUME UNCHANGED <<inc, sends, outSeq, sent>>
      PROVE  Numbering'
  BY <1>3
<1>4. ASSUME NEW n \in Node,
             \/ Receive(n) \/ Close(n) \/ BackgroundSendMulticast(n)
             \/ \E due \in SUBSET outgoing[n] : BackgroundSend(n, due)
             \/ \E m \in net : ReceiveData(n, m)
             \/ FilterData(n)
             \/ \E a \in net : ReceiveAck(n, a)
             \/ \E g \in groupNet : BackgroundReceiveMulticast(n, g)
      PROVE  UNCHANGED <<inc, sends, outSeq, sent>>
  BY <1>4
  DEF Receive, Close, BackgroundSendMulticast, BackgroundSend, ReceiveData,
      FilterData, ReceiveAck, BackgroundReceiveMulticast, seqVars
<1>5. CASE UNCHANGED vars
  BY <1>5 DEF vars
<1> QED
  <2>1. ASSUME NEW r \in Route
        PROVE  r[1] \in Node /\ r[2] \in Node \cup {Group}
    BY NodeAssumption
  <2> QED
    BY <1>1, <1>2, <1>3, <1>4, <1>5, <2>1 DEF Next

(* The duplicate filter keeps the queue ordered: a message is queued only   *)
(* above everything its sender has in the queue.                            *)
LEMMA FilterStep ==
  TypeOK /\ Provenance /\ FilterBound /\ AtMostOnceInOrder /\ [Next]_vars
    => FilterBound' /\ AtMostOnceInOrder'
<1> SUFFICES ASSUME TypeOK, Provenance, FilterBound, AtMostOnceInOrder,
                    [Next]_vars
             PROVE  FilterBound' /\ AtMostOnceInOrder'
  OBVIOUS
<1>1. ASSUME UNCHANGED <<inSeq, incoming>>
      PROVE  FilterBound' /\ AtMostOnceInOrder'
  BY <1>1 DEF FilterBound, AtMostOnceInOrder
<1>2. ASSUME NEW n \in Node, FilterData(n)
      PROVE  FilterBound' /\ AtMostOnceInOrder'
  <2> DEFINE m == held[n]
  <2>1. m \in Message /\ m.to = n /\ m.from \in Node /\ m.seq \in Nat
    BY <1>2 DEF FilterData, TypeOK, Provenance, Message
  <2>2. CASE Duplicate(n, m)
    BY <1>1, <1>2, <2>2 DEF FilterData
  <2>3. CASE ~Duplicate(n, m)
    <3>1. /\ inSeq' = [inSeq EXCEPT ![n][m.from] = m.seq]
          /\ incoming' = [incoming EXCEPT ![n] = Append(@, m)]
      BY <1>2, <2>3 DEF FilterData
    <3>2. \A k \in Node \ {n} : inSeq'[k] = inSeq[k] /\ incoming'[k] = incoming[k]
      BY <3>1 DEF TypeOK
    <3>3. incoming[n] \in Seq(Message) /\ incoming'[n] = Append(incoming[n], m)
      BY <3>1 DEF TypeOK
    <3>4. /\ Len(incoming'[n]) = Len(incoming[n]) + 1
          /\ \A i \in 1..Len(incoming[n]) : incoming'[n][i] = incoming[n][i]
          /\ incoming'[n][Len(incoming[n]) + 1] = m
          /\ Len(incoming[n]) \in Nat
      BY <2>1, <3>3, AppendProperties, LenProperties
    <3>5. /\ inSeq'[n][m.from] = m.seq
          /\ inSeq[n][m.from] < m.seq
          /\ \A s \in Node : /\ inSeq[n][s] \in Int /\ inSeq'[n][s] \in Int
                            /\ inSeq[n][s] <= inSeq'[n][s]
      BY SMTT(30), <2>1, <2>3, <3>1 DEF Duplicate, TypeOK
    <3>6. \A i \in 1..Len(incoming[n]) :
             incoming[n][i].from \in Node /\ incoming[n][i].seq \in Nat
      <4>1. \A i \in 1..Len(incoming[n]) : incoming[n][i] \in Message
        BY <3>3, ElementOfSeq
      <4> QED
        BY <4>1 DEF Message
    <3>7. \A i \in 1..Len(incoming[n]) :
             incoming[n][i].to = n =>
               incoming[n][i].seq <= inSeq[n][incoming[n][i].from]
      BY DEF FilterBound
    <3>8. FilterBound'
      <4> SUFFICES ASSUME NEW k \in Node, NEW i \in 1..Len(incoming'[k]),
                          incoming'[k][i].to = k
                   PROVE  incoming'[k][i].seq <= inSeq'[k][incoming'[k][i].from]
        BY DEF FilterBound
      <4>1. CASE k # n
        BY <3>2, <4>1 DEF FilterBound
      <4>2. CASE k = n /\ i \in 1..Len(incoming[n])
        <5> DEFINE s == incoming[n][i].from
        <5>1. s \in Node /\ incoming[n][i].seq \in Nat
          BY <3>6, <4>2
        <5>2. incoming[n][i].seq <= inSeq[n][s]
          BY <3>4, <3>7, <4>2
        <5>3. inSeq[n][s] <= inSeq'[n][s] /\ inSeq[n][s] \in Int /\ inSeq'[n][s] \in Int
          BY <3>5, <5>1
        <5> QED
          BY <3>4, <4>2, <5>1, <5>2, <5>3
      <4>3. CASE k = n /\ i = Len(incoming[n]) + 1
        BY <2>1, <3>4, <3>5, <4>3
      <4> QED
        BY <3>4, <4>1, <4>2, <4>3
    <3>9. AtMostOnceInOrder'
      <4> SUFFICES ASSUME NEW k \in Node,
                          NEW i \in 1..Len(incoming'[k]),
                          NEW j \in 1..Len(incoming'[k]),
                          i < j,
                          incoming'[k][i].to = k, incoming'[k][j].to = k,
                          incoming'[k][i].from = incoming'[k][j].from
                   PROVE  incoming'[k][i].seq < incoming'[k][j].seq
        BY DEF AtMostOnceInOrder
      <4>1. CASE k # n
        BY <3>2, <4>1 DEF AtMostOnceInOrder
      <4>2. CASE k = n /\ j \in 1..Len(incoming[n])
        <5>1. i \in 1..Len(incoming[n])
          BY <3>4, <4>2
        <5> QED
          BY <3>4, <4>2, <5>1 DEF AtMostOnceInOrder
      <4>3. CASE k = n /\ j = Len(incoming[n]) + 1
        <5>1. i \in 1..Len(incoming[n])
          BY <3>4, <4>3
        <5> QED
          <6>1. incoming'[n][j] = m /\ incoming'[n][i] = incoming[n][i]
            BY <3>4, <4>3, <5>1
          <6>2. incoming[n][i].to = n /\ incoming[n][i].from = m.from
            BY <4>3, <6>1
          <6>3. incoming[n][i].seq <= inSeq[n][m.from]
            BY <3>7, <5>1, <6>2
          <6> QED
            BY <2>1, <3>5, <3>6, <4>3, <5>1, <6>1, <6>3
      <4> QED
        BY <3>4, <4>1, <4>2, <4>3
    <3> QED
      BY <3>8, <3>9
  <2> QED
    BY <2>2, <2>3
<1>3. ASSUME NEW n \in Node, NEW g \in groupNet,
             BackgroundReceiveMulticast(n, g)
      PROVE  FilterBound' /\ AtMostOnceInOrder'
  <2>1. g.msg \in Message /\ g.msg.to # n
    BY GroupIsNoNode DEF TypeOK, Provenance
  <2>2. /\ incoming[n] \in Seq(Message)
        /\ incoming'[n] = Append(incoming[n], g.msg)
        /\ \A k \in Node \ {n} : incoming'[k] = incoming[k]
        /\ UNCHANGED inSeq
    BY <1>3 DEF BackgroundReceiveMulticast, TypeOK, seqVars
  <2>3. /\ Len(incoming'[n]) = Len(incoming[n]) + 1
        /\ \A i \in 1..Len(incoming[n]) : incoming'[n][i] = incoming[n][i]
        /\ incoming'[n][Len(incoming[n]) + 1] = g.msg
        /\ Len(incoming[n]) \in Nat
    BY <2>1, <2>2, AppendProperties, LenProperties
  <2>4. \A i \in 1..Len(incoming'[n]) : incoming'[n][i].to = n =>
           i \in 1..Len(incoming[n])
    BY <2>1, <2>3
  <2>5. FilterBound'
    BY <2>2, <2>3, <2>4 DEF FilterBound
  <2>6. AtMostOnceInOrder'
    <3> SUFFICES ASSUME NEW k \in Node,
                        NEW i \in 1..Len(incoming'[k]),
                        NEW j \in 1..Len(incoming'[k]),
                        i < j,
                        incoming'[k][i].to = k, incoming'[k][j].to = k,
                        incoming'[k][i].from = incoming'[k][j].from
                 PROVE  incoming'[k][i].seq < incoming'[k][j].seq
      BY DEF AtMostOnceInOrder
    <3>1. CASE k # n
      BY <2>2, <3>1 DEF AtMostOnceInOrder
    <3>2. CASE k = n
      <4>1. i \in 1..Len(incoming[n]) /\ j \in 1..Len(incoming[n])
        BY <2>4, <3>2
      <4> QED
        BY <2>3, <3>2, <4>1 DEF AtMostOnceInOrder
    <3> QED
      BY <3>1, <3>2
  <2> QED
    BY <2>5, <2>6
<1>4. ASSUME NEW n \in Node, Restart(n)
      PROVE  FilterBound' /\ AtMostOnceInOrder'
  <2>1. /\ incoming'[n] = <<>>
        /\ \A k \in Node \ {n} : inSeq'[k] = inSeq[k] /\ incoming'[k] = incoming[k]
    BY <1>4 DEF Restart, TypeOK
  <2>2. 1..Len(incoming'[n]) = {}
    BY <2>1
  <2> QED
    BY <2>1, <2>2 DEF FilterBound, AtMostOnceInOrder
<1>5. ASSUME NEW n \in Node,
             \/ Receive(n) \/ Close(n) \/ BackgroundSendMulticast(n)
             \/ \E due \in SUBSET outgoing[n] : BackgroundSend(n, due)
             \/ \E m \in net : ReceiveData(n, m)
             \/ \E a \in net : ReceiveAck(n, a)
      PROVE  UNCHANGED <<inSeq, incoming>>
  BY <1>5
  DEF Receive, Close, BackgroundSendMulticast, BackgroundSend, ReceiveData,
      ReceiveAck, seqVars, inVars
<1>6. ASSUME NEW r \in Route, NEW text \in Text, Send(r[1], r[2], text)
      PROVE  UNCHANGED <<inSeq, incoming>>
  BY <1>6 DEF Send, inVars
<1>7. CASE UNCHANGED vars
  BY <1>1, <1>7 DEF vars
<1> QED
  BY <1>1, <1>2, <1>3, <1>4, <1>5, <1>6, <1>7 DEF Next

-----------------------------------------------------------------------------
(* The three parts of the invariant hold together, from the start.          *)
LEMMA DeliveryInvariant == Spec => []DeliveryInv
<1>1. Init => DeliveryInv
  BY DEF Init, DeliveryInv, TypeOK, Provenance, Numbering, FilterBound,
         AtMostOnceInOrder
<1>2. DeliveryInv /\ [Next]_vars => DeliveryInv'
  BY TypeStep, ProvenanceStep, NumberingStep, FilterStep DEF DeliveryInv
<1> QED
  BY <1>1, <1>2, PTL DEF Spec

(* The messages of one sender are popped in order and none twice, whatever  *)
(* the network loses, repeats or reorders and whoever is restarted.         *)
THEOREM OrderedDeliveryHolds == Spec => []AtMostOnceInOrder
<1>1. DeliveryInv => AtMostOnceInOrder
  BY DEF DeliveryInv
<1> QED
  BY <1>1, DeliveryInvariant, PTL

-----------------------------------------------------------------------------
(* Every step of the mailboxes is a step of OrderedDelivery or leaves what  *)
(* it is about unchanged.                                                   *)
LEMMA PromiseStep == DeliveryInv /\ [Next]_vars => [Promise!Next]_(Promise!vars)
<1> SUFFICES ASSUME DeliveryInv, [Next]_vars
             PROVE  [Promise!Next]_(Promise!vars)
  OBVIOUS
<1>0. TypeOK /\ Provenance /\ Numbering /\ FilterBound
  BY DEF DeliveryInv
<1>1. ASSUME NEW n \in Node, NEW to \in Node \cup {Group},
             NEW text \in Text, Send(n, to, text)
      PROVE  Promise!Next
  <2>1. PICK m \in Message : SendEffect(n, to, m)
    BY <1>0, <1>1, SendStep
  <2>2. /\ sent' = sent \cup {m} /\ UNCHANGED <<inc, incoming>>
        /\ m.from = n /\ m.to = to /\ m.inc = inc[n] /\ m.time = sends[n] + 1
    BY <2>1 DEF SendEffect
  <2>3. m \notin sent
    BY <1>0, <2>2 DEF Numbering, TypeOK, Message
  <2>4. ASSUME to \in Node, NEW p \in sent,
               p.from = n, p.to = to, p.inc = inc[n]
        PROVE  p.seq < m.seq
    <3>1. m.seq = outSeq[n][to] + 1
      BY <2>1, <2>4, GroupIsNoNode DEF SendEffect
    <3>2. p.seq <= outSeq[n][to]
      BY <1>0, <2>4 DEF Numbering
    <3>3. p.seq \in Nat /\ outSeq[n][to] \in Nat \cup {-1}
      <4>1. p \in Message
        BY <1>0 DEF TypeOK
      <4>2. outSeq \in [Node -> [Node -> Nat \cup {-1}]]
        BY <1>0 DEF TypeOK
      <4> QED
        BY <2>4, <4>1, <4>2 DEF Message
    <3> QED
      BY <3>1, <3>2, <3>3
  <2>5. Promise!Send(m)
    BY <2>2, <2>3, <2>4 DEF Promise!Send
  <2> QED
    BY <2>2, <2>5 DEF Promise!Next
<1>2. ASSUME NEW n \in Node, FilterData(n)
      PROVE  Promise!Next \/ UNCHANGED <<inc, sent, incoming>>
  <2>1. held[n] \in sent /\ held[n].to = n /\ held[n] \in Message
    BY <1>0, <1>2 DEF FilterData, Provenance, TypeOK
  <2>2. CASE Duplicate(n, held[n])
    BY <1>2, <2>2 DEF FilterData
  <2>3. CASE ~Duplicate(n, held[n])
    <3>1. /\ incoming' = [incoming EXCEPT ![n] = Append(@, held[n])]
          /\ UNCHANGED <<inc, sent>>
      BY <1>2, <2>3 DEF FilterData
    <3>2. ASSUME NEW i \in 1..Len(incoming[n]),
                 incoming[n][i].to = n, incoming[n][i].from = held[n].from
          PROVE  incoming[n][i].seq < held[n].seq
      <4>1. incoming[n][i].seq <= inSeq[n][held[n].from]
        BY <1>0, <3>2 DEF FilterBound
      <4>2. inSeq[n][held[n].from] \in Int /\ held[n].seq \in Nat
        BY <1>0, <2>1 DEF TypeOK, Message
      <4>3. incoming[n][i] \in Message
        BY <1>0, ElementOfSeq DEF TypeOK
      <4>4. incoming[n][i].seq \in Nat
        BY <4>3 DEF Message
      <4> QED
        BY <2>3, <4>1, <4>2, <4>4 DEF Duplicate
    <3>3. Promise!Deliver(n, held[n])
      BY <2>1, <3>1, <3>2 DEF Promise!Deliver, Promise!InOrder
    <3> QED
      BY <2>1, <3>3 DEF Promise!Next
  <2> QED
    BY <2>2, <2>3
<1>3. ASSUME NEW n \in Node, NEW g \in groupNet,
             BackgroundReceiveMulticast(n, g)
      PROVE  Promise!Next
  <2>1. g.msg \in sent /\ g.msg.to \notin Node /\ n \in Member
    BY <1>0, <1>3, GroupIsNoNode
    DEF BackgroundReceiveMulticast, Provenance, TypeOK
  <2>2. Promise!DeliverMulticast(n, g.msg)
    BY <1>3, <2>1 DEF BackgroundReceiveMulticast, Promise!DeliverMulticast
  <2> QED
    BY <2>1, <2>2 DEF Promise!Next
<1>4. ASSUME NEW n \in Node, Restart(n)
      PROVE  Promise!Next
  BY <1>4 DEF Restart, Promise!Restart, Promise!Next
<1>5. ASSUME NEW n \in Node,
             \/ Receive(n) \/ Close(n) \/ BackgroundSendMulticast(n)
             \/ \E due \in SUBSET outgoing[n] : BackgroundSend(n, due)
             \/ \E m \in net : ReceiveData(n, m)
             \/ \E a \in net : ReceiveAck(n, a)
      PROVE  UNCHANGED <<inc, sent, incoming>>
  BY <1>5
  DEF Receive, Close, BackgroundSendMulticast, BackgroundSend, ReceiveData,
      ReceiveAck, inVars
<1>6. CASE UNCHANGED vars
  BY <1>6 DEF vars, Promise!vars
<1> QED
  <2>1. ASSUME NEW r \in Route
        PROVE  r[1] \in Node /\ r[2] \in Node \cup {Group}
    BY NodeAssumption
  <2> QED
    BY <1>1, <1>2, <1>3, <1>4, <1>5, <1>6, <2>1 DEF Next, Promise!vars

(* The mailboxes implement what OrderedDelivery promises.                   *)
THEOREM MailboxesImplementPromise == Spec => ImplementsOrderedDelivery
<1>1. Init => Promise!Init
  BY DEF Init, Promise!Init
<1> QED
  BY <1>1, PromiseStep, DeliveryInvariant, PTL
  DEF Spec, ImplementsOrderedDelivery, Promise!Spec
=============================================================================
