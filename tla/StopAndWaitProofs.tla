-------------------------- MODULE StopAndWaitProofs --------------------------
(***************************************************************************)
(* When a mailbox loses nothing: the setting under which a message leaves  *)
(* the sender only after kMaxRetries transmissions or when its destination *)
(* has it, and the proof that it does.  The runs MailboxReorder,           *)
(* MailboxRestart and MailboxNeighbours show what happens outside of it.   *)
(***************************************************************************)
EXTENDS AsyncMailboxProofs

(* One message in flight per destination, no restarts, addresses operator== *)
(* tells apart, and no application message that reads "ack".                *)
StopAndWaitSetting ==
    /\ StopAndWait
    /\ Restartable = {}
    /\ Distinguishable(Node)
    /\ Ack \notin Text

-----------------------------------------------------------------------------
(* The inductive invariant.                                                 *)

(* One process per address, and only the applications' texts.               *)
FirstLife ==
    /\ \A n \in Node : inc[n] = 0
    /\ \A m \in sent : m.text # Ack

(* A number is used once per sender and destination.                        *)
UniqueNumbers ==
    \A m, p \in sent :
        m.from = p.from /\ m.to = p.to /\ m.to \in Node /\ m.seq = p.seq => m = p

(* What is waiting for an acknowledgement is the last message sent there.   *)
LastInFlight ==
    \A n \in Node : \A e \in outgoing[n] :
        e.msg.from = n /\ e.msg.seq = outSeq[n][e.msg.to]

(* The filter's number is that of a message in the queue.                   *)
FilterExact ==
    \A n, p \in Node : inSeq[n][p] # -1 =>
        \E m \in Queued(n) : /\ m \in sent /\ m.from = p /\ m.to = n
                             /\ m.seq = inSeq[n][p]

(* An acknowledgement is never for a number not yet used, and when it is    *)
(* for the last one used, the message it is for has arrived.                *)
HonestAcks ==
    \A a \in net : a.text = Ack =>
        /\ a.to \in Node
        /\ a.seq <= outSeq[a.to][a.from]
        /\ \A m \in sent :
             m.from = a.to /\ m.to = a.from /\ m.seq = a.seq
               /\ m.seq = outSeq[m.from][m.to] => Arrived(m)

LossInv ==
    FirstLife /\ UniqueNumbers /\ LastInFlight /\ FilterExact /\ HonestAcks

-----------------------------------------------------------------------------
(* Pushing a message adds it to the queue's contents and disturbs nothing.  *)
LEMMA QueuedAppend ==
  ASSUME NEW n \in Node, NEW m \in Message, incoming \in [Node -> Seq(Message)],
         incoming' = [incoming EXCEPT ![n] = Append(@, m)]
  PROVE  /\ Queued(n)' = Queued(n) \cup {m}
         /\ \A k \in Node \ {n} : Queued(k)' = Queued(k)
<1>1. /\ incoming[n] \in Seq(Message)
      /\ incoming'[n] = Append(incoming[n], m)
      /\ \A k \in Node \ {n} : incoming'[k] = incoming[k]
  OBVIOUS
<1>2. /\ Len(incoming'[n]) = Len(incoming[n]) + 1
      /\ \A i \in 1..Len(incoming[n]) : incoming'[n][i] = incoming[n][i]
      /\ incoming'[n][Len(incoming[n]) + 1] = m
      /\ Len(incoming[n]) \in Nat
  BY <1>1, AppendProperties, LenProperties
<1> QED
  BY <1>1, <1>2 DEF Queued

(* The steps that touch neither the counters nor what was sent or queued.   *)
LEMMA QuietSteps ==
  ASSUME NEW n \in Node,
         \/ Receive(n) \/ Close(n) \/ BackgroundSendMulticast(n)
  PROVE  UNCHANGED <<inc, outgoing, outSeq, inSeq, held, incoming, net, sent>>
  BY DEF Receive, Close, BackgroundSendMulticast, queueVars, seqVars, inVars

(* The invariant does not mention popped, sends, up and the multicasts.     *)
LEMMA LossInvDependsOn ==
  ASSUME LossInv,
         UNCHANGED <<inc, outgoing, outSeq, inSeq, held, incoming, net, sent>>
  PROVE  LossInv'
<1>1. FirstLife' /\ UniqueNumbers' /\ LastInFlight'
  BY DEF LossInv, FirstLife, UniqueNumbers, LastInFlight
<1>2. FilterExact'
  BY DEF LossInv, FilterExact, Queued
<1>3. HonestAcks'
  BY DEF LossInv, HonestAcks, Arrived, Queued, Duplicate
<1> QED
  BY <1>1, <1>2, <1>3 DEF LossInv

-----------------------------------------------------------------------------
(* Send: the number is new, and no acknowledgement bears it yet.            *)
LEMMA LossSend ==
  ASSUME StopAndWaitSetting, DeliveryInv, LossInv, Numbering',
         NEW n \in Node, NEW to \in Node \cup {Group}, NEW text \in Text,
         Send(n, to, text)
  PROVE  LossInv'
<1>0. TypeOK /\ Provenance /\ Numbering
  BY DEF DeliveryInv
<1>1. PICK m \in Message : SendEffect(n, to, m)
  BY <1>0, SendStep
<1>2. /\ sent' = sent \cup {m}
      /\ m.from = n /\ m.to = to /\ m.inc = inc[n] /\ m.text # Ack
      /\ UNCHANGED <<inc, inSeq, held, incoming, net>>
  BY <1>1 DEF SendEffect, StopAndWaitSetting
<1>3. \A k \in Node : Queued(k)' = Queued(k)
  BY <1>2 DEF Queued
<1>4. \A p \in sent : p \in Message
  BY <1>0 DEF TypeOK
<1>5. \A p \in sent : p.to \in Node => p.seq <= outSeq[p.from][p.to]
  <2> SUFFICES ASSUME NEW p \in sent, p.to \in Node
               PROVE  p.seq <= outSeq[p.from][p.to]
    OBVIOUS
  <2>1. p.from \in Node /\ p.inc \in Nat
    BY <1>4 DEF Message
  <2>2. inc[p.from] = 0 /\ p.inc <= 0
    BY <1>0, <2>1 DEF LossInv, FirstLife, Numbering
  <2> QED
    BY <1>0, <2>1, <2>2 DEF Numbering
<1>6. FirstLife'
  BY <1>2 DEF LossInv, FirstLife
<1>7. FilterExact'
  BY <1>2, <1>3 DEF LossInv, FilterExact
<1>8. CASE to = Group
  <2>1. UNCHANGED <<outgoing, outSeq>>
    BY <1>1, <1>8, GroupIsNoNode DEF SendEffect
  <2>2. UniqueNumbers'
    BY <1>2, <1>8, GroupIsNoNode DEF LossInv, UniqueNumbers
  <2>3. LastInFlight'
    BY <2>1 DEF LossInv, LastInFlight
  <2>4. HonestAcks'
    <3>1. \A a \in net : a \in Message
      BY <1>0 DEF TypeOK
    <3>2. \A a \in net : m.to # a.from
      BY <1>2, <1>8, <3>1, GroupIsNoNode DEF Message
    <3> QED
      BY <1>2, <1>3, <2>1, <3>2
      DEF LossInv, HonestAcks, Arrived, Duplicate, Queued
  <2> QED
    BY <1>6, <1>7, <2>2, <2>3, <2>4 DEF LossInv
<1>9. CASE to \in Node
  <2>1. /\ m.seq = outSeq[n][to] + 1
        /\ \A e \in outgoing[n] : e.msg.to # to
        /\ outSeq' = [outSeq EXCEPT ![n][to] = m.seq]
        /\ outgoing' = [outgoing EXCEPT ![n] = @ \cup {[msg |-> m, attempts |-> 0]}]
    BY <1>1, <1>9, GroupIsNoNode DEF SendEffect, StopAndWaitSetting
  <2>2. /\ \A k, d \in Node : outSeq[k][d] \in Nat \cup {-1}
        /\ \A k, d \in Node : k # n \/ d # to => outSeq'[k][d] = outSeq[k][d]
        /\ outSeq'[n][to] = m.seq
    BY <1>0, <1>9, <2>1 DEF TypeOK
  <2>3. \A p \in sent : p.from = n /\ p.to = to => p.seq < m.seq
    BY <1>4, <1>5, <1>9, <2>1, <2>2 DEF Message
  <2>4. UniqueNumbers'
    BY <1>2, <1>4, <2>3 DEF LossInv, UniqueNumbers, Message
  <2>5. LastInFlight'
    <3> SUFFICES ASSUME NEW k \in Node, NEW e \in outgoing'[k]
                 PROVE  e.msg.from = k /\ e.msg.seq = outSeq'[k][e.msg.to]
      BY DEF LastInFlight
    <3>1. CASE e \in outgoing[k]
      <4>1. e.msg.from = k /\ e.msg.seq = outSeq[k][e.msg.to] /\ e.msg.to \in Node
        BY <1>0, <3>1 DEF LossInv, LastInFlight, Provenance
      <4> QED
        BY <2>1, <2>2, <3>1, <4>1
    <3>2. CASE e \notin outgoing[k]
      BY <1>0, <1>2, <2>1, <2>2, <3>2 DEF TypeOK
    <3> QED
      BY <3>1, <3>2
  <2>6. HonestAcks'
    <3> SUFFICES ASSUME NEW a \in net, a.text = Ack
                 PROVE  /\ a.to \in Node
                        /\ a.seq <= outSeq'[a.to][a.from]
                        /\ \A p \in sent' :
                             p.from = a.to /\ p.to = a.from /\ p.seq = a.seq
                               /\ p.seq = outSeq'[p.from][p.to] => Arrived(p)'
      BY <1>2 DEF HonestAcks
    <3>1. a \in Message /\ a.to \in Node /\ a.from \in Node /\ a.seq \in Nat
          /\ a.seq <= outSeq[a.to][a.from]
      BY <1>0 DEF LossInv, HonestAcks, TypeOK, Message
    <3>2. a.seq <= outSeq'[a.to][a.from]
      BY <2>1, <2>2, <3>1
    <3>3. ASSUME NEW p \in sent',
                 p.from = a.to, p.to = a.from, p.seq = a.seq,
                 p.seq = outSeq'[p.from][p.to]
          PROVE  Arrived(p)'
      <4>1. ~(p.from = n /\ p.to = to)
        BY <2>1, <2>2, <3>1, <3>3
      <4>2. p \in sent /\ p.seq = outSeq[p.from][p.to]
        BY <1>2, <2>2, <3>1, <3>3, <4>1
      <4>3. Arrived(p)
        BY <3>3, <4>2 DEF LossInv, HonestAcks
      <4> QED
        BY <1>2, <1>3, <3>1, <3>3, <4>3 DEF Arrived, Duplicate
    <3> QED
      BY <3>1, <3>2, <3>3
  <2> QED
    BY <1>6, <1>7, <2>4, <2>5, <2>6 DEF LossInv
<1> QED
  BY <1>8, <1>9

(* BackgroundSend: what remains keeps its message; no acknowledgement is    *)
(* added to the network.                                                    *)
LEMMA LossBackgroundSend ==
  ASSUME DeliveryInv, LossInv,
         NEW n \in Node, NEW due \in SUBSET outgoing[n], BackgroundSend(n, due)
  PROVE  LossInv'
<1>0. TypeOK /\ Provenance
  BY DEF DeliveryInv
<1>1. /\ net' = net \cup {e.msg : e \in due}
      /\ UNCHANGED <<inc, outSeq, inSeq, held, incoming, sent>>
  BY DEF BackgroundSend, seqVars, inVars
<1>2. \A k \in Node : Queued(k)' = Queued(k)
  BY <1>1 DEF Queued
<1>3. \A a \in net' : a.text = Ack => a \in net
  BY <1>0, <1>1 DEF LossInv, FirstLife, Provenance
<1>4. FirstLife' /\ UniqueNumbers' /\ FilterExact'
  BY <1>1, <1>2 DEF LossInv, FirstLife, UniqueNumbers, FilterExact
<1>5. LastInFlight'
  <2>1. \A e \in outgoing'[n] : \E f \in outgoing[n] : e.msg = f.msg
    BY <1>0 DEF BackgroundSend, TypeOK, QueuedMessage
  <2>2. \A k \in Node \ {n} : outgoing'[k] = outgoing[k]
    BY <1>0 DEF BackgroundSend, TypeOK
  <2> QED
    BY <1>1, <2>1, <2>2 DEF LossInv, LastInFlight
<1>6. HonestAcks'
  <2> SUFFICES ASSUME NEW a \in net, a.text = Ack
               PROVE  /\ a.to \in Node
                      /\ a.seq <= outSeq[a.to][a.from]
                      /\ \A p \in sent :
                           p.from = a.to /\ p.to = a.from /\ p.seq = a.seq
                             /\ p.seq = outSeq[p.from][p.to] => Arrived(p)'
    BY <1>1, <1>3 DEF HonestAcks
  <2>1. a.from \in Node
    BY <1>0 DEF TypeOK, Message
  <2>2. \A p \in sent : p.to = a.from /\ Arrived(p) => Arrived(p)'
    BY <1>1, <1>2, <2>1 DEF Arrived, Duplicate
  <2> QED
    BY <2>2 DEF LossInv, HonestAcks
<1> QED
  BY <1>4, <1>5, <1>6 DEF LossInv

(* ReceiveData: what is acknowledged passes the filter or is in the queue.  *)
LEMMA LossReceiveData ==
  ASSUME DeliveryInv, LossInv,
         NEW n \in Node, NEW m \in net, ReceiveData(n, m)
  PROVE  LossInv'
<1>0. TypeOK /\ Provenance /\ Numbering
  BY DEF DeliveryInv
<1>1. /\ held[n] = None /\ m.to = n /\ m.text # Ack
      /\ net' = net \cup {AckOf(n, m)}
      /\ held' = [held EXCEPT ![n] = m]
      /\ UNCHANGED <<inc, outgoing, outSeq, inSeq, incoming, sent>>
  BY DEF ReceiveData, queueVars, seqVars
<1>2. /\ m \in sent /\ m \in Message
      /\ m.from \in Node /\ m.seq \in Nat /\ m.inc \in Nat
  BY <1>0, <1>1 DEF Provenance, TypeOK, Message
<1>3. \A k \in Node : Queued(k)' = Queued(k)
  BY <1>1 DEF Queued
<1>4. FirstLife' /\ UniqueNumbers' /\ LastInFlight' /\ FilterExact'
  BY <1>1, <1>3 DEF LossInv, FirstLife, UniqueNumbers, LastInFlight, FilterExact
<1>5. m.seq <= outSeq[m.from][n]
  <2>1. inc[m.from] = 0 /\ m.inc <= 0
    BY <1>0, <1>2 DEF LossInv, FirstLife, Numbering
  <2> QED
    BY <1>0, <1>1, <1>2, <2>1 DEF Numbering
<1>6. ASSUME NEW p \in sent, p.to \in Node, Arrived(p)
      PROVE  Arrived(p)'
  <2>1. p \in Message /\ held[p.to] = p => p.to # n
    BY <1>1, NoneIsNoMessage
  <2> QED
    BY <1>0, <1>1, <1>3, <1>6, <2>1 DEF Arrived, Duplicate, TypeOK
<1>7. m.seq = outSeq[m.from][n] => Arrived(m)'
  <2>1. CASE ~Duplicate(n, m)
    BY <1>0, <1>1, <2>1 DEF Arrived, Duplicate, TypeOK
  <2>2. CASE Duplicate(n, m) /\ m.seq = outSeq[m.from][n]
    <3>1. m.seq <= inSeq[n][m.from] /\ inSeq[n][m.from] \in Nat
      BY <1>0, <1>2, <2>2 DEF Duplicate, TypeOK
    <3>2. PICK q \in Queued(n) : /\ q \in sent /\ q.from = m.from /\ q.to = n
                                 /\ q.seq = inSeq[n][m.from]
      BY <1>2, <3>1 DEF LossInv, FilterExact
    <3>3. q.seq <= outSeq[m.from][n]
      <4>1. q \in Message
        BY <1>0, <3>2 DEF TypeOK
      <4>2. inc[m.from] = 0 /\ q.inc <= 0 /\ q.inc \in Nat
        BY <1>0, <1>2, <3>2, <4>1 DEF LossInv, FirstLife, Numbering, Message
      <4> QED
        BY <1>0, <3>2, <4>2 DEF Numbering
    <3>4. q.seq = m.seq
      BY <1>2, <2>2, <3>1, <3>2, <3>3
    <3>5. q = m
      BY <1>1, <1>2, <3>2, <3>4 DEF LossInv, UniqueNumbers
    <3> QED
      BY <1>1, <1>3, <3>2, <3>5 DEF Arrived
  <2> QED
    BY <2>1, <2>2
<1>8. HonestAcks'
  <2> SUFFICES ASSUME NEW a \in net', a.text = Ack
               PROVE  /\ a.to \in Node
                      /\ a.seq <= outSeq[a.to][a.from]
                      /\ \A p \in sent :
                           p.from = a.to /\ p.to = a.from /\ p.seq = a.seq
                             /\ p.seq = outSeq[p.from][p.to] => Arrived(p)'
    BY <1>1 DEF HonestAcks
  <2>1. CASE a \in net
    <3>1. a \in Message
      BY <1>0, <2>1 DEF TypeOK
    <3> QED
      BY <1>6, <2>1, <3>1 DEF LossInv, HonestAcks, Message
  <2>2. CASE a = AckOf(n, m)
    <3>1. a.from = n /\ a.to = m.from /\ a.seq = m.seq
      BY <2>2 DEF AckOf
    <3>2. ASSUME NEW p \in sent, p.from = m.from, p.to = n, p.seq = m.seq
          PROVE  p = m
      BY <1>1, <1>2, <3>2 DEF LossInv, UniqueNumbers
    <3> QED
      BY <1>1, <1>2, <1>5, <1>7, <3>1, <3>2
  <2> QED
    BY <1>1, <2>1, <2>2
<1> QED
  BY <1>4, <1>8 DEF LossInv

(* FilterData: the held message is queued, unless its number was reached.   *)
LEMMA LossFilterData ==
  ASSUME DeliveryInv, LossInv, NEW n \in Node, FilterData(n)
  PROVE  LossInv'
<1>0. TypeOK /\ Provenance
  BY DEF DeliveryInv
<1> DEFINE m == held[n]
<1>1. /\ m \in sent /\ m.to = n /\ m \in Message /\ m.from \in Node /\ m.seq \in Nat
      /\ held' = [held EXCEPT ![n] = None]
      /\ UNCHANGED <<inc, outgoing, outSeq, net, sent>>
  BY <1>0 DEF FilterData, Provenance, TypeOK, Message, queueVars
<1>2. FirstLife' /\ UniqueNumbers' /\ LastInFlight'
  BY <1>1 DEF LossInv, FirstLife, UniqueNumbers, LastInFlight
<1>3. \A p \in Message : p # None
  BY NoneIsNoMessage
<1>4. CASE Duplicate(n, m)
  <2>1. UNCHANGED <<inSeq, incoming>>
    BY <1>4 DEF FilterData
  <2>2. \A k \in Node : Queued(k)' = Queued(k)
    BY <2>1 DEF Queued
  <2>3. FilterExact'
    BY <1>1, <2>1, <2>2 DEF LossInv, FilterExact
  <2>4. ASSUME NEW p \in sent, p.to \in Node, Arrived(p)
        PROVE  Arrived(p)'
    <3>1. ~(p.to = n /\ held[n] = p /\ ~Duplicate(n, p))
      BY <1>4
    <3> QED
      BY <1>0, <1>1, <2>1, <2>2, <2>4, <3>1 DEF Arrived, Duplicate, TypeOK
  <2>5. HonestAcks'
    BY <1>0, <1>1, <2>4 DEF LossInv, HonestAcks, TypeOK, Message
  <2> QED
    BY <1>2, <2>3, <2>5 DEF LossInv
<1>5. CASE ~Duplicate(n, m)
  <2>1. /\ inSeq' = [inSeq EXCEPT ![n][m.from] = m.seq]
        /\ incoming' = [incoming EXCEPT ![n] = Append(@, m)]
    BY <1>5 DEF FilterData
  <2>2. /\ Queued(n)' = Queued(n) \cup {m}
        /\ \A k \in Node \ {n} : Queued(k)' = Queued(k)
    BY <1>0, <1>1, <2>1, QueuedAppend DEF TypeOK
  <2>3. /\ inSeq'[n][m.from] = m.seq
        /\ \A k, s \in Node : k # n \/ s # m.from => inSeq'[k][s] = inSeq[k][s]
    BY <1>0, <1>1, <2>1 DEF TypeOK
  <2>4. FilterExact'
    <3> SUFFICES ASSUME NEW k \in Node, NEW s \in Node, inSeq'[k][s] # -1
                 PROVE  \E p \in Queued(k)' : /\ p \in sent /\ p.from = s /\ p.to = k
                                              /\ p.seq = inSeq'[k][s]
      BY <1>1 DEF FilterExact
    <3>1. CASE k = n /\ s = m.from
      BY <1>1, <2>2, <2>3, <3>1
    <3>2. CASE ~(k = n /\ s = m.from)
      <4>1. PICK p \in Queued(k) : /\ p \in sent /\ p.from = s /\ p.to = k
                                   /\ p.seq = inSeq[k][s]
        BY <2>3, <3>2 DEF LossInv, FilterExact
      <4> QED
        BY <2>2, <2>3, <3>2, <4>1
    <3> QED
      BY <3>1, <3>2
  <2>5. ASSUME NEW p \in sent, p.to \in Node, Arrived(p)
        PROVE  Arrived(p)'
    <3>1. CASE p \in Queued(p.to)
      BY <2>2, <2>5, <3>1 DEF Arrived
    <3>2. CASE held[p.to] = p /\ ~Duplicate(p.to, p) /\ p.to = n
      BY <2>2, <3>2 DEF Arrived
    <3>3. CASE held[p.to] = p /\ ~Duplicate(p.to, p) /\ p.to # n
      <4>1. p.from \in Node
        BY <1>0 DEF TypeOK, Message
      <4>2. held'[p.to] = p /\ inSeq'[p.to][p.from] = inSeq[p.to][p.from]
        BY <1>0, <1>1, <2>3, <2>5, <3>3, <4>1 DEF TypeOK
      <4> QED
        BY <3>3, <4>2 DEF Arrived, Duplicate
    <3> QED
      BY <2>5, <3>1, <3>2, <3>3 DEF Arrived
  <2>6. HonestAcks'
    BY <1>0, <1>1, <2>5 DEF LossInv, HonestAcks, TypeOK, Message
  <2> QED
    BY <1>2, <2>4, <2>6 DEF LossInv
<1> QED
  BY <1>4, <1>5

(* A multicast only adds to a queue.                                        *)
LEMMA LossMulticast ==
  ASSUME DeliveryInv, LossInv, NEW n \in Node, NEW g \in groupNet,
         BackgroundReceiveMulticast(n, g)
  PROVE  LossInv'
<1>0. TypeOK
  BY DEF DeliveryInv
<1>1. /\ g.msg \in Message
      /\ incoming' = [incoming EXCEPT ![n] = Append(@, g.msg)]
      /\ UNCHANGED <<inc, outgoing, outSeq, inSeq, held, net, sent>>
  BY <1>0 DEF BackgroundReceiveMulticast, queueVars, seqVars, TypeOK
<1>2. \A k \in Node : Queued(k) \subseteq Queued(k)'
  BY <1>0, <1>1, QueuedAppend DEF TypeOK
<1>3. FirstLife' /\ UniqueNumbers' /\ LastInFlight'
  BY <1>1 DEF LossInv, FirstLife, UniqueNumbers, LastInFlight
<1>4. FilterExact'
  BY <1>1, <1>2 DEF LossInv, FilterExact
<1>5. \A p \in sent : p.to \in Node /\ Arrived(p) => Arrived(p)'
  BY <1>1, <1>2 DEF Arrived, Duplicate
<1>6. HonestAcks'
  BY <1>0, <1>1, <1>5 DEF LossInv, HonestAcks, TypeOK, Message
<1> QED
  BY <1>3, <1>4, <1>6 DEF LossInv

(* ReceiveAck: erases entries, touches nothing else.                        *)
LEMMA LossReceiveAck ==
  ASSUME DeliveryInv, LossInv, NEW n \in Node, NEW a \in net, ReceiveAck(n, a)
  PROVE  LossInv'
<1>0. TypeOK
  BY DEF DeliveryInv
<1>1. /\ \A k \in Node : outgoing'[k] \subseteq outgoing[k]
      /\ UNCHANGED <<inc, outSeq, inSeq, held, incoming, net, sent>>
  BY <1>0 DEF ReceiveAck, seqVars, inVars, TypeOK
<1>2. FirstLife' /\ UniqueNumbers' /\ LastInFlight'
  BY <1>1 DEF LossInv, FirstLife, UniqueNumbers, LastInFlight
<1>3. FilterExact' /\ HonestAcks'
  BY <1>1 DEF LossInv, FilterExact, HonestAcks, Arrived, Queued, Duplicate
<1> QED
  BY <1>2, <1>3 DEF LossInv

-----------------------------------------------------------------------------
(* Every step preserves the invariant.                                      *)
LEMMA LossStep ==
  ASSUME StopAndWaitSetting, DeliveryInv, LossInv, Numbering', [Next]_vars
  PROVE  LossInv'
<1>1. \A r \in Route : r[1] \in Node /\ r[2] \in Node \cup {Group}
  BY NodeAssumption
<1>2. \A n \in Node : ~Restart(n)
  BY DEF Restart, StopAndWaitSetting
<1>3. CASE UNCHANGED vars
  BY <1>3, LossInvDependsOn DEF vars
<1>4. ASSUME NEW n \in Node, Receive(n) \/ Close(n) \/ BackgroundSendMulticast(n)
      PROVE  LossInv'
  BY <1>4, QuietSteps, LossInvDependsOn
<1> QED
  BY <1>1, <1>2, <1>3, <1>4, LossSend, LossBackgroundSend, LossReceiveData,
     LossFilterData, LossMulticast, LossReceiveAck
  DEF Next

(* A message leaves outgoing exhausted or arrived.                          *)
LEMMA NothingForgotten ==
  ASSUME StopAndWaitSetting, DeliveryInv, LossInv, [Next]_vars,
         NEW n \in Node, NEW e \in outgoing[n],
         ~Exhausted(e), \A f \in outgoing'[n] : f.msg # e.msg
  PROVE  Arrived(e.msg)
<1>0. TypeOK /\ Provenance
  BY DEF DeliveryInv
<1>1. ASSUME NEW k \in Node, NEW a \in net, ReceiveAck(k, a)
      PROVE  Arrived(e.msg)
  <2>1. PICK d \in Acknowledged(k, a) :
           outgoing' = [outgoing EXCEPT ![k] = @ \ {d}]
    BY <1>1 DEF ReceiveAck
  <2>2. k = n /\ e = d
    BY <1>0, <2>1 DEF TypeOK
  <2>3. /\ SameAddress(e.msg.to, a.from) /\ e.msg.seq = a.seq
        /\ a.to = n /\ a.text = Ack
    BY <1>1, <2>1, <2>2 DEF Acknowledged, ReceiveAck
  <2>4. e.msg.to \in Node /\ e.msg \in sent /\ a.from \in Node
    BY <1>0 DEF Provenance, TypeOK, Message
  <2>5. e.msg.to = a.from
    BY <2>3, <2>4 DEF StopAndWaitSetting, Distinguishable
  <2>6. e.msg.from = n /\ e.msg.seq = outSeq[n][e.msg.to]
    BY DEF LossInv, LastInFlight
  <2> QED
    BY <2>3, <2>4, <2>5, <2>6 DEF LossInv, HonestAcks
<1>2. ASSUME NEW k \in Node, NEW due \in SUBSET outgoing[k], BackgroundSend(k, due)
      PROVE  FALSE
  <2>1. k # n => outgoing'[n] = outgoing[n]
    BY <1>0, <1>2 DEF BackgroundSend, TypeOK
  <2>2. k = n => \E f \in outgoing'[n] : f.msg = e.msg
    <3> SUFFICES ASSUME k = n PROVE \E f \in outgoing'[n] : f.msg = e.msg
      OBVIOUS
    <3> DEFINE f == IF e \in due THEN [e EXCEPT !.attempts = @ + 1] ELSE e
    <3>1. f \in outgoing'[n]
      BY <1>0, <1>2 DEF BackgroundSend, TypeOK
    <3>2. f.msg = e.msg
      BY <1>0 DEF TypeOK, QueuedMessage
    <3> QED
      BY <3>1, <3>2
  <2> QED
    BY <2>1, <2>2
<1>3. ASSUME NEW k \in Node, NEW to \in Node \cup {Group}, NEW text \in Text,
             Send(k, to, text)
      PROVE  FALSE
  <2>1. PICK m \in Message : SendEffect(k, to, m)
    BY <1>0, <1>3, SendStep
  <2>2. \/ outgoing' = outgoing
        \/ outgoing' = [outgoing EXCEPT ![k] = @ \cup {[msg |-> m, attempts |-> 0]}]
    BY <2>1 DEF SendEffect
  <2>3. outgoing[n] \subseteq outgoing'[n]
    BY <1>0, <2>2 DEF TypeOK
  <2> QED
    BY <2>3
<1>4. ASSUME outgoing' = outgoing
      PROVE  FALSE
  BY <1>4
<1>5. ASSUME NEW k \in Node,
             \/ Receive(k) \/ Close(k) \/ BackgroundSendMulticast(k)
             \/ \E m \in net : ReceiveData(k, m)
             \/ FilterData(k)
             \/ \E g \in groupNet : BackgroundReceiveMulticast(k, g)
      PROVE  outgoing' = outgoing
  BY <1>5
  DEF Receive, Close, BackgroundSendMulticast, ReceiveData, FilterData,
      BackgroundReceiveMulticast, queueVars
<1>6. \A k \in Node : ~Restart(k)
  BY DEF Restart, StopAndWaitSetting
<1>7. CASE UNCHANGED vars
  BY <1>4, <1>7 DEF vars
<1>8. \A r \in Route : r[1] \in Node /\ r[2] \in Node \cup {Group}
  BY NodeAssumption
<1> QED
  BY <1>1, <1>2, <1>3, <1>4, <1>5, <1>6, <1>7, <1>8 DEF Next

(* Whatever the network does, in that setting no message is lost without    *)
(* kMaxRetries attempts to deliver it.                                      *)
THEOREM NothingLostSilently ==
  ASSUME StopAndWaitSetting
  PROVE  Spec => NoSilentLoss
<1>1. Init => LossInv
  BY DEF Init, LossInv, FirstLife, UniqueNumbers, LastInFlight, FilterExact,
         HonestAcks
<1>2. DeliveryInv /\ LossInv /\ DeliveryInv' /\ [Next]_vars => LossInv'
  BY LossStep DEF DeliveryInv
<1>3. DeliveryInv /\ LossInv /\ [Next]_vars =>
        [\A n \in Node : inc'[n] = inc[n] =>
           \A e \in outgoing[n] :
             \/ Exhausted(e)
             \/ \E f \in outgoing'[n] : f.msg = e.msg
             \/ Arrived(e.msg)]_vars
  BY NothingForgotten
<1> QED
  BY <1>1, <1>2, <1>3, DeliveryInvariant, PTL DEF Spec, NoSilentLoss
==============================================================================
