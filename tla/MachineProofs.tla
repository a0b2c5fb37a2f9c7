---------------------------- MODULE MachineProofs ----------------------------
(***************************************************************************)
(* Proofs about Machine, for any hierarchy of states, any receivers and    *)
(* children, and any numbers of transitions and scheduled messages.        *)
(***************************************************************************)
EXTENDS Machine, FiniteSetTheorems, WellFoundedInduction, TLAPS

Place == State \cup {Root}

(* A state and the states above it.                                         *)
Ancestry(s) == ToSet(StateLineage[s])

IsDepth(d) ==
    /\ d \in [Place -> Nat]
    /\ \A s \in State : d[ParentOf[s]] < d[s]

-----------------------------------------------------------------------------
(* The hierarchy.                                                           *)

LEMMA Constants ==
    /\ Root \notin State /\ Root \in Place
    /\ \A s \in State : ParentOf[s] \in Place /\ s \in Place /\ s # Root
    /\ Initial \in State
    /\ MaxTransitions \in Nat /\ MaxScheduled \in Nat
BY MachineAssumption DEF Place

(* Every nonempty set of natural numbers has a least element.               *)
LEMMA Least ==
    ASSUME NEW T \in SUBSET Nat, T # {}
    PROVE  \E x \in T : \A y \in T : x <= y
<1>1. PICK x \in T : \A y \in T : <<y, x>> \notin OpToRel(<, Nat)
  BY WFMin, NatLessThanWellFounded
<1>2. \A y \in T : ~(y < x)
  BY <1>1 DEF OpToRel
<1> QED BY <1>2

(* How far a state is from the root of the hierarchy.                       *)
LEMMA DepthExists ==
    \E d : IsDepth(d) /\ \E N \in Nat : \A s \in Place : d[s] <= N
<1>1. Cardinality(State) \in Nat
  BY HierarchyAssumption, FS_CardinalityType
<1>2. PICK d \in [Place -> 0..Cardinality(State)] : \A s \in State : d[ParentOf[s]] < d[s]
  BY HierarchyAssumption DEF Place
<1>3. d \in [Place -> Nat] /\ \A s \in Place : d[s] <= Cardinality(State)
  BY <1>1, <1>2
<1> QED
  BY <1>1, <1>2, <1>3 DEF IsDepth

(* There is a function that satisfies the recursion of StateLineage.        *)
Upwards(f, D) == f = [s \in D |-> IF s = Root THEN <<>> ELSE <<s>> \o f[ParentOf[s]]]

LEMMA UpwardsExists == \E f : Upwards(f, Place)
<1>0. PICK d : IsDepth(d) /\ \E N \in Nat : \A s \in Place : d[s] <= N
  BY DepthExists
<1>1. PICK N \in Nat : IsDepth(d) /\ \A s \in Place : d[s] <= N
  BY <1>0
<1> DEFINE D(n) == {s \in Place : d[s] < n}
           Missing == {n \in Nat : ~ \E f : Upwards(f, D(n))}
<1>2. ASSUME Missing # {} PROVE FALSE
  <2>1. PICK n \in Missing : \A m \in Missing : n <= m
    BY <1>2, Least
  <2> n \in Nat
    OBVIOUS
  <2>2. CASE n = 0
    <3>1. D(n) = {}
      BY <1>1, <2>2 DEF IsDepth
    <3>2. Upwards([s \in {} |-> <<>>], {})
      BY DEF Upwards
    <3> QED
      BY <2>1, <3>1, <3>2
  <2>3. CASE n # 0
    <3>1. n - 1 \in Nat /\ n - 1 \notin Missing
      <4>1. n - 1 \in Nat /\ ~(n <= n - 1)
        BY <2>3
      <4> QED BY <2>1, <4>1
    <3>2. PICK f : Upwards(f, D(n - 1))
      BY <3>1
    <3> DEFINE g == [s \in D(n) |-> IF s = Root THEN <<>> ELSE <<s>> \o f[ParentOf[s]]]
    <3>3. \A s \in D(n) : s # Root => ParentOf[s] \in D(n - 1) /\ ParentOf[s] \in D(n)
      BY <1>1, Constants DEF IsDepth, Place
    <3>4. \A s \in D(n - 1) : f[s] = IF s = Root THEN <<>> ELSE <<s>> \o f[ParentOf[s]]
      <4> HIDE DEF D
      <4> QED BY <3>2 DEF Upwards
    <3>5. \A s \in D(n - 1) : s \in D(n)
      BY <1>1 DEF IsDepth
    <3>6. \A s \in D(n - 1) : g[s] = f[s]
      BY <3>4, <3>5
    <3>7. g = [s \in D(n) |-> IF s = Root THEN <<>> ELSE <<s>> \o g[ParentOf[s]]]
      BY <3>3, <3>6
    <3>8. Upwards(g, D(n))
      BY <3>7 DEF Upwards
    <3> QED
      BY <2>1, <3>8
  <2> QED
    BY <2>2, <2>3
<1>3. N + 1 \in Nat /\ D(N + 1) = Place
  BY <1>1 DEF IsDepth
<1> QED
  BY <1>2, <1>3

LEMMA LineageEquation ==
    StateLineage = [s \in Place |-> IF s = Root THEN <<>>
                                    ELSE <<s>> \o StateLineage[ParentOf[s]]]
BY UpwardsExists DEF Upwards, StateLineage, Place

LEMMA LineageOf ==
    /\ StateLineage[Root] = <<>>
    /\ \A s \in State : StateLineage[s] = <<s>> \o StateLineage[ParentOf[s]]
BY LineageEquation, Constants DEF Place

LEMMA LineageType == \A s \in Place : StateLineage[s] \in Seq(State)
<1>1. PICK d : IsDepth(d)
  BY DepthExists
<1> DEFINE Bad == {s \in Place : StateLineage[s] \notin Seq(State)}
           Depths == {d[s] : s \in Bad}
<1>2. ASSUME Bad # {} PROVE FALSE
  <2>1. Depths \in SUBSET Nat /\ Depths # {}
    BY <1>1, <1>2 DEF IsDepth
  <2>2. PICK n \in Depths : \A m \in Depths : n <= m
    BY <2>1, Least
  <2>3. PICK s \in Bad : d[s] = n
    BY <2>2
  <2>4. s \in State
    <3>1. StateLineage[s] \notin Seq(State) /\ s \in Place
      BY <2>3
    <3>2. <<>> \in Seq(State)
      OBVIOUS
    <3> QED
      BY <3>1, <3>2, LineageOf DEF Place
  <2>5. ParentOf[s] \in Place /\ d[ParentOf[s]] < d[s] /\ d[ParentOf[s]] \in Nat /\ d[s] \in Nat
    BY <1>1, <2>4, Constants DEF IsDepth
  <2>6. ParentOf[s] \notin Bad
    <3>1. ParentOf[s] \in Bad => d[ParentOf[s]] \in Depths
      OBVIOUS
    <3> HIDE DEF Bad, Depths
    <3> QED
      BY <2>2, <2>3, <2>5, <3>1
  <2>7. StateLineage[s] \in Seq(State)
    <3>1. StateLineage[ParentOf[s]] \in Seq(State)
      BY <2>5, <2>6
    <3>2. StateLineage[s] = <<s>> \o StateLineage[ParentOf[s]]
      BY <2>4, LineageOf
    <3>3. \A t \in Seq(State) : <<s>> \o t \in Seq(State)
      BY <2>4
    <3> QED
      BY <3>1, <3>2, <3>3
  <2> QED
    BY <2>3, <2>7
<1> QED
  BY <1>2

(* The states of a lineage are the state and those of its parent's; the     *)
(* state itself is not among the latter, and is the parent of none of them. *)
LEMMA AncestryOf ==
    /\ Ancestry(Root) = {}
    /\ \A s \in State : Ancestry(s) = {s} \cup Ancestry(ParentOf[s])
<1>1. ASSUME NEW s \in State
      PROVE  Ancestry(s) = {s} \cup Ancestry(ParentOf[s])
  <2> DEFINE up == StateLineage[ParentOf[s]]
  <2>1. up \in Seq(State)
    BY LineageType, Constants
  <2>2. StateLineage[s] = <<s>> \o up
    BY LineageOf
  <2> HIDE DEF up
  <2>3. /\ DOMAIN (<<s>> \o up) = 1..(Len(up) + 1)
        /\ (<<s>> \o up)[1] = s
        /\ \A i \in 1..Len(up) : (<<s>> \o up)[i + 1] = up[i]
    BY <2>1
  <2>4. \A i \in 1..(Len(up) + 1) : i = 1 \/ \E j \in 1..Len(up) : i = j + 1
    <3>1. \A i \in 1..(Len(up) + 1) : i # 1 => i - 1 \in 1..Len(up) /\ i = (i - 1) + 1
      BY <2>1
    <3> QED BY <3>1
  <2>5. \A j \in 1..Len(up) : j + 1 \in 1..(Len(up) + 1)
    BY <2>1
  <2>6. ToSet(<<s>> \o up) \subseteq {s} \cup ToSet(up)
    BY <2>1, <2>3, <2>4 DEF ToSet
  <2>7. {s} \cup ToSet(up) \subseteq ToSet(<<s>> \o up)
    <3>1. DOMAIN up = 1..Len(up) /\ 1 \in 1..(Len(up) + 1)
      BY <2>1
    <3>2. s \in ToSet(<<s>> \o up)
      BY <2>3, <3>1 DEF ToSet
    <3>3. ASSUME NEW j \in 1..Len(up) PROVE up[j] \in ToSet(<<s>> \o up)
      BY <2>3, <2>5 DEF ToSet
    <3>4. ToSet(up) \subseteq ToSet(<<s>> \o up)
      BY <3>1, <3>3 DEF ToSet
    <3> QED BY <3>2, <3>4
  <2> QED
    BY <2>2, <2>6, <2>7 DEF Ancestry, up
<1> QED
  BY <1>1, LineageOf DEF Ancestry, ToSet

LEMMA AncestryAbove ==
    ASSUME NEW d, IsDepth(d)
    PROVE  \A s \in Place : \A a \in Ancestry(s) : a \in State /\ d[a] <= d[s]
<1> DEFINE Bad == {s \in Place : \E a \in Ancestry(s) : a \notin State \/ ~(d[a] <= d[s])}
           Depths == {d[s] : s \in Bad}
<1>2. ASSUME Bad # {} PROVE FALSE
  <2>1. Depths \in SUBSET Nat /\ Depths # {}
    BY <1>2 DEF IsDepth
  <2>2. PICK n \in Depths : \A m \in Depths : n <= m
    BY <2>1, Least
  <2>3. PICK s \in Bad : d[s] = n
    BY <2>2
  <2>4. s \in State
    BY <2>3, AncestryOf DEF Place
  <2>5. ParentOf[s] \in Place /\ d[ParentOf[s]] < d[s] /\ d[ParentOf[s]] \in Nat /\ d[s] \in Nat
    BY <2>4, Constants DEF IsDepth
  <2>6. ParentOf[s] \notin Bad
    BY <2>2, <2>3, <2>5
  <2>7. \A a \in Ancestry(ParentOf[s]) : a \in State /\ d[a] <= d[s]
    <3>1. \A a \in Ancestry(ParentOf[s]) : a \in State /\ d[a] <= d[ParentOf[s]]
      BY <2>5, <2>6
    <3>2. \A a \in State : d[a] \in Nat
      BY DEF IsDepth, Place
    <3> QED BY <2>5, <3>1, <3>2
  <2>8. \A a \in Ancestry(s) : a \in State /\ d[a] <= d[s]
    BY <2>4, <2>5, <2>7, AncestryOf
  <2> QED
    BY <2>3, <2>8
<1> QED
  BY <1>2

LEMMA AncestryProper ==
    /\ \A s \in Place : Ancestry(s) \subseteq State
    /\ \A s \in State : s \notin Ancestry(ParentOf[s])
    /\ \A s \in State : \A a \in Ancestry(s) : ParentOf[a] # s
<1>1. PICK d : IsDepth(d)
  BY DepthExists
<1>2. \A s \in State : d[s] \in Nat /\ d[ParentOf[s]] \in Nat /\ d[ParentOf[s]] < d[s]
  BY <1>1, Constants DEF IsDepth
<1>3. \A s \in Place : \A a \in Ancestry(s) : a \in State /\ d[a] <= d[s]
  BY <1>1, AncestryAbove
<1>4. ASSUME NEW s \in State PROVE s \notin Ancestry(ParentOf[s])
  BY <1>2, <1>3, Constants
<1>5. ASSUME NEW s \in State, NEW a \in Ancestry(s) PROVE ParentOf[a] # s
  <2>1. a \in State /\ d[a] <= d[s]
    BY <1>3, Constants
  <2> QED BY <1>2, <2>1
<1> QED
  BY <1>3, <1>4, <1>5

(* A lineage starts at its state and goes up to the root.                   *)
UpTo(seq, base) ==
    \A i \in DOMAIN seq : ParentOf[seq[i]] = IF i = Len(seq) THEN base ELSE seq[i + 1]

DownTo(base, seq, target) ==
    /\ seq = <<>> => base = target
    /\ seq # <<>> => seq[Len(seq)] = target
    /\ \A i \in DOMAIN seq : ParentOf[seq[i]] = IF i = 1 THEN base ELSE seq[i - 1]

Begins(s, seq, base) == s = IF seq = <<>> THEN base ELSE Head(seq)

LEMMA UpFrom ==
    ASSUME NEW s \in State, NEW up \in Seq(State), NEW base,
           UpTo(up, base), Begins(ParentOf[s], up, base)
    PROVE  UpTo(<<s>> \o up, base)
<1> DEFINE seq == <<s>> \o up
<1>1. Len(seq) = Len(up) + 1 /\ DOMAIN seq = 1..(Len(up) + 1) /\ seq[1] = s
      /\ \A i \in 1..Len(up) : seq[i + 1] = up[i]
  OBVIOUS
<1>2. DOMAIN up = 1..Len(up)
  OBVIOUS
<1> HIDE DEF seq
<1>3. ParentOf[seq[1]] = IF 1 = Len(seq) THEN base ELSE seq[2]
  <2>1. CASE up = <<>>
    BY <1>1, <2>1 DEF Begins
  <2>2. CASE up # <<>>
    <3>1. Len(up) \in Nat /\ Len(up) > 0 /\ Head(up) = up[1]
      BY <2>2
    <3>2. seq[1 + 1] = up[1] /\ 1 # Len(seq)
      BY <1>1, <3>1
    <3> QED BY <1>1, <2>2, <3>1, <3>2 DEF Begins
  <2> QED BY <2>1, <2>2
<1>4. ASSUME NEW i \in 1..(Len(up) + 1), i # 1
      PROVE  ParentOf[seq[i]] = IF i = Len(seq) THEN base ELSE seq[i + 1]
  <2>1. Len(up) \in Nat
    OBVIOUS
  <2>2. i - 1 \in 1..Len(up) /\ i = (i - 1) + 1 /\ (i = Len(seq) <=> i - 1 = Len(up))
    BY <1>1, <1>4, <2>1
  <2>3. seq[i] = up[i - 1]
    BY <1>1, <2>2
  <2>4. i # Len(seq) => i \in 1..Len(up) /\ seq[i + 1] = up[(i - 1) + 1]
    BY <1>1, <2>1, <2>2
  <2>5. ParentOf[up[i - 1]] = IF i - 1 = Len(up) THEN base ELSE up[(i - 1) + 1]
    BY <1>2, <2>2 DEF UpTo
  <2> QED
    BY <2>2, <2>3, <2>4, <2>5
<1>5. UpTo(seq, base)
  BY <1>1, <1>3, <1>4 DEF UpTo
<1> QED
  BY <1>5 DEF seq

LEMMA LineageUp ==
    \A s \in Place : UpTo(StateLineage[s], Root) /\ Begins(s, StateLineage[s], Root)
<1>1. PICK d : IsDepth(d)
  BY DepthExists
<1> DEFINE Good(s) == UpTo(StateLineage[s], Root) /\ Begins(s, StateLineage[s], Root)
           Bad == {s \in Place : ~Good(s)}
           Depths == {d[s] : s \in Bad}
<1>2. Good(Root)
  BY LineageOf DEF UpTo, Begins
<1>3. ASSUME NEW s \in State, Good(ParentOf[s]) PROVE Good(s)
  <2>1. StateLineage[s] = <<s>> \o StateLineage[ParentOf[s]]
    BY LineageOf
  <2>2. StateLineage[ParentOf[s]] \in Seq(State)
    BY LineageType, Constants
  <2>3. UpTo(StateLineage[s], Root)
    BY <1>3, <2>1, <2>2, UpFrom
  <2>4. Begins(s, StateLineage[s], Root)
    BY <2>1, <2>2 DEF Begins
  <2> QED BY <2>3, <2>4
<1> HIDE DEF Good
<1>4. ASSUME Bad # {} PROVE FALSE
  <2>1. Depths \in SUBSET Nat /\ Depths # {}
    BY <1>1, <1>4 DEF IsDepth
  <2>2. PICK n \in Depths : \A m \in Depths : n <= m
    BY <2>1, Least
  <2>3. PICK s \in Bad : d[s] = n
    BY <2>2
  <2>4. s \in State
    BY <2>3, <1>2 DEF Place
  <2>5. ParentOf[s] \in Place /\ d[ParentOf[s]] < d[s] /\ d[ParentOf[s]] \in Nat /\ d[s] \in Nat
    BY <1>1, <2>4, Constants DEF IsDepth
  <2>6. ParentOf[s] \notin Bad
    <3>1. ParentOf[s] \in Bad => d[ParentOf[s]] \in Depths
      OBVIOUS
    <3> HIDE DEF Bad, Depths
    <3> QED
      BY <2>2, <2>3, <2>5, <3>1
  <2>7. Good(s)
    BY <1>3, <2>4, <2>5, <2>6
  <2> QED
    BY <2>3, <2>7
<1> QED
  BY <1>4 DEF Good

(* Seen from the root, it goes down to its state.                           *)
LEMMA ReverseOf ==
    ASSUME NEW s \in Seq(State)
    PROVE  /\ Reverse(s) \in Seq(State) /\ Len(Reverse(s)) = Len(s)
           /\ \A i \in 1..Len(s) : Reverse(s)[i] = s[(Len(s) - i) + 1]
<1>1. Reverse(s) = [i \in 1..Len(s) |-> s[(Len(s) - i) + 1]]
  BY DEF Reverse
<1>2. Len(s) \in Nat /\ \A i \in 1..Len(s) : (Len(s) - i) + 1 \in 1..Len(s)
  OBVIOUS
<1>3. \A i \in 1..Len(s) : s[(Len(s) - i) + 1] \in State
  BY <1>2
<1> QED
  BY <1>1, <1>2, <1>3

LEMMA LineageDown ==
    ASSUME NEW s \in Place
    PROVE  Lineage(s) \in Seq(State) /\ DownTo(Root, Lineage(s), s)
<1> DEFINE up == StateLineage[s]
           down == Lineage(s)
<1>1. up \in Seq(State) /\ UpTo(up, Root) /\ Begins(s, up, Root)
  BY LineageType, LineageUp
<1>2. down = Reverse(up)
  BY DEF Lineage
<1> HIDE DEF up, down
<1>3. /\ down \in Seq(State) /\ Len(down) = Len(up) /\ Len(up) \in Nat
      /\ \A i \in 1..Len(up) : down[i] = up[(Len(up) - i) + 1]
  BY <1>1, <1>2, ReverseOf
<1>4. down = <<>> => s = Root
  BY <1>1, <1>3 DEF Begins
<1>5. down # <<>> => down[Len(down)] = s
  <2>1. ASSUME down # <<>> PROVE up # <<>> /\ Len(up) \in 1..Len(up) /\ (Len(up) - Len(up)) + 1 = 1
    BY <1>3, <2>1
  <2> QED
    BY <1>1, <1>3, <2>1 DEF Begins
<1>6. ASSUME NEW i \in 1..Len(down)
      PROVE  ParentOf[down[i]] = IF i = 1 THEN Root ELSE down[i - 1]
  <2> DEFINE j == (Len(up) - i) + 1
  <2>1. j \in 1..Len(up) /\ (j = Len(up) <=> i = 1)
    BY <1>3
  <2>2. i # 1 => i - 1 \in 1..Len(up) /\ (Len(up) - (i - 1)) + 1 = j + 1
    BY <1>3
  <2>3. DOMAIN up = 1..Len(up)
    BY <1>1
  <2>4. down[i] = up[j] /\ (i # 1 => down[i - 1] = up[j + 1])
    BY <1>3, <2>2
  <2> HIDE DEF j
  <2>5. ParentOf[up[j]] = IF j = Len(up) THEN Root ELSE up[j + 1]
    BY <1>1, <2>1, <2>3 DEF UpTo
  <2> QED
    BY <2>1, <2>4, <2>5
<1>7. DOMAIN down = 1..Len(down)
  BY <1>3
<1>8. down \in Seq(State) /\ DownTo(Root, down, s)
  BY <1>3, <1>4, <1>5, <1>6, <1>7 DEF DownTo
<1> QED
  BY <1>8 DEF down

-----------------------------------------------------------------------------
(* The calls of Transition.                                                 *)

(* Two lineages have a longest common prefix.                               *)
LEMMA LongestExists ==
    ASSUME NEW a \in Seq(State), NEW b \in Seq(State)
    PROVE  LongestCommonPrefix({a, b}) \in CommonPrefixes({a, b})
<1> DEFINE C == CommonPrefixes({a, b})
           Rest == {Len(a) - Len(p) : p \in C}
<1>1. \A s \in Seq(State) : \A l \in 0..Len(s) : SubSeq(s, 1, l) \in Seq(State)
  OBVIOUS
<1>2. \A p \in C : p \in Seq(State) /\ Len(p) \in Nat /\ Len(p) <= Len(a)
  <2>1. \A p \in C : p \in Prefixes(a) \cup Prefixes(b) /\ IsPrefix(p, a)
    BY DEF CommonPrefixes
  <2>2. \A p \in Prefixes(a) \cup Prefixes(b) : p \in Seq(State)
    BY <1>1 DEF Prefixes
  <2>3. \A p \in Seq(State) : Len(p) \in Nat
    OBVIOUS
  <2> QED
    BY <2>1, <2>2, <2>3 DEF IsPrefix
<1>3. <<>> \in C
  <2>1. \A s \in {a, b} : SubSeq(s, 1, 0) = <<>> /\ Len(s) \in Nat
    OBVIOUS
  <2>2. <<>> \in Prefixes(a)
    <3>1. 0 \in 0..Len(a)
      BY <2>1
    <3> QED BY <2>1, <3>1 DEF Prefixes
  <2>3. \A s \in {a, b} : IsPrefix(<<>>, s)
    <3>1. Len(<<>>) = 0 /\ SubSeq(<<>>, 1, 0) = <<>>
      OBVIOUS
    <3> QED BY <2>1, <3>1 DEF IsPrefix
  <2> QED
    BY <2>2, <2>3 DEF CommonPrefixes
<1> HIDE DEF C
<1>4. Len(a) \in Nat
  OBVIOUS
<1>5. Rest \in SUBSET Nat /\ Rest # {}
  BY <1>2, <1>3, <1>4
<1>6. PICK n \in Rest : \A m \in Rest : n <= m
  BY <1>5, Least
<1>7. PICK p \in C : n = Len(a) - Len(p)
  BY <1>6
<1>8. \A q \in C : Len(q) <= Len(p)
  <2>1. \A q \in C : Len(a) - Len(q) \in Rest
    OBVIOUS
  <2> HIDE DEF Rest
  <2> QED
    BY <1>2, <1>4, <1>6, <1>7, <2>1
<1> QED
  BY <1>7, <1>8 DEF LongestCommonPrefix, C

LEMMA PruneOf ==
    ASSUME NEW a \in Seq(State), NEW b \in Seq(State)
    PROVE  \E k \in 0..Len(a) :
             /\ k <= Len(b)
             /\ \A i \in 1..k : a[i] = b[i]
             /\ PruneLineage(a, b) = SubSeq(a, k + 1, Len(a))
             /\ PruneLineage(b, a) = SubSeq(b, k + 1, Len(b))
<1> DEFINE p == LongestCommonPrefix({a, b})
           k == Len(p)
<1>1. p \in CommonPrefixes({a, b})
  BY LongestExists
<1>2. {a, b} = {b, a}
  OBVIOUS
<1>3. PruneLineage(a, b) = SubSeq(a, k + 1, Len(a)) /\ PruneLineage(b, a) = SubSeq(b, k + 1, Len(b))
  BY <1>2 DEF PruneLineage
<1>4. IsPrefix(p, a) /\ IsPrefix(p, b) /\ p \in Prefixes(a) \cup Prefixes(b)
  BY <1>1 DEF CommonPrefixes
<1> HIDE DEF p
<1>5. p \in Seq(State)
  BY <1>4 DEF Prefixes
<1>6. k \in Nat /\ k <= Len(a) /\ k <= Len(b) /\ SubSeq(a, 1, k) = SubSeq(b, 1, k)
  BY <1>4, <1>5 DEF IsPrefix
<1> HIDE DEF k
<1>7. \A i \in 1..k : SubSeq(a, 1, k)[i] = a[i] /\ SubSeq(b, 1, k)[i] = b[i]
  BY <1>6
<1>8. k \in 0..Len(a) /\ \A i \in 1..k : a[i] = b[i]
  BY <1>6, <1>7
<1> QED
  BY <1>3, <1>6, <1>8

(* The exits of a call lead up from the current state to a common ancestor, *)
(* and its enters from there down to the target.                            *)
LEMMA CallPath ==
    ASSUME NEW from \in Place, NEW to \in State
    PROVE  /\ Exits(from, to) \in Seq(State) /\ Enters(from, to) \in Seq(State)
           /\ \E base \in Place :
                /\ UpTo(Exits(from, to), base) /\ Begins(from, Exits(from, to), base)
                /\ DownTo(base, Enters(from, to), to)
<1>1. CASE from = to
  <2>1. Exits(from, to) = <<to>> /\ Enters(from, to) = <<to>>
    BY <1>1 DEF Exits, Enters
  <2>2. Begins(from, <<to>>, ParentOf[to])
    BY <1>1 DEF Begins
  <2>3. UpTo(<<to>>, ParentOf[to]) /\ DownTo(ParentOf[to], <<to>>, to)
    BY DEF UpTo, DownTo
  <2> QED
    BY <2>1, <2>2, <2>3, Constants
<1>2. CASE from # to
  <2> DEFINE a == Lineage(from)
             b == Lineage(to)
  <2>1. a \in Seq(State) /\ DownTo(Root, a, from) /\ b \in Seq(State) /\ DownTo(Root, b, to)
    BY LineageDown, Constants
  <2>2. PICK k \in 0..Len(a) :
             /\ k <= Len(b)
             /\ \A i \in 1..k : a[i] = b[i]
             /\ PruneLineage(a, b) = SubSeq(a, k + 1, Len(a))
             /\ PruneLineage(b, a) = SubSeq(b, k + 1, Len(b))
    BY <2>1, PruneOf
  <2> DEFINE below == SubSeq(a, k + 1, Len(a))
             exits == Reverse(below)
             enters == SubSeq(b, k + 1, Len(b))
             base == IF k = 0 THEN Root ELSE a[k]
  <2>3. Exits(from, to) = exits /\ Enters(from, to) = enters
    BY <1>2, <2>2 DEF Exits, Enters
  <2> HIDE DEF a, b
  <2>4. Len(a) \in Nat /\ Len(b) \in Nat /\ k \in Nat /\ k <= Len(a) /\ k <= Len(b)
    BY <2>1, <2>2
  <2>5. /\ below \in Seq(State) /\ Len(below) = Len(a) - k
        /\ \A i \in 1..(Len(a) - k) : below[i] = a[k + i]
    BY <2>1, <2>4
  <2>6. /\ enters \in Seq(State) /\ Len(enters) = Len(b) - k
        /\ \A i \in 1..(Len(b) - k) : enters[i] = b[k + i]
    BY <2>1, <2>4
  <2> HIDE DEF below, enters
  <2>7. /\ exits \in Seq(State) /\ Len(exits) = Len(a) - k
        /\ \A i \in 1..(Len(a) - k) : exits[i] = a[(Len(a) - i) + 1]
    <3>1. /\ exits \in Seq(State) /\ Len(exits) = Len(a) - k
          /\ \A i \in 1..(Len(a) - k) : exits[i] = below[((Len(a) - k) - i) + 1]
      <4>1. /\ exits \in Seq(State) /\ Len(exits) = Len(below)
            /\ \A i \in 1..Len(below) : exits[i] = below[(Len(below) - i) + 1]
        <5> HIDE DEF base
        <5> QED BY <2>5, ReverseOf
      <4> HIDE DEF exits
      <4> QED BY <2>5, <4>1
    <3>2. \A i \in 1..(Len(a) - k) : /\ ((Len(a) - k) - i) + 1 \in 1..(Len(a) - k)
                                     /\ k + (((Len(a) - k) - i) + 1) = (Len(a) - i) + 1
      BY <2>4
    <3> HIDE DEF exits
    <3> QED BY <2>5, <3>1, <3>2
  <2> HIDE DEF exits
  <2>8. DOMAIN a = 1..Len(a) /\ DOMAIN b = 1..Len(b) /\ DOMAIN exits = 1..(Len(a) - k)
        /\ DOMAIN enters = 1..(Len(b) - k)
    BY <2>1, <2>6, <2>7
  <2>9. base \in Place
    BY <2>1, <2>4, Constants DEF Place
  <2>10. UpTo(exits, base)
    <3>1. ASSUME NEW i \in 1..(Len(a) - k)
          PROVE  ParentOf[exits[i]] = IF i = Len(exits) THEN base ELSE exits[i + 1]
      <4> DEFINE j == (Len(a) - i) + 1
      <4>1. j \in 1..Len(a) /\ j - 1 = Len(a) - i /\ (i = Len(exits) <=> j = k + 1)
        BY <2>4, <2>7
      <4>2. ParentOf[a[j]] = IF j = 1 THEN Root ELSE a[j - 1]
        BY <2>1, <2>8, <4>1 DEF DownTo
      <4>3. j # k + 1 => i + 1 \in 1..(Len(a) - k) /\ (Len(a) - (i + 1)) + 1 = j - 1 /\ j # 1
        BY <2>4
      <4>4. exits[i] = a[j]
        BY <2>7
      <4>5. j # k + 1 => exits[i + 1] = a[j - 1]
        BY <2>7, <4>3
      <4> HIDE DEF j
      <4>6. CASE j = k + 1
        <5>1. j - 1 = k /\ (j = 1 <=> k = 0)
          BY <2>4, <4>6
        <5> QED BY <4>1, <4>2, <4>4, <4>6, <5>1
      <4>7. CASE j # k + 1
        BY <4>1, <4>2, <4>3, <4>4, <4>5, <4>7
      <4> QED BY <4>6, <4>7
    <3> QED
      BY <2>8, <3>1 DEF UpTo
  <2>11. Begins(from, exits, base)
    <3>1. CASE k = Len(a)
      <4>1. exits = <<>>
        BY <2>4, <2>7, <3>1
      <4>2. a # <<>> <=> k # 0
        BY <2>1, <3>1
      <4> QED
        BY <2>1, <3>1, <4>1, <4>2 DEF Begins, DownTo
    <3>2. CASE k # Len(a)
      <4>1. 1 \in 1..(Len(a) - k) /\ (Len(a) - 1) + 1 = Len(a) /\ Len(a) # 0
        BY <2>4, <3>2
      <4>2. exits[1] = a[Len(a)]
        BY <2>7, <4>1
      <4>3. exits # <<>> /\ a # <<>>
        BY <2>1, <2>8, <4>1
      <4>4. Head(exits) = exits[1]
        BY <4>3, <2>7
      <4> QED
        BY <2>1, <4>2, <4>3, <4>4 DEF Begins, DownTo
    <3> QED BY <3>1, <3>2
  <2>12. DownTo(base, enters, to)
    <3>1. b # <<>>
      BY <2>1, Constants DEF DownTo
    <3>2. enters = <<>> => base = to
      <4>1. ASSUME enters = <<>> PROVE k = Len(b) /\ k # 0
        BY <2>1, <2>4, <2>6, <3>1, <4>1
      <4>2. ASSUME enters = <<>> PROVE base = b[Len(b)]
        <5>1. k \in 1..k
          BY <2>4, <4>1, <4>2
        <5> QED BY <2>2, <4>1, <4>2, <5>1
      <4> QED BY <2>1, <3>1, <4>2 DEF DownTo
    <3>3. enters # <<>> => enters[Len(enters)] = to
      <4>1. ASSUME enters # <<>>
            PROVE  Len(enters) \in 1..(Len(b) - k) /\ k + Len(enters) = Len(b)
        BY <2>4, <2>6, <4>1
      <4> QED
        BY <2>1, <2>6, <3>1, <4>1 DEF DownTo
    <3>4. ASSUME NEW i \in 1..(Len(b) - k)
          PROVE  ParentOf[enters[i]] = IF i = 1 THEN base ELSE enters[i - 1]
      <4>1. k + i \in 1..Len(b) /\ (k + i) - 1 = k + (i - 1) /\ (i # 1 => k + i # 1)
        BY <2>4
      <4>2. ParentOf[b[k + i]] = IF k + i = 1 THEN Root ELSE b[(k + i) - 1]
        BY <2>1, <2>8, <4>1 DEF DownTo
      <4>3. i # 1 => i - 1 \in 1..(Len(b) - k)
        BY <2>4
      <4>4. i # 1 => enters[i - 1] = b[k + (i - 1)]
        BY <2>6, <4>3
      <4>5. CASE i = 1
        <5>1. k + i = 1 <=> k = 0
          BY <2>4, <4>5
        <5>2. k # 0 => k \in 1..k /\ (k + i) - 1 = k
          BY <2>4, <4>5
        <5>3. k # 0 => a[k] = b[k]
          BY <2>2, <5>2
        <5> QED BY <2>6, <4>2, <4>5, <5>1, <5>2, <5>3
      <4>6. CASE i # 1
        BY <2>6, <4>1, <4>2, <4>4, <4>6
      <4> QED BY <4>5, <4>6
    <3> QED
      BY <2>8, <3>2, <3>3, <3>4 DEF DownTo
  <2> QED
    BY <2>3, <2>6, <2>7, <2>9, <2>10, <2>11, <2>12
<1> QED
  BY <1>1, <1>2

-----------------------------------------------------------------------------
(* Types, whatever the callbacks call.                                      *)

Pending == [target : State, exits : Seq(State), enters : Seq(State), settled : BOOLEAN]
Report == [type : LifecycleType, child : Child]

StackTypes ==
    /\ stack \in Seq(Pending)
    /\ current \in Place
    /\ entered \subseteq State
    /\ running \in BOOLEAN /\ got_sigterm \in BOOLEAN /\ errored \in BOOLEAN

CallTypes ==
    /\ calls \in 0..MaxTransitions
    /\ scheduled \in 0..MaxScheduled
    /\ due \subseteq queue /\ queue \subseteq 1..scheduled
    /\ sent \subseteq (1..scheduled) \ queue

LoopTypes ==
    /\ pc \in {"new", "loop", "check", "send", "receive", "final", "done"}
    /\ spawned \subseteq Child /\ IsFiniteSet(spawned)
    /\ dead \in Seq(Report)
    /\ leaving \in Seq(State)
    /\ told \in Seq(LifecycleType)
    /\ dead # <<>> => pc = "check"
    /\ leaving # <<>> => pc = "final"
    /\ stack # <<>> => pc \notin {"new", "done"}

Typed == StackTypes /\ CallTypes /\ LoopTypes

LEMMA TypedImplies == Typed => TypeOK
BY DEF Typed, StackTypes, CallTypes, LoopTypes, TypeOK, Place, Pending, Report

LEMMA CallType ==
    ASSUME NEW from \in Place, NEW to \in State
    PROVE  Call(from, to) \in Pending
BY CallPath DEF Call, Pending

(* What a callback leaves behind: the caller, and a call on top of it if it *)
(* made one.                                                                *)
LEMMA EffectOn ==
    ASSUME Typed, NEW callback, NEW rest \in Seq(Pending), NEW live \in BOOLEAN,
           Effect(callback, rest, live)
    PROVE  /\ stack' \in Seq(Pending)
           /\ running' \in BOOLEAN /\ errored' \in BOOLEAN
           /\ CallTypes'
           /\ \/ stack' = rest
              \/ callback \in Callers /\ \E to \in State : stack' = <<Call(current, to)>> \o rest
<1> USE DEF Effect, CallTypes
<1>0. current \in Place /\ errored \in BOOLEAN
  BY DEF Typed, StackTypes
<1>1. CASE stack' = rest /\ running' = live /\ UNCHANGED <<callVars, errored>>
  BY <1>0, <1>1 DEF Typed, callVars
<1>2. CASE /\ callback \in Callers /\ calls < MaxTransitions
           /\ \E to \in State : stack' = <<Call(current, to)>> \o rest
           /\ calls' = calls + 1 /\ running' = live
           /\ UNCHANGED <<queue, due, scheduled, sent, errored>>
  <2>1. \A to \in State : <<Call(current, to)>> \o rest \in Seq(Pending)
    BY <1>0, CallType
  <2>2. calls' \in 0..MaxTransitions
    BY <1>2, Constants DEF Typed
  <2> QED
    BY <1>0, <1>2, <2>1, <2>2 DEF Typed
<1>3. CASE /\ scheduled < MaxScheduled
           /\ SendAt
           /\ stack' = rest /\ running' = live
           /\ UNCHANGED <<calls, due, sent, errored>>
  <2>1. scheduled \in Nat /\ scheduled' = scheduled + 1 /\ queue' = queue \cup {scheduled + 1}
    BY <1>3 DEF Typed, SendAt
  <2>2. 1..scheduled \subseteq 1..scheduled' /\ scheduled + 1 \in 1..scheduled'
        /\ scheduled + 1 \notin 1..scheduled /\ scheduled' \in 0..MaxScheduled
    BY <1>3, <2>1, Constants DEF Typed
  <2>3. CallTypes'
    BY <1>3, <2>1, <2>2 DEF Typed
  <2> QED
    BY <1>0, <1>3, <2>3
<1>4. CASE stack' = rest /\ (Exit \/ Error) /\ UNCHANGED callVars
  BY <1>0, <1>4 DEF Typed, callVars, Exit, Error
<1> QED
  BY <1>1, <1>2, <1>3, <1>4

LEMMA TopType ==
    ASSUME StackTypes, stack # <<>>
    PROVE  /\ Top \in Pending /\ Tail(stack) \in Seq(Pending)
           /\ \A call \in Pending : Advance(call) \in Seq(Pending)
<1>1. Tail(stack) \in Seq(Pending) /\ Top \in Pending
  BY DEF StackTypes, Top
<1>2. \A call \in Pending : <<call>> \o Tail(stack) \in Seq(Pending)
  BY <1>1
<1> QED
  BY <1>1, <1>2 DEF Advance

LEMMA LostType ==
    ASSUME NEW T \in SUBSET Child, IsFiniteSet(T), NEW children \in SetToSeqs(T)
    PROVE  Lost(children) \in Seq(Report)
<1>1. Cardinality(T) \in Nat
  BY FS_CardinalityType
<1>2. children \in [1..Cardinality(T) -> T]
  BY DEF SetToSeqs
<1>3. children \in Seq(Child) /\ Len(children) = Cardinality(T)
  BY <1>1, <1>2
<1>4. ASSUME NEW i \in 1..(2 * Len(children))
      PROVE  (i + 1) \div 2 \in 1..Len(children)
  BY <1>1, <1>3
<1>5. \A i \in 1..(2 * Len(children)) : children[(i + 1) \div 2] \in Child
  BY <1>3, <1>4
<1>6. 2 * Len(children) \in Nat
  BY <1>3
<1>7. Lost(children) \in [1..(2 * Len(children)) -> Report]
  BY <1>5 DEF Lost, LifecycleType, Report
<1>8. \A n \in Nat : [1..n -> Report] \subseteq Seq(Report)
  OBVIOUS
<1> QED
  BY <1>6, <1>7, <1>8

LEMMA SuperviseType ==
    ASSUME Typed, NEW t, NEW c \in Child, Supervise(t, c)
    PROVE  spawned' \subseteq Child /\ IsFiniteSet(spawned')
<1>1. spawned \subseteq Child /\ IsFiniteSet(spawned)
  BY DEF Typed, LoopTypes
<1>2. IsFiniteSet(spawned \cup {c}) /\ IsFiniteSet(spawned \ {c})
  BY <1>1, FS_AddElement, FS_RemoveElement
<1>3. spawned' \in {spawned, spawned \cup {c}, spawned \ {c}}
  BY DEF Supervise
<1> QED
  BY <1>1, <1>2, <1>3

LEMMA HandleOn ==
    ASSUME Typed, NEW t, NEW c \in Child, HandleMessage(t, c)
    PROVE  /\ stack' \in Seq(Pending)
           /\ running' \in BOOLEAN /\ errored' \in BOOLEAN
           /\ CallTypes'
           /\ spawned' \subseteq Child /\ IsFiniteSet(spawned')
           /\ \/ stack' = stack
              \/ "receiver" \in Callers
                 /\ \E to \in State : stack' = <<Call(current, to)>> \o stack
<1>1. spawned' \subseteq Child /\ IsFiniteSet(spawned')
  BY SuperviseType DEF HandleMessage
<1>2. CASE Effect("receiver", stack, running /\ t # "exit")
  <2>1. stack \in Seq(Pending) /\ (running /\ t # "exit") \in BOOLEAN
    BY DEF Typed, StackTypes
  <2> QED
    BY <1>1, <1>2, <2>1, EffectOn
<1>3. CASE (Exit \/ Error) /\ UNCHANGED <<stack, callVars>>
  BY <1>1, <1>3 DEF Exit, Error, Typed, StackTypes, CallTypes, callVars
<1> QED
  BY <1>2, <1>3 DEF HandleMessage

LEMMA TypedInit == Init => Typed
<1> SUFFICES ASSUME Init PROVE Typed
  OBVIOUS
<1> USE DEF Init
<1>1. StackTypes
  <2>1. stack \in Seq(Pending)
    OBVIOUS
  <2>2. current \in Place /\ entered \subseteq State
    BY Constants
  <2>3. running \in BOOLEAN /\ got_sigterm \in BOOLEAN /\ errored \in BOOLEAN
    OBVIOUS
  <2> QED
    BY <2>1, <2>2, <2>3 DEF StackTypes
<1>2. CallTypes
  BY Constants DEF CallTypes
<1>3. LoopTypes
  BY FS_EmptySet DEF LoopTypes
<1> QED
  BY <1>1, <1>2, <1>3 DEF Typed

LEMMA TypedNext == Typed /\ [Next]_vars => Typed'
<1> SUFFICES ASSUME Typed, [Next]_vars PROVE Typed'
  OBVIOUS
<1> USE DEF Typed
<1>0. StackTypes /\ CallTypes /\ LoopTypes
  OBVIOUS
<1>1. CASE Transition
  <2>1. CASE InvokeExit
    <3> USE <2>1 DEF InvokeExit
    <3> DEFINE call == [Top EXCEPT !.exits = Tail(@)]
    <3>1. Top \in Pending /\ Top.exits \in Seq(State) /\ Top.exits # <<>>
      BY <1>0, TopType DEF Pending
    <3>2. Tail(Top.exits) \in Seq(State)
      BY <3>1
    <3>3. call \in Pending
      BY <3>1, <3>2 DEF Pending
    <3>4. Advance(call) \in Seq(Pending)
      BY <1>0, <3>3, TopType
    <3> HIDE DEF call
    <3>5. /\ stack' \in Seq(Pending) /\ running' \in BOOLEAN /\ errored' \in BOOLEAN
          /\ CallTypes'
      <4>1. Effect("on_exit", Advance(call), running) /\ running \in BOOLEAN
        BY DEF StackTypes, call
      <4> QED BY <3>4, <4>1, EffectOn
    <3> QED
      BY <1>0, <3>5 DEF StackTypes, LoopTypes, loopVars
  <2>2. CASE SetCurrent
    <3> USE <2>2 DEF SetCurrent
    <3> DEFINE call == [Top EXCEPT !.settled = TRUE]
    <3>1. Top \in Pending
      BY <1>0, TopType
    <3>2. call \in Pending /\ Top.target \in State
      BY <3>1 DEF Pending
    <3>3. stack' \in Seq(Pending)
      BY <1>0, <3>2, TopType
    <3> QED
      BY <1>0, <3>2, <3>3 DEF StackTypes, CallTypes, LoopTypes, loopVars, callVars, lifeVars, Place
  <2>3. CASE InvokeEnter
    <3> USE <2>3 DEF InvokeEnter
    <3> DEFINE call == [Top EXCEPT !.enters = Tail(@)]
               callback == IF Len(Top.enters) = 1 THEN "on_enter" ELSE "on_enter_ancestor"
    <3>1. Top \in Pending /\ Top.enters \in Seq(State) /\ Top.enters # <<>>
      BY <1>0, TopType DEF Pending
    <3>2. Tail(Top.enters) \in Seq(State) /\ Head(Top.enters) \in State
      BY <3>1
    <3>3. call \in Pending
      BY <3>1, <3>2 DEF Pending
    <3>4. Advance(call) \in Seq(Pending)
      BY <1>0, <3>3, TopType
    <3>5. Effect(callback, Advance(call), running) /\ running \in BOOLEAN
      BY DEF StackTypes
    <3> HIDE DEF call, callback
    <3>6. /\ stack' \in Seq(Pending) /\ running' \in BOOLEAN /\ errored' \in BOOLEAN
          /\ CallTypes'
      BY <3>4, <3>5, EffectOn
    <3> QED
      BY <1>0, <3>2, <3>6 DEF StackTypes, LoopTypes, loopVars
  <2>4. CASE Return
    <3>1. Tail(stack) \in Seq(Pending)
      BY <1>0, <2>4, TopType DEF Return
    <3> QED
      BY <1>0, <2>4, <3>1
         DEF Return, StackTypes, CallTypes, LoopTypes, loopVars, callVars, lifeVars
  <2> QED
    BY <1>1, <2>1, <2>2, <2>3, <2>4 DEF Transition
<1>2. CASE Start
  <2> USE <1>2 DEF Start
  <2>1. <<Call(current, Initial)>> \in Seq(Pending)
    BY <1>0, CallType, Constants DEF StackTypes
  <2>2. told' \in Seq(LifecycleType)
    BY <1>0 DEF LoopTypes, LifecycleType
  <2> QED
    BY <1>0, <2>1, <2>2 DEF StackTypes, CallTypes, LoopTypes, callVars, lifeVars
<1>3. CASE CheckChildren
  <2> USE <1>3 DEF CheckChildren
  <2>1. PICK overdue \in SUBSET spawned :
          \E children \in SetToSeqs(overdue) : dead' = Lost(children)
    OBVIOUS
  <2>2. overdue \in SUBSET Child /\ IsFiniteSet(overdue)
    BY <1>0, <2>1, FS_Subset DEF LoopTypes
  <2>3. dead' \in Seq(Report)
    BY <2>1, <2>2, LostType
  <2> QED
    BY <1>0, <2>3 DEF StackTypes, CallTypes, LoopTypes, callVars, lifeVars
<1>4. CASE HandleLost
  <2> USE <1>4 DEF HandleLost
  <2>1. Head(dead) \in Report
        /\ Tail(dead) \in Seq(Report)
    BY <1>0 DEF LoopTypes
  <2>2. Head(dead).child \in Child
    BY <2>1 DEF Report
  <2>3. /\ stack' \in Seq(Pending) /\ running' \in BOOLEAN /\ errored' \in BOOLEAN
        /\ CallTypes' /\ spawned' \subseteq Child /\ IsFiniteSet(spawned')
    BY <2>2, HandleOn
  <2> QED
    BY <1>0, <2>1, <2>3 DEF StackTypes, LoopTypes
<1>5. CASE Pulse
  <2> USE <1>5 DEF Pulse
  <2>1. told' \in Seq(LifecycleType)
    BY <1>0 DEF LoopTypes, LifecycleType
  <2> QED
    BY <1>0, <2>1 DEF StackTypes, CallTypes, LoopTypes, callVars, lifeVars
<1>6. CASE SendScheduled
  BY <1>0, <1>6 DEF SendScheduled, StackTypes, CallTypes, LoopTypes, lifeVars
<1>7. CASE ReceiveNothing
  BY <1>0, <1>7 DEF ReceiveNothing, StackTypes, CallTypes, LoopTypes, callVars, lifeVars
<1>8. CASE ReceiveMessage
  <2> USE <1>8 DEF ReceiveMessage
  <2>1. PICK t \in Type, c \in Child : HandleMessage(t, c)
    OBVIOUS
  <2>2. /\ stack' \in Seq(Pending) /\ running' \in BOOLEAN /\ errored' \in BOOLEAN
        /\ CallTypes' /\ spawned' \subseteq Child /\ IsFiniteSet(spawned')
    BY <2>1, HandleOn
  <2> QED
    BY <1>0, <2>2 DEF StackTypes, LoopTypes
<1>9. CASE Leave
  <2> USE <1>9 DEF Leave
  <2>1. leaving' \in Seq(State)
    BY <1>0, LineageType DEF StackTypes
  <2> QED
    BY <1>0, <2>1 DEF StackTypes, CallTypes, LoopTypes, callVars, lifeVars
<1>10. CASE FinalExit
  <2> USE <1>10 DEF FinalExit
  <2>1. Tail(leaving) \in Seq(State)
    BY <1>0 DEF LoopTypes
  <2>2. stack \in Seq(Pending) /\ running \in BOOLEAN
    BY <1>0 DEF StackTypes
  <2>3. /\ stack' \in Seq(Pending) /\ running' \in BOOLEAN /\ errored' \in BOOLEAN
        /\ CallTypes'
    BY <2>2, EffectOn
  <2> QED
    BY <1>0, <2>1, <2>3 DEF StackTypes, LoopTypes
<1>11. CASE Finish
  <2> USE <1>11 DEF Finish
  <2>1. told' \in Seq(LifecycleType)
    <3>1. (IF errored THEN <<"errored", "exited">> ELSE <<"exited">>) \in Seq(LifecycleType)
      <4>1. <<"errored", "exited">> \in Seq(LifecycleType) /\ <<"exited">> \in Seq(LifecycleType)
        BY DEF LifecycleType
      <4> QED BY <4>1
    <3> QED BY <1>0, <3>1 DEF LoopTypes
  <2> QED
    BY <1>0, <2>1 DEF StackTypes, CallTypes, LoopTypes, callVars, lifeVars
<1>12. CASE SignalHandler
  BY <1>0, <1>12 DEF SignalHandler, StackTypes, CallTypes, LoopTypes, callVars, lifeVars, loopVars
<1>13. CASE Elapse
  BY <1>0, <1>13 DEF Elapse, StackTypes, CallTypes, LoopTypes, lifeVars, loopVars
<1>14. CASE UNCHANGED vars
  BY <1>0, <1>14 DEF vars, StackTypes, CallTypes, LoopTypes, callVars, lifeVars, loopVars
<1> QED
  BY <1>1, <1>2, <1>3, <1>4, <1>5, <1>6, <1>7, <1>8, <1>9, <1>10, <1>11, <1>12, <1>13, <1>14
     DEF Next, Thread

LEMMA TypedHolds == Spec => []Typed
BY TypedInit, TypedNext, PTL DEF Spec

(* Whatever callbacks call, variables keep their types, what CheckChildren  *)
(* and the end of Start have begun is worked off before the loop goes on,   *)
(* and no scheduled message is sent twice.                                  *)
THEOREM MachineTypeOK == Spec => []TypeOK
BY TypedHolds, TypedImplies, PTL

-----------------------------------------------------------------------------
(* Where the machine is in its hierarchy, if callbacks call Transition only *)
(* when nothing is left to be entered.                                      *)

CallsWhenEntered == Callers \subseteq {"receiver", "on_enter"}

Done(call) == call.settled /\ call.exits = <<>> /\ call.enters = <<>>

(* The states entered are the next one to exit, or the place from which the *)
(* call goes down again, and what is above it.                              *)
OnTheWay(call, here, inside) ==
    \E base \in Place :
      /\ UpTo(call.exits, base) /\ DownTo(base, call.enters, call.target)
      /\ inside = Ancestry(IF call.exits = <<>> THEN base ELSE Head(call.exits))
      /\ call.settled => call.exits = <<>> /\ here = call.target

(* Only the innermost call has anything left to do.                         *)
Nested ==
    /\ \A i \in 2..Len(stack) : Done(stack[i])
    /\ pc \in {"new", "send", "receive", "final", "done"} => stack = <<>>

Whereabouts ==
    IF stack = <<>> \/ Done(Top) THEN entered = Ancestry(current) ELSE OnTheWay(Top, current, entered)

WayOut ==
    /\ pc \notin {"final", "done"} => Whereabouts
    /\ pc = "final" => /\ UpTo(leaving, Root)
                       /\ leaving = <<>> => entered = {}
                       /\ leaving # <<>> => entered = Ancestry(Head(leaving))
    /\ pc = "done" => entered = {}

Placed == Nested /\ WayOut

LEMMA PlacedInit == Init => Placed
<1> SUFFICES ASSUME Init PROVE Placed
  OBVIOUS
<1> USE DEF Init
<1>1. Nested
  BY DEF Nested
<1>2. WayOut
  BY AncestryOf DEF WayOut, Whereabouts
<1> QED
  BY <1>1, <1>2 DEF Placed

(* A new call starts where the machine is.                                  *)
LEMMA CallStarts ==
    ASSUME NEW from \in Place, NEW to \in State, NEW here
    PROVE  OnTheWay(Call(from, to), here, Ancestry(from)) /\ ~Call(from, to).settled
<1>1. PICK base \in Place :
                /\ UpTo(Exits(from, to), base) /\ Begins(from, Exits(from, to), base)
                /\ DownTo(base, Enters(from, to), to)
  BY CallPath
<1>2. from = IF Exits(from, to) = <<>> THEN base ELSE Head(Exits(from, to))
  BY <1>1 DEF Begins
<1> QED
  BY <1>1, <1>2 DEF OnTheWay, Call

(* What is left to exit and to enter after a step.                          *)
LEMMA TailUp ==
    ASSUME NEW seq \in Seq(State), seq # <<>>, NEW base, UpTo(seq, base)
    PROVE  /\ Head(seq) \in State /\ Tail(seq) \in Seq(State)
           /\ UpTo(Tail(seq), base)
           /\ ParentOf[Head(seq)] = IF Tail(seq) = <<>> THEN base ELSE Head(Tail(seq))
<1> DEFINE n == Len(seq)
           rest == Tail(seq)
<1>1. n \in Nat /\ n # 0 /\ DOMAIN seq = 1..n /\ Head(seq) = seq[1] /\ Head(seq) \in State
  OBVIOUS
<1>2. rest \in Seq(State) /\ Len(rest) = n - 1 /\ \A i \in 1..(n - 1) : rest[i] = seq[i + 1]
  OBVIOUS
<1>3. DOMAIN rest = 1..(n - 1) /\ (rest # <<>> => Head(rest) = rest[1]) /\ (rest = <<>> <=> n = 1)
  BY SMTT(30), <1>1, <1>2
<1> HIDE DEF n, rest
<1>4. \A i \in 1..n : ParentOf[seq[i]] = IF i = n THEN base ELSE seq[i + 1]
  BY <1>1 DEF UpTo, n
<1>5. ParentOf[Head(seq)] = IF rest = <<>> THEN base ELSE Head(rest)
  <2>1. 1 \in 1..n /\ (n # 1 => 1 \in 1..(n - 1))
    BY <1>1
  <2>2. ParentOf[seq[1]] = IF n = 1 THEN base ELSE seq[1 + 1]
    BY <1>4, <2>1
  <2> QED BY <1>1, <1>2, <1>3, <2>1, <2>2
<1>6. ASSUME NEW i \in 1..(n - 1)
      PROVE  ParentOf[rest[i]] = IF i = Len(rest) THEN base ELSE rest[i + 1]
  <2>1. i + 1 \in 1..n /\ (i + 1 = n <=> i = n - 1) /\ (i # n - 1 => i + 1 \in 1..(n - 1))
    BY <1>1
  <2>2. ParentOf[seq[i + 1]] = IF i + 1 = n THEN base ELSE seq[(i + 1) + 1]
    BY <1>4, <2>1
  <2> QED BY <1>2, <2>1, <2>2
<1>7. UpTo(rest, base)
  BY <1>3, <1>6 DEF UpTo
<1> QED
  BY <1>1, <1>2, <1>5, <1>7 DEF rest

LEMMA TailDown ==
    ASSUME NEW seq \in Seq(State), seq # <<>>, NEW base, NEW target, DownTo(base, seq, target)
    PROVE  /\ Head(seq) \in State /\ Tail(seq) \in Seq(State)
           /\ DownTo(Head(seq), Tail(seq), target)
           /\ ParentOf[Head(seq)] = base
<1> DEFINE n == Len(seq)
           rest == Tail(seq)
<1>1. n \in Nat /\ n # 0 /\ DOMAIN seq = 1..n /\ Head(seq) = seq[1] /\ Head(seq) \in State
  OBVIOUS
<1>2. rest \in Seq(State) /\ Len(rest) = n - 1 /\ \A i \in 1..(n - 1) : rest[i] = seq[i + 1]
  OBVIOUS
<1> HIDE DEF n, rest
<1>3. DOMAIN rest = 1..(n - 1) /\ (rest = <<>> <=> n = 1)
  <2>1. \A s \in Seq(State) : DOMAIN s = 1..Len(s) /\ (s = <<>> <=> Len(s) = 0)
    OBVIOUS
  <2> QED BY <1>1, <1>2, <2>1
<1>4. /\ \A i \in 1..n : ParentOf[seq[i]] = IF i = 1 THEN base ELSE seq[i - 1]
      /\ seq[n] = target
  BY <1>1 DEF DownTo, n
<1>5. ParentOf[Head(seq)] = base
  <2>1. 1 \in 1..n
    BY <1>1
  <2> QED BY <1>1, <1>4, <2>1
<1>6. ASSUME NEW i \in 1..(n - 1)
      PROVE  ParentOf[rest[i]] = IF i = 1 THEN Head(seq) ELSE rest[i - 1]
  <2>1. i + 1 \in 1..n /\ i + 1 # 1 /\ (i + 1) - 1 = i /\ (i # 1 => i - 1 \in 1..(n - 1) /\ (i - 1) + 1 = i)
    BY <1>1
  <2>2. ParentOf[seq[i + 1]] = seq[i]
    BY <1>4, <2>1
  <2> QED BY <1>1, <1>2, <2>1, <2>2
<1>7. rest = <<>> => Head(seq) = target
  BY <1>1, <1>3, <1>4
<1>8. rest # <<>> => rest[Len(rest)] = target
  <2>1. ASSUME rest # <<>> PROVE n - 1 \in 1..(n - 1) /\ (n - 1) + 1 = n
    BY <1>1, <1>3, <2>1
  <2> QED BY <1>2, <1>4, <2>1
<1>9. DownTo(Head(seq), rest, target)
  BY <1>3, <1>6, <1>7, <1>8 DEF DownTo
<1> QED
  BY <1>1, <1>2, <1>5, <1>9 DEF rest

LEMMA ExitStep ==
    ASSUME NEW call \in Pending, NEW here, NEW inside, OnTheWay(call, here, inside),
           call.exits # <<>>
    PROVE  /\ OnTheWay([call EXCEPT !.exits = Tail(@)], here, inside \ {Head(call.exits)})
           /\ ~call.settled
           /\ Head(call.exits) \in State /\ inside = Ancestry(Head(call.exits))
<1> DEFINE e == call.exits
<1>1. PICK base \in Place :
      /\ UpTo(e, base) /\ DownTo(base, call.enters, call.target)
      /\ inside = Ancestry(Head(e))
      /\ ~call.settled
  BY DEF OnTheWay
<1>2. e \in Seq(State)
  BY DEF Pending
<1>3. /\ Head(e) \in State /\ UpTo(Tail(e), base)
      /\ ParentOf[Head(e)] = IF Tail(e) = <<>> THEN base ELSE Head(Tail(e))
  BY <1>1, <1>2, TailUp
<1>4. inside \ {Head(e)} = Ancestry(ParentOf[Head(e)])
  <2>1. Ancestry(Head(e)) = {Head(e)} \cup Ancestry(ParentOf[Head(e)])
    BY <1>3, AncestryOf
  <2>2. Head(e) \notin Ancestry(ParentOf[Head(e)])
    BY <1>3, AncestryProper
  <2> QED BY <1>1, <2>1, <2>2
<1> DEFINE next == [call EXCEPT !.exits = Tail(@)]
<1>5. next.exits = Tail(e) /\ next.enters = call.enters /\ next.target = call.target
      /\ next.settled = call.settled
  BY DEF Pending
<1> HIDE DEF next, e
<1>6. OnTheWay(next, here, inside \ {Head(e)})
  BY <1>1, <1>3, <1>4, <1>5 DEF OnTheWay
<1> QED
  BY <1>1, <1>3, <1>6 DEF next, e

LEMMA SettleStep ==
    ASSUME NEW call \in Pending, NEW here, NEW inside, OnTheWay(call, here, inside),
           call.exits = <<>>
    PROVE  OnTheWay([call EXCEPT !.settled = TRUE], call.target, inside)
<1> DEFINE next == [call EXCEPT !.settled = TRUE]
<1>1. next.exits = call.exits /\ next.enters = call.enters /\ next.target = call.target
  BY DEF Pending
<1> HIDE DEF next
<1>2. OnTheWay(next, call.target, inside)
  BY <1>1 DEF OnTheWay
<1> QED
  BY <1>2 DEF next

LEMMA EnterStep ==
    ASSUME NEW call \in Pending, NEW here, NEW inside, OnTheWay(call, here, inside),
           call.exits = <<>>, call.enters # <<>>
    PROVE  /\ OnTheWay([call EXCEPT !.enters = Tail(@)], here, inside \cup {Head(call.enters)})
           /\ Head(call.enters) \notin inside
           /\ ParentOf[Head(call.enters)] \in inside \cup {Root}
<1> DEFINE e == call.enters
<1>1. PICK base \in Place :
      /\ UpTo(call.exits, base) /\ DownTo(base, e, call.target)
      /\ inside = Ancestry(base)
      /\ call.settled => call.exits = <<>> /\ here = call.target
  BY DEF OnTheWay
<1>2. e \in Seq(State)
  BY DEF Pending
<1>3. Head(e) \in State /\ DownTo(Head(e), Tail(e), call.target) /\ ParentOf[Head(e)] = base
  BY <1>1, <1>2, TailDown
<1>4. inside \cup {Head(e)} = Ancestry(Head(e)) /\ Head(e) \notin inside
  BY <1>1, <1>3, AncestryOf, AncestryProper
<1>5. ParentOf[Head(e)] \in inside \cup {Root}
  <2>1. base = Root \/ base \in Ancestry(base)
    BY AncestryOf DEF Place
  <2> QED BY <1>1, <1>3, <2>1
<1> DEFINE next == [call EXCEPT !.enters = Tail(@)]
<1>6. next.exits = <<>> /\ next.enters = Tail(e) /\ next.target = call.target
      /\ next.settled = call.settled
  BY DEF Pending
<1> HIDE DEF next, e
<1>7. UpTo(<<>>, Head(e)) /\ Head(e) \in Place
  BY <1>3 DEF UpTo, Place
<1>8. OnTheWay(next, here, inside \cup {Head(e)})
  BY <1>1, <1>3, <1>4, <1>6, <1>7 DEF OnTheWay
<1> QED
  BY <1>4, <1>5, <1>8 DEF next, e

LEMMA Arrived ==
    ASSUME NEW call, NEW here, NEW inside, OnTheWay(call, here, inside), Done(call)
    PROVE  inside = Ancestry(here)
BY DEF OnTheWay, Done, DownTo

LEMMA TopIsFirst ==
    ASSUME StackTypes, stack # <<>>
    PROVE  /\ \A call \in Pending :
                /\ Advance(call) # <<>> /\ Advance(call)[1] = call
                /\ Len(Advance(call)) = Len(stack)
                /\ \A i \in 2..Len(stack) : Advance(call)[i] = stack[i]
           /\ Len(Tail(stack)) = Len(stack) - 1 /\ Len(stack) \in Nat
           /\ \A i \in 1..(Len(stack) - 1) : Tail(stack)[i] = stack[i + 1]
<1> DEFINE rest == Tail(stack)
           n == Len(stack)
<1>1. /\ n \in Nat /\ n # 0 /\ rest \in Seq(Pending) /\ Len(rest) = n - 1
      /\ \A i \in 1..(n - 1) : rest[i] = stack[i + 1]
  BY DEF StackTypes
<1> HIDE DEF rest, n
<1>2. ASSUME NEW call \in Pending
      PROVE  /\ <<call>> \o rest # <<>> /\ (<<call>> \o rest)[1] = call
             /\ Len(<<call>> \o rest) = n
             /\ \A i \in 2..n : (<<call>> \o rest)[i] = stack[i]
  <2>1. /\ <<call>> \o rest # <<>> /\ (<<call>> \o rest)[1] = call
        /\ Len(<<call>> \o rest) = n
        /\ \A i \in 1..(n - 1) : (<<call>> \o rest)[i + 1] = rest[i]
    BY <1>1
  <2>2. \A i \in 2..n : i - 1 \in 1..(n - 1) /\ (i - 1) + 1 = i
    BY <1>1
  <2>3. ASSUME NEW i \in 2..n PROVE (<<call>> \o rest)[i] = stack[i]
    <3>1. (<<call>> \o rest)[(i - 1) + 1] = rest[i - 1] /\ rest[i - 1] = stack[(i - 1) + 1]
      BY <1>1, <2>1, <2>2
    <3> QED BY <2>2, <3>1
  <2> QED BY <2>1, <2>3
<1> QED
  BY <1>1, <1>2 DEF Advance, rest, n

(* Where the machine is when a callback returns: if it made a call, the     *)
(* caller below has nothing left to do.                                     *)
LEMMA PushedOn ==
    ASSUME NEW rest \in Seq(Pending), NEW here \in Place, NEW to \in State,
           NEW next, next = <<Call(here, to)>> \o rest
    PROVE  /\ next # <<>> /\ next[1] = Call(here, to) /\ Len(next) = Len(rest) + 1
           /\ \A i \in 2..Len(next) : i - 1 \in 1..Len(rest) /\ next[i] = rest[i - 1]
<1> DEFINE call == Call(here, to)
<1>1. call \in Pending
  BY CallType
<1> HIDE DEF call
<1>2. /\ <<call>> \o rest # <<>> /\ (<<call>> \o rest)[1] = call
      /\ Len(<<call>> \o rest) = Len(rest) + 1 /\ Len(rest) \in Nat
      /\ \A i \in 1..Len(rest) : (<<call>> \o rest)[i + 1] = rest[i]
  BY <1>1
<1>3. \A i \in 2..(Len(rest) + 1) : i - 1 \in 1..Len(rest) /\ (i - 1) + 1 = i
  BY <1>2
<1>4. ASSUME NEW i \in 2..(Len(rest) + 1) PROVE (<<call>> \o rest)[i] = rest[i - 1]
  <2>1. (<<call>> \o rest)[(i - 1) + 1] = rest[i - 1]
    BY <1>2, <1>3
  <2> QED BY <1>3, <2>1
<1> QED
  BY <1>2, <1>3, <1>4 DEF call

(* A message is looked at only when no call is in progress.                 *)
LEMMA HandlePlaced ==
    ASSUME Typed, stack = <<>>, entered = Ancestry(current),
           NEW t, NEW c \in Child, HandleMessage(t, c), UNCHANGED <<current, entered>>
    PROVE  (\A i \in 2..Len(stack) : Done(stack[i]))' /\ Whereabouts'
<1>1. stack \in Seq(Pending) /\ current \in Place
  BY DEF Typed, StackTypes
<1>2. CASE stack' = stack
  BY <1>2 DEF Whereabouts
<1>3. CASE \E to \in State : stack' = <<Call(current, to)>> \o stack
  <2>1. PICK to \in State : stack' = <<Call(current, to)>> \o stack
    BY <1>3
  <2>2. stack' # <<>> /\ stack'[1] = Call(current, to) /\ Len(stack') = 1
    BY <1>1, <2>1, PushedOn
  <2>3. OnTheWay(Call(current, to), current, entered) /\ ~Call(current, to).settled
    BY <1>1, CallStarts
  <2>4. Whereabouts'
    BY <2>2, <2>3 DEF Whereabouts, Top, Done
  <2> QED
    BY <2>2, <2>4
<1> QED
  BY <1>2, <1>3, HandleOn

(* The caller was advanced, and made no call.                               *)
LEMMA AdvancedPlaced ==
    ASSUME Typed, Nested, stack # <<>>, pc' = pc, pc \notin {"final", "done"},
           NEW call \in Pending, stack' = Advance(call), OnTheWay(call, current', entered')
    PROVE  Placed'
<1>0. StackTypes
  BY DEF Typed
<1>1. /\ stack' # <<>> /\ Top' = call /\ Len(stack') = Len(stack)
      /\ \A i \in 2..Len(stack) : stack'[i] = stack[i]
  BY <1>0, TopIsFirst DEF Top
<1>2. Nested'
  BY <1>1 DEF Nested
<1>3. Whereabouts'
  <2>1. Done(call) => entered' = Ancestry(current')
    BY Arrived
  <2> QED
    BY <1>1, <2>1 DEF Whereabouts
<1> QED
  BY <1>2, <1>3 DEF Placed, WayOut

LEMMA TailOfOne ==
    ASSUME NEW seq \in Seq(State), seq # <<>>, Len(seq) = 1
    PROVE  Tail(seq) = <<>>
<1>1. Tail(seq) \in Seq(State) /\ Len(Tail(seq)) = Len(seq) - 1
  OBVIOUS
<1>2. \A s \in Seq(State) : Len(s) = 0 => s = <<>>
  OBVIOUS
<1> DEFINE rest == Tail(seq)
<1>3. rest \in Seq(State) /\ Len(rest) = 0
  <2>1. Len(rest) = Len(seq) - 1
    BY <1>1
  <2> HIDE DEF rest
  <2> QED BY <1>1, <2>1 DEF rest
<1> HIDE DEF rest
<1>4. rest = <<>>
  BY <1>2, <1>3
<1> QED BY <1>4 DEF rest

LEMMA TransitionPlaced ==
    ASSUME Typed, Placed, CallsWhenEntered, Transition
    PROVE  Placed'
<1>0. StackTypes /\ stack # <<>> /\ pc' = pc /\ pc \notin {"final", "done"}
      /\ Nested /\ Whereabouts /\ Top \in Pending
  <2>1. stack # <<>> /\ pc' = pc
    BY DEF Transition, InvokeExit, SetCurrent, InvokeEnter, Return, loopVars
  <2> QED
    BY <2>1, TopType DEF Typed, Placed, Nested, WayOut
<1>1. ~Done(Top) => OnTheWay(Top, current, entered)
  BY <1>0 DEF Whereabouts
<1>2. CASE InvokeExit
  <2> USE <1>2 DEF InvokeExit
  <2> DEFINE call == [Top EXCEPT !.exits = Tail(@)]
  <2>1. OnTheWay(Top, current, entered) /\ Top.exits # <<>>
    BY <1>1 DEF Done
  <2>2. OnTheWay(call, current, entered \ {Head(Top.exits)})
    BY <1>0, <2>1, ExitStep
  <2>3. call \in Pending
    <3>1. Top.exits \in Seq(State)
      BY <1>0 DEF Pending
    <3>2. Tail(Top.exits) \in Seq(State)
      BY <2>1, <3>1
    <3> QED BY <1>0, <3>2 DEF Pending
  <2>4. Effect("on_exit", Advance(call), running) /\ current' = current
        /\ entered' = entered \ {Head(Top.exits)}
    OBVIOUS
  <2> HIDE DEF call
  <2>5. Advance(call) \in Seq(Pending) /\ running \in BOOLEAN
    BY <1>0, <2>3, TopType DEF StackTypes
  <2>6. stack' = Advance(call)
    <3>1. "on_exit" \notin Callers
      BY DEF CallsWhenEntered
    <3> QED BY <2>4, <2>5, <3>1, EffectOn
  <2> QED
    BY <1>0, <2>2, <2>3, <2>4, <2>6, AdvancedPlaced
<1>3. CASE SetCurrent
  <2> USE <1>3 DEF SetCurrent
  <2> DEFINE call == [Top EXCEPT !.settled = TRUE]
  <2>1. OnTheWay(Top, current, entered) /\ Top.exits = <<>>
    BY <1>1 DEF Done
  <2>2. OnTheWay(call, Top.target, entered)
    BY <1>0, <2>1, SettleStep
  <2>3. call \in Pending
    BY <1>0 DEF Pending
  <2>4. stack' = Advance(call) /\ current' = Top.target /\ entered' = entered
    OBVIOUS
  <2> HIDE DEF call
  <2> QED
    BY <1>0, <2>2, <2>3, <2>4, AdvancedPlaced
<1>4. CASE InvokeEnter
  <2> USE <1>4 DEF InvokeEnter
  <2> DEFINE call == [Top EXCEPT !.enters = Tail(@)]
             callback == IF Len(Top.enters) = 1 THEN "on_enter" ELSE "on_enter_ancestor"
  <2>1. OnTheWay(Top, current, entered) /\ Top.enters # <<>> /\ Top.settled
    BY <1>1 DEF Done
  <2>2. Top.exits = <<>>
    BY <2>1 DEF OnTheWay
  <2>3. OnTheWay(call, current, entered \cup {Head(Top.enters)})
    BY <1>0, <2>1, <2>2, EnterStep
  <2>4. Top.enters \in Seq(State)
    BY <1>0 DEF Pending
  <2>5. call \in Pending
    <3>1. Tail(Top.enters) \in Seq(State)
      BY <2>1, <2>4
    <3> QED BY <1>0, <3>1 DEF Pending
  <2>6. Effect(callback, Advance(call), running) /\ current' = current
        /\ entered' = entered \cup {Head(Top.enters)}
    OBVIOUS
  <2>7. Len(Top.enters) = 1 => Done(call)
    <3>1. Len(Top.enters) = 1 => Tail(Top.enters) = <<>>
      BY <2>1, <2>4, TailOfOne
    <3> QED BY <1>0, <2>1, <2>2, <3>1 DEF Done, Pending
  <2>8. callback \in Callers => Len(Top.enters) = 1
    BY DEF CallsWhenEntered
  <2> HIDE DEF call, callback
  <2>9. Advance(call) \in Seq(Pending) /\ running \in BOOLEAN /\ current \in Place
    BY <1>0, <2>5, TopType DEF StackTypes
  <2>10. CASE stack' = Advance(call)
    BY <1>0, <2>3, <2>5, <2>6, <2>10, AdvancedPlaced
  <2>11. CASE callback \in Callers
              /\ \E to \in State : stack' = <<Call(current, to)>> \o Advance(call)
    <3>1. PICK to \in State : stack' = <<Call(current, to)>> \o Advance(call)
      BY <2>11
    <3>2. Done(call) /\ entered' = Ancestry(current)
      BY <2>3, <2>6, <2>7, <2>8, <2>11, Arrived
    <3>3. /\ stack' # <<>> /\ stack'[1] = Call(current, to)
          /\ Len(stack') = Len(Advance(call)) + 1
          /\ \A i \in 2..Len(stack') : /\ i - 1 \in 1..Len(Advance(call))
                                       /\ stack'[i] = Advance(call)[i - 1]
      BY <2>9, <3>1, PushedOn
    <3>4. /\ Advance(call)[1] = call /\ Len(Advance(call)) = Len(stack) /\ Len(stack) \in Nat
          /\ \A i \in 2..Len(stack) : Advance(call)[i] = stack[i]
      BY <1>0, <2>5, TopIsFirst
    <3>5. ASSUME NEW i \in 1..Len(stack) PROVE Done(Advance(call)[i])
      <4>1. CASE i = 1
        BY <3>2, <3>4, <4>1
      <4>2. CASE i # 1
        <5>1. i \in 2..Len(stack)
          BY <3>4, <4>2
        <5> QED BY <1>0, <3>4, <5>1 DEF Nested
      <4> QED BY <4>1, <4>2
    <3>6. Nested'
      BY <1>0, <3>3, <3>4, <3>5 DEF Nested
    <3>7. OnTheWay(Call(current, to), current, Ancestry(current)) /\ ~Call(current, to).settled
      BY <2>9, CallStarts
    <3>8. Whereabouts'
      BY <2>6, <3>2, <3>3, <3>7 DEF Whereabouts, Top, Done
    <3> QED
      BY <1>0, <3>6, <3>8 DEF Placed, WayOut
  <2> QED
    BY <2>6, <2>9, <2>10, <2>11, EffectOn
<1>5. CASE Return
  <2> USE <1>5 DEF Return
  <2>1. Done(Top) /\ entered = Ancestry(current)
    <3>1. Done(Top)
      BY <1>1 DEF Done, OnTheWay
    <3> QED BY <1>0, <3>1 DEF Whereabouts
  <2>2. /\ Len(Tail(stack)) = Len(stack) - 1 /\ Len(stack) \in Nat
        /\ \A i \in 1..(Len(stack) - 1) : Tail(stack)[i] = stack[i + 1]
    BY <1>0, TopIsFirst
  <2>3. Tail(stack) \in Seq(Pending) /\ stack' = Tail(stack)
    BY <1>0, TopType
  <2>4. ASSUME NEW i \in 1..Len(stack') PROVE Done(stack'[i])
    <3>1. i \in 1..(Len(stack) - 1) /\ i + 1 \in 2..Len(stack)
      BY <2>2, <2>3
    <3> QED BY <1>0, <2>2, <2>3, <3>1 DEF Nested
  <2>5. Nested'
    <3>1. \A i \in 2..Len(stack') : i \in 1..Len(stack')
      OBVIOUS
    <3> QED BY <1>0, <2>4, <3>1 DEF Nested
  <2>6. Whereabouts'
    <3>1. stack' # <<>> => 1 \in 1..Len(stack')
      BY <2>3
    <3> QED BY <2>1, <2>4, <3>1 DEF Whereabouts, Top
  <2> QED
    BY <1>0, <2>5, <2>6 DEF Placed, WayOut
<1> QED
  BY <1>2, <1>3, <1>4, <1>5 DEF Transition

LEMMA PlacedNext == CallsWhenEntered /\ Typed /\ Placed /\ [Next]_vars => Placed'
<1> SUFFICES ASSUME CallsWhenEntered, Typed, Placed, [Next]_vars PROVE Placed'
  OBVIOUS
<1>0. StackTypes /\ LoopTypes /\ Nested /\ WayOut
  BY DEF Typed, Placed
<1> DEFINE Still == UNCHANGED <<stack, current, entered>>
<1>1. CASE Transition
  BY <1>1, TransitionPlaced
<1>2. CASE Start
  <2> USE <1>2 DEF Start
  <2>1. stack = <<>> /\ entered = Ancestry(current) /\ current \in Place
    BY <1>0 DEF Nested, WayOut, Whereabouts, StackTypes
  <2>2. stack' # <<>> /\ Top' = Call(current, Initial) /\ Len(stack') = 1
    BY DEF Top
  <2>3. OnTheWay(Call(current, Initial), current, entered) /\ ~Call(current, Initial).settled
    BY <2>1, Constants, CallStarts
  <2>4. Whereabouts'
    BY <2>2, <2>3 DEF Whereabouts, Done
  <2>5. Nested'
    BY <2>2 DEF Nested
  <2> QED
    BY <2>4, <2>5 DEF Placed, WayOut
<1>3. CASE CheckChildren
  <2>1. Still /\ pc' = "check" /\ pc = "loop"
    BY <1>3 DEF CheckChildren
  <2> QED
    BY <1>0, <2>1 DEF Placed, Nested, WayOut, Whereabouts, Top
<1>4. CASE HandleLost
  <2> USE <1>4 DEF HandleLost
  <2>1. Head(dead).child \in Child
    <3>1. Head(dead) \in Report
      BY <1>0 DEF LoopTypes
    <3> QED BY <3>1 DEF Report
  <2>2. stack = <<>> /\ entered = Ancestry(current) /\ UNCHANGED <<current, entered>>
        /\ pc' = "check" /\ HandleMessage(Head(dead).type, Head(dead).child)
    BY <1>0 DEF WayOut, Whereabouts
  <2>3. (\A i \in 2..Len(stack) : Done(stack[i]))' /\ Whereabouts'
    BY <2>1, <2>2, HandlePlaced
  <2> QED
    BY <2>2, <2>3 DEF Placed, Nested, WayOut
<1>5. CASE Pulse
  <2>1. Still /\ pc' = "send" /\ pc = "check" /\ stack = <<>>
    BY <1>5 DEF Pulse
  <2> QED
    BY <1>0, <2>1 DEF Placed, Nested, WayOut, Whereabouts, Top
<1>6. CASE SendScheduled
  <2>1. Still /\ pc' = "receive" /\ pc = "send"
    BY <1>6 DEF SendScheduled
  <2> QED
    BY <1>0, <2>1 DEF Placed, Nested, WayOut, Whereabouts, Top
<1>7. CASE ReceiveNothing
  <2>1. Still /\ pc' = "loop" /\ pc = "receive"
    BY <1>7 DEF ReceiveNothing
  <2> QED
    BY <1>0, <2>1 DEF Placed, Nested, WayOut, Whereabouts, Top
<1>8. CASE ReceiveMessage
  <2> USE <1>8 DEF ReceiveMessage
  <2>1. PICK t \in Type, c \in Child : HandleMessage(t, c)
    OBVIOUS
  <2>2. stack = <<>> /\ entered = Ancestry(current) /\ UNCHANGED <<current, entered>>
        /\ pc' = "loop"
    BY <1>0 DEF Nested, WayOut, Whereabouts
  <2>3. (\A i \in 2..Len(stack) : Done(stack[i]))' /\ Whereabouts'
    BY <2>1, <2>2, HandlePlaced
  <2> QED
    BY <2>2, <2>3 DEF Placed, Nested, WayOut
<1>9. CASE Leave
  <2> USE <1>9 DEF Leave
  <2> DEFINE up == StateLineage[current]
  <2>1. stack = <<>> /\ entered = Ancestry(current) /\ current \in Place
    BY <1>0 DEF WayOut, Whereabouts, StackTypes
  <2>2. UpTo(up, Root) /\ Begins(current, up, Root)
    BY <2>1, LineageUp
  <2>3. leaving' = up /\ entered' = entered /\ stack' = <<>> /\ pc' = "final"
    BY <2>1
  <2> HIDE DEF up
  <2>4. (up = <<>> => entered = {}) /\ (up # <<>> => entered = Ancestry(Head(up)))
    BY <2>1, <2>2, AncestryOf DEF Begins
  <2> QED
    BY <2>2, <2>3, <2>4 DEF Placed, Nested, WayOut
<1>10. CASE FinalExit
  <2> USE <1>10 DEF FinalExit
  <2>1. leaving \in Seq(State) /\ leaving # <<>> /\ UpTo(leaving, Root)
        /\ entered = Ancestry(Head(leaving))
    BY <1>0 DEF LoopTypes, WayOut
  <2>2. /\ Head(leaving) \in State /\ UpTo(Tail(leaving), Root)
        /\ ParentOf[Head(leaving)] = IF Tail(leaving) = <<>> THEN Root ELSE Head(Tail(leaving))
    BY <2>1, TailUp
  <2>3. entered' = Ancestry(ParentOf[Head(leaving)])
    BY <2>1, <2>2, AncestryOf, AncestryProper
  <2>4. stack' = <<>>
    <3>1. stack \in Seq(Pending) /\ running \in BOOLEAN /\ "on_exit" \notin Callers
      BY <1>0 DEF StackTypes, CallsWhenEntered
    <3> QED BY <3>1, EffectOn
  <2>5. leaving' = Tail(leaving) /\ pc' = "final"
    OBVIOUS
  <2> QED
    BY <2>2, <2>3, <2>4, <2>5, AncestryOf DEF Placed, Nested, WayOut
<1>11. CASE Finish
  <2>1. Still /\ pc' = "done" /\ pc = "final" /\ leaving = <<>> /\ stack = <<>>
    BY <1>11 DEF Finish
  <2> QED
    BY <1>0, <2>1 DEF Placed, Nested, WayOut
<1>12. CASE SignalHandler
  <2>1. Still /\ UNCHANGED <<pc, leaving>>
    BY <1>12 DEF SignalHandler, loopVars
  <2> QED
    BY <1>0, <2>1 DEF Placed, Nested, WayOut, Whereabouts, Top
<1>13. CASE Elapse
  <2>1. Still /\ UNCHANGED <<pc, leaving>>
    BY <1>13 DEF Elapse, loopVars
  <2> QED
    BY <1>0, <2>1 DEF Placed, Nested, WayOut, Whereabouts, Top
<1>14. CASE UNCHANGED vars
  <2>1. Still /\ UNCHANGED <<pc, leaving>>
    BY <1>14 DEF vars, loopVars
  <2> QED
    BY <1>0, <2>1 DEF Placed, Nested, WayOut, Whereabouts, Top
<1> QED
  BY <1>1, <1>2, <1>3, <1>4, <1>5, <1>6, <1>7, <1>8, <1>9, <1>10, <1>11, <1>12, <1>13, <1>14
     DEF Next, Thread

LEMMA PlacedHolds == CallsWhenEntered => (Spec => []Placed)
<1> SUFFICES ASSUME CallsWhenEntered PROVE Spec => []Placed
  OBVIOUS
<1>1. Typed /\ Placed /\ [Next]_vars => Placed'
  BY PlacedNext
<1> QED
  BY <1>1, PlacedInit, TypedHolds, PTL DEF Spec

LEMMA PlacedImplies == Typed /\ Placed => ActionsMatch /\ SettledInLineage
<1> SUFFICES ASSUME Typed, Placed PROVE ActionsMatch /\ SettledInLineage
  OBVIOUS
<1>0. StackTypes /\ LoopTypes /\ Nested /\ WayOut
  BY DEF Typed, Placed
<1>1. SettledInLineage
  BY <1>0 DEF SettledInLineage, WayOut, Whereabouts, Ancestry
<1>2. \A s \in State : Innermost(s) <=> s \in entered /\ \A e \in entered : ParentOf[e] # s
  BY DEF Innermost
<1>3. ASSUME stack # <<>>
      PROVE  /\ Top.exits # <<>> => Innermost(Head(Top.exits))
             /\ Top.exits = <<>> /\ Top.enters # <<>> =>
                  LET s == Head(Top.enters)
                  IN  s \notin entered /\ ParentOf[s] \in entered \cup {Root}
  <2>1. Whereabouts /\ Top \in Pending
    BY <1>0, <1>3, TopType DEF Nested, WayOut, LoopTypes
  <2>2. CASE Done(Top)
    BY <2>2 DEF Done
  <2>3. CASE ~Done(Top)
    <3>1. OnTheWay(Top, current, entered)
      BY <1>3, <2>1, <2>3 DEF Whereabouts
    <3>2. ASSUME Top.exits # <<>> PROVE Innermost(Head(Top.exits))
      <4>1. Head(Top.exits) \in State /\ entered = Ancestry(Head(Top.exits))
        BY <2>1, <3>1, <3>2, ExitStep
      <4> QED BY <1>2, <4>1, AncestryOf, AncestryProper
    <3>3. ASSUME Top.exits = <<>>, Top.enters # <<>>
          PROVE  /\ Head(Top.enters) \notin entered
                 /\ ParentOf[Head(Top.enters)] \in entered \cup {Root}
      BY <2>1, <3>1, <3>3, EnterStep
    <3> QED BY <3>2, <3>3
  <2> QED BY <2>2, <2>3
<1>4. ASSUME leaving # <<>> PROVE Innermost(Head(leaving))
  <2>1. leaving \in Seq(State) /\ entered = Ancestry(Head(leaving))
    BY <1>0, <1>4 DEF LoopTypes, WayOut
  <2>2. Head(leaving) \in State
    BY <1>4, <2>1
  <2> QED BY <1>2, <2>1, <2>2, AncestryOf, AncestryProper
<1>5. \A call \in ToSet(stack) : stack # <<>>
  BY <1>0 DEF ToSet, StackTypes
<1> QED
  BY <1>1, <1>3, <1>4, <1>5 DEF ActionsMatch

(* "An action is triggered when a state is entered or exited" (README.md):  *)
(* in any hierarchy, an on_exit belongs to the innermost state that is      *)
(* entered and an on_enter to a state below one that is, if only receivers  *)
(* and the on_enter of the target of a transition call Transition.          *)
THEOREM ActionsMatchHolds == CallsWhenEntered => (Spec => []ActionsMatch)
<1> SUFFICES ASSUME CallsWhenEntered PROVE Spec => []ActionsMatch
  OBVIOUS
<1> QED
  BY TypedHolds, PlacedHolds, PlacedImplies, PTL

(* Under the same condition exactly the current state and its ancestors are *)
(* entered whenever the machine looks at a message.                         *)
THEOREM SettledInLineageHolds == CallsWhenEntered => (Spec => []SettledInLineage)
<1> SUFFICES ASSUME CallsWhenEntered PROVE Spec => []SettledInLineage
  OBVIOUS
<1> QED
  BY TypedHolds, PlacedHolds, PlacedImplies, PTL

-----------------------------------------------------------------------------
(* What the parent is told.                                                 *)

Heard == {"started", "pulsed"}

LastWords == IF errored THEN <<"errored", "exited">> ELSE <<"exited">>

ToldSoFar ==
    /\ pc = "new" => told = <<>>
    /\ pc \notin {"new", "done"} => told \in Seq(Heard) /\ told # <<>>
    /\ pc = "done" => \E before \in Seq(Heard) : before # <<>> /\ told = before \o LastWords

LEMMA ToldInit == Init => ToldSoFar
BY DEF Init, ToldSoFar

LEMMA ToldNext == Typed /\ ToldSoFar /\ [Next]_vars => ToldSoFar'
<1> SUFFICES ASSUME Typed, ToldSoFar, [Next]_vars PROVE ToldSoFar'
  OBVIOUS
<1>0. LoopTypes
  BY DEF Typed
<1>1. CASE pc' = pc /\ told' = told /\ pc # "done"
  BY <1>1 DEF ToldSoFar
<1>2. CASE pc' = pc /\ told' = told /\ errored' = errored
  BY <1>2 DEF ToldSoFar, LastWords
<1>3. CASE told' = told /\ pc \notin {"new", "done"} /\ pc' \notin {"new", "done"}
  BY <1>3 DEF ToldSoFar
<1>4. CASE Transition
  <2>1. stack # <<>> /\ UNCHANGED <<pc, told>>
    BY <1>4 DEF Transition, InvokeExit, SetCurrent, InvokeEnter, Return, loopVars
  <2> QED BY <1>0, <1>1, <2>1 DEF LoopTypes
<1>5. CASE Start
  <2>1. told' = <<"started">> /\ pc' = "loop"
    BY <1>5 DEF Start, ToldSoFar
  <2>2. <<"started">> \in Seq(Heard) /\ <<"started">> # <<>>
    BY DEF Heard
  <2> QED BY <2>1, <2>2 DEF ToldSoFar
<1>6. CASE CheckChildren \/ HandleLost \/ SendScheduled \/ ReceiveNothing \/ ReceiveMessage
           \/ Leave \/ FinalExit
  BY <1>3, <1>6 DEF CheckChildren, HandleLost, SendScheduled, ReceiveNothing, ReceiveMessage,
                    Leave, FinalExit
<1>7. CASE Pulse
  <2>1. told \in Seq(Heard) /\ told # <<>> /\ pc' = "send"
    BY <1>7 DEF Pulse, ToldSoFar
  <2>2. Append(told, "pulsed") \in Seq(Heard) /\ Append(told, "pulsed") # <<>>
    BY <2>1 DEF Heard
  <2>3. told' \in {told, Append(told, "pulsed")}
    BY <1>7 DEF Pulse
  <2> QED BY <2>1, <2>2, <2>3 DEF ToldSoFar
<1>8. CASE Finish
  <2>1. told \in Seq(Heard) /\ told # <<>> /\ pc' = "done"
    BY <1>8 DEF Finish, ToldSoFar
  <2>2. told' = told \o LastWords' /\ errored' = errored
    BY <1>8 DEF Finish, LastWords, lifeVars
  <2> QED BY <2>1, <2>2 DEF ToldSoFar
<1>9. CASE SignalHandler \/ Elapse \/ UNCHANGED vars
  BY <1>2, <1>9 DEF SignalHandler, Elapse, vars, loopVars, lifeVars
<1> QED
  BY <1>4, <1>5, <1>6, <1>7, <1>8, <1>9 DEF Next, Thread

LEMMA ToldHolds == Spec => []ToldSoFar
BY TypedHolds, ToldInit, ToldNext, PTL DEF Spec

LEMMA ToldImplies == Typed /\ Placed /\ ToldSoFar => ParentToldTruly
<1> SUFFICES ASSUME Typed, Placed, ToldSoFar, "exited" \in ToSet(told)
             PROVE  entered = {} /\ stack = <<>> /\ (errored <=> told[Len(told) - 1] = "errored")
  BY DEF ParentToldTruly
<1>1. \A s \in Seq(Heard) : "exited" \notin ToSet(s)
  <2>1. \A s \in Seq(Heard) : \A i \in DOMAIN s : s[i] \in Heard
    OBVIOUS
  <2> QED BY <2>1 DEF ToSet, Heard
<1>2. pc = "done"
  <2>1. "exited" \notin ToSet(<<>>)
    BY DEF ToSet
  <2> QED BY <1>1, <2>1 DEF ToldSoFar
<1>3. entered = {} /\ stack = <<>>
  BY <1>2 DEF Placed, Nested, WayOut
<1>4. PICK before \in Seq(Heard) : before # <<>> /\ told = before \o LastWords
  BY <1>2 DEF ToldSoFar
<1>5. Len(before) \in Nat /\ Len(before) \in 1..Len(before) /\ before[Len(before)] \in Heard
  BY <1>4
<1>6. CASE errored
  <2>1. told = before \o <<"errored", "exited">>
    BY <1>4, <1>6 DEF LastWords
  <2>2. Len(told) = Len(before) + 2 /\ told[Len(before) + 1] = "errored"
    BY <2>1
  <2>3. Len(told) - 1 = Len(before) + 1
    BY <1>5, <2>2
  <2> QED BY <1>3, <1>6, <2>2, <2>3
<1>7. CASE ~errored
  <2>1. told = before \o <<"exited">>
    BY <1>4, <1>7 DEF LastWords
  <2>2. Len(told) = Len(before) + 1 /\ told[Len(before)] = before[Len(before)]
    BY <1>5, <2>1
  <2>3. Len(told) - 1 = Len(before)
    BY <1>5, <2>2
  <2> QED BY <1>3, <1>5, <1>7, <2>2, <2>3 DEF Heard
<1> QED BY <1>6, <1>7

(* A machine that told its parent "exited" has exited every state, and said *)
(* "errored" before exactly when an error was raised.                       *)
THEOREM ParentToldTrulyHolds == CallsWhenEntered => (Spec => []ParentToldTruly)
<1> SUFFICES ASSUME CallsWhenEntered PROVE Spec => []ParentToldTruly
  OBVIOUS
<1> QED
  BY TypedHolds, PlacedHolds, ToldHolds, ToldImplies, PTL

=============================================================================
