------------------------------- MODULE GcProofs -------------------------------
(***************************************************************************)
(* What plan_gc returns: the actions of Gc, each once, in an order that is *)
(* total. The plan is defined by a CHOOSE of a sorted sequence; that there *)
(* is one follows from the rank of an element, the number of those before  *)
(* it.                                                                     *)
(***************************************************************************)
EXTENDS Gc, FiniteSetTheorems, SequenceTheorems, TLAPS

\* The pairs of before order S, and no two elements of it are equal in rank.
Orders(before, S) ==
  /\ \A x \in S : <<x, x>> \notin before
  /\ \A x, y, z \in S :
       <<x, y>> \in before /\ <<y, z>> \in before => <<x, z>> \in before
  /\ \A x, y \in S : x = y \/ <<x, y>> \in before \/ <<y, x>> \in before

Predecessors(S, before, x) == {y \in S : <<y, x>> \in before}

-----------------------------------------------------------------------------
(* Sorting a finite set.                                                   *)

(* The rank of an element counts those before it, and grows with the order. *)
LEMMA Ranks ==
  ASSUME NEW S, IsFiniteSet(S), NEW before, Orders(before, S)
  PROVE  /\ \A x \in S : Cardinality(Predecessors(S, before, x)) \in 0..(Cardinality(S) - 1)
         /\ \A x, y \in S :
              <<x, y>> \in before =>
                Cardinality(Predecessors(S, before, x)) < Cardinality(Predecessors(S, before, y))
PROOF
  <1> DEFINE P(x) == Predecessors(S, before, x)
  <1>1. ASSUME NEW x \in S
        PROVE  /\ IsFiniteSet(P(x))
               /\ Cardinality(P(x)) \in Nat
               /\ Cardinality(P(x)) < Cardinality(S)
    <2>1. P(x) \in SUBSET S /\ P(x) # S
      BY DEF Predecessors, Orders
    <2>2. /\ IsFiniteSet(P(x))
          /\ Cardinality(P(x)) <= Cardinality(S)
          /\ Cardinality(S) = Cardinality(P(x)) => S = P(x)
      BY <2>1, FS_Subset
    <2>3. Cardinality(P(x)) \in Nat /\ Cardinality(S) \in Nat
      BY <2>2, FS_CardinalityType
    <2> QED
      BY <2>1, <2>2, <2>3
  <1>2. ASSUME NEW x \in S, NEW y \in S, <<x, y>> \in before
        PROVE  Cardinality(P(x)) < Cardinality(P(y))
    <2>1. P(x) \in SUBSET P(y) /\ x \in P(y) /\ x \notin P(x)
      BY <1>2 DEF Predecessors, Orders
    <2>2. /\ Cardinality(P(x)) <= Cardinality(P(y))
          /\ Cardinality(P(y)) = Cardinality(P(x)) => P(x) = P(y)
      BY <2>1, <1>1, FS_Subset
    <2>3. Cardinality(P(x)) \in Nat /\ Cardinality(P(y)) \in Nat
      BY <1>1
    <2> QED
      BY <2>1, <2>2, <2>3
  <1>3. Cardinality(S) \in Nat
    BY FS_CardinalityType
  <1> QED
    BY <1>1, <1>2, <1>3

(* Each rank is that of exactly one element.                               *)
LEMMA EachRankOnce ==
  ASSUME NEW S, IsFiniteSet(S), NEW before, Orders(before, S)
  PROVE  [x \in S |-> Cardinality(Predecessors(S, before, x)) + 1]
           \in Bijection(S, 1..Cardinality(S))
PROOF
  <1> DEFINE n == Cardinality(S)
             rank == [x \in S |-> Cardinality(Predecessors(S, before, x)) + 1]
  <1>1. n \in Nat /\ IsFiniteSet(1..n) /\ Cardinality(1..n) = n
    BY FS_CardinalityType, FS_Interval
  <1>2. rank \in [S -> 1..n]
    BY <1>1, Ranks
  <1>3. \A x, y \in S : x # y => rank[x] # rank[y]
    <2> SUFFICES ASSUME NEW x \in S, NEW y \in S, <<x, y>> \in before
                 PROVE  rank[x] # rank[y]
      BY DEF Orders
    <2> QED
      BY <1>2, Ranks
  <1>4. rank \in Injection(S, 1..n)
    BY <1>2, <1>3 DEF Injection, IsInjective
  <1>5. rank \in Surjection(S, 1..n)
    BY <1>1, <1>4, FS_Injection
  <1> QED
    BY <1>4, <1>5 DEF Bijection

(* A finite set has an ordered sequence of its elements, and InOrder is one. *)
LEMMA InOrderFacts ==
  ASSUME NEW S, IsFiniteSet(S), NEW before, Orders(before, S)
  PROVE  /\ Cardinality(S) \in Nat
         /\ InOrder(S, before) \in [1..Cardinality(S) -> S]
         /\ \A i, j \in 1..Cardinality(S) :
              i < j => <<InOrder(S, before)[i], InOrder(S, before)[j]>> \in before
         /\ \A i, j \in 1..Cardinality(S) :
              InOrder(S, before)[i] = InOrder(S, before)[j] => i = j
         /\ \A x \in S : \E i \in 1..Cardinality(S) : InOrder(S, before)[i] = x
PROOF
  <1> DEFINE n == Cardinality(S)
             rank == [x \in S |-> Cardinality(Predecessors(S, before, x)) + 1]
             sorted(seq) == \A i, j \in 1..n : i < j => <<seq[i], seq[j]>> \in before
  <1>1. n \in Nat /\ IsFiniteSet(1..n) /\ Cardinality(1..n) = n
    BY FS_CardinalityType, FS_Interval
  <1>2. rank \in Bijection(S, 1..n)
    BY EachRankOnce
  <1>3. \A x, y \in S : <<x, y>> \in before => rank[x] < rank[y]
    BY Ranks
  <1> HIDE DEF rank
  <1>4. \E seq \in [1..n -> S] : sorted(seq)
    <2> DEFINE inverse == [i \in 1..n |-> CHOOSE x \in S : rank[x] = i]
    <2>1. \A i \in 1..n : \E x \in S : rank[x] = i
      BY <1>2 DEF Bijection, Surjection
    <2>2. \A i \in 1..n : inverse[i] \in S /\ rank[inverse[i]] = i
      BY <2>1
    <2>3. inverse \in [1..n -> S]
      BY <2>2
    <2> HIDE DEF inverse
    <2>4. ASSUME NEW i \in 1..n, NEW j \in 1..n, i < j
          PROVE  <<inverse[i], inverse[j]>> \in before
      <3>1. rank[inverse[i]] = i /\ rank[inverse[j]] = j
        BY <2>2
      <3>2. inverse[i] # inverse[j] /\ ~(<<inverse[j], inverse[i]>> \in before)
        BY <1>1, <1>3, <2>2, <2>4, <3>1
      <3> QED
        BY <2>2, <3>2 DEF Orders
    <2> QED
      BY <2>3, <2>4
  <1> DEFINE seq == InOrder(S, before)
  <1>5. seq \in [1..n -> S] /\ sorted(seq)
    BY <1>4 DEF InOrder
  <1> HIDE DEF seq
  <1>6. \A i, j \in 1..n : seq[i] = seq[j] => i = j
    <2> SUFFICES ASSUME NEW i \in 1..n, NEW j \in 1..n, i < j
                 PROVE  seq[i] # seq[j]
      BY <1>1
    <2> QED
      BY <1>5 DEF Orders
  <1>7. seq \in Injection(1..n, S)
    BY <1>5, <1>6 DEF Injection, IsInjective
  <1>8. seq \in Surjection(1..n, S)
    BY <1>1, <1>7, FS_Injection
  <1>9. \A x \in S : \E i \in 1..n : seq[i] = x
    BY <1>8 DEF Surjection
  <1> QED
    BY <1>1, <1>5, <1>6, <1>9 DEF seq

-----------------------------------------------------------------------------
(* The plan.                                                               *)

\* What a BTreeMap of the ids of this development can hold.
WellFormed(m) ==
  /\ IsFiniteSet(DOMAIN m.workspaces)
  /\ DOMAIN m.workspaces \subseteq Nat
  /\ IsFiniteSet(DOMAIN m.snapshots)
  /\ DOMAIN m.snapshots \subseteq Nat
  /\ \A s \in DOMAIN m.snapshots :
       m.snapshots[s].workspace \in Nat /\ m.snapshots[s].created \in Int

WorkspaceAction(w) == [kind |-> "DeleteWorkspace", id |-> w]
SnapshotAction(s)  == [kind |-> "DeleteSnapshot", id |-> s]

(* The keys of a map are in order, and so is the sort of the snapshots: by *)
(* workspace, then the newest first, then by id.                           *)
LEMMA PlansAreOrdered ==
  ASSUME NEW m, WellFormed(m)
  PROVE  /\ \A S \in SUBSET DOMAIN m.workspaces : Orders(WorkspacesInOrder(m), S)
         /\ \A S \in SUBSET DOMAIN m.snapshots : Orders(SnapshotsInOrder(m), S)
PROOF
  <1>1. \A S \in SUBSET DOMAIN m.workspaces : Orders(WorkspacesInOrder(m), S)
    BY DEF WellFormed, WorkspacesInOrder, Orders
  <1>2. ASSUME NEW x \in DOMAIN m.snapshots, NEW y \in DOMAIN m.snapshots,
               NEW z \in DOMAIN m.snapshots
        PROVE  /\ ~PlannedBefore(m, x, x)
               /\ PlannedBefore(m, x, y) /\ PlannedBefore(m, y, z) => PlannedBefore(m, x, z)
               /\ x = y \/ PlannedBefore(m, x, y) \/ PlannedBefore(m, y, x)
    BY <1>2 DEF WellFormed, PlannedBefore, Newer
  <1>3. \A S \in SUBSET DOMAIN m.snapshots : Orders(SnapshotsInOrder(m), S)
    BY <1>2 DEF SnapshotsInOrder, Orders
  <1> QED
    BY <1>1, <1>3

(* The actions of a kind: one for each of the ids.                         *)
LEMMA ActionsFacts ==
  ASSUME NEW S, IsFiniteSet(S), NEW before, Orders(before, S), NEW kind
  PROVE  LET list == Actions(kind, InOrder(S, before))
         IN  /\ list \in Seq([kind : {kind}, id : S])
             /\ Len(list) = Cardinality(S)
             /\ \A i, j \in 1..Len(list) : list[i].id = list[j].id => i = j
             /\ \A x \in S : \E i \in 1..Len(list) : list[i] = [kind |-> kind, id |-> x]
PROOF
  <1> DEFINE n == Cardinality(S)
             ids == InOrder(S, before)
             list == Actions(kind, ids)
  <1>1. /\ n \in Nat
        /\ ids \in [1..n -> S]
        /\ \A i, j \in 1..n : ids[i] = ids[j] => i = j
        /\ \A x \in S : \E i \in 1..n : ids[i] = x
    BY InOrderFacts
  <1> HIDE DEF ids, n
  <1>2. list = [i \in 1..n |-> [kind |-> kind, id |-> ids[i]]]
    BY <1>1 DEF Actions
  <1> HIDE DEF list
  <1>3. list \in [1..n -> [kind : {kind}, id : S]]
    BY <1>1, <1>2
  <1>4. list \in Seq([kind : {kind}, id : S]) /\ Len(list) = n
    <2> DEFINE T == [kind : {kind}, id : S]
    <2> HIDE DEF T
    <2>0. list \in [1..n -> T]
      BY <1>3 DEF T
    <2>1. list \in Seq(T)
      BY <1>1, <2>0, SeqDef
    <2>2. DOMAIN list = 1..n
      BY <1>3
    <2> QED
      BY <1>1, <2>1, <2>2 DEF T
  <1>5. /\ \A i, j \in 1..Len(list) : list[i].id = list[j].id => i = j
        /\ \A x \in S : \E i \in 1..Len(list) : list[i] = [kind |-> kind, id |-> x]
    BY <1>1, <1>2, <1>4
  <1> QED
    BY <1>4, <1>5 DEF list, ids, n

\* The actions plan_gc asks for, without their order.
Asked(m, now) ==
  {WorkspaceAction(w) : w \in Expired(m, now)}
    \cup {SnapshotAction(s) : s \in Surplus(m) \ Protected(m)}

(* A plan has each of these once and nothing else: the order of the plan   *)
(* and the way it is sorted do not matter to what is asked for.            *)
THEOREM PlanFacts ==
  ASSUME NEW m, WellFormed(m), NEW now
  PROVE  /\ PlanGc(m, now) \in Seq(Asked(m, now))
         /\ \A i, j \in 1..Len(PlanGc(m, now)) :
              PlanGc(m, now)[i] = PlanGc(m, now)[j] => i = j
         /\ \A a \in Asked(m, now) : \E i \in 1..Len(PlanGc(m, now)) : PlanGc(m, now)[i] = a
PROOF
  <1> DEFINE W == Expired(m, now)
             S == Surplus(m) \ Protected(m)
             A == Asked(m, now)
             first == DeleteWorkspaces(m, now)
             second == DeleteSnapshots(m, S)
             plan == PlanGc(m, now)
  <1>1. W \in SUBSET DOMAIN m.workspaces /\ S \in SUBSET DOMAIN m.snapshots
    BY DEF Expired, Surplus
  <1>2. IsFiniteSet(W) /\ IsFiniteSet(S)
    BY <1>1, FS_Subset DEF WellFormed
  <1>3. Orders(WorkspacesInOrder(m), W) /\ Orders(SnapshotsInOrder(m), S)
    BY <1>1, PlansAreOrdered
  <1> HIDE DEF W, S
  <1>4. /\ first \in Seq([kind : {"DeleteWorkspace"}, id : W])
        /\ \A i, j \in 1..Len(first) : first[i].id = first[j].id => i = j
        /\ \A w \in W : \E i \in 1..Len(first) :
             first[i] = [kind |-> "DeleteWorkspace", id |-> w]
    BY <1>2, <1>3, ActionsFacts DEF DeleteWorkspaces, W
  <1>5. /\ second \in Seq([kind : {"DeleteSnapshot"}, id : S])
        /\ \A i, j \in 1..Len(second) : second[i].id = second[j].id => i = j
        /\ \A s \in S : \E i \in 1..Len(second) :
             second[i] = [kind |-> "DeleteSnapshot", id |-> s]
    BY <1>2, <1>3, ActionsFacts DEF DeleteSnapshots
  <1>6. plan = first \o second
    BY DEF PlanGc, S
  <1>7. /\ [kind : {"DeleteWorkspace"}, id : W] \subseteq A
        /\ [kind : {"DeleteSnapshot"}, id : S] \subseteq A
        /\ \A a \in A : \/ \E w \in W : a = [kind |-> "DeleteWorkspace", id |-> w]
                        \/ \E s \in S : a = [kind |-> "DeleteSnapshot", id |-> s]
    BY DEF Asked, WorkspaceAction, SnapshotAction, W, S
  <1> HIDE DEF first, second, A, plan
  <1>8. first \in Seq(A) /\ second \in Seq(A)
    BY <1>4, <1>5, <1>7, SeqMonotonic
  <1>9. /\ plan \in Seq(A)
        /\ Len(plan) = Len(first) + Len(second)
        /\ \A i \in 1..Len(plan) : plan[i] = IF i <= Len(first) THEN first[i]
                                             ELSE second[i - Len(first)]
    BY <1>6, <1>8, ConcatProperties
  <1>10. Len(first) \in Nat /\ Len(second) \in Nat
    BY <1>8, LenProperties
  <1>11. /\ \A i \in 1..Len(first) : first[i].kind = "DeleteWorkspace"
         /\ \A i \in 1..Len(second) : second[i].kind = "DeleteSnapshot"
    <2>1. \A i \in 1..Len(first) : first[i] \in [kind : {"DeleteWorkspace"}, id : W]
      BY <1>4, ElementOfSeq
    <2>2. \A i \in 1..Len(second) : second[i] \in [kind : {"DeleteSnapshot"}, id : S]
      BY <1>5, ElementOfSeq
    <2> QED
      BY <2>1, <2>2
  <1>12. ASSUME NEW i \in 1..Len(plan), NEW j \in 1..Len(plan), plan[i] = plan[j]
         PROVE  i = j
    <2>1. CASE i <= Len(first) /\ j <= Len(first)
      BY <1>4, <1>9, <1>10, <1>12, <2>1
    <2>2. CASE i > Len(first) /\ j > Len(first)
      <3>1. i - Len(first) \in 1..Len(second) /\ j - Len(first) \in 1..Len(second)
        BY <1>9, <1>10, <2>2
      <3>2. second[i - Len(first)] = second[j - Len(first)]
        BY <1>9, <1>10, <1>12, <2>2
      <3>3. i - Len(first) = j - Len(first)
        BY <1>5, <3>1, <3>2
      <3> QED
        BY <1>10, <3>3
    <2>3. CASE i <= Len(first) /\ j > Len(first)
      BY <1>9, <1>10, <1>11, <1>12, <2>3
    <2>4. CASE i > Len(first) /\ j <= Len(first)
      BY <1>9, <1>10, <1>11, <1>12, <2>4
    <2> QED
      BY <1>9, <1>10, <2>1, <2>2, <2>3, <2>4
  <1>13. ASSUME NEW a \in A
         PROVE  \E i \in 1..Len(plan) : plan[i] = a
    <2>1. CASE \E i \in 1..Len(first) : first[i] = a
      BY <1>9, <1>10, <2>1
    <2>2. CASE \E i \in 1..Len(second) : second[i] = a
      <3>1. PICK i \in 1..Len(second) : second[i] = a
        BY <2>2
      <3>2. i + Len(first) \in 1..Len(plan) /\ plan[i + Len(first)] = second[i]
        BY <1>9, <1>10
      <3> QED
        BY <3>1, <3>2
    <2> QED
      BY <1>4, <1>5, <1>7, <2>1, <2>2
  <1> QED
    BY <1>9, <1>12, <1>13 DEF plan, A

(* The actions of a plan, and no action in it twice.                       *)
LEMMA PlanIsAsked ==
  ASSUME NEW m, WellFormed(m), NEW now
  PROVE  Range(PlanGc(m, now)) = Asked(m, now) /\ IsInjective(PlanGc(m, now))
PROOF
  <1> DEFINE list == PlanGc(m, now)
             A == Asked(m, now)
  <1>1. /\ list \in Seq(A)
        /\ \A i, j \in 1..Len(list) : list[i] = list[j] => i = j
        /\ \A a \in A : \E i \in 1..Len(list) : list[i] = a
    BY PlanFacts
  <1> HIDE DEF list, A
  <1>2. DOMAIN list = 1..Len(list) /\ \A i \in 1..Len(list) : list[i] \in A
    BY <1>1, LenProperties, ElementOfSeq
  <1>3. Range(list) = A /\ IsInjective(list)
    BY <1>1, <1>2 DEF Range, IsInjective
  <1> QED
    BY <1>3 DEF list, A

-----------------------------------------------------------------------------
(* What a workspace keeps.                                                 *)

\* The snapshots taken of the same workspace as s, and those newer than it.
Siblings(m, s) ==
  {t \in DOMAIN m.snapshots : m.snapshots[t].workspace = m.snapshots[s].workspace}
NewerSiblings(m, s) == {t \in Siblings(m, s) : Newer(m, t, s)}

(* Among the snapshots newer than a surplus one there are Retain that are  *)
(* not surplus themselves.                                                 *)
THEOREM RetainedAreKept ==
  ASSUME NEW m, WellFormed(m), NEW s \in Surplus(m)
  PROVE  Cardinality(NewerSiblings(m, s) \ Surplus(m)) >= Retain
PROOF
  <1> DEFINE G == Siblings(m, s)
             before == SnapshotsInOrder(m)
             n == Cardinality(G)
             rank == [x \in G |-> Cardinality(Predecessors(G, before, x)) + 1]
             K == {x \in G : rank[x] <= Retain}
  <1>1. G \in SUBSET DOMAIN m.snapshots /\ s \in G
    BY DEF Siblings, Surplus
  <1>2. IsFiniteSet(G) /\ Orders(before, G)
    BY <1>1, FS_Subset, PlansAreOrdered DEF WellFormed
  <1>3. ASSUME NEW x \in G
        PROVE  /\ Predecessors(G, before, x) = NewerSiblings(m, x)
               /\ Predecessors(G, before, x)
                    = {t \in DOMAIN m.snapshots :
                         /\ m.snapshots[t].workspace = m.snapshots[x].workspace
                         /\ Newer(m, t, x)}
    BY <1>1 DEF Predecessors, NewerSiblings, Siblings, SnapshotsInOrder, PlannedBefore,
                WellFormed
  <1>4. rank \in Bijection(G, 1..n)
    BY <1>2, EachRankOnce
  <1>5. n \in Nat /\ \A x \in G : rank[x] \in 1..n
    BY <1>2, <1>4, FS_CardinalityType DEF Bijection, Injection
  <1>6. \A x \in G : rank[x] = Cardinality(Predecessors(G, before, x)) + 1
    OBVIOUS
  <1>7. \A x, y \in G : <<x, y>> \in before => rank[x] < rank[y]
    BY <1>2, Ranks
  <1> HIDE DEF rank
  <1>8. \A x \in G : x \in Surplus(m) <=> rank[x] > Retain
    <2> SUFFICES ASSUME NEW x \in G PROVE x \in Surplus(m) <=> rank[x] > Retain
      OBVIOUS
    <2>1. x \in Surplus(m) <=> Cardinality(Predecessors(G, before, x)) >= Retain
      BY <1>1, <1>3 DEF Surplus
    <2>2. Cardinality(Predecessors(G, before, x)) \in 0..(n - 1)
      BY <1>2, Ranks
    <2> QED
      BY <1>5, <1>6, <2>1, <2>2, GcAssumption
  <1>9. Retain < rank[s]
    BY <1>1, <1>8
  <1>10. K \subseteq NewerSiblings(m, s) \ Surplus(m)
    <2> SUFFICES ASSUME NEW x \in K PROVE x \in NewerSiblings(m, s) \ Surplus(m)
      OBVIOUS
    <2>1. x \in G /\ rank[x] < rank[s]
      BY <1>1, <1>5, <1>9, GcAssumption
    <2>2. x \notin Surplus(m)
      BY <1>5, <1>8, <2>1, GcAssumption
    <2>3. <<x, s>> \in before
      <3> HIDE DEF G, before
      <3>1. rank[x] \in Int /\ rank[s] \in Int /\ x \in G /\ s \in G
        BY <1>1, <1>5, <2>1
      <3>2. ~(<<s, x>> \in before) /\ x # s
        BY <1>7, <2>1, <3>1
      <3> QED
        BY <1>2, <3>1, <3>2 DEF Orders
    <2>4. x \in Predecessors(G, before, s)
      BY <2>1, <2>3 DEF Predecessors
    <2> QED
      BY <1>1, <1>3, <2>2, <2>4
  <1>11. Cardinality(K) = Retain
    <2> DEFINE place == [i \in 1..Retain |-> CHOOSE x \in G : rank[x] = i]
    <2>1. 1..Retain \subseteq 1..n
      BY <1>1, <1>5, <1>9, GcAssumption
    <2>2. \A i \in 1..Retain : \E x \in G : rank[x] = i
      BY <1>4, <2>1 DEF Bijection, Surjection
    <2>3. \A i \in 1..Retain : place[i] \in G /\ rank[place[i]] = i
      BY <2>2
    <2> HIDE DEF place
    <2>4. place \in [1..Retain -> K]
      BY <2>3, GcAssumption DEF place
    <2>5. place \in Injection(1..Retain, K)
      BY <2>3, <2>4 DEF Injection, IsInjective
    <2>6. \A x, y \in G : rank[x] = rank[y] => x = y
      BY <1>4 DEF Bijection, Injection, IsInjective
    <2>7. place \in Surjection(1..Retain, K)
      BY <1>5, <2>3, <2>4, <2>6, GcAssumption DEF Surjection
    <2>8. ExistsBijection(1..Retain, K)
      BY <2>5, <2>7 DEF ExistsBijection, Bijection
    <2> QED
      BY <2>8, FS_CountingElements, GcAssumption
  <1>12. IsFiniteSet(NewerSiblings(m, s) \ Surplus(m))
    BY <1>2, FS_Subset DEF NewerSiblings
  <1>13. Cardinality(K) <= Cardinality(NewerSiblings(m, s) \ Surplus(m))
    BY <1>10, <1>12, FS_Subset
  <1> QED
    BY <1>11, <1>13, <1>12, FS_CardinalityType, GcAssumption

(* With no fewer newer snapshots of its workspace a snapshot stays surplus. *)
LEMMA SurplusCarries ==
  ASSUME NEW m, IsFiniteSet(DOMAIN m.snapshots), NEW n, NEW s \in Surplus(n),
         s \in DOMAIN m.snapshots, NewerSiblings(n, s) \subseteq NewerSiblings(m, s)
  PROVE  s \in Surplus(m)
PROOF
  <1> DEFINE newer(k) == {t \in DOMAIN k.snapshots :
                            /\ k.snapshots[t].workspace = k.snapshots[s].workspace
                            /\ Newer(k, t, s)}
  <1>1. newer(m) = NewerSiblings(m, s) /\ newer(n) = NewerSiblings(n, s)
    BY DEF NewerSiblings, Siblings
  <1>2. Cardinality(newer(n)) >= Retain
    BY DEF Surplus
  <1>3. IsFiniteSet(newer(m))
    BY FS_Subset
  <1> HIDE DEF newer
  <1>4. IsFiniteSet(newer(n)) /\ Cardinality(newer(n)) <= Cardinality(newer(m))
    BY <1>1, <1>3, FS_Subset
  <1>5. Cardinality(newer(n)) \in Nat /\ Cardinality(newer(m)) \in Nat
    BY <1>3, <1>4, FS_CardinalityType
  <1>6. Cardinality(newer(m)) >= Retain
    BY <1>2, <1>4, <1>5, GcAssumption
  <1> QED
    BY <1>6 DEF Surplus, newer

(* Of fewer snapshots no more are surplus.                                 *)
LEMMA SurplusShrinks ==
  ASSUME NEW m, IsFiniteSet(DOMAIN m.snapshots), NEW n,
         \A s \in DOMAIN n.snapshots :
           s \in DOMAIN m.snapshots /\ n.snapshots[s] = m.snapshots[s]
  PROVE  Surplus(n) \subseteq Surplus(m)
PROOF
  <1> SUFFICES ASSUME NEW s \in Surplus(n) PROVE s \in Surplus(m)
    OBVIOUS
  <1>1. s \in DOMAIN n.snapshots
    BY DEF Surplus
  <1>2. NewerSiblings(n, s) \subseteq NewerSiblings(m, s)
    BY <1>1 DEF NewerSiblings, Siblings, Newer
  <1> QED
    BY <1>1, <1>2, SurplusCarries

(* A plan that asks for nothing is the empty one.                          *)
LEMMA NothingAsked ==
  ASSUME NEW m, WellFormed(m), NEW now, Asked(m, now) = {}
  PROVE  PlanGc(m, now) = <<>>
PROOF
  <1>1. PlanGc(m, now) \in Seq({})
    BY PlanFacts
  <1>2. \A n \in 1..Len(PlanGc(m, now)) : PlanGc(m, now)[n] \in {}
    BY <1>1, ElementOfSeq
  <1>3. PlanGc(m, now) # <<>> => 1 \in 1..Len(PlanGc(m, now))
    BY <1>1, EmptySeq
  <1> QED
    BY <1>2, <1>3
=============================================================================
