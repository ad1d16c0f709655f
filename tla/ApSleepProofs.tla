---------------------------- MODULE ApSleepProofs ----------------------------
(***************************************************************************)
(* Proofs about a station that dozes behind the access point, for any      *)
(* number of frames and any widths: the counters of the sleep queue are    *)
(* exact, a buffered frame is announced, and the frames of a category are  *)
(* sent in order.  The frames of a category stand in line: those sent,     *)
(* then its transmit queue, then the sleep queue of the receiver.  The     *)
(* loops of the code are folds over a queue; what one turn of a loop       *)
(* keeps, the loop keeps, by the fold lemmas at the start.                 *)
(***************************************************************************)
EXTENDS ApSleep, SequenceTheorems, FiniteSetTheorems, TLAPS
-----------------------------------------------------------------------------
(* Folds.                                                                  *)

(***************************************************************************)
(* Every set of natural numbers that is not empty has a least element, and *)
(* every set of numbers up to m that is not empty has a greatest.          *)
(***************************************************************************)
LEMMA LeastNumber ==
  ASSUME NEW T \in SUBSET Nat, T # {}
  PROVE  \E n \in T : \A k \in T : n <= k
<1> DEFINE R == OpToRel(<, Nat)
<1>1. IsWellFoundedOn(R, Nat)
  BY NatLessThanWellFounded
<1>2. \A k, n \in Nat : k < n => <<k, n>> \in R
  BY DEF OpToRel
<1> HIDE DEF R
<1>3. PICK n \in T : \A k \in T : ~(<<k, n>> \in R)
  BY <1>1, WFMin
<1>4. \A k \in T : ~(k < n)
  BY <1>2, <1>3
<1> QED
  BY <1>4

\* Max of a nonempty set of numbers bounded by m is its greatest element.
LEMMA MaxIsGreatest ==
  ASSUME NEW m \in Nat, NEW t \in SUBSET (1..m), t # {}
  PROVE  Max(t) \in t /\ \A y \in t : y <= Max(t)
<1> DEFINE T == {k \in Nat : \A y \in t : y <= k}
<1>1. T \in SUBSET Nat /\ m \in T
  OBVIOUS
<1> HIDE DEF T
<1>2. PICK k \in T : \A j \in T : k <= j
  BY <1>1, LeastNumber
<1>3. k \in Nat /\ \A y \in t : y <= k
  BY <1>2 DEF T
<1>4. k \in t
  <2> SUFFICES ASSUME k \notin t PROVE FALSE
    OBVIOUS
  <2>1. \A y \in t : y \in Nat /\ y >= 1 /\ y <= k - 1
    BY <1>3
  <2>2. PICK y0 : y0 \in t
    OBVIOUS
  <2>3. k - 1 \in Nat
    BY <1>3, <2>1, <2>2
  <2>4. k - 1 \in T
    BY <2>1, <2>3 DEF T
  <2> QED
    BY <1>2, <1>3, <2>4
<1>5. \A y \in t : k >= y
  BY <1>3
<1>6. \E x \in t : \A y \in t : x >= y
  BY <1>4, <1>5
<1>7. Max(t) \in t /\ \A y \in t : Max(t) >= y
  BY <1>6, Zenon DEF Max
<1> QED
  BY <1>7

\* What the fold over 1..i takes out first: i, which leaves 1..i-1.
LEMMA MaxOfInterval ==
  ASSUME NEW i \in Nat, i > 0
  PROVE  1..i # {} /\ Max(1..i) = i /\ (1..i) \ {i} = 1..(i - 1)
<1>1. 1..i \in SUBSET (1..i) /\ i \in 1..i
  OBVIOUS
<1>2. Max(1..i) \in 1..i /\ \A y \in 1..i : y <= Max(1..i)
  BY <1>1, MaxIsGreatest
<1> HIDE DEF Max
<1>3. Max(1..i) = i
  BY <1>1, <1>2
<1> QED
  BY <1>1, <1>3

(***************************************************************************)
(* The recursion over sets of positions that a fold is defined by has a    *)
(* solution, when the operation stays within a set V.                      *)
(***************************************************************************)
Recursion(g, n, base, G) ==
  \A t \in SUBSET (1..n) :
    g[t] = IF t = {} THEN base ELSE G[<<Max(t), g[t \ {Max(t)}]>>]

\* The recursion a fold stands for has a solution on the subsets of 1..n.
LEMMA FoldSolution ==
  ASSUME NEW n \in Nat, NEW V, NEW base \in V, NEW G \in [(1..n) \X V -> V]
  PROVE  \E g \in [SUBSET (1..n) -> V] : Recursion(g, n, base, G)
<1> USE DEF Recursion
<1> DEFINE Solves(g, m) ==
             /\ g \in [SUBSET (1..m) -> V]
             /\ \A t \in SUBSET (1..m) :
                  g[t] = IF t = {} THEN base ELSE G[<<Max(t), g[t \ {Max(t)}]>>]
           T == {m \in 0..n : ~ \E g : Solves(g, m)}
<1> SUFFICES ASSUME T # {} PROVE FALSE
  <2>1. n \in 0..n
    OBVIOUS
  <2> QED
    BY <2>1
<1>1. T \in SUBSET Nat
  OBVIOUS
<1>2. PICK m \in T : \A k \in T : m <= k
  <2> HIDE DEF T
  <2> QED
    BY <1>1, LeastNumber
<1>3. m \in 0..n /\ ~ \E g : Solves(g, m)
  BY <1>2
<1>4. m # 0
  <2> SUFFICES ASSUME m = 0 PROVE FALSE
    OBVIOUS
  <2> DEFINE g == [t \in SUBSET (1..0) |-> base]
  <2>1. Solves(g, 0)
    <3>1. \A t \in SUBSET (1..0) : t = {}
      OBVIOUS
    <3> QED
      BY <3>1
  <2> HIDE DEF Solves, g
  <2> QED
    BY <1>3, <2>1
<1>5. m - 1 \in 0..n /\ m \in 1..n /\ m \in Nat /\ 1..(m - 1) \subseteq 1..m
  BY <1>3, <1>4
<1>5a. m - 1 \notin T
  <2> HIDE DEF T
  <2> QED
    BY <1>2, <1>5
<1>6. PICK h : Solves(h, m - 1)
  <2> HIDE DEF Solves
  <2> QED
    BY <1>5, <1>5a
<1>6a. \A t \in SUBSET (1..(m - 1)) : h[t] \in V
  BY <1>6
<1>6b. \A t \in SUBSET (1..(m - 1)) :
         h[t] = IF t = {} THEN base ELSE G[<<Max(t), h[t \ {Max(t)}]>>]
  BY <1>6
<1> DEFINE g == [t \in SUBSET (1..m) |->
                   IF m \in t THEN G[<<m, h[t \ {m}]>>] ELSE h[t]]
<1> HIDE DEF T, Solves
<1>7. \A t \in SUBSET (1..m) : /\ t \ {m} \in SUBSET (1..(m - 1))
                               /\ m \notin t => t \in SUBSET (1..(m - 1))
  BY <1>5
<1>8. g \in [SUBSET (1..m) -> V]
  BY <1>5, <1>6a, <1>7
<1>9. ASSUME NEW t \in SUBSET (1..m)
      PROVE  g[t] = IF t = {} THEN base ELSE G[<<Max(t), g[t \ {Max(t)}]>>]
  <2>0. t # {} => Max(t) \in t /\ \A y \in t : y <= Max(t)
    BY <1>5, MaxIsGreatest
  <2>1. CASE m \in t
    <3>1. Max(t) = m
      <4>1. Max(t) \in 1..m /\ m <= Max(t)
        BY <2>0, <2>1
      <4> QED
        BY <1>5, <4>1
    <3>2. t \ {m} \in SUBSET (1..m) /\ m \notin t \ {m} /\ t # {}
      BY <2>1
    <3>3. g[t \ {m}] = h[t \ {m}] /\ g[t] = G[<<m, h[t \ {m}]>>]
      BY <2>1, <3>2
    <3> HIDE DEF g
    <3> QED
      BY <3>1, <3>2, <3>3
  <2>2. CASE m \notin t /\ t # {}
    <3>1. Max(t) \in t
      BY <2>0, <2>2
    <3>2. t \ {Max(t)} \in SUBSET (1..m) /\ m \notin t \ {Max(t)}
      BY <2>2
    <3>3. g[t] = h[t] /\ g[t \ {Max(t)}] = h[t \ {Max(t)}]
      BY <2>2, <3>2
    <3>4. h[t] = G[<<Max(t), h[t \ {Max(t)}]>>]
      BY <1>6b, <1>7, <2>2
    <3> HIDE DEF g
    <3> QED
      BY <2>2, <3>3, <3>4
  <2>3. CASE t = {}
    <3>1. g[t] = h[t]
      BY <2>3
    <3>2. h[t] = base
      BY <1>6b, <2>3
    <3> HIDE DEF g
    <3> QED
      BY <2>3, <3>1, <3>2
  <2> QED
    BY <2>1, <2>2, <2>3
<1>10. Solves(g, m)
  <2> HIDE DEF g
  <2> QED
    BY <1>8, <1>9 DEF Solves
<1> HIDE DEF g
<1> QED
  BY <1>3, <1>10

(***************************************************************************)
(* What holds of the first i steps holds of all of them.                   *)
(***************************************************************************)
LEMMA FoldInduction ==
  ASSUME NEW n \in Nat, NEW g, NEW T, g[1..0] \in T[0],
         \A i \in 1..n : g[1..(i - 1)] \in T[i - 1] => g[1..i] \in T[i]
  PROVE  g[1..n] \in T[n]
<1> DEFINE B == {i \in 0..n : g[1..i] \notin T[i]}
<1> SUFFICES ASSUME B # {} PROVE FALSE
  <2>1. n \in 0..n
    OBVIOUS
  <2> QED
    BY <2>1
<1>1. B \in SUBSET Nat
  OBVIOUS
<1>2. PICK m \in B : \A k \in B : m <= k
  <2> HIDE DEF B
  <2> QED
    BY <1>1, LeastNumber
<1>3. m \in 0..n /\ g[1..m] \notin T[m]
  BY <1>2
<1>4. m # 0
  BY <1>3
<1>5. m \in 1..n /\ m - 1 \in 0..n /\ m - 1 < m
  BY <1>3, <1>4
<1>6. m - 1 \notin B
  <2> HIDE DEF B
  <2> QED
    BY <1>2, <1>5
<1>7. g[1..(m - 1)] \in T[m - 1]
  BY <1>5, <1>6
<1> QED
  BY <1>3, <1>5, <1>7

(***************************************************************************)
(* A fold whose operation leads from T[i - 1] to T[i], within the states,  *)
(* ends in the last of these sets.                                         *)
(***************************************************************************)
LEMMA ReleaseFold ==
  ASSUME NEW q \in Seq(Frames), NEW base \in States, NEW T, base \in T[0],
         \A p \in States, f \in Frames : release(p, f) \in States,
         \A i \in 1..Len(q) : \A p \in T[i - 1] : release(p, q[i]) \in T[i]
  PROVE  FoldLeft(release, base, q) \in T[Len(q)]
<1> DEFINE E(g) == g = [t \in SUBSET (DOMAIN q) |->
                          IF t = {} THEN base
                          ELSE release(g[t \ {Max(t)}], q[Max(t)])]
           G == [x \in (1..Len(q)) \X States |-> release(x[2], q[x[1]])]
<1>0. Len(q) \in Nat /\ DOMAIN q = 1..Len(q) /\ \A i \in 1..Len(q) : q[i] \in Frames
  OBVIOUS
<1>1. G \in [(1..Len(q)) \X States -> States]
  BY <1>0
<1>2. \A i \in 1..Len(q), p \in States : G[<<i, p>>] = release(p, q[i])
  OBVIOUS
<1> HIDE DEF G
<1>3. PICK g \in [SUBSET (1..Len(q)) -> States] : Recursion(g, Len(q), base, G)
  BY <1>0, <1>1, FoldSolution
<1>4. E(g)
  <2>1. ASSUME NEW t \in SUBSET (1..Len(q)), t # {}
        PROVE  Max(t) \in 1..Len(q) /\ t \ {Max(t)} \in SUBSET (1..Len(q))
    BY <1>0, <2>1, MaxIsGreatest
  <2>2. ASSUME NEW t \in SUBSET (1..Len(q)), t # {}
        PROVE  g[t] = release(g[t \ {Max(t)}], q[Max(t)])
    BY <1>2, <1>3, <2>1, <2>2 DEF Recursion
  <2>3. \A t \in SUBSET (1..Len(q)) :
          g[t] = IF t = {} THEN base ELSE release(g[t \ {Max(t)}], q[Max(t)])
    BY <1>3, <2>2 DEF Recursion
  <2>4. g = [t \in SUBSET (1..Len(q)) |-> g[t]]
    BY <1>3
  <2> QED
    BY <1>0, <2>3, <2>4
<1>5. FoldLeft(release, base, q) = (CHOOSE h : E(h))[DOMAIN q]
  BY Zenon DEF FoldLeft, MapThenFoldSet
<1>6. PICK h : E(h) /\ FoldLeft(release, base, q) = h[1..Len(q)]
  <2> HIDE DEF E
  <2> QED
    BY <1>0, <1>4, <1>5, Zenon
<1>7. \A t \in SUBSET (1..Len(q)) :
         h[t] = IF t = {} THEN base ELSE release(h[t \ {Max(t)}], q[Max(t)])
  BY <1>0, <1>6
<1>8. h[1..0] = base
  <2>1. 1..0 = {} /\ {} \in SUBSET (1..Len(q))
    OBVIOUS
  <2> QED
    BY <1>7, <2>1, Zenon
<1>9. \A i \in 1..Len(q) : h[1..i] = release(h[1..(i - 1)], q[i])
  <2> TAKE i \in 1..Len(q)
  <2>1. 1..i \in SUBSET (1..Len(q)) /\ i \in Nat /\ i > 0
    BY <1>0
  <2> QED
    BY <1>7, <2>1, MaxOfInterval
<1>10. h[1..0] \in T[0]
  BY <1>8
<1>11. \A i \in 1..Len(q) : h[1..(i - 1)] \in T[i - 1] => h[1..i] \in T[i]
  BY <1>9
<1>12. h[1..Len(q)] \in T[Len(q)]
  BY <1>0, <1>10, <1>11, FoldInduction
<1> QED
  BY <1>6, <1>12

\* The same for release_ac, in wakeup_sta_to_xmit.
LEMMA ReleaseAcFold ==
  ASSUME NEW q \in Seq(Frames), NEW base \in States, NEW T, base \in T[0],
         \A p \in States, f \in Frames : release_ac(p, f) \in States,
         \A i \in 1..Len(q) : \A p \in T[i - 1] : release_ac(p, q[i]) \in T[i]
  PROVE  FoldLeft(release_ac, base, q) \in T[Len(q)]
<1> DEFINE E(g) == g = [t \in SUBSET (DOMAIN q) |->
                          IF t = {} THEN base
                          ELSE release_ac(g[t \ {Max(t)}], q[Max(t)])]
           G == [x \in (1..Len(q)) \X States |-> release_ac(x[2], q[x[1]])]
<1>0. Len(q) \in Nat /\ DOMAIN q = 1..Len(q) /\ \A i \in 1..Len(q) : q[i] \in Frames
  OBVIOUS
<1>1. G \in [(1..Len(q)) \X States -> States]
  BY <1>0
<1>2. \A i \in 1..Len(q), p \in States : G[<<i, p>>] = release_ac(p, q[i])
  OBVIOUS
<1> HIDE DEF G
<1>3. PICK g \in [SUBSET (1..Len(q)) -> States] : Recursion(g, Len(q), base, G)
  BY <1>0, <1>1, FoldSolution
<1>4. E(g)
  <2>1. ASSUME NEW t \in SUBSET (1..Len(q)), t # {}
        PROVE  Max(t) \in 1..Len(q) /\ t \ {Max(t)} \in SUBSET (1..Len(q))
    BY <1>0, <2>1, MaxIsGreatest
  <2>2. ASSUME NEW t \in SUBSET (1..Len(q)), t # {}
        PROVE  g[t] = release_ac(g[t \ {Max(t)}], q[Max(t)])
    BY <1>2, <1>3, <2>1, <2>2 DEF Recursion
  <2>3. \A t \in SUBSET (1..Len(q)) :
          g[t] = IF t = {} THEN base ELSE release_ac(g[t \ {Max(t)}], q[Max(t)])
    BY <1>3, <2>2 DEF Recursion
  <2>4. g = [t \in SUBSET (1..Len(q)) |-> g[t]]
    BY <1>3
  <2> QED
    BY <1>0, <2>3, <2>4
<1>5. FoldLeft(release_ac, base, q) = (CHOOSE h : E(h))[DOMAIN q]
  BY Zenon DEF FoldLeft, MapThenFoldSet
<1>6. PICK h : E(h) /\ FoldLeft(release_ac, base, q) = h[1..Len(q)]
  <2> HIDE DEF E
  <2> QED
    BY <1>0, <1>4, <1>5, Zenon
<1>7. \A t \in SUBSET (1..Len(q)) :
         h[t] = IF t = {} THEN base ELSE release_ac(h[t \ {Max(t)}], q[Max(t)])
  BY <1>0, <1>6
<1>8. h[1..0] = base
  <2>1. 1..0 = {} /\ {} \in SUBSET (1..Len(q))
    OBVIOUS
  <2> QED
    BY <1>7, <2>1, Zenon
<1>9. \A i \in 1..Len(q) : h[1..i] = release_ac(h[1..(i - 1)], q[i])
  <2> TAKE i \in 1..Len(q)
  <2>1. 1..i \in SUBSET (1..Len(q)) /\ i \in Nat /\ i > 0
    BY <1>0
  <2> QED
    BY <1>7, <2>1, MaxOfInterval
<1>10. h[1..0] \in T[0]
  BY <1>8
<1>11. \A i \in 1..Len(q) : h[1..(i - 1)] \in T[i - 1] => h[1..i] \in T[i]
  BY <1>9
<1>12. h[1..Len(q)] \in T[Len(q)]
  BY <1>0, <1>10, <1>11, FoldInduction
<1> QED
  BY <1>6, <1>12

\* The same for deliver, in xmit_delivery_enabled_frames.
LEMMA DeliverFold ==
  ASSUME NEW q \in Seq(Frames), NEW base \in States, NEW T, base \in T[0],
         \A p \in States, f \in Frames : deliver(p, f) \in States,
         \A i \in 1..Len(q) : \A p \in T[i - 1] : deliver(p, q[i]) \in T[i]
  PROVE  FoldLeft(deliver, base, q) \in T[Len(q)]
<1> DEFINE E(g) == g = [t \in SUBSET (DOMAIN q) |->
                          IF t = {} THEN base
                          ELSE deliver(g[t \ {Max(t)}], q[Max(t)])]
           G == [x \in (1..Len(q)) \X States |-> deliver(x[2], q[x[1]])]
<1>0. Len(q) \in Nat /\ DOMAIN q = 1..Len(q) /\ \A i \in 1..Len(q) : q[i] \in Frames
  OBVIOUS
<1>1. G \in [(1..Len(q)) \X States -> States]
  BY <1>0
<1>2. \A i \in 1..Len(q), p \in States : G[<<i, p>>] = deliver(p, q[i])
  OBVIOUS
<1> HIDE DEF G
<1>3. PICK g \in [SUBSET (1..Len(q)) -> States] : Recursion(g, Len(q), base, G)
  BY <1>0, <1>1, FoldSolution
<1>4. E(g)
  <2>1. ASSUME NEW t \in SUBSET (1..Len(q)), t # {}
        PROVE  Max(t) \in 1..Len(q) /\ t \ {Max(t)} \in SUBSET (1..Len(q))
    BY <1>0, <2>1, MaxIsGreatest
  <2>2. ASSUME NEW t \in SUBSET (1..Len(q)), t # {}
        PROVE  g[t] = deliver(g[t \ {Max(t)}], q[Max(t)])
    BY <1>2, <1>3, <2>1, <2>2 DEF Recursion
  <2>3. \A t \in SUBSET (1..Len(q)) :
          g[t] = IF t = {} THEN base ELSE deliver(g[t \ {Max(t)}], q[Max(t)])
    BY <1>3, <2>2 DEF Recursion
  <2>4. g = [t \in SUBSET (1..Len(q)) |-> g[t]]
    BY <1>3
  <2> QED
    BY <1>0, <2>3, <2>4
<1>5. FoldLeft(deliver, base, q) = (CHOOSE h : E(h))[DOMAIN q]
  BY Zenon DEF FoldLeft, MapThenFoldSet
<1>6. PICK h : E(h) /\ FoldLeft(deliver, base, q) = h[1..Len(q)]
  <2> HIDE DEF E
  <2> QED
    BY <1>0, <1>4, <1>5, Zenon
<1>7. \A t \in SUBSET (1..Len(q)) :
         h[t] = IF t = {} THEN base ELSE deliver(h[t \ {Max(t)}], q[Max(t)])
  BY <1>0, <1>6
<1>8. h[1..0] = base
  <2>1. 1..0 = {} /\ {} \in SUBSET (1..Len(q))
    OBVIOUS
  <2> QED
    BY <1>7, <2>1, Zenon
<1>9. \A i \in 1..Len(q) : h[1..i] = deliver(h[1..(i - 1)], q[i])
  <2> TAKE i \in 1..Len(q)
  <2>1. 1..i \in SUBSET (1..Len(q)) /\ i \in Nat /\ i > 0
    BY <1>0
  <2> QED
    BY <1>7, <2>1, MaxOfInterval
<1>10. h[1..0] \in T[0]
  BY <1>8
<1>11. \A i \in 1..Len(q) : h[1..(i - 1)] \in T[i - 1] => h[1..i] \in T[i]
  BY <1>9
<1>12. h[1..Len(q)] \in T[Len(q)]
  BY <1>0, <1>10, <1>11, FoldInduction
<1> QED
  BY <1>6, <1>12

\* The same for enqueue_for_sleeping_sta, in stop_sta_xmit.
LEMMA EnqueueFold ==
  ASSUME NEW q \in Seq(Frames), NEW base \in States, NEW T, base \in T[0],
         \A p \in States, f \in Frames : enqueue_for_sleeping_sta(p, f) \in States,
         \A i \in 1..Len(q) : \A p \in T[i - 1] : enqueue_for_sleeping_sta(p, q[i]) \in T[i]
  PROVE  FoldLeft(enqueue_for_sleeping_sta, base, q) \in T[Len(q)]
<1> DEFINE E(g) == g = [t \in SUBSET (DOMAIN q) |->
                          IF t = {} THEN base
                          ELSE enqueue_for_sleeping_sta(g[t \ {Max(t)}], q[Max(t)])]
           G == [x \in (1..Len(q)) \X States |-> enqueue_for_sleeping_sta(x[2], q[x[1]])]
<1>0. Len(q) \in Nat /\ DOMAIN q = 1..Len(q) /\ \A i \in 1..Len(q) : q[i] \in Frames
  OBVIOUS
<1>1. G \in [(1..Len(q)) \X States -> States]
  BY <1>0
<1>2. \A i \in 1..Len(q), p \in States : G[<<i, p>>] = enqueue_for_sleeping_sta(p, q[i])
  OBVIOUS
<1> HIDE DEF G
<1>3. PICK g \in [SUBSET (1..Len(q)) -> States] : Recursion(g, Len(q), base, G)
  BY <1>0, <1>1, FoldSolution
<1>4. E(g)
  <2>1. ASSUME NEW t \in SUBSET (1..Len(q)), t # {}
        PROVE  Max(t) \in 1..Len(q) /\ t \ {Max(t)} \in SUBSET (1..Len(q))
    BY <1>0, <2>1, MaxIsGreatest
  <2>2. ASSUME NEW t \in SUBSET (1..Len(q)), t # {}
        PROVE  g[t] = enqueue_for_sleeping_sta(g[t \ {Max(t)}], q[Max(t)])
    BY <1>2, <1>3, <2>1, <2>2 DEF Recursion
  <2>3. \A t \in SUBSET (1..Len(q)) :
          g[t] = IF t = {} THEN base ELSE enqueue_for_sleeping_sta(g[t \ {Max(t)}], q[Max(t)])
    BY <1>3, <2>2 DEF Recursion
  <2>4. g = [t \in SUBSET (1..Len(q)) |-> g[t]]
    BY <1>3
  <2> QED
    BY <1>0, <2>3, <2>4
<1>5. FoldLeft(enqueue_for_sleeping_sta, base, q) = (CHOOSE h : E(h))[DOMAIN q]
  BY Zenon DEF FoldLeft, MapThenFoldSet
<1>6. PICK h : E(h) /\ FoldLeft(enqueue_for_sleeping_sta, base, q) = h[1..Len(q)]
  <2> HIDE DEF E
  <2> QED
    BY <1>0, <1>4, <1>5, Zenon
<1>7. \A t \in SUBSET (1..Len(q)) :
         h[t] = IF t = {} THEN base ELSE enqueue_for_sleeping_sta(h[t \ {Max(t)}], q[Max(t)])
  BY <1>0, <1>6
<1>8. h[1..0] = base
  <2>1. 1..0 = {} /\ {} \in SUBSET (1..Len(q))
    OBVIOUS
  <2> QED
    BY <1>7, <2>1, Zenon
<1>9. \A i \in 1..Len(q) : h[1..i] = enqueue_for_sleeping_sta(h[1..(i - 1)], q[i])
  <2> TAKE i \in 1..Len(q)
  <2>1. 1..i \in SUBSET (1..Len(q)) /\ i \in Nat /\ i > 0
    BY <1>0
  <2> QED
    BY <1>7, <2>1, MaxOfInterval
<1>10. h[1..0] \in T[0]
  BY <1>8
<1>11. \A i \in 1..Len(q) : h[1..(i - 1)] \in T[i - 1] => h[1..i] \in T[i]
  BY <1>9
<1>12. h[1..Len(q)] \in T[Len(q)]
  BY <1>0, <1>10, <1>11, FoldInduction
<1> QED
  BY <1>6, <1>12
-----------------------------------------------------------------------------
(* Sequences, counters and states.                                         *)

(***************************************************************************)
(* RemoveFirst takes the first occurrence out of a queue.                  *)
(***************************************************************************)
LEMMA RemoveFirstFacts ==
  ASSUME NEW S, NEW q \in Seq(S), NEW k \in 1..Len(q), NEW f, q[k] = f,
         \A j \in 1..(k - 1) : q[j] # f
  PROVE  /\ RemoveFirst(q, f) \in Seq(S)
         /\ Len(RemoveFirst(q, f)) = Len(q) - 1
         /\ \A j \in 1..(Len(q) - 1) :
              RemoveFirst(q, f)[j] = IF j < k THEN q[j] ELSE q[j + 1]
<1> DEFINE I == {i \in 1..Len(q) : q[i] = f}
<1>1. SelectInSeq(q, LAMBDA v : v = f) = k
  <2>1. I \in SUBSET (1..Len(q)) /\ k \in I
    OBVIOUS
  <2>2. \A i \in I : k <= i
    OBVIOUS
  <2>3. SelectInSeq(q, LAMBDA v : v = f) = IF I = {} THEN 0 ELSE Min(I)
    BY Zenon DEF SelectInSeq
  <2>4. Min(I) = CHOOSE x \in I : \A y \in I : x <= y
    BY Zenon DEF Min
  <2> HIDE DEF I
  <2>5. \A x \in I : (\A y \in I : x <= y) => x = k
    BY <2>1, <2>2
  <2>6. Min(I) = k
    BY <2>1, <2>2, <2>4, <2>5
  <2> QED
    BY <2>1, <2>3, <2>6
<1>2. RemoveFirst(q, f) = RemoveAt(q, k)
  <2>1. \E i \in 1..Len(q) : q[i] = f
    OBVIOUS
  <2> QED
    BY <1>1, <2>1, Zenon DEF RemoveFirst
<1>3. RemoveAt(q, k) = SubSeq(q, 1, k - 1) \o SubSeq(q, k + 1, Len(q))
  BY DEF RemoveAt
<1> DEFINE a == SubSeq(q, 1, k - 1)
           b == SubSeq(q, k + 1, Len(q))
<1>4. a \in Seq(S) /\ Len(a) = k - 1 /\ \A j \in 1..(k - 1) : a[j] = q[j]
  OBVIOUS
<1>5. b \in Seq(S) /\ Len(b) = Len(q) - k /\ \A j \in 1..(Len(q) - k) : b[j] = q[k + j]
  OBVIOUS
<1> HIDE DEF a, b
<1>6. a \o b \in Seq(S) /\ Len(a \o b) = Len(q) - 1
  BY <1>4, <1>5
<1>7. ASSUME NEW j \in 1..(Len(q) - 1)
      PROVE  (a \o b)[j] = IF j < k THEN q[j] ELSE q[j + 1]
  <2>1. CASE j < k
    BY <1>4, <1>5, <2>1
  <2>2. CASE ~(j < k)
    <3>1. (a \o b)[j] = b[j - (k - 1)]
      BY <1>4, <1>5, <2>2
    <3>2. j - (k - 1) \in 1..(Len(q) - k) /\ k + (j - (k - 1)) = j + 1
      BY <2>2
    <3> QED
      BY <1>5, <2>2, <3>1, <3>2
  <2> QED
    BY <2>1, <2>2
<1> QED
  BY <1>2, <1>3, <1>6, <1>7 DEF a, b

(***************************************************************************)
(* The counters, modulo LenMod.                                            *)
(***************************************************************************)
LEMMA Counted ==
  /\ LenMod \in Nat /\ LenMod > 0 /\ LenMod > MaxEvents /\ MaxEvents \in Nat
  /\ \A x \in 0..(LenMod - 1) : /\ (x + 1) % LenMod \in 0..(LenMod - 1)
                                /\ (x - 1) % LenMod \in 0..(LenMod - 1)
                                /\ x > 0 => (x - 1) % LenMod = x - 1
                                /\ x < LenMod - 1 => (x + 1) % LenMod = x + 1
<1>1. LenMod \in Nat /\ LenMod > 0 /\ LenMod > MaxEvents /\ MaxEvents \in Nat
  BY BoundsAssumption
<1>2. ASSUME NEW x \in Int PROVE x % LenMod \in 0..(LenMod - 1)
  BY <1>1
<1>3. ASSUME NEW x \in Int, 0 <= x, x < LenMod PROVE x % LenMod = x
  BY <1>1, <1>3
<1> QED
  BY <1>1, <1>2, <1>3

\* The types of the fields of s, one by one.
LEMMA StateFields ==
  ASSUME NEW p \in States
  PROVE  /\ p.asleep \in BOOLEAN /\ p.alive_chk \in BOOLEAN
         /\ p.dz \in SUBSET Whose /\ p.tim \in SUBSET Whose
         /\ p.sleep_q \in [Whose -> Seq(Frames)]
         /\ p.len \in [Whose -> 0..(LenMod - 1)]
         /\ p.ac_len \in 0..(LenMod - 1)
         /\ p.pending \in [Categories -> Seq(Frames)]
         /\ p.bcn \in SUBSET Whose /\ p.cmdq \in Seq({"beacon", "bmc"})
BY DEF States

\* The types of the fields of a frame; the triggered flag changes no other.
LEMMA FrameFields ==
  ASSUME NEW f \in Frames
  PROVE  /\ f.id \in 1..MaxEvents /\ f.id \in Nat /\ f.ac \in Categories
         /\ Of(f) \in Whose /\ Of(f) = (IF f.ac = "grp" THEN "grp" ELSE "sta")
         /\ \A b \in BOOLEAN : /\ [f EXCEPT !.triggered = b] \in Frames
                               /\ [f EXCEPT !.triggered = b].id = f.id
                               /\ [f EXCEPT !.triggered = b].ac = f.ac
BY BoundsAssumption DEF Frames, Of, Whose
-----------------------------------------------------------------------------
(* What the operators on s do.                                             *)

(***************************************************************************)
(* From p to r the frame f leaves place k of its sleep queue and joins the *)
(* transmit queue of its category.                                         *)
(***************************************************************************)
Moved(p, r, f, k) ==
  LET w == Of(f)
      c == f.ac
  IN /\ \A v \in Whose : v # w => r.sleep_q[v] = p.sleep_q[v] /\ r.len[v] = p.len[v]
     /\ Len(r.sleep_q[w]) = Len(p.sleep_q[w]) - 1
     /\ \A j \in 1..(Len(p.sleep_q[w]) - 1) :
          r.sleep_q[w][j] = IF j < k THEN p.sleep_q[w][j] ELSE p.sleep_q[w][j + 1]
     /\ r.len[w] = (p.len[w] - 1) % LenMod
     /\ \A d \in Categories : d # c => r.pending[d] = p.pending[d]
     /\ Len(r.pending[c]) = Len(p.pending[c]) + 1
     /\ \A j \in 1..Len(p.pending[c]) : r.pending[c][j] = p.pending[c][j]
     /\ r.pending[c][Len(p.pending[c]) + 1].id = f.id
     /\ r.pending[c][Len(p.pending[c]) + 1].ac = c

\* Place k of p's queue for f's receiver holds f, and no place before it does.
At(p, f, k) ==
  /\ k \in 1..Len(p.sleep_q[Of(f)]) /\ p.sleep_q[Of(f)][k] = f
  /\ \A j \in 1..(k - 1) : p.sleep_q[Of(f)][j] # f

\* The parts of the state that a release leaves alone.
SameButQueues(p, r) ==
  /\ r.asleep = p.asleep /\ r.alive_chk = p.alive_chk
  /\ r.dz = p.dz /\ r.tim = p.tim /\ r.bcn = p.bcn /\ r.cmdq = p.cmdq

\* A release leaves a well typed state.
LEMMA ReleaseState ==
  ASSUME NEW p \in States, NEW f \in Frames
  PROVE  release(p, f) \in States /\ release_ac(p, f) \in States
<1> DEFINE w == Of(f)
           c == f.ac
           g == [f EXCEPT !.triggered = TRUE]
           q == RemoveFirst(p.sleep_q[w], f)
           n == (p.len[w] - 1) % LenMod
           pend == Append(p.pending[c], g)
           m == IF c \in uapsd THEN (p.ac_len - 1) % LenMod ELSE p.ac_len
<1>1. w \in Whose /\ c \in Categories /\ g \in Frames
  BY FrameFields
<1>2. q \in Seq(Frames)
  <2>1. p.sleep_q[w] \in Seq(Frames)
    BY <1>1, StateFields
  <2>2. CASE \E i \in 1..Len(p.sleep_q[w]) : p.sleep_q[w][i] = f
    <3> DEFINE I == {i \in 1..Len(p.sleep_q[w]) : p.sleep_q[w][i] = f}
    <3>1. I \in SUBSET Nat /\ I # {}
      BY <2>2
    <3>2. PICK k \in I : \A j \in I : k <= j
      <4> HIDE DEF I
      <4> QED
        BY <3>1, LeastNumber
    <3>3. k \in 1..Len(p.sleep_q[w]) /\ p.sleep_q[w][k] = f
          /\ \A j \in 1..(k - 1) : p.sleep_q[w][j] # f
      BY <2>1, <3>2
    <3> HIDE DEF w, I
    <3> QED
      BY <2>1, <3>3, RemoveFirstFacts
  <2>3. CASE ~ \E i \in 1..Len(p.sleep_q[w]) : p.sleep_q[w][i] = f
    BY <2>1, <2>3, Zenon DEF RemoveFirst
  <2> QED
    BY <2>2, <2>3
<1>3. n \in 0..(LenMod - 1) /\ m \in 0..(LenMod - 1)
  <2>1. p.len[w] \in 0..(LenMod - 1) /\ p.ac_len \in 0..(LenMod - 1)
    BY <1>1, StateFields
  <2> HIDE DEF w
  <2> QED
    BY <2>1, Counted
<1>4. pend \in Seq(Frames)
  <2>1. p.pending[c] \in Seq(Frames)
    BY <1>1, StateFields
  <2> HIDE DEF g, c
  <2> QED
    BY <1>1, <2>1
<1>5. release(p, f) = [p EXCEPT !.sleep_q[w] = q, !.len[w] = n, !.pending[c] = pend]
  BY Zenon DEF release
<1>6. release_ac(p, f) = [release(p, f) EXCEPT !.ac_len = m]
  BY DEF release_ac, release, States
<1> HIDE DEF w, c, g, q, n, pend, m
<1>7. release(p, f) \in States
  <2> DEFINE sq == [p.sleep_q EXCEPT ![w] = q]
             ln == [p.len EXCEPT ![w] = n]
             pd == [p.pending EXCEPT ![c] = pend]
  <2>1. /\ sq \in [Whose -> Seq(Frames)] /\ ln \in [Whose -> 0..(LenMod - 1)]
        /\ pd \in [Categories -> Seq(Frames)]
    BY <1>1, <1>2, <1>3, <1>4, StateFields
  <2>2. release(p, f) = [p EXCEPT !.sleep_q = sq, !.len = ln, !.pending = pd]
    BY <1>5 DEF States
  <2> HIDE DEF sq, ln, pd
  <2> QED
    BY <2>1, <2>2 DEF States
<1> QED
  BY <1>3, <1>6, <1>7 DEF States

\* A release of the frame at place k moves it and counts it out.
LEMMA ReleaseFacts ==
  ASSUME NEW p \in States, NEW f \in Frames, NEW k, At(p, f, k)
  PROVE  /\ Moved(p, release(p, f), f, k) /\ SameButQueues(p, release(p, f))
         /\ release(p, f).ac_len = p.ac_len
         /\ Moved(p, release_ac(p, f), f, k) /\ SameButQueues(p, release_ac(p, f))
         /\ release_ac(p, f).ac_len =
              IF f.ac \in uapsd THEN (p.ac_len - 1) % LenMod ELSE p.ac_len
<1> DEFINE w == Of(f)
           c == f.ac
           g == [f EXCEPT !.triggered = TRUE]
           q == RemoveFirst(p.sleep_q[w], f)
           r == release(p, f)
           a == release_ac(p, f)
<1>1. w \in Whose /\ c \in Categories /\ g \in Frames /\ g.id = f.id /\ g.ac = c
  BY FrameFields
<1>2. /\ p.sleep_q \in [Whose -> Seq(Frames)] /\ p.pending \in [Categories -> Seq(Frames)]
      /\ p.len \in [Whose -> 0..(LenMod - 1)]
  BY StateFields
<1>3. /\ Len(q) = Len(p.sleep_q[w]) - 1
      /\ \A j \in 1..(Len(p.sleep_q[w]) - 1) :
           q[j] = IF j < k THEN p.sleep_q[w][j] ELSE p.sleep_q[w][j + 1]
  <2>1. /\ k \in 1..Len(p.sleep_q[w]) /\ p.sleep_q[w][k] = f
        /\ \A j \in 1..(k - 1) : p.sleep_q[w][j] # f
    BY DEF At
  <2>2. p.sleep_q[w] \in Seq(Frames)
    BY <1>1, <1>2
  <2> HIDE DEF w
  <2> QED
    BY <2>1, <2>2, RemoveFirstFacts
<1>4. /\ r.sleep_q = [p.sleep_q EXCEPT ![w] = q]
      /\ r.len = [p.len EXCEPT ![w] = (p.len[w] - 1) % LenMod]
      /\ r.pending = [p.pending EXCEPT ![c] = Append(p.pending[c], g)]
      /\ SameButQueues(p, r) /\ r.ac_len = p.ac_len
  BY <1>1, <1>2 DEF release, States, SameButQueues
<1>5. /\ a.sleep_q = r.sleep_q /\ a.len = r.len /\ a.pending = r.pending
      /\ SameButQueues(r, a)
      /\ a.ac_len = IF f.ac \in uapsd THEN (r.ac_len - 1) % LenMod ELSE r.ac_len
  <2>1. r \in States
    BY ReleaseState
  <2> HIDE DEF r
  <2>2. a = [r EXCEPT !.ac_len = IF f.ac \in uapsd THEN (@ - 1) % LenMod ELSE @]
    BY DEF release_ac, r
  <2> HIDE DEF a
  <2> QED
    BY <2>1, <2>2 DEF States, SameButQueues
<1>6. p.pending[c] \in Seq(Frames)
  BY <1>1, <1>2
<1> HIDE DEF q, r, a, g
<1>7. /\ Len(Append(p.pending[c], g)) = Len(p.pending[c]) + 1
      /\ \A j \in 1..Len(p.pending[c]) : Append(p.pending[c], g)[j] = p.pending[c][j]
      /\ Append(p.pending[c], g)[Len(p.pending[c]) + 1] = g
  BY <1>1, <1>6
<1>8. Moved(p, r, f, k)
  BY <1>1, <1>2, <1>3, <1>4, <1>7 DEF Moved
<1>9. Moved(p, a, f, k)
  BY <1>5, <1>8 DEF Moved
<1>10. SameButQueues(p, a)
  BY <1>4, <1>5 DEF SameButQueues
<1> QED
  BY <1>4, <1>5, <1>8, <1>9, <1>10 DEF r, a
-----------------------------------------------------------------------------
(* The invariant.                                                          *)

(***************************************************************************)
(* The frames stand in the queues of their category and their receiver.    *)
(***************************************************************************)
Placed(p) ==
  /\ \A c \in Categories : \A i \in 1..Len(p.pending[c]) : p.pending[c][i].ac = c
  /\ \A w \in Whose : \A i \in 1..Len(p.sleep_q[w]) : Of(p.sleep_q[w][i]) = w

Total(p) ==
  Len(p.sleep_q["sta"]) + Len(p.sleep_q["grp"])
    + Len(p.pending["be"]) + Len(p.pending["vo"]) + Len(p.pending["grp"])

InHand == IF tx = {} THEN 0 ELSE 1

(***************************************************************************)
(* The counters.  sleepq_len of the group addressed frames is always       *)
(* exact; sleepq_ac_len is when every category has U-APSD, for then no     *)
(* PS-Poll takes a frame.                                                  *)
(***************************************************************************)
GrpExact(p) == p.len["grp"] = Len(p.sleep_q["grp"])

AcExact(p) == uapsd = ACs => p.ac_len = Len(p.sleep_q["sta"])

StaExact(p) == p.len["sta"] = Len(p.sleep_q["sta"])

(***************************************************************************)
(* sta_dz_bitmap goes with WIFI_SLEEP_STATE, and frames are held back only *)
(* while the bitmap says so.                                               *)
(***************************************************************************)
Dozes(p) ==
  /\ p.asleep => "sta" \in p.dz
  /\ ~p.asleep => p.dz = {} /\ Len(p.sleep_q["sta"]) = 0
  /\ p.dz = {} => Len(p.sleep_q["grp"]) = 0

Shown(p) ==
  \A w \in Whose : \A i \in 1..Len(p.sleep_q[w]) :
    w = "grp" \/ Announced(p.sleep_q[w][i].ac) => w \in p.tim

(***************************************************************************)
(* The frames of a category stand in line: h, the numbers of those sent,   *)
(* then the transmit queue, then the sleep queue.                          *)
(***************************************************************************)
Ascending(h) == \A i, j \in 1..Len(h) : i < j => h[i] < h[j]

InLine(q) ==
  \A i, j \in 1..Len(q) : i < j /\ q[i].ac = q[j].ac => q[i].id < q[j].id

\* Every frame of the category c that is in q comes after the number n.
Follow(q, c, n) == \A i \in 1..Len(q) : q[i].ac = c => n < q[i].id

SentFirst(p, h) ==
  \A c \in Categories : \A i \in 1..Len(h[c]) :
    /\ Follow(p.pending[c], c, h[c][i])
    /\ \A w \in Whose : Follow(p.sleep_q[w], c, h[c][i])

PendingFirst(p) ==
  \A c \in Categories, w \in Whose : \A i \in 1..Len(p.pending[c]) :
    Follow(p.sleep_q[w], c, p.pending[c][i].id)

Line(p, h) ==
  /\ \A c \in Categories : Ascending(h[c]) /\ InLine(p.pending[c])
  /\ \A w \in Whose : InLine(p.sleep_q[w])
  /\ SentFirst(p, h) /\ PendingFirst(p)

\* All frames of the category c have numbers below n.
Older(p, h, c, n) ==
  /\ \A i \in 1..Len(h[c]) : h[c][i] < n
  /\ \A i \in 1..Len(p.pending[c]) : p.pending[c][i].id < n
  /\ \A w \in Whose : \A i \in 1..Len(p.sleep_q[w]) :
       p.sleep_q[w][i].ac = c => p.sleep_q[w][i].id < n

-----------------------------------------------------------------------------
(* A release keeps the invariant.                                          *)

Within(a, b) == \A j \in 1..Len(a) : \E i \in 1..Len(b) : a[j] = b[i]

\* The elements of the sleep queues and transmit queues are frames.
LEMMA Queues ==
  ASSUME NEW p \in States
  PROVE  /\ \A w \in Whose : /\ p.sleep_q[w] \in Seq(Frames)
                             /\ Len(p.sleep_q[w]) \in Nat
                             /\ \A i \in 1..Len(p.sleep_q[w]) :
                                  /\ p.sleep_q[w][i] \in Frames
                                  /\ p.sleep_q[w][i].id \in Nat
                                  /\ p.sleep_q[w][i].ac \in Categories
         /\ \A c \in Categories : /\ p.pending[c] \in Seq(Frames)
                                  /\ Len(p.pending[c]) \in Nat
                                  /\ \A i \in 1..Len(p.pending[c]) :
                                       /\ p.pending[c][i] \in Frames
                                       /\ p.pending[c][i].id \in Nat
                                       /\ p.pending[c][i].ac \in Categories
<1>1. /\ \A w \in Whose : p.sleep_q[w] \in Seq(Frames)
      /\ \A c \in Categories : p.pending[c] \in Seq(Frames)
  BY StateFields
<1>2. \A f \in Frames : f.id \in Nat /\ f.ac \in Categories
  BY FrameFields
<1>3. \A q \in Seq(Frames) : Len(q) \in Nat /\ \A i \in 1..Len(q) : q[i] \in Frames
  OBVIOUS
<1> QED
  BY <1>1, <1>2, <1>3

\* A release adds nothing to a sleep queue.
LEMMA MovedWithin ==
  ASSUME NEW p \in States, NEW r \in States, NEW f \in Frames, NEW k,
         At(p, f, k), Moved(p, r, f, k)
  PROVE  \A w \in Whose : Within(r.sleep_q[w], p.sleep_q[w])
<1> SUFFICES ASSUME NEW w \in Whose, NEW j \in 1..Len(r.sleep_q[w])
             PROVE  \E i \in 1..Len(p.sleep_q[w]) : r.sleep_q[w][j] = p.sleep_q[w][i]
  BY DEF Within
<1>1. CASE w # Of(f)
  BY <1>1 DEF Moved
<1>2. CASE w = Of(f)
  <2>1. Len(p.sleep_q[w]) \in Nat /\ Len(r.sleep_q[w]) = Len(p.sleep_q[w]) - 1
    BY <1>2, Queues DEF Moved
  <2>2. r.sleep_q[w][j] = IF j < k THEN p.sleep_q[w][j] ELSE p.sleep_q[w][j + 1]
    BY <1>2, <2>1 DEF Moved
  <2>3. j \in 1..Len(p.sleep_q[w]) /\ j + 1 \in 1..Len(p.sleep_q[w])
    BY <2>1
  <2> QED
    BY <2>2, <2>3
<1> QED
  BY <1>1, <1>2

\* A release adds the frame, and no other, at the end of a transmit queue.
LEMMA MovedPending ==
  ASSUME NEW p \in States, NEW r \in States, NEW f \in Frames, NEW k,
         Moved(p, r, f, k), NEW c \in Categories, NEW i \in 1..Len(r.pending[c])
  PROVE  \/ i \in 1..Len(p.pending[c]) /\ r.pending[c][i] = p.pending[c][i]
         \/ /\ c = f.ac /\ i = Len(p.pending[c]) + 1
            /\ r.pending[c][i].id = f.id /\ r.pending[c][i].ac = f.ac
<1>1. CASE c # f.ac
  BY <1>1 DEF Moved
<1>2. CASE c = f.ac
  <2>1. Len(p.pending[c]) \in Nat /\ Len(r.pending[c]) = Len(p.pending[c]) + 1
    BY <1>2, Queues DEF Moved
  <2>2. i \in 1..Len(p.pending[c]) \/ i = Len(p.pending[c]) + 1
    BY <2>1
  <2> QED
    BY <1>2, <2>2 DEF Moved
<1> QED
  BY <1>1, <1>2

\* A release keeps the frames in their queues and loses none.
LEMMA MovedPlaced ==
  ASSUME NEW p \in States, NEW r \in States, NEW f \in Frames, NEW k,
         At(p, f, k), Moved(p, r, f, k), Placed(p)
  PROVE  Placed(r) /\ Total(r) = Total(p)
<1>1. \A w \in Whose : \A i \in 1..Len(r.sleep_q[w]) : Of(r.sleep_q[w][i]) = w
  BY MovedWithin DEF Within, Placed
<1>2. \A c \in Categories : \A i \in 1..Len(r.pending[c]) : r.pending[c][i].ac = c
  BY MovedPending DEF Placed
<1>3. Total(r) = Total(p)
  <2>1. /\ "sta" \in Whose /\ "grp" \in Whose /\ "sta" # "grp"
        /\ "be" \in Categories /\ "vo" \in Categories /\ "grp" \in Categories
    BY DEF Whose, Categories, ACs
  <2>2. f.ac \in {"be", "vo", "grp"} /\ Of(f) \in {"sta", "grp"}
    BY FrameFields DEF Categories, ACs, Whose
  <2>3. /\ Len(p.sleep_q["sta"]) \in Nat /\ Len(p.sleep_q["grp"]) \in Nat
        /\ Len(p.pending["be"]) \in Nat /\ Len(p.pending["vo"]) \in Nat
        /\ Len(p.pending["grp"]) \in Nat
    BY <2>1, Queues
  <2>4. \A v \in Whose : Len(r.sleep_q[v]) =
          IF v = Of(f) THEN Len(p.sleep_q[v]) - 1 ELSE Len(p.sleep_q[v])
    BY Zenon DEF Moved
  <2>5. \A c \in Categories : Len(r.pending[c]) =
          IF c = f.ac THEN Len(p.pending[c]) + 1 ELSE Len(p.pending[c])
    BY Zenon DEF Moved
  <2>6. /\ Len(r.sleep_q["sta"]) = IF "sta" = Of(f) THEN Len(p.sleep_q["sta"]) - 1
                                                    ELSE Len(p.sleep_q["sta"])
        /\ Len(r.sleep_q["grp"]) = IF "grp" = Of(f) THEN Len(p.sleep_q["grp"]) - 1
                                                    ELSE Len(p.sleep_q["grp"])
        /\ Len(r.pending["be"]) = IF "be" = f.ac THEN Len(p.pending["be"]) + 1
                                                 ELSE Len(p.pending["be"])
        /\ Len(r.pending["vo"]) = IF "vo" = f.ac THEN Len(p.pending["vo"]) + 1
                                                 ELSE Len(p.pending["vo"])
        /\ Len(r.pending["grp"]) = IF "grp" = f.ac THEN Len(p.pending["grp"]) + 1
                                                  ELSE Len(p.pending["grp"])
    BY <2>1, <2>4, <2>5
  <2> DEFINE a == Len(p.sleep_q["sta"])
             b == Len(p.sleep_q["grp"])
             x == Len(p.pending["be"])
             y == Len(p.pending["vo"])
             z == Len(p.pending["grp"])
             a1 == Len(r.sleep_q["sta"])
             b1 == Len(r.sleep_q["grp"])
             x1 == Len(r.pending["be"])
             y1 == Len(r.pending["vo"])
             z1 == Len(r.pending["grp"])
  <2>7. Total(p) = a + b + x + y + z /\ Total(r) = a1 + b1 + x1 + y1 + z1
    BY DEF Total
  <2>8. a \in Nat /\ b \in Nat /\ x \in Nat /\ y \in Nat /\ z \in Nat
    BY <2>3
  <2>9. \/ a1 = a - 1 /\ b1 = b
        \/ a1 = a /\ b1 = b - 1
    <3>1. Of(f) = "sta" \/ Of(f) = "grp"
      BY <2>2
    <3> QED
      BY <2>6, <3>1
  <2>10. \/ x1 = x + 1 /\ y1 = y /\ z1 = z
         \/ x1 = x /\ y1 = y + 1 /\ z1 = z
         \/ x1 = x /\ y1 = y /\ z1 = z + 1
    <3>1. f.ac = "be" \/ f.ac = "vo" \/ f.ac = "grp"
      BY <2>2
    <3> QED
      BY <2>6, <3>1
  <2> HIDE DEF a, b, x, y, z, a1, b1, x1, y1, z1
  <2> QED
    BY <2>7, <2>8, <2>9, <2>10
<1> QED
  BY <1>1, <1>2, <1>3 DEF Placed

\* A release brings in no newer frame.
LEMMA MovedOlder ==
  ASSUME NEW p \in States, NEW r \in States, NEW f \in Frames, NEW k,
         At(p, f, k), Moved(p, r, f, k), NEW h, NEW c \in Categories, NEW n,
         Older(p, h, c, n)
  PROVE  Older(r, h, c, n)
<1>1. \A w \in Whose : \A i \in 1..Len(r.sleep_q[w]) :
        r.sleep_q[w][i].ac = c => r.sleep_q[w][i].id < n
  BY MovedWithin DEF Within, Older
<1>2. f.ac = c => f.id < n
  BY FrameFields DEF At, Older
<1>3. \A i \in 1..Len(r.pending[c]) : r.pending[c][i].id < n
  BY <1>2, MovedPending DEF Older
<1> QED
  BY <1>1, <1>3 DEF Older

\* Releasing the first frame of a category keeps the categories in line.
LEMMA MovedLine ==
  ASSUME NEW p \in States, NEW r \in States, NEW f \in Frames, NEW k,
         At(p, f, k), Moved(p, r, f, k), Placed(p), NEW h, Line(p, h),
         \A j \in 1..(k - 1) : p.sleep_q[Of(f)][j].ac # f.ac
  PROVE  Line(r, h)
<1>1. /\ \A w \in Whose : Within(r.sleep_q[w], p.sleep_q[w])
      /\ Of(f) \in Whose /\ f.ac \in Categories
      /\ k \in 1..Len(p.sleep_q[Of(f)]) /\ p.sleep_q[Of(f)][k] = f
  BY MovedWithin, FrameFields DEF At
<1>2. ASSUME NEW c \in Categories PROVE InLine(r.pending[c])
  <2> SUFFICES ASSUME NEW i \in 1..Len(r.pending[c]), NEW j \in 1..Len(r.pending[c]),
                      i < j, r.pending[c][i].ac = r.pending[c][j].ac
               PROVE  r.pending[c][i].id < r.pending[c][j].id
    BY DEF InLine
  <2>1. CASE j \in 1..Len(p.pending[c]) /\ r.pending[c][j] = p.pending[c][j]
    <3>1. i \in 1..Len(p.pending[c])
      BY <2>1
    <3>2. r.pending[c][i] = p.pending[c][i]
      BY <3>1, MovedPending, Queues
    <3> QED
      BY <2>1, <3>1, <3>2 DEF Line, InLine
  <2>2. CASE c = f.ac /\ j = Len(p.pending[c]) + 1 /\ r.pending[c][j].id = f.id
    <3>1. i \in 1..Len(p.pending[c])
      BY <2>2, Queues
    <3>2. r.pending[c][i] = p.pending[c][i]
      BY <3>1, MovedPending, Queues
    <3>3. Follow(p.sleep_q[Of(f)], c, p.pending[c][i].id)
      BY <1>1, <3>1 DEF Line, PendingFirst
    <3> QED
      BY <1>1, <2>2, <3>2, <3>3 DEF Follow
  <2> QED
    BY <2>1, <2>2, MovedPending
<1>3. ASSUME NEW w \in Whose PROVE InLine(r.sleep_q[w])
  <2>1. CASE w # Of(f)
    BY <2>1 DEF Moved, Line
  <2>2. CASE w = Of(f)
    <3> SUFFICES ASSUME NEW i \in 1..Len(r.sleep_q[w]), NEW j \in 1..Len(r.sleep_q[w]),
                        i < j, r.sleep_q[w][i].ac = r.sleep_q[w][j].ac
                 PROVE  r.sleep_q[w][i].id < r.sleep_q[w][j].id
      BY DEF InLine
    <3>1. Len(p.sleep_q[w]) \in Nat /\ Len(r.sleep_q[w]) = Len(p.sleep_q[w]) - 1
      BY <2>2, Queues DEF Moved
    <3> DEFINE a == IF i < k THEN i ELSE i + 1
               b == IF j < k THEN j ELSE j + 1
    <3>2. a \in 1..Len(p.sleep_q[w]) /\ b \in 1..Len(p.sleep_q[w]) /\ a < b
      BY <1>1, <2>2, <3>1
    <3>3. r.sleep_q[w][i] = p.sleep_q[w][a] /\ r.sleep_q[w][j] = p.sleep_q[w][b]
      BY <2>2, <3>1 DEF Moved
    <3> HIDE DEF a, b
    <3>4. InLine(p.sleep_q[w])
      BY DEF Line
    <3> QED
      BY <3>2, <3>3, <3>4 DEF InLine
  <2> QED
    BY <2>1, <2>2
<1>4. ASSUME NEW w \in Whose, NEW c, NEW n, Follow(p.sleep_q[w], c, n)
      PROVE  Follow(r.sleep_q[w], c, n)
  BY <1>1, <1>4 DEF Follow, Within
<1>5. SentFirst(r, h)
  <2> SUFFICES ASSUME NEW c \in Categories, NEW i \in 1..Len(h[c])
               PROVE  /\ Follow(r.pending[c], c, h[c][i])
                      /\ \A w \in Whose : Follow(r.sleep_q[w], c, h[c][i])
    BY DEF SentFirst
  <2>1. /\ Follow(p.pending[c], c, h[c][i])
        /\ \A w \in Whose : Follow(p.sleep_q[w], c, h[c][i])
    BY DEF Line, SentFirst
  <2>2. f.ac = c => h[c][i] < f.id
    BY <1>1, <2>1 DEF Follow
  <2>3. Follow(r.pending[c], c, h[c][i])
    BY <2>1, <2>2, MovedPending DEF Follow
  <2> QED
    BY <1>4, <2>1, <2>3
<1>6. PendingFirst(r)
  <2> SUFFICES ASSUME NEW c \in Categories, NEW w \in Whose,
                      NEW i \in 1..Len(r.pending[c])
               PROVE  Follow(r.sleep_q[w], c, r.pending[c][i].id)
    BY DEF PendingFirst
  <2>1. CASE i \in 1..Len(p.pending[c]) /\ r.pending[c][i] = p.pending[c][i]
    BY <1>4, <2>1 DEF Line, PendingFirst
  <2>2. CASE c = f.ac /\ r.pending[c][i].id = f.id
    <3> SUFFICES ASSUME NEW j \in 1..Len(r.sleep_q[w]), r.sleep_q[w][j].ac = f.ac
                 PROVE  f.id < r.sleep_q[w][j].id
      BY <2>2 DEF Follow
    <3>1. w = Of(f)
      <4>1. PICK m \in 1..Len(p.sleep_q[w]) : r.sleep_q[w][j] = p.sleep_q[w][m]
        BY <1>1 DEF Within
      <4>2. Of(p.sleep_q[w][m]) = w
        BY DEF Placed
      <4> QED
        BY <4>1, <4>2 DEF Of
    <3>2. Len(p.sleep_q[w]) \in Nat /\ Len(r.sleep_q[w]) = Len(p.sleep_q[w]) - 1
      BY <3>1, Queues DEF Moved
    <3>3. r.sleep_q[w][j] = IF j < k THEN p.sleep_q[w][j] ELSE p.sleep_q[w][j + 1]
      BY <3>1, <3>2 DEF Moved
    <3>4. ~(j < k)
      <4> SUFFICES ASSUME j < k PROVE FALSE
        OBVIOUS
      <4>1. j \in 1..(k - 1)
        BY <1>1, <3>1, <3>2
      <4> QED
        BY <3>1, <3>3, <4>1
    <3>5. j + 1 \in 1..Len(p.sleep_q[w]) /\ k < j + 1
      BY <1>1, <3>1, <3>2, <3>4
    <3>6. InLine(p.sleep_q[w])
      BY DEF Line
    <3> QED
      BY <1>1, <3>1, <3>3, <3>4, <3>5, <3>6 DEF InLine
  <2> QED
    BY <2>1, <2>2, MovedPending
<1> QED
  BY <1>2, <1>3, <1>5, <1>6 DEF Line

(***************************************************************************)
(* The invariant of one state p, apart from Dozes: h is what was sent, B   *)
(* has the bounds <<c, n>> on the numbers of the frames of c, r counts the *)
(* races and l says whether a frame was late.                              *)
(***************************************************************************)
Sound(p, h, B, r, l) ==
  /\ p \in States
  /\ Placed(p) /\ GrpExact(p) /\ AcExact(p)
  /\ r = 0 => StaExact(p) /\ Shown(p)
  /\ l \/ Line(p, h)
  /\ \A b \in B : b[1] \in Categories /\ Older(p, h, b[1], b[2])

\* sleepq_len is exact after a release when it was exact before.
LEMMA MovedCounts ==
  ASSUME NEW p \in States, NEW r \in States, NEW f \in Frames, NEW k,
         At(p, f, k), Moved(p, r, f, k)
  PROVE  /\ GrpExact(p) => GrpExact(r)
         /\ StaExact(p) => StaExact(r)
<1>1. ASSUME NEW w \in Whose, p.len[w] = Len(p.sleep_q[w])
      PROVE  r.len[w] = Len(r.sleep_q[w])
  <2>1. CASE w # Of(f)
    BY <1>1, <2>1 DEF Moved
  <2>2. CASE w = Of(f)
    <3>1. k \in 1..Len(p.sleep_q[w]) /\ Len(p.sleep_q[w]) \in Nat
      BY <2>2, Queues DEF At
    <3>2. p.len[w] \in 0..(LenMod - 1) /\ p.len[w] > 0
      BY <1>1, <3>1, StateFields
    <3>3. r.len[w] = (p.len[w] - 1) % LenMod /\ Len(r.sleep_q[w]) = Len(p.sleep_q[w]) - 1
      BY <2>2 DEF Moved
    <3>4. (p.len[w] - 1) % LenMod = p.len[w] - 1
      BY <3>2, Counted
    <3> QED
      BY <1>1, <3>3, <3>4
  <2> QED
    BY <2>1, <2>2
<1> QED
  BY <1>1 DEF GrpExact, StaExact, Whose

\* A release leaves no frame buffered that was not announced.
LEMMA MovedShown ==
  ASSUME NEW p \in States, NEW r \in States, NEW f \in Frames, NEW k,
         At(p, f, k), Moved(p, r, f, k), Shown(p), r.tim = p.tim
  PROVE  Shown(r)
<1> SUFFICES ASSUME NEW w \in Whose, NEW i \in 1..Len(r.sleep_q[w]),
                    w = "grp" \/ Announced(r.sleep_q[w][i].ac)
             PROVE  w \in r.tim
  BY DEF Shown
<1>1. PICK j \in 1..Len(p.sleep_q[w]) : r.sleep_q[w][i] = p.sleep_q[w][j]
  BY MovedWithin DEF Within
<1> QED
  BY <1>1 DEF Shown

(***************************************************************************)
(* Both releases of a frame that has none of its category before it.       *)
(***************************************************************************)
LEMMA ReleaseSound ==
  ASSUME NEW p, NEW h, NEW B, NEW n, NEW l, Sound(p, h, B, n, l),
         NEW f \in Frames, NEW k, At(p, f, k),
         \A j \in 1..(k - 1) : p.sleep_q[Of(f)][j].ac # f.ac
  PROVE  /\ Sound(release_ac(p, f), h, B, n, l)
         /\ f.ac = "grp" \/ uapsd # ACs => Sound(release(p, f), h, B, n, l)
<1>0. p \in States
  BY DEF Sound
<1>1. ASSUME NEW r \in States, Moved(p, r, f, k), SameButQueues(p, r), AcExact(r)
      PROVE  Sound(r, h, B, n, l)
  <2>1. Placed(r)
    BY <1>0, <1>1, MovedPlaced DEF Sound
  <2>2. GrpExact(r) /\ (StaExact(p) => StaExact(r))
    BY <1>0, <1>1, MovedCounts DEF Sound
  <2>3. Shown(p) => Shown(r)
    BY <1>0, <1>1, MovedShown DEF SameButQueues
  <2>4. Line(p, h) => Line(r, h)
    BY <1>0, <1>1, MovedLine DEF Sound
  <2>5. \A b \in B : b[1] \in Categories /\ Older(r, h, b[1], b[2])
    BY <1>0, <1>1, MovedOlder DEF Sound
  <2> QED
    BY <1>1, <2>1, <2>2, <2>3, <2>4, <2>5 DEF Sound
<1>2. /\ release(p, f) \in States /\ release_ac(p, f) \in States
      /\ Moved(p, release(p, f), f, k) /\ SameButQueues(p, release(p, f))
      /\ Moved(p, release_ac(p, f), f, k) /\ SameButQueues(p, release_ac(p, f))
      /\ release(p, f).ac_len = p.ac_len
      /\ release_ac(p, f).ac_len =
           IF f.ac \in uapsd THEN (p.ac_len - 1) % LenMod ELSE p.ac_len
  BY <1>0, ReleaseState, ReleaseFacts
<1>3. f.ac \in ACs \/ f.ac = "grp"
  BY FrameFields DEF Categories
<1>4. f.ac = "grp" \/ uapsd # ACs => AcExact(release(p, f))
  <2>1. CASE f.ac = "grp"
    <3>1. "sta" \in Whose /\ "sta" # Of(f)
      BY <2>1 DEF Whose, Of
    <3>2. release(p, f).sleep_q["sta"] = p.sleep_q["sta"]
      BY <1>2, <3>1 DEF Moved
    <3> QED
      BY <1>2, <3>2 DEF AcExact, Sound
  <2>2. CASE uapsd # ACs
    BY <2>2 DEF AcExact
  <2> QED
    BY <2>1, <2>2
<1>5. AcExact(release_ac(p, f))
  <2> SUFFICES ASSUME uapsd = ACs
               PROVE  release_ac(p, f).ac_len = Len(release_ac(p, f).sleep_q["sta"])
    BY DEF AcExact
  <2>0. p.ac_len = Len(p.sleep_q["sta"])
    BY DEF AcExact, Sound
  <2>1. CASE f.ac \in ACs
    <3>1. Of(f) = "sta" /\ "sta" \in Whose
      BY <2>1 DEF ACs, Of, Whose
    <3>2. k \in 1..Len(p.sleep_q["sta"]) /\ Len(p.sleep_q["sta"]) \in Nat
      BY <1>0, <3>1, Queues DEF At
    <3>3. p.ac_len \in 0..(LenMod - 1) /\ p.ac_len > 0
      BY <1>0, <2>0, <3>2, StateFields
    <3>4. (p.ac_len - 1) % LenMod = p.ac_len - 1
      BY <3>3, Counted
    <3>5. Len(release_ac(p, f).sleep_q["sta"]) = Len(p.sleep_q["sta"]) - 1
      BY <1>2, <3>1 DEF Moved
    <3> QED
      BY <1>2, <2>0, <2>1, <3>4, <3>5
  <2>2. CASE f.ac \notin ACs
    <3>1. "sta" \in Whose /\ "sta" # Of(f)
      BY <1>3, <2>2 DEF Whose, Of
    <3>2. release_ac(p, f).sleep_q["sta"] = p.sleep_q["sta"]
      BY <1>2, <3>1 DEF Moved
    <3> QED
      BY <1>2, <2>0, <2>2, <3>2
  <2> QED
    BY <2>1, <2>2
<1> QED
  BY <1>1, <1>2, <1>4, <1>5

(***************************************************************************)
(* From p to x the first i frames of w's sleep queue were released.        *)
(***************************************************************************)
Released(p, x, w, i) ==
  /\ SameButQueues(p, x) /\ Total(x) = Total(p)
  /\ \A v \in Whose : v # w => x.sleep_q[v] = p.sleep_q[v] /\ x.len[v] = p.len[v]
  /\ Len(x.sleep_q[w]) = Len(p.sleep_q[w]) - i
  /\ \A j \in 1..(Len(p.sleep_q[w]) - i) : x.sleep_q[w][j] = p.sleep_q[w][i + j]

\* One turn of the loops of wakeup_sta_to_xmit keeps the invariant.
LEMMA ReleaseStep ==
  ASSUME NEW p \in States, NEW x, NEW h, NEW B, NEW n, NEW l, Sound(x, h, B, n, l),
         NEW w \in Whose, NEW i \in 1..Len(p.sleep_q[w]), Placed(p),
         Released(p, x, w, i - 1)
  PROVE  LET f == p.sleep_q[w][i]
         IN  /\ Sound(release_ac(x, f), h, B, n, l)
             /\ Released(p, release_ac(x, f), w, i)
             /\ w = "grp" => /\ Sound(release(x, f), h, B, n, l)
                             /\ Released(p, release(x, f), w, i)
<1> DEFINE f == p.sleep_q[w][i]
<1>1. f \in Frames /\ Of(f) = w /\ Len(p.sleep_q[w]) \in Nat
  BY Queues DEF Placed
<1>2. At(x, f, 1)
  <2>1. 1 \in 1..(Len(p.sleep_q[w]) - (i - 1)) /\ (i - 1) + 1 = i
    BY <1>1
  <2>2. Len(x.sleep_q[w]) = Len(p.sleep_q[w]) - (i - 1)
        /\ x.sleep_q[w][1] = p.sleep_q[w][(i - 1) + 1]
    BY <2>1 DEF Released
  <2>3. \A j \in 1..(1 - 1) : FALSE
    OBVIOUS
  <2> QED
    BY <1>1, <2>1, <2>2, <2>3 DEF At
<1>3. x \in States /\ \A j \in 1..(1 - 1) : x.sleep_q[Of(f)][j].ac # f.ac
  BY DEF Sound
<1> HIDE DEF f
<1>4. ASSUME NEW r \in States, Moved(x, r, f, 1), SameButQueues(x, r)
      PROVE  Released(p, r, w, i)
  <2>1. SameButQueues(p, r)
    BY <1>4 DEF Released, SameButQueues
  <2>2. Total(r) = Total(p)
    <3>1. Placed(x) /\ Total(x) = Total(p)
      BY DEF Released, Sound
    <3> QED
      BY <1>1, <1>2, <1>3, <1>4, <3>1, MovedPlaced
  <2>3. \A v \in Whose : v # w => r.sleep_q[v] = p.sleep_q[v] /\ r.len[v] = p.len[v]
    BY <1>1, <1>4 DEF Moved, Released
  <2>4. /\ Len(x.sleep_q[w]) = Len(p.sleep_q[w]) - (i - 1)
        /\ \A j \in 1..(Len(p.sleep_q[w]) - (i - 1)) :
             x.sleep_q[w][j] = p.sleep_q[w][(i - 1) + j]
    BY DEF Released
  <2>5. /\ Len(r.sleep_q[w]) = Len(x.sleep_q[w]) - 1
        /\ \A j \in 1..(Len(x.sleep_q[w]) - 1) :
             r.sleep_q[w][j] = IF j < 1 THEN x.sleep_q[w][j] ELSE x.sleep_q[w][j + 1]
    BY <1>1, <1>4 DEF Moved
  <2>6. Len(r.sleep_q[w]) = Len(p.sleep_q[w]) - i
    BY <1>1, <2>4, <2>5
  <2>7. ASSUME NEW j \in 1..(Len(p.sleep_q[w]) - i)
        PROVE  r.sleep_q[w][j] = p.sleep_q[w][i + j]
    <3>1. j \in 1..(Len(x.sleep_q[w]) - 1) /\ ~(j < 1)
          /\ j + 1 \in 1..(Len(p.sleep_q[w]) - (i - 1)) /\ (i - 1) + (j + 1) = i + j
      BY <1>1, <2>4
    <3>2. r.sleep_q[w][j] = x.sleep_q[w][j + 1]
      BY <2>5, <3>1
    <3>3. x.sleep_q[w][j + 1] = p.sleep_q[w][(i - 1) + (j + 1)]
      BY <2>4, <3>1
    <3> QED
      BY <3>1, <3>2, <3>3
  <2> QED
    BY <2>1, <2>2, <2>3, <2>6, <2>7 DEF Released
<1>5. w = "grp" => f.ac = "grp"
  BY <1>1 DEF Of
<1>6. /\ Sound(release_ac(x, f), h, B, n, l)
      /\ w = "grp" => Sound(release(x, f), h, B, n, l)
  BY <1>1, <1>2, <1>3, <1>5, ReleaseSound
<1>7. Released(p, release_ac(x, f), w, i) /\ Released(p, release(x, f), w, i)
  BY <1>1, <1>2, <1>3, <1>4, ReleaseState, ReleaseFacts
<1> QED
  BY <1>6, <1>7 DEF f

-----------------------------------------------------------------------------
(* The operations that release frames.                                     *)

SameQueues(p, r) ==
  /\ r.sleep_q = p.sleep_q /\ r.len = p.len /\ r.ac_len = p.ac_len
  /\ r.pending = p.pending

\* A step that leaves the queues alone keeps it when the frames stay announced.
LEMMA Retouched ==
  ASSUME NEW p, NEW h, NEW B, NEW n, NEW l, Sound(p, h, B, n, l),
         NEW r \in States, SameQueues(p, r), n = 0 => Shown(r)
  PROVE  /\ Sound(r, h, B, n, l) /\ Total(r) = Total(p)
         /\ (r.asleep = p.asleep /\ r.dz = p.dz /\ Dozes(p)) => Dozes(r)
<1>1. Placed(r) /\ GrpExact(r) /\ AcExact(r) /\ (StaExact(p) => StaExact(r))
  BY DEF Sound, SameQueues, Placed, GrpExact, AcExact, StaExact
<1>2. Line(p, h) => Line(r, h)
  BY DEF SameQueues, Line, SentFirst, PendingFirst
<1>3. \A b \in B : b[1] \in Categories /\ Older(r, h, b[1], b[2])
  BY DEF Sound, SameQueues, Older
<1>4. Total(r) = Total(p)
  BY DEF SameQueues, Total
<1>5. r.asleep = p.asleep /\ r.dz = p.dz /\ Dozes(p) => Dozes(r)
  BY DEF SameQueues, Dozes
<1> QED
  BY <1>1, <1>2, <1>3, <1>4, <1>5 DEF Sound

\* wakeup_sta_to_xmit empties a sleep queue and keeps the invariant.
LEMMA ReleaseAll ==
  ASSUME NEW p, NEW h, NEW B, NEW n, NEW l, Sound(p, h, B, n, l)
  PROVE  LET r == FoldLeft(release, p, p.sleep_q["grp"])
             a == FoldLeft(release_ac, p, p.sleep_q["sta"])
         IN  /\ Sound(r, h, B, n, l)
             /\ Released(p, r, "grp", Len(p.sleep_q["grp"]))
             /\ Sound(a, h, B, n, l)
             /\ Released(p, a, "sta", Len(p.sleep_q["sta"]))
<1>1. p \in States /\ Placed(p) /\ "grp" \in Whose /\ "sta" \in Whose
  BY DEF Sound, Whose
<1>2. ASSUME NEW w \in Whose
      PROVE  /\ p.sleep_q[w] \in Seq(Frames) /\ Len(p.sleep_q[w]) \in Nat
             /\ Released(p, p, w, 0)
  <2>1. p.sleep_q[w] \in Seq(Frames) /\ Len(p.sleep_q[w]) \in Nat
    BY <1>1, Queues
  <2> QED
    BY <2>1 DEF Released, SameButQueues
<1> DEFINE T(w) == [i \in 0..Len(p.sleep_q[w]) |->
                      {x \in States : Sound(x, h, B, n, l) /\ Released(p, x, w, i)}]
<1>3. ASSUME NEW w \in Whose
      PROVE  /\ p \in T(w)[0]
             /\ \A i \in 1..Len(p.sleep_q[w]) : \A x \in T(w)[i - 1] :
                  /\ release_ac(x, p.sleep_q[w][i]) \in T(w)[i]
                  /\ w = "grp" => release(x, p.sleep_q[w][i]) \in T(w)[i]
  <2>1. p \in T(w)[0]
    BY <1>1, <1>2
  <2>2. ASSUME NEW i \in 1..Len(p.sleep_q[w]), NEW x \in T(w)[i - 1]
        PROVE  /\ release_ac(x, p.sleep_q[w][i]) \in T(w)[i]
               /\ w = "grp" => release(x, p.sleep_q[w][i]) \in T(w)[i]
    <3>1. i \in 0..Len(p.sleep_q[w]) /\ i - 1 \in 0..Len(p.sleep_q[w])
      BY <1>2
    <3>2. Sound(x, h, B, n, l) /\ Released(p, x, w, i - 1)
      BY <3>1
    <3>3. \A y : y \in T(w)[i] <=>
                 y \in States /\ Sound(y, h, B, n, l) /\ Released(p, y, w, i)
      BY <3>1
    <3> HIDE DEF T
    <3>4. LET f == p.sleep_q[w][i]
          IN  /\ Sound(release_ac(x, f), h, B, n, l)
              /\ Released(p, release_ac(x, f), w, i)
              /\ w = "grp" => /\ Sound(release(x, f), h, B, n, l)
                              /\ Released(p, release(x, f), w, i)
      BY <1>1, <3>2, ReleaseStep
    <3> QED
      BY <3>3, <3>4 DEF Sound
  <2> QED
    BY <2>1, <2>2
<1>4. ASSUME NEW w \in Whose
      PROVE  \A y \in T(w)[Len(p.sleep_q[w])] :
               Sound(y, h, B, n, l) /\ Released(p, y, w, Len(p.sleep_q[w]))
  BY <1>2
<1> HIDE DEF T
<1>5. FoldLeft(release, p, p.sleep_q["grp"]) \in T("grp")[Len(p.sleep_q["grp"])]
  <2>1. \A x \in States, f \in Frames : release(x, f) \in States
    BY ReleaseState
  <2>2. \A i \in 1..Len(p.sleep_q["grp"]) : \A x \in T("grp")[i - 1] :
          release(x, p.sleep_q["grp"][i]) \in T("grp")[i]
    BY <1>1, <1>3
  <2>3. p \in T("grp")[0] /\ p.sleep_q["grp"] \in Seq(Frames)
    BY <1>1, <1>2, <1>3
  <2> QED
    BY <1>1, <2>1, <2>2, <2>3, ReleaseFold
<1>6. FoldLeft(release_ac, p, p.sleep_q["sta"]) \in T("sta")[Len(p.sleep_q["sta"])]
  <2>1. \A x \in States, f \in Frames : release_ac(x, f) \in States
    BY ReleaseState
  <2>2. \A i \in 1..Len(p.sleep_q["sta"]) : \A x \in T("sta")[i - 1] :
          release_ac(x, p.sleep_q["sta"][i]) \in T("sta")[i]
    BY <1>1, <1>3
  <2>3. p \in T("sta")[0] /\ p.sleep_q["sta"] \in Seq(Frames)
    BY <1>1, <1>2, <1>3
  <2> QED
    BY <1>1, <2>1, <2>2, <2>3, ReleaseAcFold
<1> QED
  BY <1>1, <1>4, <1>5, <1>6

(***************************************************************************)
(* wakeup_sta_to_xmit empties the queue of the station, and that of the    *)
(* group when no station dozes any more.                                   *)
(***************************************************************************)
LEMMA WakeupSound ==
  ASSUME NEW p, NEW h, NEW B, NEW n, NEW l, Sound(p, h, B, n, l), Dozes(p)
  PROVE  /\ Sound(wakeup_sta_to_xmit(p), h, B, n, l)
         /\ Dozes(wakeup_sta_to_xmit(p)) /\ Total(wakeup_sta_to_xmit(p)) = Total(p)
<1> DEFINE out == FoldLeft(release_ac, p, p.sleep_q["sta"])
           up == IF out.len["sta"] # 0 THEN out
                 ELSE [out EXCEPT !.tim = @ \ {"sta"}, !.dz = @ \ {"sta"},
                                  !.asleep = FALSE, !.alive_chk = FALSE]
           all == FoldLeft(release, up, up.sleep_q["grp"])
           Fine(u) == /\ Sound(u, h, B, n, l) /\ Total(u) = Total(p)
                      /\ Len(u.sleep_q["sta"]) = 0
                      /\ "sta" \in u.dz => Dozes(u)
                      /\ "sta" \notin u.dz => ~u.asleep
           end == [all EXCEPT !.tim = @ \ {"grp"}, !.dz = @ \ {"grp"}]
<1>0. /\ "grp" \in Whose /\ "sta" \in Whose /\ "sta" # "grp"
      /\ \A w \in Whose : w = "sta" \/ w = "grp"
      /\ \A w \in Whose : Len(p.sleep_q[w]) \in Nat
      /\ p.dz \in SUBSET Whose
  BY Queues, StateFields DEF Whose, Sound
<1>1. Sound(out, h, B, n, l) /\ Released(p, out, "sta", Len(p.sleep_q["sta"]))
  BY ReleaseAll
<1> HIDE DEF out
<1>2. /\ Total(out) = Total(p) /\ Len(out.sleep_q["sta"]) = 0
      /\ out.dz = p.dz
      /\ out.sleep_q["grp"] = p.sleep_q["grp"] /\ out \in States
  <2>1. Total(out) = Total(p) /\ out.dz = p.dz
        /\ out.sleep_q["grp"] = p.sleep_q["grp"] /\ out \in States
    BY <1>0, <1>1 DEF Released, SameButQueues, Sound
  <2>2. Len(out.sleep_q["sta"]) = Len(p.sleep_q["sta"]) - Len(p.sleep_q["sta"])
    BY <1>1 DEF Released
  <2> QED
    BY <1>0, <2>1, <2>2
<1>2a. out.asleep = p.asleep
  BY <1>1, Zenon DEF Released, SameButQueues
<1>3. ASSUME out.len["sta"] # 0 PROVE Fine(up)
  <2>1. up = out
    BY <1>3
  <2>2. out.asleep => "sta" \in out.dz
    BY <1>2, <1>2a DEF Dozes
  <2>3. ~out.asleep => out.dz = {} /\ Len(out.sleep_q["sta"]) = 0
    BY <1>2, <1>2a DEF Dozes
  <2>4. out.dz = {} => Len(out.sleep_q["grp"]) = 0
    BY <1>2 DEF Dozes
  <2>5. Dozes(out)
    BY <2>2, <2>3, <2>4 DEF Dozes
  <2>6. Fine(out)
    BY <1>1, <1>2, <2>2, <2>5
  <2> HIDE DEF up, Fine
  <2> QED
    BY <2>1, <2>6
<1>4. ASSUME out.len["sta"] = 0 PROVE Fine(up)
  <2> DEFINE u == [out EXCEPT !.tim = @ \ {"sta"}, !.dz = @ \ {"sta"},
                              !.asleep = FALSE, !.alive_chk = FALSE]
  <2>1. up = u
    BY <1>4
  <2>2. u \in States /\ SameQueues(out, u)
    BY <1>2 DEF States, SameQueues
  <2>3. u.tim = out.tim \ {"sta"} /\ u.dz = out.dz \ {"sta"} /\ ~u.asleep
        /\ u.sleep_q = out.sleep_q
    BY <1>2 DEF States
  <2> HIDE DEF u, up
  <2>4. Shown(out) => Shown(u)
    BY <1>0, <1>2, <2>3 DEF Shown
  <2>5. Sound(u, h, B, n, l) /\ Total(u) = Total(out)
    <3>1. n = 0 => Shown(u)
      BY <1>1, <2>4 DEF Sound
    <3> QED
      BY <1>1, <2>2, <3>1, Retouched
  <2>6. Len(u.sleep_q["sta"]) = 0 /\ "sta" \notin u.dz
    BY <1>2, <2>3
  <2>7. Fine(u)
    BY <1>2, <2>3, <2>5, <2>6
  <2> HIDE DEF Fine
  <2> QED
    BY <2>1, <2>7
<1>5. /\ Sound(up, h, B, n, l) /\ Total(up) = Total(p)
      /\ Len(up.sleep_q["sta"]) = 0
      /\ "sta" \in up.dz => Dozes(up)
      /\ "sta" \notin up.dz => ~up.asleep
  <2>1. Fine(up)
    <3> HIDE DEF up, Fine
    <3> QED
      BY <1>3, <1>4
  <2> HIDE DEF up
  <2> QED
    BY <2>1
<1> HIDE DEF up
<1>6. CASE "sta" \in up.dz
  <2>1. wakeup_sta_to_xmit(p) = up
    BY <1>6, Zenon DEF wakeup_sta_to_xmit, up, out
  <2> QED
    BY <1>5, <1>6, <2>1
<1>7. CASE "sta" \notin up.dz
  <2>1. Sound(all, h, B, n, l) /\ Released(up, all, "grp", Len(up.sleep_q["grp"]))
    BY <1>5, ReleaseAll
  <2> HIDE DEF all
  <2>2. up.dz \in SUBSET Whose /\ Len(up.sleep_q["grp"]) \in Nat
    BY <1>0, <1>5, Queues, StateFields DEF Sound
  <2>3. /\ all \in States /\ Total(all) = Total(p) /\ all.dz = up.dz
        /\ all.sleep_q["sta"] = up.sleep_q["sta"]
    BY <1>0, <1>5, <2>1 DEF Released, SameButQueues, Sound
  <2>4. Len(all.sleep_q["grp"]) = 0
    BY <2>1, <2>2 DEF Released
  <2>5. all.asleep = up.asleep
    BY <2>1, Zenon DEF Released, SameButQueues
  <2>6. all.len["grp"] = 0
    BY <2>1, <2>4 DEF Sound, GrpExact
  <2>7. wakeup_sta_to_xmit(p) = end
    BY <1>7, <2>6, Zenon DEF wakeup_sta_to_xmit, all, up, out
  <2>8. end \in States /\ SameQueues(all, end)
    BY <2>3 DEF States, SameQueues
  <2>9. end.dz = all.dz \ {"grp"} /\ end.asleep = all.asleep
        /\ end.sleep_q = all.sleep_q
    BY <2>3 DEF States
  <2> HIDE DEF end
  <2>10. Len(end.sleep_q["sta"]) = 0 /\ Len(end.sleep_q["grp"]) = 0
    BY <1>5, <2>3, <2>4, <2>9
  <2>11. Shown(end)
    BY <1>0, <2>10 DEF Shown
  <2>12. Sound(end, h, B, n, l) /\ Total(end) = Total(p)
    BY <2>1, <2>3, <2>8, <2>11, Retouched
  <2>13. end.dz = {}
    BY <1>0, <1>7, <2>2, <2>3, <2>9
  <2>14. ~end.asleep
    BY <1>5, <1>7, <2>5, <2>9
  <2> QED
    BY <2>7, <2>10, <2>12, <2>13, <2>14 DEF Dozes
<1> QED
  BY <1>6, <1>7

\* _update_beacon changes only the beacon and the command queue.
LEMMA BeaconUpdated ==
  ASSUME NEW p \in States
  PROVE  /\ update_beacon(p) \in States /\ SameQueues(p, update_beacon(p))
         /\ update_beacon(p).tim = p.tim /\ update_beacon(p).dz = p.dz
         /\ update_beacon(p).asleep = p.asleep
<1>1. p.tim \in SUBSET Whose /\ Append(p.cmdq, "beacon") \in Seq({"beacon", "bmc"})
  BY StateFields
<1> DEFINE q == Append(p.cmdq, "beacon")
<1>2. update_beacon(p) = [p EXCEPT !.bcn = p.tim, !.cmdq = q]
  BY DEF update_beacon
<1> HIDE DEF q
<1>3. q \in Seq({"beacon", "bmc"})
  BY <1>1 DEF q
<1> QED
  BY <1>1, <1>2, <1>3 DEF States, SameQueues

\* The state after "sta" was taken out of the bitmap and the beacon updated.
Withdrawn(p) == update_beacon([p EXCEPT !.tim = @ \ {"sta"}])

\* Taking the station out of tim_bitmap is sound once its queue is empty.
LEMMA WithdrawnSound ==
  ASSUME NEW p, NEW h, NEW B, NEW n, NEW l, Sound(p, h, B, n, l),
         n = 0 => Len(p.sleep_q["sta"]) = 0
  PROVE  /\ Sound(Withdrawn(p), h, B, n, l) /\ Total(Withdrawn(p)) = Total(p)
         /\ Withdrawn(p).asleep = p.asleep /\ Withdrawn(p).dz = p.dz
         /\ Withdrawn(p).sleep_q = p.sleep_q
<1> DEFINE u == [p EXCEPT !.tim = @ \ {"sta"}]
<1>1. p \in States
  BY DEF Sound
<1>2. u \in States /\ SameQueues(p, u)
  BY <1>1 DEF States, SameQueues
<1>3. u.tim = p.tim \ {"sta"} /\ u.dz = p.dz /\ u.asleep = p.asleep
  BY <1>1 DEF States
<1> HIDE DEF u
<1> DEFINE r == update_beacon(u)
<1>4. /\ r \in States /\ SameQueues(u, r) /\ r.tim = u.tim /\ r.dz = u.dz
      /\ r.asleep = u.asleep
  BY <1>2, BeaconUpdated
<1>5. r = Withdrawn(p)
  BY DEF Withdrawn, u
<1> HIDE DEF r
<1>6. SameQueues(p, r)
  BY <1>2, <1>4 DEF SameQueues
<1>7. n = 0 => Shown(r)
  <2> SUFFICES ASSUME n = 0, NEW w \in Whose, NEW i \in 1..Len(r.sleep_q[w]),
                      w = "grp" \/ Announced(r.sleep_q[w][i].ac)
               PROVE  w \in r.tim
    BY DEF Shown
  <2>1. r.sleep_q = p.sleep_q /\ Shown(p)
    BY <1>6 DEF SameQueues, Sound
  <2>2. w # "sta"
    BY <2>1
  <2>3. w \in p.tim
    BY <2>1 DEF Shown
  <2> QED
    BY <1>3, <1>4, <2>2, <2>3
<1>8. Sound(r, h, B, n, l) /\ Total(r) = Total(p)
  BY <1>4, <1>6, <1>7, Retouched
<1>9. r.asleep = p.asleep
  BY <1>3, <1>4, Zenon
<1> QED
  BY <1>3, <1>4, <1>5, <1>6, <1>8, <1>9 DEF SameQueues

\* What one turn of xmit_delivery_enabled_frames does to a frame.
LEMMA DeliverState ==
  ASSUME NEW p \in States, NEW f \in Frames
  PROVE  /\ deliver(p, f) \in States
         /\ f.ac \notin uapsd => deliver(p, f) = p
         /\ f.ac \in uapsd =>
              \/ deliver(p, f) = release_ac(p, f)
              \/ /\ release_ac(p, f).ac_len = 0 /\ uapsd = ACs
                 /\ deliver(p, f) = Withdrawn(release_ac(p, f))
<1> DEFINE out == release_ac(p, f)
<1>1. out \in States
  BY ReleaseState
<1>2. [out EXCEPT !.tim = @ \ {"sta"}] \in States
  <2> HIDE DEF out
  <2> QED
    BY <1>1 DEF States
<1>3. Withdrawn(out) \in States
  BY <1>2, BeaconUpdated DEF Withdrawn
<1>4. deliver(p, f) = IF f.ac \notin uapsd THEN p
                      ELSE IF out.ac_len = 0 /\ uapsd = ACs THEN Withdrawn(out)
                      ELSE out
  BY DEF deliver, Withdrawn, has_legacy_ac
<1> HIDE DEF out
<1> QED
  BY <1>1, <1>3, <1>4 DEF out

(***************************************************************************)
(* From p to x the first i frames of the station's queue were looked at:   *)
(* those without U-APSD are kept, in front of the others.                  *)
(***************************************************************************)
Delivering(p, x, i) ==
  /\ x.asleep = p.asleep /\ x.dz = p.dz /\ Total(x) = Total(p)
  /\ x.sleep_q["grp"] = p.sleep_q["grp"]
  /\ \E k \in 0..i :
       /\ Len(x.sleep_q["sta"]) = k + (Len(p.sleep_q["sta"]) - i)
       /\ \A j \in 1..k : x.sleep_q["sta"][j].ac \notin uapsd
       /\ \A j \in 1..(Len(p.sleep_q["sta"]) - i) :
            x.sleep_q["sta"][k + j] = p.sleep_q["sta"][i + j]

\* One turn of the loop of xmit_delivery_enabled_frames keeps the invariant.
LEMMA DeliverStep ==
  ASSUME NEW p \in States, NEW x, NEW h, NEW B, NEW n, NEW l, Sound(x, h, B, n, l),
         NEW i \in 1..Len(p.sleep_q["sta"]), Placed(p), Delivering(p, x, i - 1)
  PROVE  LET f == p.sleep_q["sta"][i]
         IN  Sound(deliver(x, f), h, B, n, l) /\ Delivering(p, deliver(x, f), i)
<1> DEFINE q == p.sleep_q["sta"]
           c == x.sleep_q["sta"]
           f == q[i]
           r == release_ac(x, f)
<1>0. "sta" \in Whose /\ "grp" \in Whose /\ x \in States
  BY DEF Sound, Whose
<1>1. /\ f \in Frames /\ Of(f) = "sta" /\ Len(q) \in Nat /\ i \in Nat /\ i <= Len(q)
      /\ i >= 1
  BY <1>0, Queues DEF Placed
<1>2. PICK k \in 0..(i - 1) :
        /\ Len(c) = k + (Len(q) - (i - 1))
        /\ \A j \in 1..k : c[j].ac \notin uapsd
        /\ \A j \in 1..(Len(q) - (i - 1)) : c[k + j] = q[(i - 1) + j]
  BY DEF Delivering
<1> HIDE DEF q, c
<1>3. k + 1 \in 1..Len(c) /\ c[k + 1] = f /\ k \in Nat /\ k <= i - 1
  <2>1. 1 \in 1..(Len(q) - (i - 1)) /\ (i - 1) + 1 = i
    BY <1>1
  <2>2. c[k + 1] = q[(i - 1) + 1]
    BY <1>2, <2>1
  <2> QED
    BY <1>1, <1>2, <2>1, <2>2
<1>3a. Len(c) = (k + 1) + (Len(q) - i)
  BY <1>1, <1>2, <1>3
<1>3b. \A j \in 1..(Len(q) - i) : c[(k + 1) + j] = q[i + j]
  <2> TAKE j \in 1..(Len(q) - i)
  <2>1. j + 1 \in 1..(Len(q) - (i - 1)) /\ (i - 1) + (j + 1) = i + j
        /\ k + (j + 1) = (k + 1) + j
    BY <1>1, <1>3
  <2>2. c[k + (j + 1)] = q[(i - 1) + (j + 1)]
    BY <1>2, <2>1
  <2> QED
    BY <2>1, <2>2
<1>4. CASE f.ac \notin uapsd
  <2>1. deliver(x, f) = x
    BY <1>0, <1>1, <1>4, DeliverState
  <2>2. \A j \in 1..(k + 1) : c[j].ac \notin uapsd
    BY <1>2, <1>3, <1>4
  <2>3. k + 1 \in 0..i
    BY <1>1, <1>3
  <2> HIDE DEF f
  <2>4. Delivering(p, x, i)
    BY <1>3a, <1>3b, <2>2, <2>3 DEF Delivering, c, q
  <2> QED
    BY <2>1, <2>4 DEF f, q
<1>5. CASE f.ac \in uapsd
  <2>1. At(x, f, k + 1)
    <3>1. \A j \in 1..((k + 1) - 1) : c[j] # f
      BY <1>2, <1>3, <1>5
    <3> HIDE DEF f
    <3> QED
      BY <1>1, <1>3, <3>1 DEF At, c
  <2>2. \A j \in 1..((k + 1) - 1) : x.sleep_q[Of(f)][j].ac # f.ac
    <3>1. \A j \in 1..((k + 1) - 1) : c[j].ac # f.ac
      BY <1>2, <1>3, <1>5
    <3> HIDE DEF f
    <3> QED
      BY <1>1, <3>1 DEF c
  <2> HIDE DEF f
  <2>3. Sound(r, h, B, n, l)
    BY <1>1, <2>1, <2>2, ReleaseSound
  <2>4. r \in States /\ Moved(x, r, f, k + 1) /\ SameButQueues(x, r)
    BY <1>0, <1>1, <2>1, ReleaseState, ReleaseFacts
  <2> HIDE DEF r
  <2>5. /\ Len(r.sleep_q["sta"]) = Len(c) - 1
        /\ \A j \in 1..(Len(c) - 1) :
             r.sleep_q["sta"][j] = IF j < k + 1 THEN c[j] ELSE c[j + 1]
        /\ r.sleep_q["grp"] = x.sleep_q["grp"]
    BY <1>0, <1>1, <2>4 DEF Moved, c
  <2>6. /\ Len(r.sleep_q["sta"]) = k + (Len(q) - i) /\ k \in 0..i
        /\ Len(c) - 1 = k + (Len(q) - i)
    BY <1>1, <1>3, <1>3a, <2>5
  <2>7. \A j \in 1..k : r.sleep_q["sta"][j].ac \notin uapsd
    <3> TAKE j \in 1..k
    <3>1. j \in 1..(Len(c) - 1) /\ j < k + 1
      BY <1>1, <1>3, <2>6
    <3> QED
      BY <1>2, <2>5, <3>1
  <2>8. \A j \in 1..(Len(q) - i) : r.sleep_q["sta"][k + j] = q[i + j]
    <3> TAKE j \in 1..(Len(q) - i)
    <3>1. k + j \in 1..(Len(c) - 1) /\ ~(k + j < k + 1) /\ (k + j) + 1 = (k + 1) + j
      BY <1>1, <1>3, <2>6
    <3>2. r.sleep_q["sta"][k + j] = c[(k + j) + 1]
      BY <2>5, <3>1
    <3> QED
      BY <1>3b, <3>1, <3>2
  <2>9. Total(r) = Total(x) /\ r.dz = x.dz
    <3>1. Placed(x)
      BY DEF Sound
    <3> QED
      BY <1>0, <1>1, <2>1, <2>4, <3>1, MovedPlaced DEF SameButQueues
  <2>10. r.asleep = x.asleep
    BY <2>4, Zenon DEF SameButQueues
  <2>11. x.asleep = p.asleep
    BY Zenon DEF Delivering
  <2>12. /\ r.dz = p.dz /\ Total(r) = Total(p)
         /\ r.sleep_q["grp"] = p.sleep_q["grp"] /\ r.asleep = p.asleep
    <3>1. /\ r.dz = p.dz /\ Total(r) = Total(p)
          /\ r.sleep_q["grp"] = p.sleep_q["grp"]
      BY <2>5, <2>9 DEF Delivering
    <3> QED
      BY <2>10, <2>11, <3>1, Zenon
  <2>13. Delivering(p, r, i)
    BY <2>6, <2>7, <2>8, <2>12 DEF Delivering, q
  <2>14. CASE deliver(x, f) = r
    BY <2>3, <2>13, <2>14 DEF f, q
  <2>15. CASE r.ac_len = 0 /\ uapsd = ACs /\ deliver(x, f) = Withdrawn(r)
    <3>1. Len(r.sleep_q["sta"]) = 0
      BY <2>3, <2>15 DEF Sound, AcExact
    <3>2. /\ Sound(Withdrawn(r), h, B, n, l) /\ Total(Withdrawn(r)) = Total(r)
          /\ Withdrawn(r).asleep = r.asleep /\ Withdrawn(r).dz = r.dz
          /\ Withdrawn(r).sleep_q = r.sleep_q
      BY <2>3, <3>1, WithdrawnSound
    <3>3. Delivering(p, Withdrawn(r), i)
      <4>1. Withdrawn(r).asleep = p.asleep
        BY <2>12, <3>2, Zenon
      <4> QED
        BY <2>13, <3>2, <4>1 DEF Delivering
    <3> QED
      BY <2>15, <3>2, <3>3 DEF f, q
  <2> QED
    BY <1>0, <1>1, <1>5, <2>14, <2>15, DeliverState DEF r
<1> QED
  BY <1>4, <1>5

(***************************************************************************)
(* xmit_delivery_enabled_frames as a whole.                                *)
(***************************************************************************)
LEMMA DeliverySound ==
  ASSUME NEW p, NEW h, NEW B, NEW n, NEW l, Sound(p, h, B, n, l), Dozes(p), p.asleep
  PROVE  LET r == xmit_delivery_enabled_frames(p)
         IN  Sound(r, h, B, n, l) /\ Dozes(r) /\ Total(r) = Total(p)
<1> DEFINE q == p.sleep_q["sta"]
           T == [i \in 0..Len(q) |->
                  {x \in States : Sound(x, h, B, n, l) /\ Delivering(p, x, i)}]
           r == xmit_delivery_enabled_frames(p)
<1>1. p \in States /\ Placed(p) /\ q \in Seq(Frames) /\ Len(q) \in Nat
  BY Queues DEF Sound, Whose
<1>2. \A i \in 0..Len(q) : \A y :
        y \in T[i] <=> y \in States /\ Sound(y, h, B, n, l) /\ Delivering(p, y, i)
  OBVIOUS
<1> HIDE DEF T
<1>3. p \in T[0]
  <2>1. /\ 0 \in 0..0 /\ Len(q) = 0 + (Len(q) - 0) /\ \A j \in 1..0 : FALSE
        /\ \A j \in 1..(Len(q) - 0) : q[0 + j] = q[j]
    BY <1>1
  <2>2. Delivering(p, p, 0)
    BY <1>1, <2>1 DEF Delivering
  <2> QED
    BY <1>1, <1>2, <2>2
<1>4. ASSUME NEW i \in 1..Len(q), NEW x \in T[i - 1]
      PROVE  deliver(x, q[i]) \in T[i]
  <2>1. i \in 0..Len(q) /\ i - 1 \in 0..Len(q)
    BY <1>1
  <2>2. Sound(x, h, B, n, l) /\ Delivering(p, x, i - 1)
    BY <1>2, <2>1
  <2>3. Sound(deliver(x, q[i]), h, B, n, l) /\ Delivering(p, deliver(x, q[i]), i)
    BY <1>1, <2>2, DeliverStep
  <2> QED
    BY <1>2, <2>1, <2>3 DEF Sound
<1>5. FoldLeft(deliver, p, q) \in T[Len(q)]
  <2>1. \A x \in States, f \in Frames : deliver(x, f) \in States
    BY DeliverState
  <2> HIDE DEF q
  <2> QED
    BY <1>1, <1>3, <1>4, <2>1, DeliverFold
<1>6. Sound(r, h, B, n, l) /\ Delivering(p, r, Len(q))
  BY <1>1, <1>2, <1>5 DEF xmit_delivery_enabled_frames
<1> HIDE DEF r
<1>7. r.dz = p.dz /\ Total(r) = Total(p) /\ r.sleep_q["grp"] = p.sleep_q["grp"]
  BY <1>6 DEF Delivering
<1>8. r.asleep
  BY <1>6, Zenon DEF Delivering
<1>9. Dozes(r)
  BY <1>7, <1>8 DEF Dozes
<1> QED
  BY <1>6, <1>7, <1>9 DEF r

(***************************************************************************)
(* A PS-Poll that finds a frame.                                           *)
(***************************************************************************)
LEMMA PolledSound ==
  ASSUME NEW p, NEW h, NEW B, NEW n, NEW l, Sound(p, h, B, n, l), Dozes(p), p.asleep,
         uapsd # ACs, p.sleep_q["sta"] # <<>>
  PROVE  Sound(Polled(p), h, B, n, l) /\ Dozes(Polled(p)) /\ Total(Polled(p)) = Total(p)
<1> DEFINE f == Head(p.sleep_q["sta"])
           x == release(p, f)
           out == [x EXCEPT !.alive_chk = FALSE]
<1>1. /\ p \in States /\ Placed(p) /\ p.sleep_q["sta"] \in Seq(Frames)
      /\ "sta" \in Whose /\ "grp" \in Whose
  BY Queues DEF Sound, Whose
<1>2. f \in Frames /\ f = p.sleep_q["sta"][1] /\ 1 \in 1..Len(p.sleep_q["sta"])
  BY <1>1
<1>3. Of(f) = "sta"
  BY <1>1, <1>2 DEF Placed
<1> HIDE DEF f
<1>4. At(p, f, 1) /\ \A j \in 1..(1 - 1) : p.sleep_q[Of(f)][j].ac # f.ac
  BY <1>2, <1>3 DEF At
<1>5. Sound(x, h, B, n, l)
  BY <1>2, <1>4, ReleaseSound
<1>6. x \in States /\ Moved(p, x, f, 1) /\ SameButQueues(p, x)
  BY <1>1, <1>2, <1>4, ReleaseState, ReleaseFacts
<1> HIDE DEF x
<1>7. Total(x) = Total(p) /\ x.dz = p.dz /\ x.sleep_q["grp"] = p.sleep_q["grp"]
  <2>1. Total(x) = Total(p)
    BY <1>1, <1>2, <1>4, <1>6, MovedPlaced
  <2>2. x.dz = p.dz /\ x.sleep_q["grp"] = p.sleep_q["grp"]
    BY <1>1, <1>3, <1>6 DEF SameButQueues, Moved
  <2> QED
    BY <2>1, <2>2
<1>8. x.asleep
  BY <1>6, Zenon DEF SameButQueues
<1>9. out \in States /\ SameQueues(x, out) /\ out.tim = x.tim /\ out.dz = x.dz
  BY <1>6 DEF States, SameQueues
<1>10. out.asleep = x.asleep
  BY <1>6 DEF States
<1> HIDE DEF out
<1>11. Sound(out, h, B, n, l) /\ Total(out) = Total(p)
  <2>1. n = 0 => Shown(out)
    BY <1>5, <1>9 DEF Sound, Shown, SameQueues
  <2> QED
    BY <1>5, <1>7, <1>9, <2>1, Retouched
<1>12. Dozes(out)
  <2>1. out.sleep_q = x.sleep_q
    BY <1>9 DEF SameQueues
  <2>2. out.asleep
    BY <1>8, <1>10, Zenon
  <2> QED
    BY <1>7, <1>9, <2>1, <2>2 DEF Dozes
<1>13. Polled(p) = IF out.len["sta"] = 0 THEN Withdrawn(out) ELSE out
  BY DEF Polled, Withdrawn, out, x, f
<1>14. CASE out.len["sta"] # 0
  BY <1>11, <1>12, <1>13, <1>14
<1>15. CASE out.len["sta"] = 0
  <2>1. n = 0 => Len(out.sleep_q["sta"]) = 0
    BY <1>11, <1>15 DEF Sound, StaExact
  <2>2. /\ Sound(Withdrawn(out), h, B, n, l) /\ Total(Withdrawn(out)) = Total(out)
        /\ Withdrawn(out).asleep = out.asleep /\ Withdrawn(out).dz = out.dz
        /\ Withdrawn(out).sleep_q = out.sleep_q
    BY <1>11, <2>1, WithdrawnSound
  <2>3. Withdrawn(out).asleep
    BY <1>8, <1>10, <2>2, Zenon
  <2>4. Dozes(Withdrawn(out))
    BY <1>12, <2>2, <2>3 DEF Dozes
  <2> QED
    BY <1>11, <1>13, <1>15, <2>2, <2>4
<1> QED
  BY <1>14, <1>15

-----------------------------------------------------------------------------
(* The operations that buffer frames.                                      *)

(***************************************************************************)
(* From p to r the frame f joins the end of its receiver's sleep queue.    *)
(***************************************************************************)
Buffered(p, r, f) ==
  LET w == Of(f)
  IN /\ r.pending = p.pending /\ r.asleep = p.asleep
     /\ \A v \in Whose : v # w => r.sleep_q[v] = p.sleep_q[v] /\ r.len[v] = p.len[v]
     /\ Len(r.sleep_q[w]) = Len(p.sleep_q[w]) + 1
     /\ \A j \in 1..Len(p.sleep_q[w]) : r.sleep_q[w][j] = p.sleep_q[w][j]
     /\ r.sleep_q[w][Len(p.sleep_q[w]) + 1] = f
     /\ r.len[w] = (p.len[w] + 1) % LenMod
     /\ r.ac_len = IF f.ac \in uapsd THEN (p.ac_len + 1) % LenMod ELSE p.ac_len
     /\ p.tim \subseteq r.tim /\ p.dz \subseteq r.dz
     /\ w = "grp" \/ Announced(f.ac) => w \in r.tim

\* xmitframe_enqueue_for_sleeping_sta appends the frame and counts it.
LEMMA EnqueueFacts ==
  ASSUME NEW p \in States, NEW f \in Frames
  PROVE  LET r == enqueue_for_sleeping_sta(p, f)
         IN  r \in States /\ Buffered(p, r, f)
<1> DEFINE w == Of(f)
           q == Append(p.sleep_q[w], f)
           sq == [p.sleep_q EXCEPT ![w] = q]
           ln == [p.len EXCEPT ![w] = (@ + 1) % LenMod]
           an == IF f.ac \in uapsd THEN (p.ac_len + 1) % LenMod ELSE p.ac_len
           held == [p EXCEPT !.sleep_q = sq, !.len = ln, !.ac_len = an]
           shown == [held EXCEPT !.tim = @ \cup {w},
                                 !.dz = IF w = "grp" THEN @ \cup {"grp"} ELSE @]
           more == [shown EXCEPT !.cmdq = Append(@, "bmc")]
           r == enqueue_for_sleeping_sta(p, f)
<1>1. w \in Whose
  BY FrameFields
<1>2. /\ p.sleep_q[w] \in Seq(Frames) /\ p.sleep_q \in [Whose -> Seq(Frames)]
      /\ p.len \in [Whose -> 0..(LenMod - 1)] /\ p.len[w] \in 0..(LenMod - 1)
      /\ p.ac_len \in 0..(LenMod - 1)
  BY <1>1, StateFields
<1> HIDE DEF w
<1>3. /\ q \in Seq(Frames) /\ Len(q) = Len(p.sleep_q[w]) + 1
      /\ \A j \in 1..Len(p.sleep_q[w]) : q[j] = p.sleep_q[w][j]
      /\ q[Len(p.sleep_q[w]) + 1] = f
  BY <1>2
<1>4. /\ (p.len[w] + 1) % LenMod \in 0..(LenMod - 1)
      /\ an \in 0..(LenMod - 1)
  BY <1>2, Counted
<1> HIDE DEF q, an
<1>5. sq \in [Whose -> Seq(Frames)] /\ ln \in [Whose -> 0..(LenMod - 1)]
  BY <1>1, <1>2, <1>3, <1>4
<1>6. /\ sq[w] = q /\ ln[w] = (p.len[w] + 1) % LenMod
      /\ \A v \in Whose : v # w => sq[v] = p.sleep_q[v] /\ ln[v] = p.len[v]
  BY <1>1, <1>2
<1> HIDE DEF sq, ln
<1>7. held \in States
  BY <1>4, <1>5 DEF States
<1>8. /\ held.sleep_q = sq /\ held.len = ln /\ held.ac_len = an
      /\ held.pending = p.pending /\ held.tim = p.tim /\ held.dz = p.dz
      /\ held.asleep = p.asleep
  BY DEF States
<1> HIDE DEF held
<1>9. shown \in States
  <2>1. /\ held.tim \cup {w} \in SUBSET Whose
        /\ (IF w = "grp" THEN held.dz \cup {"grp"} ELSE held.dz) \in SUBSET Whose
    BY <1>1, <1>7, StateFields DEF Whose
  <2> QED
    BY <1>7, <2>1 DEF States
<1>10. /\ SameQueues(held, shown) /\ shown.tim = held.tim \cup {w}
       /\ held.dz \subseteq shown.dz /\ shown.asleep = held.asleep
  BY <1>7 DEF States, SameQueues
<1> HIDE DEF shown
<1>11. more \in States
  <2>1. Append(shown.cmdq, "bmc") \in Seq({"beacon", "bmc"})
    <3>1. shown.cmdq \in Seq({"beacon", "bmc"})
      BY <1>9, StateFields
    <3> QED
      BY <3>1
  <2> DEFINE cq == Append(shown.cmdq, "bmc")
  <2>2. more = [shown EXCEPT !.cmdq = cq]
    OBVIOUS
  <2> HIDE DEF cq, more
  <2>3. cq \in Seq({"beacon", "bmc"})
    BY <2>1 DEF cq
  <2> QED
    BY <1>9, <2>2, <2>3 DEF States
<1>12. /\ SameQueues(shown, more) /\ more.tim = shown.tim /\ more.dz = shown.dz
       /\ more.asleep = shown.asleep
  BY <1>9 DEF States, SameQueues
<1> HIDE DEF more
<1> DEFINE bcn == update_beacon(shown)
<1>13. /\ bcn \in States /\ SameQueues(shown, bcn) /\ bcn.tim = shown.tim
       /\ bcn.dz = shown.dz /\ bcn.asleep = shown.asleep
  BY <1>9, BeaconUpdated
<1>14. \/ r = held /\ w = "sta" /\ ~Announced(f.ac)
       \/ r = bcn
       \/ r = more
       \/ r = shown
  <2> DEFINE hd == [p EXCEPT !.sleep_q[w] = q, !.len[w] = (@ + 1) % LenMod,
                             !.ac_len = IF f.ac \in uapsd THEN (@ + 1) % LenMod ELSE @]
             sh(x) == [x EXCEPT !.tim = @ \cup {w},
                                !.dz = IF w = "grp" THEN @ \cup {"grp"} ELSE @]
             mo(x) == [x EXCEPT !.cmdq = Append(@, "bmc")]
  <2>1. held = hd
    BY DEF held, sq, ln, an
  <2>2. shown = sh(held) /\ more = mo(shown)
    BY DEF shown, more
  <2>3. r = IF w = "sta" /\ ~Announced(f.ac) THEN hd
            ELSE IF w \notin p.tim THEN update_beacon(sh(hd))
            ELSE IF w = "grp" THEN mo(sh(hd))
            ELSE sh(hd)
    BY Zenon DEF enqueue_for_sleeping_sta, Enqueue, w, q
  <2> HIDE DEF r, hd, sh, mo
  <2>4. \/ r = hd /\ w = "sta" /\ ~Announced(f.ac)
        \/ r = update_beacon(sh(hd))
        \/ r = mo(sh(hd))
        \/ r = sh(hd)
    BY <2>3
  <2> QED
    BY <2>1, <2>2, <2>4
<1> HIDE DEF r, bcn
<1>15. ASSUME NEW x \in States, SameQueues(held, x), x.asleep = held.asleep,
              held.tim \subseteq x.tim, held.dz \subseteq x.dz,
              w = "grp" \/ Announced(f.ac) => w \in x.tim
       PROVE  Buffered(p, x, f)
  <2>1. /\ x.pending = p.pending
        /\ x.sleep_q = sq /\ x.len = ln /\ x.ac_len = an
        /\ p.tim \subseteq x.tim /\ p.dz \subseteq x.dz
    BY <1>8, <1>15 DEF SameQueues
  <2>2. x.asleep = p.asleep
    BY <1>8, <1>15, Zenon
  <2>3. /\ \A v \in Whose : v # w => x.sleep_q[v] = p.sleep_q[v] /\ x.len[v] = p.len[v]
        /\ Len(x.sleep_q[w]) = Len(p.sleep_q[w]) + 1
        /\ \A j \in 1..Len(p.sleep_q[w]) : x.sleep_q[w][j] = p.sleep_q[w][j]
        /\ x.sleep_q[w][Len(p.sleep_q[w]) + 1] = f
        /\ x.len[w] = (p.len[w] + 1) % LenMod
    BY <1>3, <1>6, <2>1
  <2>4. x.ac_len = IF f.ac \in uapsd THEN (p.ac_len + 1) % LenMod ELSE p.ac_len
    BY <2>1 DEF an
  <2> QED
    BY <1>15, <2>1, <2>2, <2>3, <2>4, Zenon DEF Buffered, w
<1>16. CASE r = held /\ w = "sta" /\ ~Announced(f.ac)
  <2>1. SameQueues(held, held) /\ ~(w = "grp" \/ Announced(f.ac))
    BY <1>16 DEF SameQueues
  <2> QED
    BY <1>7, <1>15, <1>16, <2>1 DEF r
<1>17. CASE r = bcn
  <2>1. SameQueues(held, bcn) /\ w \in bcn.tim /\ held.tim \subseteq bcn.tim
        /\ held.dz \subseteq bcn.dz
    BY <1>10, <1>13 DEF SameQueues
  <2>2. bcn.asleep = held.asleep
    BY <1>10, <1>13, Zenon
  <2> QED
    BY <1>13, <1>15, <1>17, <2>1, <2>2 DEF r
<1>18. CASE r = more
  <2>1. SameQueues(held, more) /\ w \in more.tim /\ held.tim \subseteq more.tim
        /\ held.dz \subseteq more.dz
    BY <1>10, <1>12 DEF SameQueues
  <2>2. more.asleep = held.asleep
    BY <1>10, <1>12, Zenon
  <2> QED
    BY <1>11, <1>15, <1>18, <2>1, <2>2 DEF r
<1>19. CASE r = shown
  <2>1. w \in shown.tim /\ held.tim \subseteq shown.tim
    BY <1>10
  <2> QED
    BY <1>9, <1>10, <1>15, <1>19, <2>1 DEF r
<1> QED
  BY <1>14, <1>16, <1>17, <1>18, <1>19

\* No sleep queue is longer than all queues together.
LEMMA TotalBounds ==
  ASSUME NEW p \in States
  PROVE  /\ Total(p) \in Nat
         /\ \A w \in Whose : Len(p.sleep_q[w]) <= Total(p)
<1>1. /\ "sta" \in Whose /\ "grp" \in Whose
      /\ "be" \in Categories /\ "vo" \in Categories /\ "grp" \in Categories
      /\ \A w \in Whose : w = "sta" \/ w = "grp"
  BY DEF Whose, Categories, ACs
<1> DEFINE a == Len(p.sleep_q["sta"])
           b == Len(p.sleep_q["grp"])
           x == Len(p.pending["be"])
           y == Len(p.pending["vo"])
           z == Len(p.pending["grp"])
<1>2. a \in Nat /\ b \in Nat /\ x \in Nat /\ y \in Nat /\ z \in Nat
  BY <1>1, Queues
<1>3. Total(p) = a + b + x + y + z
  BY DEF Total
<1>4. \A w \in Whose : Len(p.sleep_q[w]) = a \/ Len(p.sleep_q[w]) = b
  BY <1>1
<1> HIDE DEF a, b, x, y, z
<1> QED
  BY <1>2, <1>3, <1>4

\* Buffering a frame adds it, and no other, at the end of a sleep queue.
LEMMA BufferedQueue ==
  ASSUME NEW p \in States, NEW r \in States, NEW f \in Frames, Buffered(p, r, f),
         NEW w \in Whose, NEW i \in 1..Len(r.sleep_q[w])
  PROVE  \/ i \in 1..Len(p.sleep_q[w]) /\ r.sleep_q[w][i] = p.sleep_q[w][i]
         \/ w = Of(f) /\ i = Len(p.sleep_q[w]) + 1 /\ r.sleep_q[w][i] = f
<1>1. CASE w # Of(f)
  BY <1>1 DEF Buffered
<1>2. CASE w = Of(f)
  <2>1. Len(p.sleep_q[w]) \in Nat /\ Len(r.sleep_q[w]) = Len(p.sleep_q[w]) + 1
    BY <1>2, Queues DEF Buffered
  <2>2. i \in 1..Len(p.sleep_q[w]) \/ i = Len(p.sleep_q[w]) + 1
    BY <2>1
  <2> QED
    BY <1>2, <2>2 DEF Buffered
<1> QED
  BY <1>1, <1>2

\* Buffering a frame adds one to the frames in the queues.
LEMMA BufferedTotal ==
  ASSUME NEW p \in States, NEW r \in States, NEW f \in Frames, Buffered(p, r, f)
  PROVE  Total(r) = Total(p) + 1
<1>1. /\ "sta" \in Whose /\ "grp" \in Whose /\ "sta" # "grp"
      /\ "be" \in Categories /\ "vo" \in Categories /\ "grp" \in Categories
      /\ Of(f) = "sta" \/ Of(f) = "grp"
  BY FrameFields DEF Whose, Categories, ACs
<1> DEFINE a == Len(p.sleep_q["sta"])
           b == Len(p.sleep_q["grp"])
           x == Len(p.pending["be"])
           y == Len(p.pending["vo"])
           z == Len(p.pending["grp"])
           a1 == Len(r.sleep_q["sta"])
           b1 == Len(r.sleep_q["grp"])
<1>2. a \in Nat /\ b \in Nat /\ x \in Nat /\ y \in Nat /\ z \in Nat
  BY <1>1, Queues
<1>3. Total(p) = a + b + x + y + z /\ Total(r) = a1 + b1 + x + y + z
  BY DEF Total, Buffered
<1>4. \/ a1 = a + 1 /\ b1 = b
      \/ a1 = a /\ b1 = b + 1
  BY <1>1 DEF Buffered
<1> HIDE DEF a, b, x, y, z, a1, b1
<1> QED
  BY <1>2, <1>3, <1>4

\* Buffering a frame below a bound keeps the bound.
LEMMA BufferedOlder ==
  ASSUME NEW p \in States, NEW r \in States, NEW f \in Frames, Buffered(p, r, f),
         NEW h, NEW c \in Categories, NEW n, Older(p, h, c, n), f.ac = c => f.id < n
  PROVE  Older(r, h, c, n)
<1>1. \A w \in Whose : \A i \in 1..Len(r.sleep_q[w]) :
        r.sleep_q[w][i].ac = c => r.sleep_q[w][i].id < n
  BY BufferedQueue DEF Older
<1>2. r.pending = p.pending
  BY DEF Buffered
<1> QED
  BY <1>1, <1>2 DEF Older

\* The counters stay exact, and do not wrap, as long as there is room.
LEMMA BufferedCounts ==
  ASSUME NEW p \in States, NEW r \in States, NEW f \in Frames, Buffered(p, r, f),
         Total(p) < MaxEvents
  PROVE  /\ GrpExact(p) => GrpExact(r)
         /\ StaExact(p) => StaExact(r)
         /\ AcExact(p) => AcExact(r)
<1>0. /\ LenMod \in Nat /\ MaxEvents \in Nat /\ MaxEvents < LenMod
      /\ Total(p) \in Nat
  BY TotalBounds, Counted
<1>1. ASSUME NEW w \in Whose
      PROVE  /\ Len(p.sleep_q[w]) \in 0..(LenMod - 1)
             /\ (Len(p.sleep_q[w]) + 1) % LenMod = Len(p.sleep_q[w]) + 1
  <2>1. Len(p.sleep_q[w]) \in Nat /\ Len(p.sleep_q[w]) <= Total(p)
    BY Queues, TotalBounds
  <2>2. Len(p.sleep_q[w]) \in 0..(LenMod - 1) /\ Len(p.sleep_q[w]) < LenMod - 1
    BY <1>0, <2>1
  <2> QED
    BY <2>2, Counted
<1>2. ASSUME NEW w \in Whose, p.len[w] = Len(p.sleep_q[w])
      PROVE  r.len[w] = Len(r.sleep_q[w])
  BY <1>1, <1>2 DEF Buffered
<1>3. AcExact(p) => AcExact(r)
  <2> SUFFICES ASSUME uapsd = ACs, p.ac_len = Len(p.sleep_q["sta"])
               PROVE  r.ac_len = Len(r.sleep_q["sta"])
    BY DEF AcExact
  <2>0. "sta" \in Whose
    BY DEF Whose
  <2>1. CASE f.ac \in ACs
    <3>1. Of(f) = "sta"
      BY <2>1 DEF Of, ACs
    <3>2. r.ac_len = (p.ac_len + 1) % LenMod
          /\ Len(r.sleep_q["sta"]) = Len(p.sleep_q["sta"]) + 1
      BY <2>1, <3>1 DEF Buffered
    <3> QED
      BY <1>1, <2>0, <3>2
  <2>2. CASE f.ac \notin ACs
    <3>1. Of(f) # "sta"
      BY <2>2, FrameFields DEF Of, Categories
    <3>2. r.ac_len = p.ac_len /\ r.sleep_q["sta"] = p.sleep_q["sta"]
      BY <2>0, <2>2, <3>1 DEF Buffered
    <3> QED
      BY <3>2
  <2> QED
    BY <2>1, <2>2
<1> QED
  BY <1>2, <1>3 DEF GrpExact, StaExact, Whose

\* Buffering a frame newer than those of its category keeps them in line.
LEMMA BufferedLine ==
  ASSUME NEW p \in States, NEW r \in States, NEW f \in Frames, Buffered(p, r, f),
         NEW h, Line(p, h), Older(p, h, f.ac, f.id)
  PROVE  Line(r, h)
<1>1. r.pending = p.pending
  BY DEF Buffered
<1>2. ASSUME NEW w \in Whose PROVE InLine(r.sleep_q[w])
  <2> SUFFICES ASSUME NEW i \in 1..Len(r.sleep_q[w]), NEW j \in 1..Len(r.sleep_q[w]),
                      i < j, r.sleep_q[w][i].ac = r.sleep_q[w][j].ac
               PROVE  r.sleep_q[w][i].id < r.sleep_q[w][j].id
    BY DEF InLine
  <2>0. InLine(p.sleep_q[w]) /\ Len(p.sleep_q[w]) \in Nat
    BY Queues DEF Line
  <2>1. CASE j \in 1..Len(p.sleep_q[w]) /\ r.sleep_q[w][j] = p.sleep_q[w][j]
    <3>1. i \in 1..Len(p.sleep_q[w])
      BY <2>1
    <3>2. r.sleep_q[w][i] = p.sleep_q[w][i]
      BY <2>0, <3>1, BufferedQueue
    <3> QED
      BY <2>0, <2>1, <3>1, <3>2 DEF InLine
  <2>2. CASE w = Of(f) /\ j = Len(p.sleep_q[w]) + 1 /\ r.sleep_q[w][j] = f
    <3>1. i \in 1..Len(p.sleep_q[w])
      BY <2>0, <2>2
    <3>2. r.sleep_q[w][i] = p.sleep_q[w][i]
      BY <2>0, <3>1, BufferedQueue
    <3> QED
      BY <2>2, <3>1, <3>2 DEF Older
  <2> QED
    BY <2>1, <2>2, BufferedQueue
<1>3. ASSUME NEW w \in Whose, NEW c, NEW n, Follow(p.sleep_q[w], c, n),
             f.ac = c => n < f.id
      PROVE  Follow(r.sleep_q[w], c, n)
  BY <1>3, BufferedQueue DEF Follow
<1>4. SentFirst(r, h)
  <2> SUFFICES ASSUME NEW c \in Categories, NEW i \in 1..Len(h[c])
               PROVE  /\ Follow(r.pending[c], c, h[c][i])
                      /\ \A w \in Whose : Follow(r.sleep_q[w], c, h[c][i])
    BY DEF SentFirst
  <2>1. /\ Follow(p.pending[c], c, h[c][i])
        /\ \A w \in Whose : Follow(p.sleep_q[w], c, h[c][i])
    BY DEF Line, SentFirst
  <2>2. f.ac = c => h[c][i] < f.id
    BY DEF Older
  <2> QED
    BY <1>1, <1>3, <2>1, <2>2
<1>5. PendingFirst(r)
  <2> SUFFICES ASSUME NEW c \in Categories, NEW w \in Whose,
                      NEW i \in 1..Len(p.pending[c])
               PROVE  Follow(r.sleep_q[w], c, p.pending[c][i].id)
    BY <1>1 DEF PendingFirst
  <2>1. Follow(p.sleep_q[w], c, p.pending[c][i].id)
    BY DEF Line, PendingFirst
  <2>2. f.ac = c => p.pending[c][i].id < f.id
    BY DEF Older
  <2> QED
    BY <1>3, <2>1, <2>2
<1> QED
  BY <1>1, <1>2, <1>4, <1>5 DEF Line

(***************************************************************************)
(* Buffering the newest frame of its category keeps the invariant.         *)
(***************************************************************************)
LEMMA EnqueueSound ==
  ASSUME NEW p, NEW h, NEW B, NEW n, NEW l, Sound(p, h, B, n, l),
         NEW f \in Frames, Total(p) < MaxEvents,
         l \/ Older(p, h, f.ac, f.id),
         \A b \in B : b[1] = f.ac => f.id < b[2]
  PROVE  LET r == enqueue_for_sleeping_sta(p, f)
         IN  /\ Sound(r, h, B, n, l) /\ Total(r) = Total(p) + 1
             /\ Buffered(p, r, f) /\ (p.asleep /\ Dozes(p) => Dozes(r))
<1> DEFINE r == enqueue_for_sleeping_sta(p, f)
<1>1. p \in States /\ r \in States /\ Buffered(p, r, f)
  BY EnqueueFacts DEF Sound
<1> HIDE DEF r
<1>2. Placed(r)
  <2>1. \A w \in Whose : \A i \in 1..Len(r.sleep_q[w]) : Of(r.sleep_q[w][i]) = w
    BY <1>1, BufferedQueue DEF Placed, Sound
  <2> QED
    BY <1>1, <2>1 DEF Placed, Sound, Buffered
<1>3. GrpExact(r) /\ AcExact(r) /\ (StaExact(p) => StaExact(r))
  BY <1>1, BufferedCounts DEF Sound
<1>4. Shown(p) => Shown(r)
  <2> SUFFICES ASSUME Shown(p), NEW w \in Whose, NEW i \in 1..Len(r.sleep_q[w]),
                      w = "grp" \/ Announced(r.sleep_q[w][i].ac)
               PROVE  w \in r.tim
    BY DEF Shown
  <2>1. CASE i \in 1..Len(p.sleep_q[w]) /\ r.sleep_q[w][i] = p.sleep_q[w][i]
    BY <1>1, <2>1 DEF Shown, Buffered
  <2>2. CASE w = Of(f) /\ r.sleep_q[w][i] = f
    BY <1>1, <2>2 DEF Buffered
  <2> QED
    BY <1>1, <2>1, <2>2, BufferedQueue
<1>5. l \/ Line(r, h)
  BY <1>1, BufferedLine DEF Sound
<1>6. \A b \in B : b[1] \in Categories /\ Older(r, h, b[1], b[2])
  BY <1>1, BufferedOlder DEF Sound
<1>7. Total(r) = Total(p) + 1
  BY <1>1, BufferedTotal
<1>8. p.asleep /\ Dozes(p) => Dozes(r)
  <2> SUFFICES ASSUME p.asleep, Dozes(p) PROVE Dozes(r)
    OBVIOUS
  <2>1. r.asleep
    BY <1>1, Zenon DEF Buffered
  <2>2. "sta" \in r.dz
    BY <1>1 DEF Buffered, Dozes
  <2> QED
    BY <2>1, <2>2 DEF Dozes
<1>9. Sound(r, h, B, n, l)
  BY <1>1, <1>2, <1>3, <1>4, <1>5, <1>6 DEF Sound
<1> QED
  BY <1>1, <1>7, <1>8, <1>9 DEF r

(***************************************************************************)
(* The queues that stop_sta_xmit moves, one after the other.               *)
(***************************************************************************)
Joined(p) == p.pending["vo"] \o p.pending["be"] \o p.pending["grp"]

Untriggered(q) == [i \in DOMAIN q |-> [q[i] EXCEPT !.triggered = FALSE]]

\* The list stop_sta_xmit makes of the transmit queues keeps their order.
LEMMA JoinedFacts ==
  ASSUME NEW p \in States, Placed(p)
  PROVE  LET m == Joined(p)
         IN  /\ m \in Seq(Frames)
             /\ Len(m) = Len(p.pending["vo"]) + Len(p.pending["be"])
                           + Len(p.pending["grp"])
             /\ \A i \in 1..Len(m) : \E c \in Categories :
                  \E j \in 1..Len(p.pending[c]) : m[i] = p.pending[c][j] /\ m[i].ac = c
             /\ (\A c \in Categories : InLine(p.pending[c])) => InLine(m)
<1> DEFINE v == p.pending["vo"]
           b == p.pending["be"]
           g == p.pending["grp"]
<1>1. /\ "be" \in Categories /\ "vo" \in Categories /\ "grp" \in Categories
      /\ v \in Seq(Frames) /\ b \in Seq(Frames) /\ g \in Seq(Frames)
  BY Queues DEF Categories, ACs
<1>2. /\ \A i \in 1..Len(v) : v[i].ac = "vo"
      /\ \A i \in 1..Len(b) : b[i].ac = "be"
      /\ \A i \in 1..Len(g) : g[i].ac = "grp"
  BY <1>1 DEF Placed
<1>3. Joined(p) = (v \o b) \o g
  BY DEF Joined
<1> HIDE DEF v, b, g
<1> DEFINE x == v \o b
           m == x \o g
<1>4. /\ x \in Seq(Frames) /\ Len(x) = Len(v) + Len(b)
      /\ \A i \in 1..Len(x) : x[i] = IF i <= Len(v) THEN v[i] ELSE b[i - Len(v)]
  BY <1>1
<1> HIDE DEF x
<1>5. /\ m \in Seq(Frames) /\ Len(m) = Len(x) + Len(g)
      /\ \A i \in 1..Len(m) : m[i] = IF i <= Len(x) THEN x[i] ELSE g[i - Len(x)]
  BY <1>1, <1>4
<1> HIDE DEF m
<1>6. Len(v) \in Nat /\ Len(b) \in Nat /\ Len(g) \in Nat
  BY <1>1
<1>7. ASSUME NEW i \in 1..Len(m)
      PROVE  \/ i \in 1..Len(v) /\ m[i] = v[i]
             \/ i - Len(v) \in 1..Len(b) /\ m[i] = b[i - Len(v)]
             \/ i - Len(x) \in 1..Len(g) /\ m[i] = g[i - Len(x)]
  <2>1. CASE i <= Len(v)
    <3>1. i \in 1..Len(x) /\ i <= Len(x) /\ i \in 1..Len(v)
      BY <1>4, <1>6, <2>1
    <3> QED
      BY <1>4, <1>5, <2>1, <3>1
  <2>2. CASE ~(i <= Len(v)) /\ i <= Len(x)
    <3>1. i \in 1..Len(x) /\ i - Len(v) \in 1..Len(b)
      BY <1>4, <1>6, <2>2
    <3> QED
      BY <1>4, <1>5, <2>2, <3>1
  <2>3. CASE ~(i <= Len(x))
    <3>1. i - Len(x) \in 1..Len(g)
      BY <1>4, <1>5, <1>6, <2>3
    <3> QED
      BY <1>5, <2>3, <3>1
  <2> QED
    BY <1>4, <1>6, <2>1, <2>2, <2>3
<1>8. \A i \in 1..Len(m) : \E c \in Categories :
        \E j \in 1..Len(p.pending[c]) : m[i] = p.pending[c][j] /\ m[i].ac = c
  <2> TAKE i \in 1..Len(m)
  <2>1. CASE i \in 1..Len(v) /\ m[i] = v[i]
    BY <1>1, <1>2, <2>1 DEF v
  <2>2. CASE i - Len(v) \in 1..Len(b) /\ m[i] = b[i - Len(v)]
    BY <1>1, <1>2, <2>2 DEF b
  <2>3. CASE i - Len(x) \in 1..Len(g) /\ m[i] = g[i - Len(x)]
    BY <1>1, <1>2, <2>3 DEF g
  <2> QED
    BY <1>7, <2>1, <2>2, <2>3
<1>9. ASSUME \A c \in Categories : InLine(p.pending[c])
      PROVE  InLine(m)
  <2>1. InLine(v) /\ InLine(b) /\ InLine(g)
    BY <1>1, <1>9 DEF v, b, g
  <2> SUFFICES ASSUME NEW i \in 1..Len(m), NEW j \in 1..Len(m), i < j,
                      m[i].ac = m[j].ac
               PROVE  m[i].id < m[j].id
    BY DEF InLine
  <2>2. i - Len(v) < j - Len(v) /\ i - Len(x) < j - Len(x)
    BY <1>4, <1>6
  <2>3. CASE i \in 1..Len(v) /\ m[i] = v[i]
    <3>1. m[i].ac = "vo"
      BY <1>2, <2>3
    <3>2. j \in 1..Len(v) /\ m[j] = v[j]
      BY <1>2, <1>7, <3>1
    <3> QED
      BY <2>1, <2>3, <3>2 DEF InLine
  <2>4. CASE i - Len(v) \in 1..Len(b) /\ m[i] = b[i - Len(v)]
    <3>1. m[i].ac = "be"
      BY <1>2, <2>4
    <3>2. j - Len(v) \in 1..Len(b) /\ m[j] = b[j - Len(v)]
      BY <1>2, <1>7, <3>1
    <3>3. b[i - Len(v)].ac = b[j - Len(v)].ac
      BY <2>4, <3>2
    <3> QED
      BY <2>1, <2>2, <2>4, <3>2, <3>3 DEF InLine
  <2>5. CASE i - Len(x) \in 1..Len(g) /\ m[i] = g[i - Len(x)]
    <3>1. m[i].ac = "grp"
      BY <1>2, <2>5
    <3>2. j - Len(x) \in 1..Len(g) /\ m[j] = g[j - Len(x)]
      BY <1>2, <1>7, <3>1
    <3>3. g[i - Len(x)].ac = g[j - Len(x)].ac
      BY <2>5, <3>2
    <3> QED
      BY <2>1, <2>2, <2>5, <3>2, <3>3 DEF InLine
  <2> QED
    BY <1>7, <2>3, <2>4, <2>5
<1>10. Len(m) = Len(v) + Len(b) + Len(g)
  BY <1>4, <1>5, <1>6
<1>11. Joined(p) = m
  BY <1>3 DEF m, x
<1> QED
  BY <1>5, <1>8, <1>9, <1>10, <1>11 DEF v, b, g

\* Clearing the triggered flag changes neither number nor category.
LEMMA UntriggeredFacts ==
  ASSUME NEW q \in Seq(Frames)
  PROVE  LET m == Untriggered(q)
         IN  /\ m \in Seq(Frames) /\ Len(m) = Len(q)
             /\ \A i \in 1..Len(q) : m[i].id = q[i].id /\ m[i].ac = q[i].ac
<1>1. Len(q) \in Nat /\ DOMAIN q = 1..Len(q) /\ \A i \in 1..Len(q) : q[i] \in Frames
  OBVIOUS
<1> DEFINE u(i) == [q[i] EXCEPT !.triggered = FALSE]
<1>2. ASSUME NEW i \in 1..Len(q)
      PROVE  u(i) \in Frames /\ u(i).id = q[i].id /\ u(i).ac = q[i].ac
  BY <1>1, FrameFields
<1> HIDE DEF u
<1> DEFINE m == [i \in 1..Len(q) |-> u(i)]
<1>3. m \in Seq(Frames) /\ Len(m) = Len(q) /\ \A i \in 1..Len(q) : m[i] = u(i)
  BY <1>1, <1>2
<1>4. Untriggered(q) = m
  BY <1>1 DEF Untriggered, u
<1> HIDE DEF m
<1> QED
  BY <1>2, <1>3, <1>4

(***************************************************************************)
(* stop_sta_xmit as a whole.                                               *)
(***************************************************************************)
LEMMA DozeSound ==
  ASSUME NEW p, NEW h, NEW B, NEW n, NEW l, Sound(p, h, B, n, l), Dozes(p), ~p.asleep,
         Total(p) <= MaxEvents
  PROVE  LET r == stop_sta_xmit(p)
         IN  Sound(r, h, B, n, l) /\ Dozes(r) /\ Total(r) = Total(p)
<1> DEFINE none == [c \in Categories |-> <<>>]
           d == [p EXCEPT !.asleep = TRUE, !.dz = @ \cup {"sta"}, !.pending = none]
           m == Untriggered(Joined(p))
           r == stop_sta_xmit(p)
<1>1. /\ p \in States /\ Placed(p) /\ MaxEvents \in Nat
      /\ "sta" \in Whose /\ "grp" \in Whose /\ \A w \in Whose : w = "sta" \/ w = "grp"
      /\ "be" \in Categories /\ "vo" \in Categories /\ "grp" \in Categories
  BY Counted DEF Sound, Whose, Categories, ACs
<1>2. \A w \in Whose : Len(p.sleep_q[w]) = 0
  BY <1>1 DEF Dozes
<1>3. /\ Joined(p) \in Seq(Frames)
      /\ Len(Joined(p)) = Len(p.pending["vo"]) + Len(p.pending["be"])
                            + Len(p.pending["grp"])
      /\ \A i \in 1..Len(Joined(p)) : \E c \in Categories :
           \E j \in 1..Len(p.pending[c]) :
             Joined(p)[i] = p.pending[c][j] /\ Joined(p)[i].ac = c
      /\ l \/ InLine(Joined(p))
  BY <1>1, JoinedFacts DEF Sound, Line
<1>4. /\ m \in Seq(Frames) /\ Len(m) = Len(Joined(p))
      /\ \A i \in 1..Len(m) : m[i].id = Joined(p)[i].id /\ m[i].ac = Joined(p)[i].ac
  BY <1>3, UntriggeredFacts
<1> HIDE DEF m
<1>5. \A i \in 1..Len(m) : \E c \in Categories :
        \E j \in 1..Len(p.pending[c]) : m[i].id = p.pending[c][j].id /\ m[i].ac = c
  BY <1>3, <1>4
<1>6. l \/ InLine(m)
  BY <1>3, <1>4 DEF InLine
<1>7. Len(m) = Total(p) /\ Len(m) \in Nat /\ Len(m) <= MaxEvents
  <2> DEFINE x == Len(p.pending["be"])
             y == Len(p.pending["vo"])
             z == Len(p.pending["grp"])
  <2>1. x \in Nat /\ y \in Nat /\ z \in Nat
    BY <1>1, Queues
  <2>2. Total(p) = 0 + 0 + x + y + z
    BY <1>1, <1>2 DEF Total
  <2>3. Len(m) = y + x + z
    BY <1>3, <1>4
  <2> HIDE DEF x, y, z
  <2>4. Len(m) = Total(p)
    BY <2>1, <2>2, <2>3
  <2> QED
    BY <2>1, <2>3, <2>4
<1>8. \A i \in 1..Len(m) : m[i] \in Frames /\ m[i].ac \in Categories /\ m[i].id \in Nat
  BY <1>4, FrameFields
<1>9. /\ d \in States /\ d.pending = none /\ d.sleep_q = p.sleep_q /\ d.len = p.len
      /\ d.ac_len = p.ac_len /\ d.tim = p.tim /\ "sta" \in d.dz
  <2>1. none \in [Categories -> Seq(Frames)]
    OBVIOUS
  <2> HIDE DEF none
  <2>2. p.dz \cup {"sta"} \in SUBSET Whose
    BY <1>1, StateFields
  <2> QED
    BY <1>1, <2>1, <2>2 DEF States
<1>10. d.asleep
  BY <1>1 DEF States
<1>11. \A c \in Categories : Len(d.pending[c]) = 0
  BY <1>9
<1> HIDE DEF d, none
<1>12. \A w \in Whose : Len(d.sleep_q[w]) = 0
  BY <1>2, <1>9
<1>13. Sound(d, h, B, n, l)
  <2>1. Placed(d)
    BY <1>11, <1>12 DEF Placed
  <2>2. GrpExact(d) /\ AcExact(d) /\ (StaExact(p) => StaExact(d))
    BY <1>9 DEF Sound, GrpExact, AcExact, StaExact
  <2>3. Shown(d)
    BY <1>12 DEF Shown
  <2>4. l \/ Line(d, h)
    <3> SUFFICES ASSUME Line(p, h) PROVE Line(d, h)
      BY DEF Sound
    <3>1. \A c \in Categories : Ascending(h[c]) /\ InLine(d.pending[c])
      BY <1>11 DEF Line, InLine
    <3>2. \A w \in Whose : InLine(d.sleep_q[w])
      BY <1>12 DEF InLine
    <3>3. SentFirst(d, h) /\ PendingFirst(d)
      BY <1>11, <1>12 DEF SentFirst, PendingFirst, Follow
    <3> QED
      BY <3>1, <3>2, <3>3 DEF Line
  <2>5. \A b \in B : b[1] \in Categories /\ Older(d, h, b[1], b[2])
    BY <1>11, <1>12 DEF Sound, Older
  <2> QED
    BY <1>9, <2>1, <2>2, <2>3, <2>4, <2>5 DEF Sound
<1>14. Total(d) = 0
  <2>1. /\ Len(d.sleep_q["sta"]) = 0 /\ Len(d.sleep_q["grp"]) = 0
        /\ Len(d.pending["be"]) = 0 /\ Len(d.pending["vo"]) = 0
        /\ Len(d.pending["grp"]) = 0
    BY <1>1, <1>11, <1>12
  <2>2. Total(d) = 0 + 0 + 0 + 0 + 0
    BY <2>1, Zenon DEF Total
  <2> QED
    BY <2>2
<1>15. l \/ \A i \in 1..Len(m) : Older(d, h, m[i].ac, m[i].id)
  <2> SUFFICES ASSUME Line(p, h), NEW i \in 1..Len(m)
               PROVE  Older(d, h, m[i].ac, m[i].id)
    BY DEF Sound
  <2>1. PICK c \in Categories : \E j \in 1..Len(p.pending[c]) :
          m[i].id = p.pending[c][j].id /\ m[i].ac = c
    BY <1>5
  <2>1a. PICK j \in 1..Len(p.pending[c]) :
           m[i].id = p.pending[c][j].id /\ m[i].ac = c
    BY <2>1
  <2>2. \A k \in 1..Len(h[c]) : Follow(p.pending[c], c, h[c][k])
    BY DEF Line, SentFirst
  <2>3. p.pending[c][j].ac = c
    BY <1>1 DEF Placed
  <2>4. \A k \in 1..Len(h[c]) : h[c][k] < m[i].id
    BY <2>1a, <2>2, <2>3 DEF Follow
  <2> QED
    BY <1>11, <1>12, <2>1a, <2>4 DEF Older
<1>16. \A i \in 1..Len(m) : \A b \in B : b[1] = m[i].ac => m[i].id < b[2]
  <2> SUFFICES ASSUME NEW i \in 1..Len(m), NEW b \in B, b[1] = m[i].ac
               PROVE  m[i].id < b[2]
    OBVIOUS
  <2>1. PICK c \in Categories : \E j \in 1..Len(p.pending[c]) :
          m[i].id = p.pending[c][j].id /\ m[i].ac = c
    BY <1>5
  <2>1a. PICK j \in 1..Len(p.pending[c]) :
           m[i].id = p.pending[c][j].id /\ m[i].ac = c
    BY <2>1
  <2>2. Older(p, h, b[1], b[2])
    BY DEF Sound
  <2> QED
    BY <2>1a, <2>2 DEF Older
<1> DEFINE Rest(x, i) == l \/ \A j \in (i + 1)..Len(m) : Older(x, h, m[j].ac, m[j].id)
           T == [i \in 0..Len(m) |->
                  {x \in States : /\ Sound(x, h, B, n, l) /\ Dozes(x) /\ x.asleep
                                  /\ Total(x) = i /\ Rest(x, i)}]
<1>17. \A i \in 0..Len(m) : \A x :
         x \in T[i] <=> /\ x \in States /\ Sound(x, h, B, n, l) /\ Dozes(x) /\ x.asleep
                        /\ Total(x) = i /\ Rest(x, i)
  <2> HIDE DEF Rest
  <2> QED
    OBVIOUS
<1> HIDE DEF T
<1>18. d \in T[0]
  <2>1. Rest(d, 0)
    BY <1>15
  <2>2. Dozes(d)
    BY <1>9, <1>10 DEF Dozes
  <2>3. 0 \in 0..Len(m)
    BY <1>7
  <2> HIDE DEF Rest
  <2> QED
    BY <1>9, <1>10, <1>13, <1>14, <1>17, <2>1, <2>2, <2>3
<1>19. ASSUME NEW i \in 1..Len(m), NEW x \in T[i - 1]
       PROVE  enqueue_for_sleeping_sta(x, m[i]) \in T[i]
  <2> DEFINE y == enqueue_for_sleeping_sta(x, m[i])
  <2>1. i \in 0..Len(m) /\ i - 1 \in 0..Len(m) /\ i \in Nat
    BY <1>7
  <2>2. Sound(x, h, B, n, l) /\ Dozes(x) /\ x.asleep /\ Total(x) = i - 1
    <3> HIDE DEF Rest
    <3> QED
      BY <1>17, <2>1
  <2>3. Rest(x, i - 1)
    <3> HIDE DEF Rest
    <3> QED
      BY <1>17, <2>1
  <2>4. l \/ \A j \in i..Len(m) : Older(x, h, m[j].ac, m[j].id)
    <3>1. (i - 1) + 1 = i
      BY <2>1
    <3> QED
      BY <2>3, <3>1
  <2>5. l \/ Older(x, h, m[i].ac, m[i].id)
    BY <1>7, <2>1, <2>4
  <2>6. Total(x) < MaxEvents /\ m[i] \in Frames
    BY <1>1, <1>7, <1>8, <2>1, <2>2
  <2>7. /\ Sound(y, h, B, n, l) /\ Total(y) = Total(x) + 1
        /\ Buffered(x, y, m[i]) /\ Dozes(y)
    BY <1>16, <2>2, <2>5, <2>6, EnqueueSound
  <2> HIDE DEF y
  <2>8. Rest(y, i)
    <3> SUFFICES ASSUME ~l, NEW j \in (i + 1)..Len(m)
                 PROVE  Older(y, h, m[j].ac, m[j].id)
      OBVIOUS
    <3>1. j \in i..Len(m) /\ j \in 1..Len(m) /\ i < j
      BY <1>7, <2>1
    <3>2. Older(x, h, m[j].ac, m[j].id)
      BY <2>4, <3>1
    <3>3. m[i].ac = m[j].ac => m[i].id < m[j].id
      BY <1>6, <3>1 DEF InLine
    <3>4. x \in States /\ y \in States /\ m[j].ac \in Categories
      BY <1>8, <2>2, <2>7, <3>1 DEF Sound
    <3> QED
      BY <2>6, <2>7, <3>2, <3>3, <3>4, BufferedOlder
  <2>9. y.asleep
    BY <2>2, <2>7, Zenon DEF Buffered
  <2>10. Total(y) = i
    BY <2>1, <2>2, <2>7
  <2>11. y \in States
    BY <2>7 DEF Sound
  <2> HIDE DEF Rest
  <2>12. y \in T[i]
    BY <1>17, <2>1, <2>7, <2>8, <2>9, <2>10, <2>11
  <2> QED
    BY <2>12 DEF y
<1>20. FoldLeft(enqueue_for_sleeping_sta, d, m) \in T[Len(m)]
  <2>1. \A x \in States, f \in Frames : enqueue_for_sleeping_sta(x, f) \in States
    BY EnqueueFacts
  <2> QED
    BY <1>4, <1>9, <1>18, <1>19, <2>1, EnqueueFold
<1>21. r = FoldLeft(enqueue_for_sleeping_sta, d, m)
  BY Zenon DEF stop_sta_xmit, Untriggered, Joined, d, m, none
<1> HIDE DEF r, Rest
<1>22. r \in T[Len(m)] /\ Len(m) \in 0..Len(m)
  BY <1>7, <1>20, <1>21
<1> QED
  BY <1>7, <1>17, <1>22 DEF r

-----------------------------------------------------------------------------
(* The inductive invariant.                                                *)

(***************************************************************************)
(* Every frame is older than the next one to come, and those of its own    *)
(* category are older than the frame between the test and rtw_hal_xmit.    *)
(***************************************************************************)
Bounds == {<<c, events + 1>> : c \in Categories} \cup {<<f.ac, f.id>> : f \in tx}

TypeRest ==
  /\ uapsd \in SUBSET ACs
  /\ air \in SUBSET Whose
  /\ tx \in SUBSET Frames /\ Cardinality(tx) <= 1
  /\ rx \in {"idle", "poll_empty", "poll_clear", "update"}
  /\ cmd \in {"idle", "alive_write", "update", "bmc"}
  /\ rxTim \in SUBSET Whose /\ cmdTim \in SUBSET Whose
  /\ sent \in [Categories -> Seq(1..MaxEvents)]
  /\ late \in BOOLEAN /\ races \in Nat
  /\ failed \in BOOLEAN /\ events \in 0..MaxEvents

(***************************************************************************)
(* The inductive invariant: Sound, the bitmap that goes with the sleep     *)
(* state, and that no more frames are under way than were handed over.     *)
(***************************************************************************)
SleepInv ==
  /\ TypeRest
  /\ Sound(s, sent, Bounds, races, late) /\ Dozes(s)
  /\ Total(s) + InHand <= events
  /\ \A f \in tx : f.id <= events
  /\ rx = "poll_clear" => "sta" \notin rxTim

\* Types that the steps below keep asking for.
LEMMA Typed ==
  ASSUME SleepInv
  PROVE  /\ s \in States /\ events \in Nat /\ MaxEvents \in Nat /\ events <= MaxEvents
         /\ races \in Nat /\ Total(s) \in Nat /\ Total(s) <= events
         /\ \A c \in Categories : \A i \in 1..Len(sent[c]) : sent[c][i] \in Nat
         /\ tx \in SUBSET Frames
         /\ \A f \in tx : f.id \in Nat /\ f.ac \in Categories
<1>1. s \in States /\ events \in Nat /\ MaxEvents \in Nat /\ events <= MaxEvents
      /\ races \in Nat /\ tx \in SUBSET Frames
  BY Counted DEF SleepInv, TypeRest, Sound
<1>2. Total(s) \in Nat
  BY <1>1, TotalBounds
<1>3. Total(s) <= events
  BY <1>1, <1>2 DEF SleepInv, InHand
<1>4. \A c \in Categories : \A i \in 1..Len(sent[c]) : sent[c][i] \in Nat
  <2>1. \A c \in Categories : sent[c] \in Seq(1..MaxEvents)
    BY DEF SleepInv, TypeRest
  <2> QED
    BY <1>1, <2>1
<1> QED
  BY <1>1, <1>2, <1>3, <1>4, FrameFields

(***************************************************************************)
(* Weaker bounds.                                                          *)
(***************************************************************************)
LEMMA OlderGrows ==
  ASSUME NEW p \in States, NEW h, NEW c \in Categories,
         \A i \in 1..Len(h[c]) : h[c][i] \in Nat,
         NEW m \in Nat, NEW n \in Nat, m <= n, Older(p, h, c, m)
  PROVE  Older(p, h, c, n)
<1>1. \A i \in 1..Len(h[c]) : h[c][i] < n
  BY DEF Older
<1>2. \A i \in 1..Len(p.pending[c]) : p.pending[c][i].id < n
  BY Queues DEF Older
<1>3. \A w \in Whose : \A i \in 1..Len(p.sleep_q[w]) :
        p.sleep_q[w][i].ac = c => p.sleep_q[w][i].id < n
  BY Queues DEF Older
<1> QED
  BY <1>1, <1>2, <1>3 DEF Older

\* Bounds above the number of frames so far can be added to the invariant.
LEMMA BoundsGrow ==
  ASSUME SleepInv, NEW D,
         \A b \in D : b[1] \in Categories /\ b[2] \in Nat /\ b[2] >= events + 1
  PROVE  /\ Sound(s, sent, Bounds \cup D, races, late)
         /\ Sound(s, sent, D, races, late)
<1>1. \A b \in Bounds : b[1] \in Categories /\ Older(s, sent, b[1], b[2])
  BY DEF SleepInv, Sound
<1>2. ASSUME NEW b \in D
      PROVE  b[1] \in Categories /\ Older(s, sent, b[1], b[2])
  <2>1. b[1] \in Categories /\ b[2] \in Nat /\ b[2] >= events + 1 /\ events \in Nat
    BY Typed
  <2> DEFINE c == b[1]
             n == b[2]
  <2>2. <<c, events + 1>> \in Bounds
    BY <2>1 DEF Bounds
  <2>3. Older(s, sent, c, events + 1)
    BY <1>1, <2>2
  <2> HIDE DEF c, n
  <2>4. c \in Categories /\ n \in Nat /\ events + 1 <= n /\ events + 1 \in Nat
    BY <2>1 DEF c, n
  <2>5. Older(s, sent, c, n)
    BY <2>3, <2>4, Typed, OlderGrows
  <2> QED
    BY <2>1, <2>5 DEF c, n
<1> QED
  BY <1>1, <1>2 DEF SleepInv, Sound

(***************************************************************************)
(* The parts of the invariant after a step make the invariant.             *)
(***************************************************************************)
LEMMA Together ==
  ASSUME SleepInv, uapsd' = uapsd, TypeRest',
         Sound(s', sent', Bounds', races', late'), Dozes(s'),
         Total(s') + InHand' <= events',
         \A f \in tx' : f.id <= events',
         rx' = "poll_clear" => "sta" \notin rxTim'
  PROVE  SleepInv'
<1>1. Sound(s, sent, Bounds, races, late)'
  <2>1. (races = 0 => StaExact(s) /\ Shown(s))'
    BY DEF Sound, StaExact, Shown, Announced, has_legacy_ac
  <2>2. AcExact(s)'
    BY DEF Sound, AcExact
  <2>3. (late \/ Line(s, sent))'
    BY DEF Sound
  <2> QED
    BY <2>1, <2>2, <2>3 DEF Sound
<1> QED
  BY <1>1 DEF SleepInv

(***************************************************************************)
(* The steps that change, of what the invariant is about, s only.          *)
(***************************************************************************)
LEMMA OnlyState ==
  ASSUME SleepInv, UNCHANGED <<uapsd, tx, sent, late, races, events>>, TypeRest',
         Sound(s', sent, Bounds, races, late), Dozes(s'), Total(s') = Total(s),
         rx' = "poll_clear" => "sta" \notin rxTim'
  PROVE  SleepInv'
<1>1. Bounds' = Bounds /\ InHand' = InHand
  BY DEF Bounds, InHand
<1>2. Sound(s', sent', Bounds', races', late')
  BY <1>1
<1>3. Total(s') + InHand' <= events'
  BY <1>1 DEF SleepInv
<1>4. \A f \in tx' : f.id <= events'
  BY DEF SleepInv
<1> QED
  BY <1>2, <1>3, <1>4, Together

-----------------------------------------------------------------------------
(* The steps.                                                              *)

\* At most one frame is between the test of the sleep state and rtw_hal_xmit.
LEMMA FewInTx ==
  /\ Cardinality({}) <= 1
  /\ \A f : Cardinality({f}) <= 1
BY FS_EmptySet, FS_Singleton

\* rtw_xmit keeps the invariant.
LEMMA XmitStep ==
  ASSUME SleepInv, NEW ac \in Categories, rtw_xmit(ac)
  PROVE  SleepInv'
<1> DEFINE f == [id |-> events + 1, ac |-> ac, triggered |-> FALSE]
           next == {<<c, events + 2>> : c \in Categories}
<1>1. /\ tx = {} /\ events < MaxEvents /\ events' = events + 1 /\ uapsd' = uapsd
      /\ sent' = sent /\ late' = late /\ races' = races
      /\ rx' = rx /\ rxTim' = rxTim
  BY DEF rtw_xmit
<1>2. f \in Frames /\ f.id = events + 1 /\ f.ac = ac
  BY <1>1, Typed DEF Frames
<1> HIDE DEF f
<1>3. \/ Sleeps(s, f) /\ s' = enqueue_for_sleeping_sta(s, f) /\ tx' = {}
      \/ ~Sleeps(s, f) /\ s' = s /\ tx' = {f}
  BY <1>1 DEF rtw_xmit, f
<1>4. Sound(s, sent, next, races, late)
  <2>1. \A b \in next : b[1] \in Categories /\ b[2] \in Nat /\ b[2] >= events + 1
    BY Typed
  <2> HIDE DEF next
  <2> QED
    BY <2>1, BoundsGrow
<1>5. rx' = "poll_clear" => "sta" \notin rxTim'
  BY <1>1 DEF SleepInv
<1>6. Total(s) + 0 <= events /\ Total(s) \in Nat /\ events \in Nat
  BY Typed
<1>7. TypeRest'
  <2>1. Cardinality(tx') <= 1 /\ tx' \in SUBSET Frames
    BY <1>2, <1>3, FewInTx
  <2>2. events' \in 0..MaxEvents
    BY <1>1, Typed
  <2>3. /\ air' = air /\ cmd' = cmd /\ cmdTim' = cmdTim /\ failed' = failed
        /\ sent' = sent /\ late' = late
    BY DEF rtw_xmit
  <2> QED
    BY <1>1, <2>1, <2>2, <2>3 DEF SleepInv, TypeRest
<1>8. CASE Sleeps(s, f) /\ s' = enqueue_for_sleeping_sta(s, f) /\ tx' = {}
  <2>1. s.asleep
    <3>1. CASE f.ac = "grp"
      BY <1>8, <3>1 DEF Sleeps, SleepInv, Dozes
    <3>2. CASE f.ac # "grp"
      BY <1>8, <3>2, Zenon DEF Sleeps
    <3> QED
      BY <3>1, <3>2
  <2>2. Older(s, sent, f.ac, f.id)
    <3>1. <<ac, events + 1>> \in Bounds
      BY DEF Bounds
    <3> QED
      BY <1>2, <3>1 DEF SleepInv, Sound
  <2>3. \A b \in next : b[1] = f.ac => f.id < b[2]
    BY <1>2, Typed
  <2>4. Total(s) < MaxEvents
    BY <1>1, Typed
  <2> HIDE DEF next
  <2>5. Sound(s', sent, next, races, late) /\ Total(s') = Total(s) + 1 /\ Dozes(s')
    BY <1>2, <1>4, <1>8, <2>1, <2>2, <2>3, <2>4, EnqueueSound DEF SleepInv
  <2>6. Bounds' = next
    BY <1>1, <1>8, <1>6 DEF Bounds, next
  <2>7. Sound(s', sent', Bounds', races', late')
    BY <1>1, <2>5, <2>6
  <2>8. Total(s') + InHand' <= events' /\ \A g \in tx' : g.id <= events'
    BY <1>1, <1>6, <1>8, <2>5 DEF InHand
  <2> QED
    BY <1>1, <1>5, <1>7, <2>5, <2>7, <2>8, Together
<1>9. CASE s' = s /\ tx' = {f}
  <2>1. Bounds' = next \cup {<<ac, events + 1>>}
    BY <1>1, <1>2, <1>6, <1>9 DEF Bounds
  <2>2. \A b \in next \cup {<<ac, events + 1>>} :
          b[1] \in Categories /\ b[2] \in Nat /\ b[2] >= events + 1
    BY Typed
  <2> HIDE DEF next
  <2>3. Sound(s, sent, next \cup {<<ac, events + 1>>}, races, late)
    BY <2>2, BoundsGrow
  <2>4. Sound(s', sent', Bounds', races', late')
    BY <1>1, <1>9, <2>1, <2>3
  <2>5. Total(s') + InHand' <= events' /\ \A g \in tx' : g.id <= events'
    BY <1>1, <1>2, <1>6, <1>9 DEF InHand
  <2>6. Dozes(s')
    BY <1>9 DEF SleepInv
  <2> QED
    BY <1>1, <1>5, <1>7, <2>4, <2>5, <2>6, Together
<1> QED
  BY <1>3, <1>8, <1>9

(***************************************************************************)
(* rtw_hal_xmit: the frame joins the transmit queue of its category.       *)
(***************************************************************************)
LEMMA HalXmitStep ==
  ASSUME SleepInv, rtl8723bs_hal_xmit
  PROVE  SleepInv'
<1> DEFINE last == {<<c, events + 1>> : c \in Categories}
<1>1. /\ tx' = {} /\ events' = events /\ uapsd' = uapsd
      /\ sent' = sent /\ races' = races /\ rx' = rx /\ rxTim' = rxTim
  BY DEF rtl8723bs_hal_xmit
<1>2. PICK f \in tx : /\ s' = [s EXCEPT !.pending[f.ac] = Append(@, f)]
                      /\ late' = (late \/ Sleeps(s, f))
  BY DEF rtl8723bs_hal_xmit
<1>3. f \in Frames /\ f.id \in Nat /\ f.ac \in Categories /\ f.id <= events
  BY Typed DEF SleepInv
<1> DEFINE q == Append(s.pending[f.ac], f)
           pd == [s.pending EXCEPT ![f.ac] = q]
<1>4. s \in States /\ s.pending[f.ac] \in Seq(Frames)
      /\ s.pending \in [Categories -> Seq(Frames)] /\ Len(s.pending[f.ac]) \in Nat
  BY <1>3, Typed, StateFields, Queues
<1>5. /\ q \in Seq(Frames) /\ Len(q) = Len(s.pending[f.ac]) + 1
      /\ \A i \in 1..Len(s.pending[f.ac]) : q[i] = s.pending[f.ac][i]
      /\ q[Len(s.pending[f.ac]) + 1] = f
  BY <1>3, <1>4
<1> HIDE DEF q
<1>6. /\ pd \in [Categories -> Seq(Frames)] /\ pd[f.ac] = q
      /\ \A c \in Categories : c # f.ac => pd[c] = s.pending[c]
  BY <1>3, <1>4, <1>5
<1>7. s' = [s EXCEPT !.pending = pd]
  BY <1>2 DEF q
<1> HIDE DEF pd
<1>8. /\ s' \in States /\ s'.pending = pd /\ s'.sleep_q = s.sleep_q /\ s'.len = s.len
      /\ s'.ac_len = s.ac_len /\ s'.tim = s.tim /\ s'.dz = s.dz
  BY <1>4, <1>6, <1>7 DEF States
<1>9. s'.asleep = s.asleep
  BY <1>4, <1>7 DEF States
<1>10. ASSUME NEW c \in Categories, NEW i \in 1..Len(pd[c])
       PROVE  \/ i \in 1..Len(s.pending[c]) /\ pd[c][i] = s.pending[c][i]
              \/ c = f.ac /\ i = Len(s.pending[c]) + 1 /\ pd[c][i] = f
  <2>1. CASE c # f.ac
    BY <1>6, <2>1
  <2>2. CASE c = f.ac
    <3>1. i \in 1..Len(s.pending[c]) \/ i = Len(s.pending[c]) + 1
      BY <1>4, <1>5, <1>6, <2>2
    <3> QED
      BY <1>5, <1>6, <2>2, <3>1
  <2> QED
    BY <2>1, <2>2
<1>11. Older(s, sent, f.ac, f.id)
  <2>1. <<f.ac, f.id>> \in Bounds
    BY DEF Bounds
  <2> QED
    BY <2>1 DEF SleepInv, Sound
<1>12. Placed(s')
  <2>1. Placed(s)
    BY DEF SleepInv, Sound
  <2> QED
    BY <1>8, <1>10, <2>1 DEF Placed
<1>13. /\ GrpExact(s') /\ AcExact(s')
       /\ races = 0 => StaExact(s') /\ Shown(s')
  BY <1>8 DEF SleepInv, Sound, GrpExact, AcExact, StaExact, Shown
<1>14. Dozes(s')
  BY <1>8, <1>9, Zenon DEF SleepInv, Dozes
<1>15. \A b \in last : b[1] \in Categories /\ Older(s', sent, b[1], b[2])
  <2> SUFFICES ASSUME NEW c \in Categories PROVE Older(s', sent, c, events + 1)
    OBVIOUS
  <2>1. <<c, events + 1>> \in Bounds
    BY DEF Bounds
  <2>2. Older(s, sent, c, events + 1)
    BY <2>1 DEF SleepInv, Sound
  <2>3. f.id < events + 1
    BY <1>3, Typed
  <2> QED
    BY <1>8, <1>10, <2>2, <2>3 DEF Older
<1>16. ASSUME Line(s, sent), ~Sleeps(s, f)
       PROVE  Line(s', sent)
  <2>1. Len(s.sleep_q[Of(f)]) = 0
    <3>1. CASE f.ac = "grp"
      BY <1>16, <3>1 DEF Sleeps, Of, SleepInv, Dozes
    <3>2. CASE f.ac # "grp"
      <4>1. ~s.asleep
        BY <1>16, <3>2, Zenon DEF Sleeps, SleepInv, Dozes
      <4> QED
        BY <3>2, <4>1 DEF Of, SleepInv, Dozes
    <3> QED
      BY <3>1, <3>2
  <2>2. ASSUME NEW c \in Categories PROVE InLine(pd[c])
    <3> SUFFICES ASSUME NEW i \in 1..Len(pd[c]), NEW j \in 1..Len(pd[c]), i < j,
                        pd[c][i].ac = pd[c][j].ac
                 PROVE  pd[c][i].id < pd[c][j].id
      BY DEF InLine
    <3>0. Len(s.pending[c]) \in Nat
      BY <1>4, Queues
    <3>1. CASE j \in 1..Len(s.pending[c]) /\ pd[c][j] = s.pending[c][j]
      <4>1. i \in 1..Len(s.pending[c])
        BY <3>0, <3>1
      <4>2. pd[c][i] = s.pending[c][i]
        BY <1>10, <3>0, <4>1
      <4> QED
        BY <1>16, <3>1, <4>1, <4>2 DEF Line, InLine
    <3>2. CASE c = f.ac /\ j = Len(s.pending[c]) + 1 /\ pd[c][j] = f
      <4>1. i \in 1..Len(s.pending[c])
        BY <3>0, <3>2
      <4>2. pd[c][i] = s.pending[c][i]
        BY <1>10, <3>0, <4>1
      <4> QED
        BY <1>11, <3>2, <4>1, <4>2 DEF Older
    <3> QED
      BY <1>10, <3>1, <3>2
  <2>3. SentFirst(s', sent)
    <3> SUFFICES ASSUME NEW c \in Categories, NEW i \in 1..Len(sent[c])
                 PROVE  /\ Follow(pd[c], c, sent[c][i])
                        /\ \A w \in Whose : Follow(s.sleep_q[w], c, sent[c][i])
      BY <1>8 DEF SentFirst
    <3>1. /\ Follow(s.pending[c], c, sent[c][i])
          /\ \A w \in Whose : Follow(s.sleep_q[w], c, sent[c][i])
      BY <1>16 DEF Line, SentFirst
    <3>2. f.ac = c => sent[c][i] < f.id
      BY <1>11 DEF Older
    <3> QED
      BY <1>10, <3>1, <3>2 DEF Follow
  <2>4. PendingFirst(s')
    <3> SUFFICES ASSUME NEW c \in Categories, NEW w \in Whose, NEW i \in 1..Len(pd[c])
                 PROVE  Follow(s.sleep_q[w], c, pd[c][i].id)
      BY <1>8 DEF PendingFirst
    <3>1. CASE i \in 1..Len(s.pending[c]) /\ pd[c][i] = s.pending[c][i]
      BY <1>16, <3>1 DEF Line, PendingFirst
    <3>2. CASE c = f.ac
      <4> SUFFICES ASSUME NEW j \in 1..Len(s.sleep_q[w]), s.sleep_q[w][j].ac = c
                   PROVE  FALSE
        BY DEF Follow
      <4>1. Of(s.sleep_q[w][j]) = w
        BY DEF SleepInv, Sound, Placed
      <4>2. w = Of(f)
        BY <3>2, <4>1 DEF Of
      <4> QED
        BY <2>1, <4>2
    <3> QED
      BY <1>10, <3>1, <3>2
  <2> QED
    BY <1>8, <1>16, <2>2, <2>3, <2>4 DEF Line
<1>17. late' \/ Line(s', sent)
  BY <1>2, <1>16 DEF SleepInv, Sound
<1>18. Sound(s', sent, last, races, late')
  BY <1>8, <1>12, <1>13, <1>15, <1>17 DEF Sound
<1>19. Bounds' = last
  BY <1>1 DEF Bounds
<1>20. Total(s') = Total(s) + 1
  <2>1. /\ "be" \in Categories /\ "vo" \in Categories /\ "grp" \in Categories
        /\ "sta" \in Whose /\ "grp" \in Whose
        /\ f.ac = "be" \/ f.ac = "vo" \/ f.ac = "grp"
    BY <1>3 DEF Categories, ACs, Whose
  <2> DEFINE a == Len(s.sleep_q["sta"])
             b == Len(s.sleep_q["grp"])
             x == Len(s.pending["be"])
             y == Len(s.pending["vo"])
             z == Len(s.pending["grp"])
             x1 == Len(pd["be"])
             y1 == Len(pd["vo"])
             z1 == Len(pd["grp"])
  <2>2. a \in Nat /\ b \in Nat /\ x \in Nat /\ y \in Nat /\ z \in Nat
    BY <1>4, <2>1, Queues
  <2>3. Total(s) = a + b + x + y + z /\ Total(s') = a + b + x1 + y1 + z1
    BY <1>8 DEF Total
  <2>4. \/ x1 = x + 1 /\ y1 = y /\ z1 = z
        \/ x1 = x /\ y1 = y + 1 /\ z1 = z
        \/ x1 = x /\ y1 = y /\ z1 = z + 1
    BY <1>5, <1>6, <2>1
  <2> HIDE DEF a, b, x, y, z, x1, y1, z1
  <2> QED
    BY <2>2, <2>3, <2>4
<1>21. Total(s') + InHand' <= events' /\ \A g \in tx' : g.id <= events'
  <2>1. InHand = 1 /\ InHand' = 0
    BY <1>1 DEF InHand
  <2> QED
    BY <1>1, <1>20, <2>1, Typed DEF SleepInv
<1>22. TypeRest'
  <2>1. Cardinality(tx') <= 1 /\ tx' \in SUBSET Frames
    BY <1>1, FewInTx
  <2>2. /\ air' = air /\ cmd' = cmd /\ cmdTim' = cmdTim /\ failed' = failed
    BY DEF rtl8723bs_hal_xmit
  <2>3. late' \in BOOLEAN
    <3>1. late \in BOOLEAN
      BY DEF SleepInv, TypeRest
    <3>2. Sleeps(s, f) \in BOOLEAN
      BY <1>4, StateFields DEF Sleeps
    <3> QED
      BY <1>2, <3>1, <3>2
  <2> QED
    BY <1>1, <2>1, <2>2, <2>3 DEF SleepInv, TypeRest
<1>23. Sound(s', sent', Bounds', races', late')
  BY <1>1, <1>18, <1>19
<1>24. rx' = "poll_clear" => "sta" \notin rxTim'
  BY <1>1 DEF SleepInv
<1> QED
  BY <1>1, <1>14, <1>21, <1>22, <1>23, <1>24, Together

(***************************************************************************)
(* xmit_xmitframes: the first frame of a transmit queue is sent.           *)
(***************************************************************************)
LEMMA SendStep ==
  ASSUME SleepInv, NEW ac \in Categories, xmit_xmitframes(ac)
  PROVE  SleepInv'
<1> DEFINE P == s.pending[ac]
           H == sent[ac]
           g == P[1]
           rest == Tail(P)
           pd == [s.pending EXCEPT ![ac] = rest]
           more == Append(H, g.id)
<1>1. /\ tx' = tx /\ events' = events /\ uapsd' = uapsd /\ late' = late
      /\ races' = races /\ rx' = rx /\ rxTim' = rxTim
      /\ P # <<>> /\ s' = [s EXCEPT !.pending[ac] = Tail(@)]
      /\ sent' = [sent EXCEPT ![ac] = Append(@, Head(s.pending[ac]).id)]
  BY DEF xmit_xmitframes
<1>2. /\ s \in States /\ P \in Seq(Frames) /\ Len(P) \in Nat
      /\ s.pending \in [Categories -> Seq(Frames)]
      /\ sent \in [Categories -> Seq(1..MaxEvents)] /\ H \in Seq(1..MaxEvents)
  BY Typed, StateFields, Queues DEF SleepInv, TypeRest
<1>3. /\ 1 \in 1..Len(P) /\ g \in Frames /\ g.ac = ac /\ Head(P) = g
      /\ g.id \in 1..MaxEvents /\ g.id \in Nat
  <2>1. 1 \in 1..Len(P) /\ g \in Frames /\ Head(P) = g
    BY <1>1, <1>2
  <2>2. g.ac = ac
    BY <2>1 DEF SleepInv, Sound, Placed
  <2> HIDE DEF g
  <2> QED
    BY <2>1, <2>2, FrameFields
<1>4. /\ rest \in Seq(Frames) /\ Len(rest) = Len(P) - 1
      /\ \A i \in 1..Len(rest) : i + 1 \in 1..Len(P) /\ rest[i] = P[i + 1]
  BY <1>1, <1>2
<1> HIDE DEF rest, g
<1>5. /\ more \in Seq(1..MaxEvents) /\ Len(more) = Len(H) + 1 /\ Len(H) \in Nat
      /\ \A i \in 1..Len(H) : more[i] = H[i]
      /\ more[Len(H) + 1] = g.id
  BY <1>2, <1>3
<1>6. /\ pd \in [Categories -> Seq(Frames)] /\ pd[ac] = rest
      /\ \A c \in Categories : c # ac => pd[c] = s.pending[c]
  BY <1>2, <1>4
<1>7. sent' = [sent EXCEPT ![ac] = more]
  BY <1>1, <1>3
<1> HIDE DEF more
<1>8. /\ sent' \in [Categories -> Seq(1..MaxEvents)] /\ sent'[ac] = more
      /\ \A c \in Categories : c # ac => sent'[c] = sent[c]
  BY <1>2, <1>5, <1>7
<1>9. s' = [s EXCEPT !.pending = pd]
  BY <1>1 DEF rest
<1> HIDE DEF pd
<1>10. /\ s' \in States /\ s'.pending = pd /\ s'.sleep_q = s.sleep_q /\ s'.len = s.len
       /\ s'.ac_len = s.ac_len /\ s'.tim = s.tim /\ s'.dz = s.dz
  BY <1>2, <1>6, <1>9 DEF States
<1>11. s'.asleep = s.asleep
  BY <1>2, <1>9 DEF States
<1>12. ASSUME NEW c \in Categories, NEW i \in 1..Len(pd[c])
       PROVE  \E j \in 1..Len(s.pending[c]) : pd[c][i] = s.pending[c][j]
  BY <1>4, <1>6
<1>13. ASSUME NEW c \in Categories, NEW i \in 1..Len(sent'[c])
       PROVE  \/ i \in 1..Len(sent[c]) /\ sent'[c][i] = sent[c][i]
              \/ c = ac /\ i = Len(sent[c]) + 1 /\ sent'[c][i] = g.id
  <2>1. CASE c # ac
    BY <1>8, <2>1
  <2>2. CASE c = ac
    <3>1. i \in 1..Len(H) \/ i = Len(H) + 1
      BY <1>5, <1>8, <2>2
    <3> QED
      BY <1>5, <1>8, <2>2, <3>1
  <2> QED
    BY <2>1, <2>2
<1>14. Placed(s')
  <2>1. Placed(s)
    BY DEF SleepInv, Sound
  <2> QED
    BY <1>10, <1>12, <2>1 DEF Placed
<1>15. /\ GrpExact(s') /\ AcExact(s')
       /\ races = 0 => StaExact(s') /\ Shown(s')
  BY <1>10 DEF SleepInv, Sound, GrpExact, AcExact, StaExact, Shown
<1>16. Dozes(s')
  BY <1>10, <1>11, Zenon DEF SleepInv, Dozes
<1>17. ASSUME NEW c \in Categories, NEW n, Older(s, sent, c, n)
       PROVE  Older(s', sent', c, n)
  <2>1. c = ac => g.id < n
    BY <1>3, <1>17 DEF Older, g
  <2>2. \A i \in 1..Len(sent'[c]) : sent'[c][i] < n
    BY <1>13, <1>17, <2>1 DEF Older
  <2>3. \A i \in 1..Len(pd[c]) : pd[c][i].id < n
    BY <1>12, <1>17 DEF Older
  <2> QED
    BY <1>10, <1>17, <2>2, <2>3 DEF Older
<1>18. ASSUME Line(s, sent)
       PROVE  Line(s', sent')
  <2>0. \A w \in Whose : Follow(s.sleep_q[w], ac, g.id)
    BY <1>3, <1>18 DEF Line, PendingFirst, g
  <2>1. ASSUME NEW c \in Categories PROVE InLine(pd[c])
    <3>1. CASE c # ac
      BY <1>6, <1>18, <3>1 DEF Line
    <3>2. CASE c = ac
      <4>1. InLine(P)
        BY <1>18 DEF Line
      <4>2. \A i, j \in 1..Len(rest) : i < j => i + 1 < j + 1
        BY <1>2, <1>4
      <4>3. InLine(rest)
        <5> SUFFICES ASSUME NEW i \in 1..Len(rest), NEW j \in 1..Len(rest), i < j,
                            rest[i].ac = rest[j].ac
                     PROVE  rest[i].id < rest[j].id
          BY DEF InLine
        <5> HIDE DEF P
        <5> QED
          BY <1>4, <4>1, <4>2 DEF InLine
      <4> QED
        BY <1>6, <3>2, <4>3
    <3> QED
      BY <3>1, <3>2
  <2>2. ASSUME NEW c \in Categories PROVE Ascending(sent'[c])
    <3> SUFFICES ASSUME NEW i \in 1..Len(sent'[c]), NEW j \in 1..Len(sent'[c]), i < j
                 PROVE  sent'[c][i] < sent'[c][j]
      BY DEF Ascending
    <3>0. Len(sent[c]) \in Nat
      BY <1>2
    <3>1. CASE j \in 1..Len(sent[c]) /\ sent'[c][j] = sent[c][j]
      <4>1. i \in 1..Len(sent[c])
        BY <3>0, <3>1
      <4>2. sent'[c][i] = sent[c][i]
        BY <1>13, <3>0, <4>1
      <4>3. Ascending(sent[c])
        BY <1>18 DEF Line
      <4> QED
        BY <3>1, <4>1, <4>2, <4>3 DEF Ascending
    <3>2. CASE c = ac /\ j = Len(sent[c]) + 1 /\ sent'[c][j] = g.id
      <4>1. i \in 1..Len(sent[c])
        BY <3>0, <3>2
      <4>2. sent'[c][i] = sent[c][i]
        BY <1>13, <3>0, <4>1
      <4>3. Follow(P, c, sent[c][i])
        BY <1>18, <3>2, <4>1 DEF Line, SentFirst
      <4> QED
        BY <1>3, <3>2, <4>2, <4>3 DEF Follow, g
    <3> QED
      BY <1>13, <3>1, <3>2
  <2>3. SentFirst(s', sent')
    <3> SUFFICES ASSUME NEW c \in Categories, NEW i \in 1..Len(sent'[c])
                 PROVE  /\ Follow(pd[c], c, sent'[c][i])
                        /\ \A w \in Whose : Follow(s.sleep_q[w], c, sent'[c][i])
      BY <1>10 DEF SentFirst
    <3>1. CASE i \in 1..Len(sent[c]) /\ sent'[c][i] = sent[c][i]
      <4>1. /\ Follow(s.pending[c], c, sent[c][i])
            /\ \A w \in Whose : Follow(s.sleep_q[w], c, sent[c][i])
        BY <1>18, <3>1 DEF Line, SentFirst
      <4>2. Follow(pd[c], c, sent[c][i])
        BY <1>12, <4>1 DEF Follow
      <4> QED
        BY <3>1, <4>1, <4>2
    <3>2. CASE c = ac /\ sent'[c][i] = g.id
      <4>1. Follow(rest, ac, g.id)
        <5> SUFFICES ASSUME NEW k \in 1..Len(rest), rest[k].ac = ac
                     PROVE  g.id < rest[k].id
          BY DEF Follow
        <5>1. InLine(P)
          BY <1>18 DEF Line
        <5>2. k + 1 \in 1..Len(P) /\ rest[k] = P[k + 1] /\ 1 < k + 1
          BY <1>2, <1>4
        <5>3. P[1].ac = P[k + 1].ac
          BY <1>3, <5>2 DEF g
        <5> HIDE DEF P
        <5>4. P[1].id < P[k + 1].id
          BY <1>3, <5>1, <5>2, <5>3 DEF InLine
        <5> QED
          BY <5>2, <5>4 DEF g
      <4> QED
        BY <1>6, <2>0, <3>2, <4>1
    <3> QED
      BY <1>13, <3>1, <3>2
  <2>4. PendingFirst(s')
    <3> SUFFICES ASSUME NEW c \in Categories, NEW w \in Whose, NEW i \in 1..Len(pd[c])
                 PROVE  Follow(s.sleep_q[w], c, pd[c][i].id)
      BY <1>10 DEF PendingFirst
    <3> QED
      BY <1>12, <1>18 DEF Line, PendingFirst
  <2> QED
    BY <1>10, <1>18, <2>1, <2>2, <2>3, <2>4 DEF Line
<1>19. late \/ Line(s', sent')
  BY <1>18 DEF SleepInv, Sound
<1>20. \A b \in Bounds : b[1] \in Categories /\ Older(s', sent', b[1], b[2])
  BY <1>17 DEF SleepInv, Sound
<1>21. Sound(s', sent', Bounds, races, late)
  BY <1>10, <1>14, <1>15, <1>19, <1>20 DEF Sound
<1>22. Bounds' = Bounds /\ InHand' = InHand
  BY <1>1 DEF Bounds, InHand
<1>23. Total(s') = Total(s) - 1
  <2>1. /\ "be" \in Categories /\ "vo" \in Categories /\ "grp" \in Categories
        /\ "sta" \in Whose /\ "grp" \in Whose
        /\ ac = "be" \/ ac = "vo" \/ ac = "grp"
    BY DEF Categories, ACs, Whose
  <2> DEFINE a == Len(s.sleep_q["sta"])
             b == Len(s.sleep_q["grp"])
             x == Len(s.pending["be"])
             y == Len(s.pending["vo"])
             z == Len(s.pending["grp"])
             x1 == Len(pd["be"])
             y1 == Len(pd["vo"])
             z1 == Len(pd["grp"])
  <2>2. a \in Nat /\ b \in Nat /\ x \in Nat /\ y \in Nat /\ z \in Nat
    BY <1>2, <2>1, Queues
  <2>3. Total(s) = a + b + x + y + z /\ Total(s') = a + b + x1 + y1 + z1
    BY <1>10 DEF Total
  <2>4. \/ x1 = x - 1 /\ y1 = y /\ z1 = z
        \/ x1 = x /\ y1 = y - 1 /\ z1 = z
        \/ x1 = x /\ y1 = y /\ z1 = z - 1
    BY <1>4, <1>6, <2>1
  <2> HIDE DEF a, b, x, y, z, x1, y1, z1
  <2> QED
    BY <2>2, <2>3, <2>4
<1>24. Total(s') + InHand' <= events' /\ \A f \in tx' : f.id <= events'
  <2>1. InHand \in Nat
    BY DEF InHand
  <2> QED
    BY <1>1, <1>22, <1>23, <2>1, Typed DEF SleepInv
<1>25. TypeRest'
  <2>1. /\ air' = air /\ cmd' = cmd /\ cmdTim' = cmdTim /\ failed' = failed
    BY DEF xmit_xmitframes
  <2> QED
    BY <1>1, <1>8, <2>1 DEF SleepInv, TypeRest
<1>26. Sound(s', sent', Bounds', races', late')
  BY <1>1, <1>21, <1>22
<1>27. rx' = "poll_clear" => "sta" \notin rxTim'
  BY <1>1 DEF SleepInv
<1> QED
  BY <1>1, <1>16, <1>24, <1>25, <1>26, <1>27, Together

(***************************************************************************)
(* The receive context.                                                    *)
(***************************************************************************)
LEMMA DozeStep ==
  ASSUME SleepInv, Doze
  PROVE  SleepInv'
<1> DEFINE next == {<<c, events + 2>> : c \in Categories}
           D == next \cup {<<f.ac, f.id>> : f \in tx}
<1>1. /\ tx' = tx /\ events' = events + 1 /\ events < MaxEvents /\ uapsd' = uapsd
      /\ late' = late /\ races' = races /\ rx' = rx /\ rxTim' = rxTim /\ sent' = sent
      /\ ~s.asleep /\ s' = stop_sta_xmit(s)
  BY DEF Doze
<1>2. Sound(s, sent, Bounds \cup next, races, late)
  <2>1. \A b \in next : b[1] \in Categories /\ b[2] \in Nat /\ b[2] >= events + 1
    BY Typed
  <2> HIDE DEF next
  <2> QED
    BY <2>1, BoundsGrow
<1>3. Sound(s, sent, D, races, late)
  <2>1. D \subseteq Bounds \cup next
    BY DEF Bounds
  <2> HIDE DEF D, next
  <2> QED
    BY <1>2, <2>1 DEF Sound
<1>4. Bounds' = D
  BY <1>1, Typed DEF Bounds
<1> HIDE DEF D, next
<1>5. Total(s) <= MaxEvents
  BY Typed
<1>6. Sound(s', sent, D, races, late) /\ Dozes(s') /\ Total(s') = Total(s)
  BY <1>1, <1>3, <1>5, DozeSound DEF SleepInv
<1>7. Sound(s', sent', Bounds', races', late')
  BY <1>1, <1>4, <1>6
<1>8. Total(s') + InHand' <= events' /\ \A f \in tx' : f.id <= events'
  <2>1. InHand' = InHand /\ InHand \in Nat
    BY <1>1 DEF InHand
  <2> QED
    BY <1>1, <1>6, <2>1, Typed DEF SleepInv
<1>9. TypeRest'
  <2>1. /\ air' = air /\ cmd' = cmd /\ cmdTim' = cmdTim /\ failed' = failed
    BY DEF Doze
  <2>2. events' \in 0..MaxEvents
    BY <1>1, Typed
  <2> QED
    BY <1>1, <2>1, <2>2 DEF SleepInv, TypeRest
<1>10. rx' = "poll_clear" => "sta" \notin rxTim'
  BY <1>1 DEF SleepInv
<1> QED
  BY <1>1, <1>6, <1>7, <1>8, <1>9, <1>10, Together

\* The station waking up, and the flush of a long sleep queue, keep it.
LEMMA WakeSteps ==
  ASSUME SleepInv, WakeUp \/ AgeOut
  PROVE  SleepInv'
<1>1. /\ s' = wakeup_sta_to_xmit(s)
      /\ UNCHANGED <<uapsd, tx, sent, late, races, events>>
      /\ UNCHANGED <<air, rxTim, cmdTim, failed>>
      /\ rx' \in {rx, "idle", "update"} /\ cmd' \in {cmd, "idle", "update"}
  BY DEF WakeUp, AgeOut
<1>2. /\ Sound(wakeup_sta_to_xmit(s), sent, Bounds, races, late)
      /\ Dozes(wakeup_sta_to_xmit(s)) /\ Total(wakeup_sta_to_xmit(s)) = Total(s)
  BY WakeupSound DEF SleepInv
<1>3. TypeRest'
  BY <1>1 DEF SleepInv, TypeRest
<1>4. rx' = "poll_clear" => "sta" \notin rxTim'
  BY <1>1 DEF SleepInv
<1>5. Sound(s', sent, Bounds, races, late) /\ Dozes(s') /\ Total(s') = Total(s)
  BY <1>1, <1>2
<1> QED
  BY <1>1, <1>3, <1>4, <1>5, OnlyState

\* The beacon updates that follow a release keep the invariant.
LEMMA UpdateSteps ==
  ASSUME SleepInv, UpdateBeacon \/ AgeUpdate
  PROVE  SleepInv'
<1>1. /\ s' = update_beacon(s)
      /\ UNCHANGED <<uapsd, tx, sent, late, races, events>>
      /\ UNCHANGED <<air, rxTim, cmdTim, failed>>
      /\ rx' \in {rx, "idle"} /\ cmd' \in {cmd, "idle"}
  BY DEF UpdateBeacon, AgeUpdate
<1>2. /\ s' \in States /\ SameQueues(s, s') /\ s'.tim = s.tim /\ s'.dz = s.dz
      /\ s'.asleep = s.asleep
  BY <1>1, BeaconUpdated, Typed
<1>3. races = 0 => Shown(s')
  BY <1>2 DEF SleepInv, Sound, Shown, SameQueues
<1>4. /\ Sound(s', sent, Bounds, races, late) /\ Total(s') = Total(s) /\ Dozes(s')
  BY <1>2, <1>3, Retouched DEF SleepInv
<1>5. TypeRest'
  BY <1>1 DEF SleepInv, TypeRest
<1>6. rx' = "poll_clear" => "sta" \notin rxTim'
  BY <1>1 DEF SleepInv
<1> QED
  BY <1>1, <1>4, <1>5, <1>6, OnlyState

\* The handler of a PS-Poll keeps the invariant.
LEMMA PollStep ==
  ASSUME SleepInv, PsPoll
  PROVE  SleepInv'
<1>1. /\ UNCHANGED <<uapsd, tx, sent, late, races, events>>
      /\ UNCHANGED <<air, rxTim, cmd, cmdTim, failed>>
      /\ s.asleep /\ uapsd # ACs /\ rx' \in {rx, "poll_empty"}
      /\ \/ s.sleep_q["sta"] # <<>> /\ s' = Polled(s)
         \/ s' = [s EXCEPT !.alive_chk = FALSE]
  BY DEF PsPoll, PollAccepted, ACs
<1>2. TypeRest'
  BY <1>1 DEF SleepInv, TypeRest
<1>3. rx' = "poll_clear" => "sta" \notin rxTim'
  BY <1>1 DEF SleepInv
<1>4. /\ Sound(s', sent, Bounds, races, late) /\ Total(s') = Total(s) /\ Dozes(s')
  <2>1. CASE s.sleep_q["sta"] # <<>> /\ s' = Polled(s)
    BY <1>1, <2>1, PolledSound DEF SleepInv
  <2>2. CASE s' = [s EXCEPT !.alive_chk = FALSE]
    <3>1. s' \in States /\ SameQueues(s, s') /\ s'.tim = s.tim /\ s'.dz = s.dz
      BY <2>2, Typed DEF States, SameQueues
    <3>2. s'.asleep = s.asleep
      BY <2>2, Typed DEF States
    <3>3. races = 0 => Shown(s')
      BY <3>1 DEF SleepInv, Sound, Shown, SameQueues
    <3> QED
      BY <3>1, <3>2, <3>3, Retouched DEF SleepInv
  <2> QED
    BY <1>1, <2>1, <2>2
<1> QED
  BY <1>1, <1>2, <1>3, <1>4, OnlyState

\* A trigger frame keeps the invariant.
LEMMA TriggerStep ==
  ASSUME SleepInv, Trigger
  PROVE  SleepInv'
<1>1. /\ UNCHANGED <<uapsd, tx, sent, late, races, events>>
      /\ UNCHANGED <<air, rx, rxTim, cmd, cmdTim, failed>>
      /\ s.asleep /\ s' = xmit_delivery_enabled_frames(s)
  BY DEF Trigger
<1>2. /\ Sound(s', sent, Bounds, races, late) /\ Dozes(s') /\ Total(s') = Total(s)
  BY <1>1, DeliverySound DEF SleepInv
<1>3. TypeRest'
  BY <1>1 DEF SleepInv, TypeRest
<1>4. rx' = "poll_clear" => "sta" \notin rxTim'
  BY <1>1 DEF SleepInv
<1> QED
  BY <1>1, <1>2, <1>3, <1>4, OnlyState

(***************************************************************************)
(* A poll that found nothing, after the lock: the counter is written.      *)
(***************************************************************************)
LEMMA PollEmptyStep ==
  ASSUME SleepInv, PollEmpty
  PROVE  SleepInv'
<1>0. /\ UNCHANGED <<uapsd, tx, sent, late, events>>
      /\ UNCHANGED <<air, cmd, cmdTim, failed>>
  BY DEF PollEmpty
<1>0a. Bounds' = Bounds /\ InHand' = InHand
  BY <1>0 DEF Bounds, InHand
<1>1. CASE /\ "sta" \in s.tim /\ s' = [s EXCEPT !.len["sta"] = 0]
           /\ races' = IF s.sleep_q["sta"] # <<>> THEN races + 1 ELSE races
           /\ rxTim' = s.tim \ {"sta"} /\ rx' = "poll_clear"
  <2>0. "sta" \in Whose /\ "grp" \in Whose /\ s \in States /\ races \in Nat
    BY Typed DEF Whose
  <2>1. s.len \in [Whose -> 0..(LenMod - 1)] /\ 0 \in 0..(LenMod - 1)
        /\ s.sleep_q["sta"] \in Seq(Frames) /\ s.tim \in SUBSET Whose
    BY <2>0, StateFields, Queues, Counted
  <2> DEFINE ln == [s.len EXCEPT !["sta"] = 0]
  <2>2. ln \in [Whose -> 0..(LenMod - 1)] /\ ln["sta"] = 0 /\ ln["grp"] = s.len["grp"]
    BY <2>0, <2>1
  <2>3. s' = [s EXCEPT !.len = ln]
    BY <1>1
  <2> HIDE DEF ln
  <2>4. /\ s' \in States /\ s'.len = ln /\ s'.sleep_q = s.sleep_q
        /\ s'.pending = s.pending /\ s'.ac_len = s.ac_len
        /\ s'.tim = s.tim /\ s'.dz = s.dz
    BY <2>0, <2>2, <2>3 DEF States
  <2>5. s'.asleep = s.asleep
    BY <2>0, <2>3 DEF States
  <2>6. Placed(s') /\ GrpExact(s') /\ AcExact(s')
    BY <2>2, <2>4 DEF SleepInv, Sound, Placed, GrpExact, AcExact
  <2>7. races' = 0 => StaExact(s') /\ Shown(s')
    <3> SUFFICES ASSUME races' = 0 PROVE StaExact(s') /\ Shown(s')
      OBVIOUS
    <3>1. s.sleep_q["sta"] = <<>> /\ races = 0
      BY <1>1, <2>0
    <3>2. StaExact(s')
      BY <2>2, <2>4, <3>1 DEF StaExact
    <3>3. Shown(s')
      BY <2>4, <3>1 DEF SleepInv, Sound, Shown
    <3> QED
      BY <3>2, <3>3
  <2>8. late \/ Line(s', sent)
    BY <2>4 DEF SleepInv, Sound, Line, SentFirst, PendingFirst
  <2>9. \A b \in Bounds : b[1] \in Categories /\ Older(s', sent, b[1], b[2])
    BY <2>4 DEF SleepInv, Sound, Older
  <2>10. Sound(s', sent, Bounds, races', late)
    BY <2>4, <2>6, <2>7, <2>8, <2>9 DEF Sound
  <2>11. Sound(s', sent', Bounds', races', late')
    BY <1>0, <1>0a, <2>10
  <2>12. Total(s') + InHand' <= events' /\ \A f \in tx' : f.id <= events'
    BY <1>0, <1>0a, <2>4 DEF SleepInv, Total
  <2>13. Dozes(s')
    BY <2>4, <2>5, Zenon DEF SleepInv, Dozes
  <2>14. TypeRest'
    BY <1>0, <1>1, <2>0, <2>1 DEF SleepInv, TypeRest
  <2>15. rx' = "poll_clear" => "sta" \notin rxTim'
    BY <1>1
  <2> QED
    BY <1>0, <2>11, <2>12, <2>13, <2>14, <2>15, Together
<1>2. CASE rx' = "idle" /\ UNCHANGED <<s, rxTim, races>>
  <2>1. /\ Sound(s', sent, Bounds, races, late) /\ Total(s') = Total(s) /\ Dozes(s')
    BY <1>2 DEF SleepInv
  <2>2. TypeRest'
    BY <1>0, <1>2 DEF SleepInv, TypeRest
  <2> QED
    BY <1>0, <1>2, <2>1, <2>2, OnlyState
<1> QED
  BY <1>1, <1>2 DEF PollEmpty

(***************************************************************************)
(* The bitmap is written from a value read before, by the receive context  *)
(* or by the command thread.                                               *)
(***************************************************************************)
LEMMA PollClearStep ==
  ASSUME SleepInv, PollClear
  PROVE  SleepInv'
<1>0. /\ UNCHANGED <<uapsd, tx, sent, late, events>>
      /\ UNCHANGED <<air, cmd, cmdTim, failed>>
      /\ s' = [s EXCEPT !.tim = rxTim] /\ rx = "poll_clear"
      /\ races' = IF s.tim # rxTim \cup {"sta"} \/ s.sleep_q["sta"] # <<>>
                  THEN races + 1 ELSE races
      /\ rx' = "update" /\ rxTim' = {}
  BY DEF PollClear
<1>1. s \in States /\ races \in Nat /\ rxTim \in SUBSET Whose /\ "sta" \notin rxTim
  BY <1>0, Typed DEF SleepInv, TypeRest
<1>2. s' \in States /\ SameQueues(s, s') /\ s'.tim = rxTim /\ s'.dz = s.dz
  BY <1>0, <1>1 DEF States, SameQueues
<1>3. s'.asleep = s.asleep
  BY <1>0, <1>1 DEF States
<1>4. races' = 0 => Shown(s')
  <2> SUFFICES ASSUME races' = 0, NEW w \in Whose, NEW i \in 1..Len(s'.sleep_q[w]),
                      w = "grp" \/ Announced(s'.sleep_q[w][i].ac)
               PROVE  w \in s'.tim
    BY DEF Shown
  <2>1. /\ races = 0 /\ s.tim = rxTim \cup {"sta"} /\ s.sleep_q["sta"] = <<>>
    BY <1>0, <1>1
  <2>2. s'.sleep_q = s.sleep_q
    BY <1>2 DEF SameQueues
  <2>3. w # "sta"
    BY <2>1, <2>2
  <2>4. Shown(s)
    BY <2>1 DEF SleepInv, Sound
  <2>5. w \in s.tim
    BY <2>2, <2>4 DEF Shown
  <2> QED
    BY <1>2, <2>1, <2>3, <2>5
<1>5. Sound(s, sent, Bounds, races', late)
  BY <1>0, <1>1 DEF SleepInv, Sound
<1>6. Sound(s', sent, Bounds, races', late) /\ Total(s') = Total(s) /\ Dozes(s')
  BY <1>2, <1>3, <1>4, <1>5, Retouched DEF SleepInv
<1>7. Bounds' = Bounds /\ InHand' = InHand
  BY <1>0 DEF Bounds, InHand
<1>8. Sound(s', sent', Bounds', races', late')
  BY <1>0, <1>6, <1>7
<1>9. Total(s') + InHand' <= events' /\ \A f \in tx' : f.id <= events'
  BY <1>0, <1>6, <1>7 DEF SleepInv
<1>10. TypeRest'
  BY <1>0, <1>1 DEF SleepInv, TypeRest
<1> QED
  BY <1>0, <1>6, <1>8, <1>9, <1>10, Together

\* The delayed write of tim_bitmap by the alive check keeps the invariant.
LEMMA AliveWriteStep ==
  ASSUME SleepInv, AliveWrite
  PROVE  SleepInv'
<1> DEFINE u == [s EXCEPT !.tim = cmdTim]
<1>0. /\ UNCHANGED <<uapsd, tx, sent, late, events>>
      /\ UNCHANGED <<air, rx, rxTim, failed>>
      /\ s' = update_beacon(u)
      /\ races' = IF s.tim \cup {"sta"} # cmdTim THEN races + 1 ELSE races
      /\ cmd' = "idle" /\ cmdTim' = {}
  BY DEF AliveWrite
<1>1. s \in States /\ races \in Nat /\ cmdTim \in SUBSET Whose
  BY Typed DEF SleepInv, TypeRest
<1>2. u \in States /\ SameQueues(s, u) /\ u.tim = cmdTim /\ u.dz = s.dz
  BY <1>1 DEF States, SameQueues
<1>3. u.asleep = s.asleep
  BY <1>1 DEF States
<1> HIDE DEF u
<1>4. /\ s' \in States /\ SameQueues(u, s') /\ s'.tim = u.tim /\ s'.dz = u.dz
      /\ s'.asleep = u.asleep
  BY <1>0, <1>2, BeaconUpdated
<1>5. SameQueues(s, s')
  BY <1>2, <1>4 DEF SameQueues
<1>6. s'.asleep = s.asleep
  BY <1>3, <1>4, Zenon
<1>7. races' = 0 => Shown(s')
  <2> SUFFICES ASSUME races' = 0, NEW w \in Whose, NEW i \in 1..Len(s'.sleep_q[w]),
                      w = "grp" \/ Announced(s'.sleep_q[w][i].ac)
               PROVE  w \in s'.tim
    BY DEF Shown
  <2>1. races = 0 /\ s.tim \cup {"sta"} = cmdTim
    BY <1>0, <1>1
  <2>2. s'.sleep_q = s.sleep_q
    BY <1>5 DEF SameQueues
  <2>3. Shown(s)
    BY <2>1 DEF SleepInv, Sound
  <2>4. w \in s.tim
    BY <2>2, <2>3 DEF Shown
  <2> QED
    BY <1>2, <1>4, <2>1, <2>4
<1>8. Sound(s, sent, Bounds, races', late)
  BY <1>0, <1>1 DEF SleepInv, Sound
<1>9. Sound(s', sent, Bounds, races', late) /\ Total(s') = Total(s) /\ Dozes(s')
  <2>1. s'.dz = s.dz
    BY <1>2, <1>4
  <2> QED
    BY <1>4, <1>5, <1>6, <1>7, <1>8, <2>1, Retouched DEF SleepInv
<1>10. Bounds' = Bounds /\ InHand' = InHand
  BY <1>0 DEF Bounds, InHand
<1>11. Sound(s', sent', Bounds', races', late')
  BY <1>0, <1>9, <1>10
<1>12. Total(s') + InHand' <= events' /\ \A f \in tx' : f.id <= events'
  BY <1>0, <1>9, <1>10 DEF SleepInv
<1>13. TypeRest'
  BY <1>0, <1>1 DEF SleepInv, TypeRest
<1>14. rx' = "poll_clear" => "sta" \notin rxTim'
  BY <1>0 DEF SleepInv
<1> QED
  BY <1>0, <1>9, <1>11, <1>12, <1>13, <1>14, Together

(***************************************************************************)
(* The command thread.                                                     *)
(***************************************************************************)
\* The command thread takes the first command off the queue.
CommandTake == s.cmdq # <<>> /\ s' = [s EXCEPT !.cmdq = Tail(@)]

\* Taking a command off the queue changes nothing the invariant is about.
LEMMA CommandTaken ==
  ASSUME SleepInv, CommandTake
  PROVE  /\ \A B : Sound(s, sent, B, races, late) => Sound(s', sent, B, races, late)
         /\ Dozes(s') /\ Total(s') = Total(s)
<1> DEFINE q == Tail(s.cmdq)
<1>1. s \in States /\ s.cmdq \in Seq({"beacon", "bmc"})
  BY Typed, StateFields
<1>2. q \in Seq({"beacon", "bmc"})
  BY <1>1 DEF CommandTake
<1>3. s' = [s EXCEPT !.cmdq = q]
  BY DEF CommandTake
<1> HIDE DEF q
<1>4. s' \in States /\ SameQueues(s, s') /\ s'.tim = s.tim /\ s'.dz = s.dz
  BY <1>1, <1>2, <1>3 DEF States, SameQueues
<1>5. s'.asleep = s.asleep
  BY <1>1, <1>3 DEF States
<1>6. Shown(s) => Shown(s')
  BY <1>4 DEF Shown, SameQueues
<1>7. ASSUME NEW B, Sound(s, sent, B, races, late)
      PROVE  Sound(s', sent, B, races, late) /\ Total(s') = Total(s) /\ Dozes(s')
  <2>1. races = 0 => Shown(s')
    BY <1>6, <1>7 DEF Sound
  <2>2. Dozes(s)
    BY DEF SleepInv
  <2>3. /\ Sound(s', sent, B, races, late) /\ Total(s') = Total(s)
        /\ Dozes(s) => Dozes(s')
    BY <1>4, <1>5, <1>7, <2>1, Retouched
  <2> QED
    BY <2>2, <2>3, Zenon
<1>8. Sound(s, sent, Bounds, races, late)
  BY DEF SleepInv
<1> QED
  BY <1>7, <1>8

\* A step that uses up one of the events and hands over no frame.
LEMMA EventUsed ==
  ASSUME SleepInv, events < MaxEvents, events' = events + 1,
         UNCHANGED <<uapsd, tx, sent, late, races, rx, rxTim>>, TypeRest',
         \A B : Sound(s, sent, B, races, late) => Sound(s', sent, B, races, late),
         Dozes(s'), Total(s') = Total(s)
  PROVE  SleepInv'
<1> DEFINE next == {<<c, events + 2>> : c \in Categories}
           D == next \cup {<<f.ac, f.id>> : f \in tx}
<1>1. Sound(s, sent, Bounds \cup next, races, late)
  <2>1. \A b \in next : b[1] \in Categories /\ b[2] \in Nat /\ b[2] >= events + 1
    BY Typed
  <2> HIDE DEF next
  <2> QED
    BY <2>1, BoundsGrow
<1>2. Sound(s, sent, D, races, late)
  <2>1. D \subseteq Bounds \cup next
    BY DEF Bounds
  <2> HIDE DEF D, next
  <2> QED
    BY <1>1, <2>1 DEF Sound
<1>3. Bounds' = D
  BY Typed DEF Bounds
<1> HIDE DEF D, next
<1>4. Sound(s', sent, D, races, late)
  BY <1>2
<1>5. Sound(s', sent', Bounds', races', late')
  BY <1>3, <1>4
<1>6. Total(s') + InHand' <= events' /\ \A f \in tx' : f.id <= events'
  <2>1. InHand' = InHand /\ InHand \in Nat
    BY DEF InHand
  <2> QED
    BY <2>1, Typed DEF SleepInv
<1>7. rx' = "poll_clear" => "sta" \notin rxTim'
  BY DEF SleepInv
<1> QED
  BY <1>5, <1>6, <1>7, Together

\* The beacon and the broadcast commands, when they are taken, keep it.
LEMMA CommandSteps ==
  ASSUME SleepInv, tx_beacon_hdl \/ chk_bmc_sleepq_hdl
  PROVE  SleepInv'
<1>1. /\ s.cmdq # <<>> /\ s' = [s EXCEPT !.cmdq = Tail(@)]
      /\ UNCHANGED <<uapsd, tx, rx, rxTim, cmdTim, sent, late, races>>
      /\ cmd' \in {cmd, "idle", "bmc"}
      /\ air' = air \/ air' = s.bcn
      /\ failed' = failed \/ failed' = TRUE
      /\ events' = events \/ (events < MaxEvents /\ events' = events + 1)
  BY DEF tx_beacon_hdl, chk_bmc_sleepq_hdl
<1>2. /\ \A B : Sound(s, sent, B, races, late) => Sound(s', sent, B, races, late)
      /\ Dozes(s') /\ Total(s') = Total(s)
  BY <1>1, CommandTaken DEF CommandTake
<1>3. TypeRest'
  <2>1. air' \in SUBSET Whose
    <3>1. s.bcn \in SUBSET Whose
      BY Typed, StateFields
    <3> QED
      BY <1>1, <3>1 DEF SleepInv, TypeRest
  <2>2. events' \in 0..MaxEvents
    BY <1>1, Typed
  <2>3. failed' \in BOOLEAN
    BY <1>1 DEF SleepInv, TypeRest
  <2> QED
    BY <1>1, <2>1, <2>2, <2>3 DEF SleepInv, TypeRest
<1>4. CASE events' = events
  <2>1. Sound(s', sent, Bounds, races, late)
    BY <1>2 DEF SleepInv
  <2>2. rx' = "poll_clear" => "sta" \notin rxTim'
    BY <1>1 DEF SleepInv
  <2> QED
    BY <1>1, <1>2, <1>3, <1>4, <2>1, <2>2, OnlyState
<1>5. CASE events < MaxEvents /\ events' = events + 1
  BY <1>1, <1>2, <1>3, <1>5, EventUsed
<1> QED
  BY <1>1, <1>4, <1>5

\* The release of the group addressed frames keeps the invariant.
LEMMA BmcSentStep ==
  ASSUME SleepInv, BmcSleepqSent
  PROVE  SleepInv'
<1> DEFINE r == FoldLeft(release, s, s.sleep_q["grp"])
           q == s.sleep_q["grp"]
<1>1. /\ UNCHANGED <<uapsd, tx, sent, late, races, events>>
      /\ UNCHANGED <<air, rx, rxTim, cmdTim, failed>>
      /\ cmd' = "idle" /\ s' = r
  BY DEF BmcSleepqSent
<1>2. Sound(r, sent, Bounds, races, late) /\ Released(s, r, "grp", Len(q))
  BY ReleaseAll DEF SleepInv
<1> HIDE DEF r
<1>3. /\ Total(r) = Total(s) /\ r.dz = s.dz
      /\ r.sleep_q["sta"] = s.sleep_q["sta"] /\ Len(r.sleep_q["grp"]) = 0
  <2>1. "sta" \in Whose /\ "grp" \in Whose /\ Len(q) \in Nat
    BY Typed, Queues DEF Whose
  <2>2. Len(r.sleep_q["grp"]) = Len(q) - Len(q)
    BY <1>2 DEF Released
  <2>3. /\ Total(r) = Total(s) /\ r.dz = s.dz
        /\ r.sleep_q["sta"] = s.sleep_q["sta"]
    BY <1>2, <2>1 DEF Released, SameButQueues
  <2> HIDE DEF q
  <2> QED
    BY <2>1, <2>2, <2>3
<1>4. r.asleep = s.asleep
  BY <1>2, Zenon DEF Released, SameButQueues
<1>5. Dozes(r)
  <2>1. r.asleep => "sta" \in r.dz
    BY <1>3, <1>4 DEF SleepInv, Dozes
  <2>2. ~r.asleep => r.dz = {} /\ Len(r.sleep_q["sta"]) = 0
    BY <1>3, <1>4 DEF SleepInv, Dozes
  <2> QED
    BY <1>3, <2>1, <2>2 DEF Dozes
<1>6. /\ Sound(s', sent, Bounds, races, late) /\ Dozes(s') /\ Total(s') = Total(s)
  BY <1>1, <1>2, <1>3, <1>5
<1>7. TypeRest'
  BY <1>1 DEF SleepInv, TypeRest
<1>8. rx' = "poll_clear" => "sta" \notin rxTim'
  BY <1>1 DEF SleepInv
<1> QED
  BY <1>1, <1>6, <1>7, <1>8, OnlyState

\* The alive check of expire_timeout_chk keeps the invariant.
LEMMA AliveCheckStep ==
  ASSUME SleepInv, AliveCheck
  PROVE  SleepInv'
<1>1. /\ events < MaxEvents /\ events' = events + 1
      /\ UNCHANGED <<uapsd, tx, sent, late, races, rx, rxTim>>
      /\ UNCHANGED <<air, failed>>
      /\ s' = [s EXCEPT !.alive_chk = TRUE]
      /\ cmdTim' = s.tim \cup {"sta"} /\ cmd' = "alive_write"
  BY DEF AliveCheck
<1>2. s \in States /\ s.tim \in SUBSET Whose
  BY Typed, StateFields
<1>3. s' \in States /\ SameQueues(s, s') /\ s'.tim = s.tim /\ s'.dz = s.dz
  BY <1>1, <1>2 DEF States, SameQueues
<1>4. s'.asleep = s.asleep
  BY <1>1, <1>2 DEF States
<1>5. Shown(s) => Shown(s')
  BY <1>3 DEF Shown, SameQueues
<1>6. ASSUME NEW B, Sound(s, sent, B, races, late)
      PROVE  Sound(s', sent, B, races, late) /\ Total(s') = Total(s) /\ Dozes(s')
  <2>1. races = 0 => Shown(s')
    BY <1>5, <1>6 DEF Sound
  <2> QED
    BY <1>3, <1>4, <1>6, <2>1, Retouched DEF SleepInv
<1>7. Dozes(s') /\ Total(s') = Total(s)
  <2>1. Sound(s, sent, Bounds, races, late)
    BY DEF SleepInv
  <2> QED
    BY <1>6, <2>1
<1>8. TypeRest'
  <2>1. events' \in 0..MaxEvents /\ cmdTim' \in SUBSET Whose
    BY <1>1, <1>2, Typed DEF Whose
  <2> QED
    BY <1>1, <2>1 DEF SleepInv, TypeRest
<1> QED
  BY <1>1, <1>6, <1>7, <1>8, EventUsed

-----------------------------------------------------------------------------
(* The theorems.                                                           *)

\* The invariant holds initially.
LEMMA InitSound ==
  ASSUME Init
  PROVE  SleepInv
<1> DEFINE sq == [w \in Whose |-> <<>>]
           ln == [w \in Whose |-> 0]
           pd == [c \in Categories |-> <<>>]
<1>1. /\ uapsd \in SUBSET ACs /\ air = {} /\ tx = {} /\ rx = "idle" /\ cmd = "idle"
      /\ rxTim = {} /\ cmdTim = {} /\ sent = pd /\ late = FALSE /\ races = 0
      /\ failed = FALSE /\ events = 0
  BY DEF Init
<1>2. s = [asleep |-> FALSE, alive_chk |-> FALSE, dz |-> {}, tim |-> {},
           sleep_q |-> sq, len |-> ln, ac_len |-> 0, pending |-> pd,
           bcn |-> {}, cmdq |-> <<>>]
  BY DEF Init
<1>3. /\ sq \in [Whose -> Seq(Frames)] /\ ln \in [Whose -> 0..(LenMod - 1)]
      /\ pd \in [Categories -> Seq(Frames)] /\ 0 \in 0..(LenMod - 1)
      /\ pd \in [Categories -> Seq(1..MaxEvents)]
  BY Counted
<1>4. /\ \A w \in Whose : sq[w] = <<>> /\ Len(sq[w]) = 0 /\ ln[w] = 0
      /\ \A c \in Categories : pd[c] = <<>> /\ Len(pd[c]) = 0
      /\ "sta" \in Whose /\ "grp" \in Whose
      /\ "be" \in Categories /\ "vo" \in Categories /\ "grp" \in Categories
  BY DEF Whose, Categories, ACs
<1> HIDE DEF sq, ln, pd
<1>5. /\ s \in States /\ s.sleep_q = sq /\ s.len = ln /\ s.pending = pd
      /\ s.ac_len = 0 /\ s.dz = {}
  BY <1>2, <1>3 DEF States
<1>6. ~s.asleep
  BY <1>2
<1>7. Placed(s) /\ GrpExact(s) /\ AcExact(s) /\ StaExact(s) /\ Shown(s)
  BY <1>4, <1>5 DEF Placed, GrpExact, AcExact, StaExact, Shown
<1>8. Line(s, sent)
  BY <1>1, <1>4, <1>5
     DEF Line, Ascending, InLine, SentFirst, PendingFirst, Follow
<1>9. \A b \in Bounds : b[1] \in Categories /\ Older(s, sent, b[1], b[2])
  <2>1. \A c \in Categories : \A n : Older(s, sent, c, n)
    BY <1>1, <1>4, <1>5 DEF Older
  <2>2. \A b \in Bounds : b[1] \in Categories
    BY <1>1 DEF Bounds
  <2> QED
    BY <2>1, <2>2
<1>10. Sound(s, sent, Bounds, races, late)
  BY <1>5, <1>7, <1>8, <1>9 DEF Sound
<1>11. Dozes(s)
  BY <1>4, <1>5, <1>6 DEF Dozes
<1>12. Total(s) + InHand <= events
  <2>1. Total(s) = 0 + 0 + 0 + 0 + 0
    BY <1>4, <1>5 DEF Total
  <2> QED
    BY <1>1, <2>1 DEF InHand
<1>13. TypeRest
  <2>1. Cardinality(tx) <= 1 /\ 0 \in 0..MaxEvents
    BY <1>1, FewInTx, Counted
  <2> QED
    BY <1>1, <1>3, <2>1 DEF TypeRest
<1> QED
  BY <1>1, <1>10, <1>11, <1>12, <1>13 DEF SleepInv

\* Every step keeps the invariant.
LEMMA StepSound ==
  ASSUME SleepInv, [Next]_vars
  PROVE  SleepInv'
<1>1. CASE Xmit
  BY <1>1, XmitStep DEF Xmit
<1>2. CASE rtl8723bs_hal_xmit
  BY <1>2, HalXmitStep
<1>3. CASE \E ac \in Categories : xmit_xmitframes(ac)
  BY <1>3, SendStep
<1>4. CASE Doze
  BY <1>4, DozeStep
<1>5. CASE WakeUp
  BY <1>5, WakeSteps
<1>6. CASE PsPoll
  BY <1>6, PollStep
<1>7. CASE Trigger
  BY <1>7, TriggerStep
<1>8. CASE RxStep
  BY <1>8, UpdateSteps, PollEmptyStep, PollClearStep DEF RxStep
<1>9. CASE CmdStep
  BY <1>9, CommandSteps, BmcSentStep, AliveWriteStep, UpdateSteps DEF CmdStep
<1>10. CASE AliveCheck
  BY <1>10, AliveCheckStep
<1>11. CASE AgeOut
  BY <1>11, WakeSteps
<1>12. CASE UNCHANGED vars
  <2>1. UNCHANGED <<uapsd, tx, sent, late, races, events>> /\ s' = s
        /\ UNCHANGED <<air, rx, rxTim, cmd, cmdTim, failed>>
    BY <1>12 DEF vars
  <2>2. /\ Sound(s', sent, Bounds, races, late) /\ Dozes(s') /\ Total(s') = Total(s)
    BY <2>1 DEF SleepInv
  <2>3. TypeRest'
    BY <2>1 DEF SleepInv, TypeRest
  <2>4. rx' = "poll_clear" => "sta" \notin rxTim'
    BY <2>1 DEF SleepInv
  <2> QED
    BY <2>1, <2>2, <2>3, <2>4, OnlyState
<1> QED
  BY <1>1, <1>2, <1>3, <1>4, <1>5, <1>6, <1>7, <1>8, <1>9, <1>10, <1>11, <1>12
     DEF Next

\* The inductive invariant holds in every reachable state.
LEMMA SleepInvariant == Spec => []SleepInv
<1>1. Init => SleepInv
  BY InitSound
<1>2. SleepInv /\ [Next]_vars => SleepInv'
  BY StepSound
<1> QED
  BY <1>1, <1>2, PTL DEF Spec

(***************************************************************************)
(* Type correctness.  Both counters stay within their width, and no queue  *)
(* holds anything but frames, for every length of a run.                   *)
(***************************************************************************)
THEOREM SleepTypeCorrect == Spec => []TypeOK
<1>1. SleepInv => TypeOK
  <2> SUFFICES ASSUME SleepInv PROVE TypeOK
    OBVIOUS
  <2>1. TypeRest /\ s \in States
    BY DEF SleepInv, Sound
  <2> QED
    BY <2>1, Zenon DEF TypeRest, TypeOK
<1> QED
  BY <1>1, SleepInvariant, PTL

(***************************************************************************)
(* sleepq_len is the length of the sleep queue: xmitframe_enqueue_for_     *)
(* sleeping_sta, stop_sta_xmit, wakeup_sta_to_xmit, PS-Poll, U-APSD        *)
(* delivery and chk_bmc_sleepq_hdl change both together, and the write of  *)
(* a poll that found nothing is the only one that can break it.            *)
(***************************************************************************)
THEOREM QueuesAreCounted == Spec => []CountedQueues
<1>1. SleepInv => CountedQueues
  BY DEF SleepInv, Sound, GrpExact, StaExact, CountedQueues, SleepqLen, Whose
<1> QED
  BY <1>1, SleepInvariant, PTL

(***************************************************************************)
(* A buffered frame of an announced category has its bit in tim_bitmap     *)
(* while no unlocked section was interfered with.                          *)
(***************************************************************************)
THEOREM BufferedFramesAnnounced == Spec => []BufferedIsAnnounced
<1>1. SleepInv => BufferedIsAnnounced
  <2> SUFFICES ASSUME SleepInv, races = 0, NEW w \in Whose,
                      NEW i \in DOMAIN s.sleep_q[w],
                      w = "grp" \/ Announced(s.sleep_q[w][i].ac)
               PROVE  w \in s.tim
    BY DEF BufferedIsAnnounced
  <2>1. i \in 1..Len(s.sleep_q[w])
    BY Typed, Queues
  <2> QED
    BY <2>1 DEF SleepInv, Sound, Shown
<1> QED
  BY <1>1, SleepInvariant, PTL

(***************************************************************************)
(* The frames of a category are sent in the order in which they were       *)
(* handed to rtw_xmit, whichever way they took, unless one passed the test *)
(* of the sleep state before the station dozed off.                        *)
(***************************************************************************)
THEOREM CategoriesInOrder == Spec => []InOrder
<1>1. SleepInv => InOrder
  <2> SUFFICES ASSUME SleepInv, ~late, NEW c \in DOMAIN sent,
                      NEW i \in DOMAIN sent[c], NEW j \in DOMAIN sent[c], i < j
               PROVE  sent[c][i] < sent[c][j]
    BY DEF InOrder
  <2>1. sent \in [Categories -> Seq(1..MaxEvents)]
    BY DEF SleepInv, TypeRest
  <2>2. c \in Categories /\ i \in 1..Len(sent[c]) /\ j \in 1..Len(sent[c])
    BY <2>1
  <2> QED
    BY <2>2 DEF SleepInv, Sound, Line, Ascending
<1> QED
  BY <1>1, SleepInvariant, PTL

(***************************************************************************)
(* What a poll that finds nothing cannot break: the count of the group     *)
(* addressed frames is exact in every interleaving, and so is              *)
(* sleepq_ac_len when every category has U-APSD.                           *)
(***************************************************************************)
THEOREM GroupFramesCounted == Spec => [](GrpExact(s) /\ AcExact(s))
<1>1. SleepInv => GrpExact(s) /\ AcExact(s)
  BY DEF SleepInv, Sound
<1> QED
  BY <1>1, SleepInvariant, PTL
====
