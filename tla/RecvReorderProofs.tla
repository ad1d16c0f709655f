-------------------------- MODULE RecvReorderProofs --------------------------
(***************************************************************************)
(* Proofs about the reordering buffer, for every window size and any       *)
(* number of block ack requests: buffered frames never wait without a      *)
(* timer, every state is well typed, the frames of a session come out in   *)
(* order and without a gap, and a fresh frame is never dropped.            *)
(*                                                                         *)
(* What the recursion of recv_indicatepkts_in_order computes is proved by  *)
(* induction on the number of frames, in the form "a set of natural        *)
(* numbers that is not empty has a least element".                         *)
(***************************************************************************)
EXTENDS RecvReorder, SequenceTheorems, WellFoundedInduction, TLAPS

(***************************************************************************)
(* rtw_alloc_stainfo establishes the invariant.                            *)
(***************************************************************************)
LEMMA TimerInit == Init => TimerInv
BY DEF Init, TimerInv, BufferedHasTimer

(***************************************************************************)
(* Steps that touch neither the buffer nor the timer, and do not bring the *)
(* tasklet to its cancellation, keep the invariant.                        *)
(***************************************************************************)
LEMMA QuietKeepsTimer ==
  ASSUME TimerInv, UNCHANGED <<queue, waiting, timer, fired>>,
         stopped' = stopped \/ stopped', sta' = sta \/ sta' # "linked",
         rxpc' = rxpc \/ rxpc' # "cancel"
  PROVE  TimerInv'
BY DEF TimerInv, BufferedHasTimer

(***************************************************************************)
(* TimerInv is inductive.  The steps that could break it are the frame     *)
(* that leaves others buffered (it arms a timer unless bReorderWaiting     *)
(* vouches for one), the cancellation (nothing is buffered then), and the  *)
(* handler (it clears bReorderWaiting and arms a timer for what stays).    *)
(***************************************************************************)
LEMMA TimerNext == TimerInv /\ [Next]_vars => TimerInv'
<1> SUFFICES ASSUME TimerInv, [Next]_vars PROVE TimerInv'
  OBVIOUS
<1>1. CASE UNCHANGED vars
  BY <1>1, QuietKeepsTimer DEF vars
<1>2. CASE PeerSlides
  BY <1>2, QuietKeepsTimer DEF PeerSlides
<1>3. ASSUME NEW n \in Frames, Receive(n) PROVE TimerInv'
  BY <1>3, QuietKeepsTimer DEF Receive
<1>4. CASE IndicateDirect
  BY <1>4, QuietKeepsTimer DEF IndicateDirect, airVars
<1>5. CASE IndicateDirectEnd
  BY <1>5, QuietKeepsTimer DEF IndicateDirectEnd, airVars
<1>6. CASE DropOld
  BY <1>6, QuietKeepsTimer DEF DropOld, airVars
<1>7. CASE DropDuplicate
  BY <1>7, QuietKeepsTimer DEF DropDuplicate, airVars
<1>8. CASE recv_indicatepkt_reorder
  <2>1. UNCHANGED <<stopped, sta, fired>>
    BY <1>8 DEF recv_indicatepkt_reorder, airVars
  <2>2. CASE queue' # <<>> /\ waiting' = TRUE /\ timer' = (timer \/ ~waiting)
             /\ rxpc' = "idle"
    BY <2>1, <2>2 DEF TimerInv, BufferedHasTimer
  <2>3. CASE queue' = <<>> /\ waiting' = FALSE /\ rxpc' = "cancel"
    BY <2>1, <2>3 DEF TimerInv, BufferedHasTimer
  <2> QED
    BY <1>8, <2>2, <2>3 DEF recv_indicatepkt_reorder
<1>9. CASE CancelTimer
  BY <1>9 DEF CancelTimer, airVars, TimerInv, BufferedHasTimer
<1>10. CASE TimerExpires
  BY <1>10 DEF TimerExpires, airVars, TimerInv, BufferedHasTimer
<1>11. CASE rtw_reordering_ctrl_timeout_handler
  <2>1. waiting' = FALSE /\ UNCHANGED <<stopped, sta, rxpc>>
    BY <1>11 DEF rtw_reordering_ctrl_timeout_handler, airVars
  <2>2. CASE queue = <<>> /\ timer' = TRUE /\ UNCHANGED queue
    BY <2>1, <2>2 DEF TimerInv, BufferedHasTimer
  <2>3. CASE queue # <<>> /\ timer' = (timer \/ queue' # <<>>)
    BY <2>1, <2>3 DEF TimerInv, BufferedHasTimer
  <2> QED
    BY <1>11, <2>2, <2>3 DEF rtw_reordering_ctrl_timeout_handler
<1>12. CASE AddbaAnswer
  BY <1>12, QuietKeepsTimer DEF AddbaAnswer, airVars
<1>13. CASE AddbaUnset
  BY <1>13, QuietKeepsTimer DEF AddbaUnset, airVars
<1>14. CASE AddbaEnd
  BY <1>14, QuietKeepsTimer DEF AddbaEnd, airVars
<1>15. CASE OnDelba
  BY <1>15, QuietKeepsTimer DEF OnDelba, airVars
<1>16. CASE send_delba_sta_tid
  BY <1>16, QuietKeepsTimer DEF send_delba_sta_tid, airVars
<1>17. CASE PeerGetsDelba
  BY <1>17, QuietKeepsTimer DEF PeerGetsDelba, airVars
<1>18. CASE FreeCancel
  BY <1>18 DEF FreeCancel, TimerInv, BufferedHasTimer
<1>19. CASE FreeFlush
  BY <1>19 DEF FreeFlush, TimerInv, BufferedHasTimer
<1>20. CASE Stop
  BY <1>20 DEF Stop, TimerInv, BufferedHasTimer
<1> QED
  BY <1>1, <1>2, <1>3, <1>4, <1>5, <1>6, <1>7, <1>8, <1>9, <1>10, <1>11,
     <1>12, <1>13, <1>14, <1>15, <1>16, <1>17, <1>18, <1>19, <1>20
  DEF Next, Rx, Timer, BlockAck

(***************************************************************************)
(* As long as the driver runs and the station is linked, buffered frames   *)
(* have a timer, and bReorderWaiting is never set without one: no          *)
(* interleaving of the tasklet, the timer's handler and the block ack      *)
(* handlers loses the wake-up that would release a buffered frame.         *)
(***************************************************************************)
THEOREM NoFrameWithoutTimer == Spec => []BufferedHasTimer
<1>1. TimerInv => BufferedHasTimer
  BY DEF TimerInv
<1> QED
  BY <1>1, TimerInit, TimerNext, PTL DEF Spec

(***************************************************************************)
(* Every set of natural numbers that is not empty has a least element.     *)
(***************************************************************************)
LEMMA LeastNumber ==
  ASSUME NEW T \in SUBSET Nat, T # {}
  PROVE  \E n \in T : \A k \in T : n <= k
<1> DEFINE R == OpToRel(<, Nat)
<1>1. IsWellFoundedOn(R, Nat)
  BY NatLessThanWellFounded
<1>2. \A k, n \in Nat : k < n => <<k, n>> \in R
  BY DEF OpToRel
<1> HIDE DEF R
<1>3. PICK n \in T : \A k \in T : ~(<<k, n>> \in R)
  BY <1>1, WFMin
<1>4. \A k \in T : ~(k < n)
  BY <1>2, <1>3
<1> QED
  BY <1>4

(***************************************************************************)
(* Sequence numbers.  Frames less than half the number space apart are     *)
(* compared by SN_LESS as their absolute numbers are; frames less than the *)
(* number space apart have different sequence numbers; the computations of *)
(* check_indicate_seq are those on absolute numbers, modulo 4096, the      *)
(* branch for a window that begins below zero included.                    *)
(***************************************************************************)
LEMMA LessIsLess ==
  ASSUME NEW x \in Int, NEW y \in Int, x - y < 2048, y - x < 2048
  PROVE  SN_LESS(SN(x), SN(y)) <=> x < y
BY DEF SN, SN_LESS

\* Less than the number space apart, equal numbers mean equal frames.
LEMMA SameIsSame ==
  ASSUME NEW x \in Int, NEW y \in Int, x - y < 4096, y - x < 4096
  PROVE  SN(x) = SN(y) <=> x = y
BY DEF SN

\* The increment of indicate_seq is the increment of the unwrapped number.
LEMMA NextNumber ==
  ASSUME NEW x \in Int
  PROVE  (SN(x) + 1) % 4096 = SN(x + 1)
BY DEF SN

\* The start that check_indicate_seq shifts to, unwrapped.
LEMMA ShiftIsShift ==
  ASSUME NEW x \in Int
  PROVE  ShiftedStart(SN(x)) = SN(x + 1 - WSize)
BY WindowAssumption DEF SN, ShiftedStart

\* wend, unwrapped.
LEMMA WindowEnd ==
  ASSUME NEW x \in Int
  PROVE  (SN(x) + WSize - 1) % 4096 = SN(x + WSize - 1)
BY WindowAssumption DEF SN

SNs == 0..4095

\* A sequence number has 12 bits and is never the unset value.
LEMMA SNType == Unset \notin SNs /\ \A x \in Int : SN(x) \in SNs
BY DEF SN, Unset, SNs

(***************************************************************************)
(* The recursion of StartAfter has a solution, so StartAfter solves it.    *)
(***************************************************************************)
Moved(q, i, st) == IF SN(q[i]) = st THEN (st + 1) % 4096 ELSE st

\* The recursion of StartAfter, step by step.
LEMMA StartAfterSteps ==
  ASSUME NEW q \in Seq(Frames), NEW start
  PROVE  /\ StartAfter(q, start)[0] = start
         /\ \A i \in 1..Len(q) :
              StartAfter(q, start)[i] = Moved(q, i, StartAfter(q, start)[i - 1])
<1> DEFINE Solves(f, m) ==
      f = [i \in 0..m |-> IF i = 0 THEN start
           ELSE IF SN(q[i]) = f[i - 1] THEN (f[i - 1] + 1) % 4096 ELSE f[i - 1]]
           T == {m \in 0..Len(q) : ~ \E f : Solves(f, m)}
<1>0. Len(q) \in Nat
  OBVIOUS
<1>1. T = {}
  <2> SUFFICES ASSUME T # {} PROVE FALSE
    OBVIOUS
  <2>1. T \in SUBSET Nat
    BY <1>0
  <2>2. PICK m \in T : \A k \in T : m <= k
    BY <2>1, LeastNumber
  <2>3. m # 0
    <3> DEFINE g == [i \in 0..0 |-> start]
    <3>1. Solves(g, 0)
      OBVIOUS
    <3> HIDE DEF Solves
    <3> QED
      BY <3>1
  <2>4. m \in 0..Len(q) /\ m - 1 \in 0..Len(q) /\ m - 1 < m
    BY <1>0, <2>3
  <2>5. PICK f : Solves(f, m - 1)
    <3> HIDE DEF Solves
    <3> QED
      BY <2>1, <2>2, <2>4
  <2> DEFINE g == [i \in 0..m |-> IF i < m THEN f[i] ELSE Moved(q, m, f[m - 1])]
  <2>6. \A i \in 0..(m - 1) : f[i] = (IF i = 0 THEN start ELSE Moved(q, i, f[i - 1]))
    BY <2>5 DEF Moved
  <2>7. \A i \in 0..m : g[i] = (IF i = 0 THEN start ELSE Moved(q, i, g[i - 1]))
    <3> TAKE i \in 0..m
    <3>1. CASE i = 0
      BY <2>3, <2>4, <2>6, <3>1
    <3>2. CASE i # 0 /\ i < m
      <4>1. i - 1 \in 0..m /\ i - 1 < m /\ i \in 0..(m - 1)
        BY <2>4, <3>2
      <4> QED
        BY <2>6, <3>2, <4>1
    <3>3. CASE i # 0 /\ i = m
      <4>1. i - 1 \in 0..m /\ i - 1 < m
        BY <2>4, <3>3
      <4> QED
        BY <3>3, <4>1
    <3> QED
      BY <2>4, <3>1, <3>2, <3>3
  <2>8. Solves(g, m)
    <3>1. g = [i \in 0..m |-> g[i]]
      OBVIOUS
    <3> HIDE DEF g
    <3> QED
      BY <2>7, <3>1 DEF Moved
  <2> HIDE DEF Solves, g
  <2> QED
    BY <2>2, <2>8
<1>2. StartAfter(q, start) = CHOOSE f : Solves(f, Len(q))
  BY DEF StartAfter
<1>3. Solves(StartAfter(q, start), Len(q))
  <2>1. \E f : Solves(f, Len(q))
    <3> HIDE DEF Solves
    <3> QED
      BY <1>0, <1>1
  <2> HIDE DEF Solves
  <2> QED
    BY <1>2, <2>1, Zenon
<1>4. ASSUME NEW i \in 0..Len(q)
      PROVE  StartAfter(q, start)[i] =
             IF i = 0 THEN start ELSE Moved(q, i, StartAfter(q, start)[i - 1])
  <2> DEFINE f == StartAfter(q, start)
  <2>1. f = [j \in 0..Len(q) |-> IF j = 0 THEN start
             ELSE IF SN(q[j]) = f[j - 1] THEN (f[j - 1] + 1) % 4096 ELSE f[j - 1]]
    BY <1>3
  <2> HIDE DEF f
  <2>2. f[i] = IF i = 0 THEN start ELSE Moved(q, i, f[i - 1])
    BY <2>1 DEF Moved
  <2> QED
    BY <2>2 DEF f
<1> QED
  BY <1>0, <1>4
(***************************************************************************)
(* recv_indicatepkts_in_order.  Ready is well defined, and the start of    *)
(* the window stays a sequence number.                                     *)
(***************************************************************************)
LEMMA ReadyStops ==
  ASSUME NEW q \in Seq(Frames), NEW start
  PROVE  /\ Ready(q, start) \in 0..Len(q)
         /\ \A i \in 1..Ready(q, start) :
              ~SN_LESS(StartAfter(q, start)[i - 1], SN(q[i]))
         /\ \/ Ready(q, start) = Len(q)
            \/ SN_LESS(StartAfter(q, start)[Ready(q, start)],
                       SN(q[Ready(q, start) + 1]))
<1> DEFINE Stops(k) == k = Len(q) \/ SN_LESS(StartAfter(q, start)[k], SN(q[k + 1]))
           T == {k \in 0..Len(q) : Stops(k)}
<1>0. Len(q) \in Nat
  OBVIOUS
<1>1. T \in SUBSET Nat /\ Len(q) \in T
  BY <1>0
<1>2. PICK k \in T : \A j \in T : k <= j
  BY <1>1, LeastNumber
<1>3. ASSUME NEW i \in 1..k PROVE ~SN_LESS(StartAfter(q, start)[i - 1], SN(q[i]))
  <2>1. i - 1 \in 0..Len(q) /\ i - 1 < k /\ (i - 1) + 1 = i
    BY <1>0, <1>2, <1>3
  <2>2. i - 1 \notin T
    BY <1>0, <1>2, <2>1
  <2> QED
    BY <2>1, <2>2
<1>4. /\ k \in 0..Len(q)
      /\ \A i \in 1..k : ~SN_LESS(StartAfter(q, start)[i - 1], SN(q[i]))
      /\ k = Len(q) \/ SN_LESS(StartAfter(q, start)[k], SN(q[k + 1]))
  BY <1>2, <1>3
<1> QED
  BY <1>4, Zenon DEF Ready

\* The start stays a sequence number whatever is indicated.
LEMMA StartType ==
  ASSUME NEW q \in Seq(Frames), NEW start \in SNs
  PROVE  \A i \in 0..Len(q) : StartAfter(q, start)[i] \in SNs
<1> SUFFICES ASSUME NEW f, f[0] = start,
                    \A i \in 1..Len(q) : f[i] = Moved(q, i, f[i - 1])
             PROVE  \A i \in 0..Len(q) : f[i] \in SNs
  BY StartAfterSteps
<1>0. Len(q) \in Nat
  OBVIOUS
<1> DEFINE T == {i \in 0..Len(q) : f[i] \notin SNs}
<1> SUFFICES ASSUME T # {} PROVE FALSE
  OBVIOUS
<1>1. T \in SUBSET Nat
  BY <1>0
<1>2. PICK m \in T : \A k \in T : m <= k
  BY <1>1, LeastNumber
<1>3. m # 0
  BY <1>0, <1>2
<1>4. m \in 1..Len(q) /\ m - 1 \in 0..Len(q) /\ m - 1 < m
  BY <1>0, <1>3
<1>5. f[m - 1] \in SNs
  BY <1>1, <1>2, <1>4
<1>6. f[m] \in SNs
  <2>1. f[m] = (f[m - 1] + 1) % 4096 \/ f[m] = f[m - 1]
    BY <1>4 DEF Moved
  <2>2. \A x \in SNs : (x + 1) % 4096 \in SNs
    BY DEF SNs
  <2> QED
    BY <1>5, <2>1, <2>2
<1> QED
  BY <1>2, <1>6

(***************************************************************************)
(* Whatever the order of the frames, the start of the window never goes    *)
(* back, nor beyond the frame after the highest.                           *)
(***************************************************************************)
Below(q, a, t) ==
  \A i \in 1..Len(q) : q[i] <= t /\ t + 1 - q[i] < 4096 /\ q[i] - a < 4096

\* The start does not go back, nor beyond the frame after the highest.
LEMMA StartBetween ==
  ASSUME NEW q \in Seq(Frames), NEW a \in Int, NEW t \in Int, a <= t + 1,
         Below(q, a, t)
  PROVE  \A i \in 0..Len(q) :
           \E b \in Int : a <= b /\ b <= t + 1 /\ StartAfter(q, SN(a))[i] = SN(b)
<1> SUFFICES ASSUME NEW f, f[0] = SN(a),
                    \A i \in 1..Len(q) : f[i] = Moved(q, i, f[i - 1])
             PROVE  \A i \in 0..Len(q) :
                      \E b \in Int : a <= b /\ b <= t + 1 /\ f[i] = SN(b)
  BY StartAfterSteps
<1>0. Len(q) \in Nat
  OBVIOUS
<1> DEFINE Ok(i) == \E b \in Int : a <= b /\ b <= t + 1 /\ f[i] = SN(b)
           T == {i \in 0..Len(q) : ~Ok(i)}
<1> SUFFICES ASSUME T # {} PROVE FALSE
  OBVIOUS
<1>1. T \in SUBSET Nat
  BY <1>0
<1>2. PICK m \in T : \A k \in T : m <= k
  <2> HIDE DEF T
  <2> QED
    BY <1>1, LeastNumber
<1>3. m # 0
  <2>1. Ok(0)
    OBVIOUS
  <2> HIDE DEF Ok
  <2> QED
    BY <2>1, <1>2
<1>4. m \in 1..Len(q) /\ m - 1 \in 0..Len(q) /\ m - 1 < m
  BY <1>0, <1>3
<1>5. PICK b \in Int : a <= b /\ b <= t + 1 /\ f[m - 1] = SN(b)
  BY <1>1, <1>2, <1>4
<1>6. q[m] \in Int /\ q[m] <= t /\ t + 1 - q[m] < 4096 /\ q[m] - a < 4096
  BY <1>4, ElementOfSeq, ReorderBoundsAssumption DEF Frames, LastFrame, Below
<1>7. SN(q[m]) = SN(b) <=> q[m] = b
  BY <1>5, <1>6, SameIsSame
<1>8. Ok(m)
  <2>1. CASE q[m] = b
    <3>1. f[m] = (f[m - 1] + 1) % 4096
      BY <1>4, <1>5, <1>7, <2>1 DEF Moved
    <3>2. f[m] = SN(b + 1)
      BY <1>5, <3>1, NextNumber
    <3> QED
      BY <1>5, <1>6, <2>1, <3>2
  <2>2. CASE q[m] # b
    <3>1. f[m] = SN(b)
      BY <1>0, <1>4, <1>5, <1>7, <2>2 DEF Moved
    <3> QED
      BY <1>5, <3>1
  <2> QED
    BY <2>1, <2>2
<1> QED
  BY <1>2, <1>8

(***************************************************************************)
(* With the frames in order and none further than half the number space    *)
(* from the start of the window, the frames that go are the ones below the *)
(* new start b.  The start only moves past frames that follow each other.  *)
(***************************************************************************)
Ascending(q) == \A i, j \in 1..Len(q) : i < j => q[i] < q[j]

Near(q, a) == \A i \in 1..Len(q) : q[i] - a < 2048 /\ a - q[i] < 2048

Passed(q, a, k, b) ==
  /\ a <= b /\ (b = a \/ (k > 0 /\ b = q[k] + 1))
  /\ \A j \in 1..k : q[j] < b
  /\ \A j \in 1..k : q[j] <= a \/ (j > 1 /\ q[j] = q[j - 1] + 1)

\* The elements of a buffer are frames, and frames are numbers.
LEMMA FrameNumber ==
  ASSUME NEW q \in Seq(Frames), NEW i \in 1..Len(q)
  PROVE  q[i] \in Int /\ q[i] \in Frames
BY ElementOfSeq, ReorderBoundsAssumption DEF Frames, LastFrame

\* Frames that are not above the start pass, and it ends above them.
LEMMA FramesPass ==
  ASSUME NEW q \in Seq(Frames), NEW a \in Int, Ascending(q), Near(q, a),
         NEW k \in 0..Len(q),
         \A j \in 1..k : ~SN_LESS(StartAfter(q, SN(a))[j - 1], SN(q[j]))
  PROVE  \E b \in Int : StartAfter(q, SN(a))[k] = SN(b) /\ Passed(q, a, k, b)
<1> SUFFICES ASSUME NEW f, f[0] = SN(a),
                    \A i \in 1..Len(q) : f[i] = Moved(q, i, f[i - 1]),
                    \A j \in 1..k : ~SN_LESS(f[j - 1], SN(q[j]))
             PROVE  \E b \in Int : f[k] = SN(b) /\ Passed(q, a, k, b)
  BY StartAfterSteps
<1>0. Len(q) \in Nat /\ k \in Nat /\ k <= Len(q)
  OBVIOUS
<1> DEFINE Ok(i) == \E b \in Int : f[i] = SN(b) /\ Passed(q, a, i, b)
           T == {i \in 0..k : ~Ok(i)}
<1> SUFFICES ASSUME T # {} PROVE FALSE
  <2> HIDE DEF Ok
  <2>1. Ok(k)
    BY <1>0
  <2> QED
    BY <2>1 DEF Ok
<1>1. T \in SUBSET Nat
  BY <1>0
<1>2. PICK m \in T : \A i \in T : m <= i
  <2> HIDE DEF T
  <2> QED
    BY <1>1, LeastNumber
<1>3. m # 0
  <2>1. Ok(0)
    BY DEF Passed
  <2> HIDE DEF Ok
  <2> QED
    BY <2>1, <1>2
<1>4. m \in 1..k /\ m \in 1..Len(q) /\ m - 1 \in 0..k /\ m - 1 < m /\ m \in Nat
  BY <1>0, <1>3
<1>5. PICK b \in Int : f[m - 1] = SN(b) /\ Passed(q, a, m - 1, b)
  BY <1>1, <1>2, <1>4
<1>6. q[m] \in Int /\ q[m] - a < 2048 /\ a - q[m] < 2048
  BY <1>4, FrameNumber DEF Near
<1>7. m - 1 > 0 => m - 1 \in 1..Len(q) /\ q[m - 1] \in Int /\ q[m - 1] < q[m]
  BY <1>0, <1>4, FrameNumber DEF Ascending
<1>8. a <= b /\ (b = a \/ (m - 1 > 0 /\ b = q[m - 1] + 1 /\ b <= q[m]))
  BY <1>5, <1>6, <1>7 DEF Passed
<1>9. q[m] - b < 2048 /\ b - q[m] < 2048
  BY <1>6, <1>8
<1>10. q[m] <= b
  <2>1. ~SN_LESS(SN(b), SN(q[m]))
    BY <1>4, <1>5
  <2>2. SN_LESS(SN(b), SN(q[m])) <=> b < q[m]
    BY <1>6, <1>9, LessIsLess
  <2> QED
    BY <1>6, <2>1, <2>2
<1>11. SN(q[m]) = SN(b) <=> q[m] = b
  <2>1. q[m] \in Int /\ q[m] - b < 4096 /\ b - q[m] < 4096
    BY <1>6, <1>9
  <2> QED
    BY <2>1, SameIsSame
<1>12. \A j \in 1..m : j = m \/ j \in 1..(m - 1)
  BY <1>4
<1>13. CASE q[m] = b
  <2>1. f[m] = (f[m - 1] + 1) % 4096
    BY <1>4, <1>5, <1>11, <1>13 DEF Moved
  <2>2. f[m] = SN(b + 1)
    BY <1>5, <2>1, NextNumber
  <2>3. \A j \in 1..(m - 1) : q[j] < b + 1
    <3> TAKE j \in 1..(m - 1)
    <3>1. j \in 1..Len(q)
      BY <1>0, <1>4
    <3>2. q[j] \in Int
      BY <3>1, FrameNumber
    <3> QED
      BY <1>5, <3>2 DEF Passed
  <2>4. q[m] <= a \/ (m > 1 /\ q[m] = q[m - 1] + 1)
    BY <1>4, <1>8, <1>13
  <2>5. \A j \in 1..(m - 1) : q[j] <= a \/ (j > 1 /\ q[j] = q[j - 1] + 1)
    BY <1>5 DEF Passed
  <2>6. a <= b + 1 /\ m > 0 /\ b + 1 = q[m] + 1 /\ q[m] < b + 1
    BY <1>4, <1>8, <1>13
  <2>7. Passed(q, a, m, b + 1)
    BY <1>12, <2>3, <2>4, <2>5, <2>6 DEF Passed
  <2>8. Ok(m)
    BY <2>2, <2>7
  <2> QED
    BY <1>2, <2>8
<1>14. CASE q[m] # b
  <2>1. q[m] < b /\ b = a
    BY <1>6, <1>8, <1>10, <1>14
  <2>2. f[m] = SN(b)
    BY <1>4, <1>5, <1>11, <1>14 DEF Moved
  <2>3. Passed(q, a, m, b)
    BY <1>5, <1>6, <1>12, <2>1 DEF Passed
  <2>4. Ok(m)
    BY <2>2, <2>3
  <2> QED
    BY <1>2, <2>4
<1> QED
  BY <1>13, <1>14

\* The frames recv_indicatepkts_in_order passes up, and those it leaves.
LEMMA ReadyPass ==
  ASSUME NEW q \in Seq(Frames), NEW a \in Int, Ascending(q), Near(q, a)
  PROVE  LET k == Ready(q, SN(a))
         IN  /\ k \in 0..Len(q)
             /\ \E b \in Int : /\ StartAfter(q, SN(a))[k] = SN(b)
                               /\ Passed(q, a, k, b)
                               /\ \A i \in (k + 1)..Len(q) : b < q[i]
<1> DEFINE k == Ready(q, SN(a))
<1>1. /\ k \in 0..Len(q)
      /\ \A i \in 1..k : ~SN_LESS(StartAfter(q, SN(a))[i - 1], SN(q[i]))
      /\ k = Len(q) \/ SN_LESS(StartAfter(q, SN(a))[k], SN(q[k + 1]))
  BY ReadyStops
<1> HIDE DEF k
<1>2. PICK b \in Int : StartAfter(q, SN(a))[k] = SN(b) /\ Passed(q, a, k, b)
  BY <1>1, FramesPass
<1>3. ASSUME NEW i \in (k + 1)..Len(q) PROVE b < q[i]
  <2>0. Len(q) \in Nat
    OBVIOUS
  <2>1. k < Len(q) /\ k + 1 \in 1..Len(q) /\ i \in 1..Len(q)
    BY <1>1, <1>3, <2>0
  <2>2. q[k + 1] \in Int /\ q[i] \in Int /\ q[k + 1] - a < 2048 /\ a - q[k + 1] < 2048
    BY <2>1, FrameNumber DEF Near
  <2>3. k > 0 => k \in 1..Len(q) /\ q[k] \in Int /\ q[k] < q[k + 1]
    BY <1>1, <2>1, FrameNumber DEF Ascending
  <2>4. a <= b /\ (b = a \/ b <= q[k + 1])
    BY <1>2, <2>2, <2>3 DEF Passed
  <2>5. b - q[k + 1] < 2048 /\ q[k + 1] - b < 2048
    BY <2>2, <2>4
  <2>6. SN_LESS(SN(b), SN(q[k + 1]))
    BY <1>1, <1>2, <2>1
  <2>7. b < q[k + 1]
    BY <2>2, <2>5, <2>6, LessIsLess
  <2>8. i = k + 1 \/ q[k + 1] < q[i]
    BY <1>1, <1>3, <2>1 DEF Ascending
  <2> QED
    BY <2>2, <2>7, <2>8
<1> QED
  BY <1>1, <1>2, <1>3 DEF k

(***************************************************************************)
(* enqueue_reorder_recvframe: the place is well defined, and a frame that  *)
(* is not yet there keeps the buffer in order.                             *)
(***************************************************************************)
LEMMA InsertPosStops ==
  ASSUME NEW q \in Seq(Frames), NEW n
  PROVE  /\ InsertPos(q, n) \in 1..(Len(q) + 1)
         /\ \A j \in 1..(InsertPos(q, n) - 1) : SN_LESS(SN(q[j]), SN(n))
         /\ InsertPos(q, n) = Len(q) + 1 \/ ~SN_LESS(SN(q[InsertPos(q, n)]), SN(n))
<1> DEFINE Stops(i) == i = Len(q) + 1 \/ ~SN_LESS(SN(q[i]), SN(n))
           T == {i \in 1..(Len(q) + 1) : Stops(i)}
<1>0. Len(q) \in Nat
  OBVIOUS
<1>1. T \in SUBSET Nat /\ Len(q) + 1 \in T
  BY <1>0
<1>2. PICK i \in T : \A j \in T : i <= j
  BY <1>1, LeastNumber
<1>3. ASSUME NEW j \in 1..(i - 1) PROVE SN_LESS(SN(q[j]), SN(n))
  <2>1. j \in 1..(Len(q) + 1) /\ j < i
    BY <1>0, <1>2, <1>3
  <2>2. j \notin T
    BY <1>0, <1>2, <2>1
  <2> QED
    BY <2>1, <2>2
<1>4. /\ i \in 1..(Len(q) + 1)
      /\ \A j \in 1..(i - 1) : SN_LESS(SN(q[j]), SN(n))
      /\ i = Len(q) + 1 \/ ~SN_LESS(SN(q[i]), SN(n))
  BY <1>2, <1>3
<1> QED
  BY <1>4, Zenon DEF InsertPos

\* enqueue_reorder_recvframe puts the frame at one place, the rest around it.
LEMMA InsertedAt ==
  ASSUME NEW q \in Seq(Frames), NEW n \in Frames
  PROVE  LET p == InsertPos(q, n)
             r == Inserted(q, n)
         IN  /\ r \in Seq(Frames) /\ Len(r) = Len(q) + 1
             /\ p \in 1..Len(r) /\ r[p] = n
             /\ \A j \in 1..(p - 1) : j \in 1..Len(q) /\ r[j] = q[j]
             /\ \A j \in (p + 1)..Len(r) : j - 1 \in 1..Len(q) /\ r[j] = q[j - 1]
<1> DEFINE p == InsertPos(q, n)
           u == SubSeq(q, 1, p - 1)
           v == SubSeq(q, p, Len(q))
           r == u \o <<n>> \o v
<1>0. Len(q) \in Nat /\ p \in 1..(Len(q) + 1)
  BY InsertPosStops
<1>1. r = Inserted(q, n)
  BY DEF Inserted
<1> HIDE DEF p
<1>2. u \in Seq(Frames) /\ Len(u) = p - 1 /\ \A j \in 1..(p - 1) : u[j] = q[j]
  BY <1>0, SubSeqProperties
<1>3. /\ v \in Seq(Frames) /\ Len(v) = Len(q) + 1 - p
      /\ \A j \in 1..(Len(q) + 1 - p) : v[j] = q[p + j - 1]
  BY <1>0, SubSeqProperties
<1>4. <<n>> \in Seq(Frames) /\ Len(<<n>>) = 1 /\ <<n>>[1] = n
  OBVIOUS
<1> HIDE DEF u, v
<1>5. /\ (u \o <<n>>) \in Seq(Frames) /\ Len(u \o <<n>>) = p
      /\ \A j \in 1..(p - 1) : (u \o <<n>>)[j] = q[j]
      /\ (u \o <<n>>)[p] = n
  BY <1>0, <1>2, <1>4, ConcatProperties
<1>6. r \in Seq(Frames) /\ Len(r) = Len(q) + 1
  BY <1>0, <1>3, <1>5, ConcatProperties
<1>7. \A j \in 1..p : r[j] = (u \o <<n>>)[j]
  BY <1>0, <1>3, <1>5, ConcatProperties
<1>8. ASSUME NEW j \in (p + 1)..(Len(q) + 1)
      PROVE  j - 1 \in 1..Len(q) /\ r[j] = q[j - 1]
  <2>1. j - p \in 1..(Len(q) + 1 - p) /\ p + (j - p) - 1 = j - 1 /\ j - 1 \in 1..Len(q)
    BY <1>0, <1>8
  <2>2. r[j] = v[j - p]
    BY <1>0, <1>3, <1>5, <1>8, ConcatProperties
  <2> QED
    BY <1>3, <2>1, <2>2
<1> HIDE DEF r
<1>9. p \in 1..Len(r) /\ r[p] = n
  BY <1>0, <1>5, <1>6, <1>7
<1>10. \A j \in 1..(p - 1) : j \in 1..Len(q) /\ r[j] = q[j]
  BY <1>0, <1>5, <1>7
<1>11. \A j \in (p + 1)..Len(r) : j - 1 \in 1..Len(q) /\ r[j] = q[j - 1]
  BY <1>6, <1>8
<1> QED
  BY <1>1, <1>6, <1>9, <1>10, <1>11 DEF p

\* The buffer holds the new frame and those it held before.
LEMMA InsertedFrames ==
  ASSUME NEW q \in Seq(Frames), NEW n \in Frames
  PROVE  /\ Inserted(q, n) \in Seq(Frames) /\ Inserted(q, n) # <<>>
         /\ \E p \in 1..Len(Inserted(q, n)) : Inserted(q, n)[p] = n
         /\ \A i \in 1..Len(Inserted(q, n)) :
              \/ Inserted(q, n)[i] = n
              \/ \E j \in 1..Len(q) : Inserted(q, n)[i] = q[j]
<1> DEFINE p == InsertPos(q, n)
           r == Inserted(q, n)
<1>1. /\ r \in Seq(Frames) /\ Len(r) = Len(q) + 1
      /\ p \in 1..Len(r) /\ r[p] = n
      /\ \A j \in 1..(p - 1) : j \in 1..Len(q) /\ r[j] = q[j]
      /\ \A j \in (p + 1)..Len(r) : j - 1 \in 1..Len(q) /\ r[j] = q[j - 1]
  BY InsertedAt
<1> HIDE DEF p, r
<1>2. Len(q) \in Nat /\ r # <<>>
  BY <1>1
<1>3. ASSUME NEW i \in 1..Len(r) PROVE i = p \/ i \in 1..(p - 1) \/ i \in (p + 1)..Len(r)
  BY <1>1, <1>2
<1>4. \A i \in 1..Len(r) : r[i] = n \/ \E j \in 1..Len(q) : r[i] = q[j]
  BY <1>1, <1>3
<1> QED
  BY <1>1, <1>2, <1>4 DEF r

\* A frame that is no duplicate is inserted in order.
LEMMA InsertedAscending ==
  ASSUME NEW q \in Seq(Frames), NEW n \in Frames, Ascending(q), Near(q, n),
         ~Duplicate(q, n)
  PROVE  Ascending(Inserted(q, n))
<1> DEFINE p == InsertPos(q, n)
           r == Inserted(q, n)
<1>0. Len(q) \in Nat /\ n \in Int
  BY ReorderBoundsAssumption DEF Frames, LastFrame
<1>1. /\ r \in Seq(Frames) /\ Len(r) = Len(q) + 1
      /\ p \in 1..Len(r) /\ r[p] = n
      /\ \A j \in 1..(p - 1) : j \in 1..Len(q) /\ r[j] = q[j]
      /\ \A j \in (p + 1)..Len(r) : j - 1 \in 1..Len(q) /\ r[j] = q[j - 1]
  BY InsertedAt
<1>2. /\ \A j \in 1..(p - 1) : SN_LESS(SN(q[j]), SN(n))
      /\ p = Len(q) + 1 \/ ~SN_LESS(SN(q[p]), SN(n))
  BY InsertPosStops
<1>3. p <= Len(q) => SN(q[p]) # SN(n)
  BY DEF Duplicate
<1> HIDE DEF p, r
<1>4. ASSUME NEW j \in 1..Len(q)
      PROVE  /\ q[j] \in Int
             /\ SN_LESS(SN(q[j]), SN(n)) <=> q[j] < n
             /\ SN(q[j]) = SN(n) <=> q[j] = n
  <2>1. q[j] \in Int /\ q[j] - n < 2048 /\ n - q[j] < 2048
    BY FrameNumber DEF Near
  <2>2. q[j] - n < 4096 /\ n - q[j] < 4096
    BY <1>0, <2>1
  <2> QED
    BY <1>0, <2>1, <2>2, LessIsLess, SameIsSame
<1>5. ASSUME NEW j \in 1..(p - 1) PROVE q[j] < n
  BY <1>1, <1>2, <1>4, <1>5
<1>6. p <= Len(q) => p \in 1..Len(q) /\ n < q[p] /\ q[p] \in Int
  <2> SUFFICES ASSUME p <= Len(q) PROVE p \in 1..Len(q) /\ n < q[p] /\ q[p] \in Int
    OBVIOUS
  <2>1. p \in 1..Len(q) /\ p # Len(q) + 1
    BY <1>0, <1>1
  <2>2. ~SN_LESS(SN(q[p]), SN(n)) /\ SN(q[p]) # SN(n)
    BY <1>2, <1>3, <2>1
  <2>3. q[p] \in Int /\ ~(q[p] < n) /\ q[p] # n
    BY <1>4, <2>1, <2>2
  <2> QED
    BY <1>0, <2>1, <2>3
<1>7. ASSUME NEW j \in 1..Len(q), p <= j PROVE n < q[j]
  <2>1. p <= Len(q) /\ (j = p \/ p < j)
    BY <1>0, <1>1, <1>7
  <2>2. j = p \/ q[p] < q[j]
    BY <1>6, <2>1 DEF Ascending
  <2> QED
    BY <1>0, <1>4, <1>6, <2>1, <2>2
<1>8. ASSUME NEW i \in 1..Len(r), NEW j \in 1..Len(r), i < j PROVE r[i] < r[j]
  <2>1. CASE j < p
    <3>1. i \in 1..(p - 1) /\ j \in 1..(p - 1)
      BY <1>0, <1>1, <1>8, <2>1
    <3> QED
      BY <1>1, <1>8, <3>1 DEF Ascending
  <2>2. CASE j = p
    <3>1. i \in 1..(p - 1)
      BY <1>0, <1>1, <1>8, <2>2
    <3> QED
      BY <1>1, <1>5, <2>2, <3>1
  <2>3. CASE p < j /\ i < p
    <3>1. i \in 1..(p - 1) /\ j \in (p + 1)..Len(r) /\ p <= j - 1 /\ i < j - 1
      BY <1>0, <1>1, <1>8, <2>3
    <3> QED
      BY <1>1, <3>1 DEF Ascending
  <2>4. CASE p < j /\ i = p
    <3>1. j \in (p + 1)..Len(r) /\ p <= j - 1
      BY <1>0, <1>1, <1>8, <2>4
    <3> QED
      BY <1>1, <1>7, <2>4, <3>1
  <2>5. CASE p < j /\ p < i
    <3>1. j \in (p + 1)..Len(r) /\ i \in (p + 1)..Len(r) /\ i - 1 < j - 1
      BY <1>0, <1>1, <1>8, <2>5
    <3> QED
      BY <1>1, <3>1 DEF Ascending
  <2> QED
    BY <1>0, <1>1, <1>8, <2>1, <2>2, <2>3, <2>4, <2>5
<1>9. Ascending(r)
  BY <1>8 DEF Ascending
<1> QED
  BY <1>9 DEF r
(***************************************************************************)
(* Type correctness.  Booleans and numbers are treated separately.         *)
(***************************************************************************)
Flags ==
  /\ stopped \in BOOLEAN /\ enable \in BOOLEAN /\ waiting \in BOOLEAN
  /\ timer \in BOOLEAN /\ fired \in BOOLEAN /\ agg \in BOOLEAN
  /\ clean \in BOOLEAN /\ skipped \in BOOLEAN

Numbers ==
  /\ indicate_seq \in SNs \cup {Unset} /\ rxcache \in SNs \cup {Unset}
  /\ queue \in Seq(Frames) /\ session \in Seq(Frames)
  /\ rxn \in Frames /\ base \in Frames /\ top \in Frames \cup {-1}
  /\ sessions \in Nat

Places ==
  /\ sta \in {"linked", "unlinked", "freed"}
  /\ rxpc \in {"idle", "have", "direct", "cancel"}
  /\ addpc \in {"idle", "answered", "rejected", "enable", "disable"}

\* The type invariant in three parts.
LEMMA TypeParts == TypeOK <=> Flags /\ Numbers /\ Places
<1>1. TypeOK => Flags
  BY DEF TypeOK, Flags
<1>2. TypeOK => Numbers
  BY DEF TypeOK, Numbers, SNs
<1>3. TypeOK => Places
  BY DEF TypeOK, Places
<1>4. ASSUME Flags, Numbers, Places PROVE TypeOK
  BY <1>4 DEF TypeOK, Flags, Numbers, Places, SNs
<1> QED
  BY <1>1, <1>2, <1>3, <1>4

\* Every step keeps the types of the flags.
LEMMA FlagsNext == Flags /\ [Next]_vars => Flags'
<1> SUFFICES ASSUME Flags, [Next]_vars PROVE Flags'
  OBVIOUS
<1>1. CASE Rx
  <2>1. ASSUME NEW n \in Frames, Receive(n) PROVE Flags'
    BY <2>1, Zenon DEF Receive, baVars, histVars, Flags
  <2>2. CASE IndicateDirect \/ IndicateDirectEnd \/ DropOld \/ CancelTimer
    <3>1. UNCHANGED <<stopped, enable, waiting, fired, agg, clean, skipped>>
      BY <2>2 DEF IndicateDirect, IndicateDirectEnd, DropOld, CancelTimer, baVars,
         histVars
    <3>2. timer' = timer \/ timer' = FALSE
      BY <2>2 DEF IndicateDirect, IndicateDirectEnd, DropOld, CancelTimer
    <3> QED
      BY <3>1, <3>2, Zenon DEF Flags
  <2>3. CASE DropDuplicate
    BY <2>3, Zenon DEF DropDuplicate, baVars, Flags
  <2>4. CASE recv_indicatepkt_reorder
    BY <2>4, Zenon DEF recv_indicatepkt_reorder, baVars, Flags
  <2> QED
    BY <1>1, <2>1, <2>2, <2>3, <2>4 DEF Rx
<1>2. CASE Timer
  <2>1. CASE TimerExpires
    BY <2>1, Zenon DEF TimerExpires, baVars, histVars, Flags
  <2>2. CASE rtw_reordering_ctrl_timeout_handler
    BY <2>2, Zenon DEF rtw_reordering_ctrl_timeout_handler, baVars, Flags
  <2> QED
    BY <1>2, <2>1, <2>2 DEF Timer
<1>3. CASE BlockAck
  <2>1. CASE AddbaAnswer \/ AddbaUnset \/ AddbaEnd
    BY <2>1, Zenon DEF AddbaAnswer, AddbaUnset, AddbaEnd, histVars, Flags
  <2>2. CASE OnDelba \/ send_delba_sta_tid \/ PeerGetsDelba
    BY <2>2, Zenon DEF OnDelba, send_delba_sta_tid, PeerGetsDelba, baVars, histVars,
       Flags
  <2> QED
    BY <1>3, <2>1, <2>2 DEF BlockAck
<1>4. CASE PeerSlides \/ FreeCancel \/ FreeFlush \/ Stop
  BY <1>4, Zenon DEF PeerSlides, FreeCancel, FreeFlush, Stop, baVars, histVars, Flags
<1>5. CASE UNCHANGED vars
  BY <1>5, Zenon DEF vars, Flags
<1> QED
  BY <1>1, <1>2, <1>3, <1>4, <1>5 DEF Next

\* Every step keeps the program counters in their sets.
LEMMA PlacesNext == Places /\ [Next]_vars => Places'
<1> SUFFICES ASSUME Places, [Next]_vars PROVE Places'
  OBVIOUS
<1>1. CASE Rx
  BY <1>1 DEF Rx, Receive, IndicateDirect, IndicateDirectEnd, DropOld, CancelTimer,
     DropDuplicate, recv_indicatepkt_reorder, baVars, airVars, Places
<1>2. CASE Timer
  BY <1>2 DEF Timer, TimerExpires, rtw_reordering_ctrl_timeout_handler, baVars,
     airVars, Places
<1>3. CASE BlockAck
  BY <1>3 DEF BlockAck, AddbaAnswer, AddbaUnset, AddbaEnd, OnDelba,
     send_delba_sta_tid, PeerGetsDelba, baVars, airVars, Places
<1>4. CASE PeerSlides \/ FreeCancel \/ FreeFlush \/ Stop
  BY <1>4 DEF PeerSlides, FreeCancel, FreeFlush, Stop, baVars, airVars, Places
<1>5. CASE UNCHANGED vars
  BY <1>5 DEF vars, Places
<1> QED
  BY <1>1, <1>2, <1>3, <1>4, <1>5 DEF Next

(***************************************************************************)
(* What an indication leaves, and where it leaves the start of the window. *)
(***************************************************************************)
LEMMA IndicateParts ==
  ASSUME NEW q \in Seq(Frames), NEW start, Indicate(q, start), session \in Seq(Frames)
  PROVE  LET k == Ready(q, start)
         IN  /\ k \in 0..Len(q)
             /\ queue' \in Seq(Frames) /\ Len(queue') = Len(q) - k
             /\ \A i \in 1..Len(queue') : i + k \in 1..Len(q) /\ queue'[i] = q[i + k]
             /\ indicate_seq' = StartAfter(q, start)[k]
             /\ SubSeq(q, 1, k) \in Seq(Frames) /\ Len(SubSeq(q, 1, k)) = k
             /\ \A i \in 1..k : i \in 1..Len(q) /\ SubSeq(q, 1, k)[i] = q[i]
             /\ session' \in Seq(Frames)
<1> DEFINE k == Ready(q, start)
<1>1. k \in 0..Len(q) /\ Len(q) \in Nat
  BY ReadyStops
<1>2. /\ queue' = SubSeq(q, k + 1, Len(q))
      /\ indicate_seq' = StartAfter(q, start)[k]
      /\ session' = session \/ session' = session \o SubSeq(q, 1, k)
  BY DEF Indicate
<1> HIDE DEF k
<1>3. /\ queue' \in Seq(Frames) /\ Len(queue') = Len(q) - k
      /\ \A i \in 1..(Len(q) - k) : queue'[i] = q[k + 1 + i - 1]
  BY <1>1, <1>2, SubSeqProperties, FrameNumber
<1>4. \A i \in 1..Len(queue') : i + k \in 1..Len(q) /\ queue'[i] = q[i + k]
  <2> TAKE i \in 1..Len(queue')
  <2>1. i + k \in 1..Len(q) /\ k + 1 + i - 1 = i + k /\ i \in 1..(Len(q) - k)
    BY <1>1, <1>3
  <2> QED
    BY <1>3, <2>1
<1>5. /\ SubSeq(q, 1, k) \in Seq(Frames) /\ Len(SubSeq(q, 1, k)) = k
      /\ \A i \in 1..k : i \in 1..Len(q) /\ SubSeq(q, 1, k)[i] = q[i]
  BY <1>1, SubSeqProperties, FrameNumber
<1>6. session' \in Seq(Frames)
  BY <1>2, <1>5, ConcatProperties
<1> QED
  BY <1>1, <1>2, <1>3, <1>4, <1>5, <1>6 DEF k

\* check_indicate_seq leaves a sequence number, whichever branch it takes.
LEMMA CheckType ==
  ASSUME NEW n \in Frames, indicate_seq \in SNs \cup {Unset}
  PROVE  check_indicate_seq(SN(n)) \in SNs
<1>1. n \in Int
  BY ReorderBoundsAssumption DEF Frames, LastFrame
<1>2. SN(n) \in SNs /\ (SN(n) + 1) % 4096 \in SNs /\ ShiftedStart(SN(n)) \in SNs
  <2>1. n + 1 \in Int /\ n + 1 - WSize \in Int
    BY <1>1, WindowAssumption
  <2> QED
    BY <1>1, <2>1, SNType, NextNumber, ShiftIsShift
<1> QED
  BY <1>2 DEF check_indicate_seq

\* Every step keeps the types of the numbers and of the buffer.
LEMMA NumbersNext == Numbers /\ [Next]_vars => Numbers'
<1> SUFFICES ASSUME Numbers, [Next]_vars PROVE Numbers'
  OBVIOUS
<1>0. \A n \in Frames : n \in Int /\ SN(n) \in SNs
  <2>1. Frames \subseteq Int
    BY ReorderBoundsAssumption DEF Frames, LastFrame
  <2> QED
    BY <2>1, SNType
<1>1. ASSUME NEW n \in Frames, Receive(n) PROVE Numbers'
  BY <1>0, <1>1 DEF Receive, baVars, histVars, Numbers
<1>2. CASE IndicateDirect
  <2>1. top' \in Frames \cup {-1}
    BY <1>2 DEF IndicateDirect, Higher, Numbers
  <2> QED
    BY <1>0, <1>2, <2>1 DEF IndicateDirect, airVars, baVars, histVars, Numbers
<1>3. CASE IndicateDirectEnd
  <2>1. indicate_seq' \in SNs
    BY <1>3 DEF IndicateDirectEnd, Numbers, SNs, Unset
  <2> QED
    BY <1>3, <2>1 DEF IndicateDirectEnd, airVars, baVars, histVars, Numbers
<1>4. CASE DropDuplicate
  <2>1. indicate_seq' \in SNs
    BY <1>4, CheckType DEF DropDuplicate, Numbers
  <2> QED
    BY <1>4, <2>1 DEF DropDuplicate, airVars, baVars, Numbers
<1>5. CASE recv_indicatepkt_reorder
  <2> DEFINE q == Inserted(queue, rxn)
             st == check_indicate_seq(SN(rxn))
  <2>1. q \in Seq(Frames) /\ st \in SNs /\ session \in Seq(Frames)
    BY InsertedFrames, CheckType DEF Numbers
  <2>2. Indicate(q, st)
    BY <1>5 DEF recv_indicatepkt_reorder
  <2>3. top' \in Frames \cup {-1} /\ UNCHANGED <<rxn, base, rxcache, sessions>>
    BY <1>5 DEF recv_indicatepkt_reorder, Higher, Numbers, airVars, baVars
  <2> HIDE DEF q, st
  <2>4. queue' \in Seq(Frames) /\ session' \in Seq(Frames) /\ indicate_seq' \in SNs
    <3>1. /\ queue' \in Seq(Frames) /\ session' \in Seq(Frames)
          /\ Ready(q, st) \in 0..Len(q)
          /\ indicate_seq' = StartAfter(q, st)[Ready(q, st)]
      BY <2>1, <2>2, IndicateParts
    <3> QED
      BY <2>1, <3>1, StartType
  <2> QED
    BY <2>3, <2>4 DEF Numbers
<1>6. CASE rtw_reordering_ctrl_timeout_handler
  <2>1. UNCHANGED <<rxn, base, rxcache, sessions, top>>
    BY <1>6 DEF rtw_reordering_ctrl_timeout_handler, airVars, baVars
  <2>2. CASE UNCHANGED <<queue, indicate_seq, session>>
    BY <2>1, <2>2 DEF Numbers
  <2>3. CASE queue # <<>> /\ Indicate(queue, SN(queue[1]))
    <3>1. queue \in Seq(Frames) /\ session \in Seq(Frames) /\ queue[1] \in Frames
      BY <2>3 DEF Numbers
    <3>2. SN(queue[1]) \in SNs
      BY <1>0, <3>1
    <3>3. queue' \in Seq(Frames) /\ session' \in Seq(Frames) /\ indicate_seq' \in SNs
      <4> DEFINE st == SN(queue[1])
      <4>1. /\ queue' \in Seq(Frames) /\ session' \in Seq(Frames)
            /\ Ready(queue, st) \in 0..Len(queue)
            /\ indicate_seq' = StartAfter(queue, st)[Ready(queue, st)]
        BY <2>3, <3>1, IndicateParts
      <4> QED
        BY <3>1, <3>2, <4>1, StartType
    <3> QED
      BY <2>1, <3>3 DEF Numbers
  <2> QED
    BY <1>6, <2>2, <2>3 DEF rtw_reordering_ctrl_timeout_handler
<1>7. CASE DropOld \/ CancelTimer \/ TimerExpires \/ FreeCancel \/ Stop
  BY <1>7 DEF DropOld, CancelTimer, TimerExpires, FreeCancel, Stop, airVars, baVars,
     histVars, Numbers
<1>8. CASE BlockAck
  <2>1. UNCHANGED <<queue, rxn, rxcache, base, top>>
    BY <1>8 DEF BlockAck, AddbaAnswer, AddbaUnset, AddbaEnd, OnDelba,
       send_delba_sta_tid, PeerGetsDelba, airVars
  <2>2. sessions' = sessions \/ sessions' = sessions + 1
    BY <1>8 DEF BlockAck, AddbaAnswer, AddbaUnset, AddbaEnd, OnDelba,
       send_delba_sta_tid, PeerGetsDelba, baVars
  <2>3. /\ indicate_seq' = indicate_seq \/ indicate_seq' = Unset
        /\ session' = session \/ session' = <<>>
    BY <1>8 DEF BlockAck, AddbaAnswer, AddbaUnset, AddbaEnd, OnDelba,
       send_delba_sta_tid, PeerGetsDelba, histVars
  <2>4. sessions' \in Nat
    BY <2>2 DEF Numbers
  <2>5. indicate_seq' \in SNs \cup {Unset} /\ session' \in Seq(Frames)
    BY <2>3, EmptySeq, Zenon DEF Numbers
  <2> QED
    BY <2>1, <2>4, <2>5 DEF Numbers
<1>9. CASE FreeFlush
  BY <1>9 DEF FreeFlush, airVars, baVars, histVars, Numbers
<1>10. CASE PeerSlides
  <2>1. base' \in Frames
    BY <1>10, ReorderBoundsAssumption DEF PeerSlides, Numbers, Frames, LastFrame
  <2> QED
    BY <1>10, <2>1 DEF PeerSlides, airVars, baVars, histVars, Numbers
<1>11. CASE UNCHANGED vars
  BY <1>11 DEF vars, Numbers
<1> QED
  BY <1>1, <1>2, <1>3, <1>4, <1>5, <1>6, <1>7, <1>8, <1>9, <1>10, <1>11
  DEF Next, Rx, Timer

\* The types are right initially.
LEMMA TypeInit == Init => TypeOK
<1> SUFFICES ASSUME Init PROVE TypeOK
  OBVIOUS
<1>1. Flags
  BY Zenon DEF Init, Flags
<1>2. FirstFrame \in Frames
  BY ReorderBoundsAssumption DEF Frames, LastFrame
<1>3. Numbers
  BY <1>2 DEF Init, Numbers
<1>4. Places
  BY DEF Init, Places
<1> QED
  BY <1>1, <1>3, <1>4, TypeParts

\* Every step keeps the types.
LEMMA TypeNext == TypeOK /\ [Next]_vars => TypeOK'
BY FlagsNext, NumbersNext, PlacesNext, TypeParts, PTL

(***************************************************************************)
(* Every reachable state is well typed: indicate_seq is a 12 bit number or *)
(* not set, whatever branch of check_indicate_seq computed it, and also    *)
(* when the unlocked writes of the block ack handlers interfere.           *)
(***************************************************************************)
THEOREM ReorderTypeCorrect == Spec => []TypeOK
BY TypeInit, TypeNext, PTL DEF Spec

(***************************************************************************)
(* The order of the frames.  The frame in the tasklet's hand was sent from *)
(* a window that only moves on, so it is no more than a window behind the  *)
(* highest frame taken.                                                    *)
(***************************************************************************)
PeerInv ==
  /\ top < base + WSize /\ rxn < base + WSize
  /\ rxpc = "have" => top < rxn + WSize

\* The constants and frames as integers, with their bounds.
LEMMA IntFrames ==
  /\ WSize \in Int /\ 2 <= WSize /\ WSize <= 1024
  /\ FirstFrame \in Int /\ MaxFrames \in Int
  /\ \A n \in Frames : /\ n \in Int /\ FirstFrame <= n
                       /\ n <= FirstFrame + MaxFrames - 1
BY WindowAssumption, ReorderBoundsAssumption DEF Frames, LastFrame

\* The frame in hand and those taken are within those the peer sends.
LEMMA PeerNumbers ==
  Numbers => /\ rxn \in Int /\ base \in Int /\ top \in Int
             /\ FirstFrame <= base /\ FirstFrame <= rxn /\ top <= FirstFrame + MaxFrames - 1
BY IntFrames, ReorderBoundsAssumption DEF Numbers

\* The peer's window is right initially.
LEMMA PeerInit == Init => PeerInv
BY WindowAssumption, ReorderBoundsAssumption DEF Init, PeerInv

\* Every step keeps the peer's window.
LEMMA PeerNext == Numbers /\ PeerInv /\ [Next]_vars => PeerInv'
<1> SUFFICES ASSUME Numbers, PeerInv, [Next]_vars PROVE PeerInv'
  OBVIOUS
<1>0. rxn \in Int /\ base \in Int /\ top \in Int /\ WSize \in Int /\ WSize > 0
  BY PeerNumbers, IntFrames
<1>1. ASSUME NEW n \in Frames, Receive(n) PROVE PeerInv'
  <2>1. n \in Int /\ base <= n /\ n < base + WSize
    BY <1>0, <1>1, IntFrames DEF Receive, Sendable
  <2>2. rxn' = n /\ UNCHANGED <<base, top>>
    BY <1>1 DEF Receive
  <2> QED
    BY <1>0, <2>1, <2>2 DEF PeerInv
<1>2. CASE top' = Higher(rxn) /\ rxpc' # "have" /\ UNCHANGED <<base, rxn>>
  BY <1>0, <1>2 DEF PeerInv, Higher
<1>3. CASE UNCHANGED <<base, rxn, top>> /\ (rxpc' = rxpc \/ rxpc' # "have")
  BY <1>3 DEF PeerInv
<1>4. CASE PeerSlides
  BY <1>0, <1>4 DEF PeerSlides, PeerInv
<1>5. CASE IndicateDirect \/ recv_indicatepkt_reorder
  <2>1. top' = Higher(rxn) /\ UNCHANGED <<base, rxn>>
    BY <1>5 DEF IndicateDirect, recv_indicatepkt_reorder, airVars
  <2>2. rxpc' # "have"
    BY <1>5 DEF IndicateDirect, recv_indicatepkt_reorder
  <2> QED
    BY <1>2, <2>1, <2>2
<1>6. CASE IndicateDirectEnd \/ DropOld \/ DropDuplicate \/ CancelTimer
  <2>1. UNCHANGED <<base, rxn, top>> /\ rxpc' # "have"
    BY <1>6 DEF IndicateDirectEnd, DropOld, DropDuplicate, CancelTimer, airVars
  <2> QED
    BY <1>3, <2>1
<1>7. CASE Timer \/ BlockAck \/ FreeCancel \/ FreeFlush \/ Stop
  <2>1. UNCHANGED <<base, rxn, top, rxpc>>
    BY <1>7 DEF Timer, TimerExpires, rtw_reordering_ctrl_timeout_handler, BlockAck,
       AddbaAnswer, AddbaUnset, AddbaEnd, OnDelba, send_delba_sta_tid,
       PeerGetsDelba, FreeCancel, FreeFlush, Stop, airVars
  <2> QED
    BY <1>3, <2>1
<1>8. CASE UNCHANGED vars
  BY <1>3, <1>8 DEF vars
<1> QED
  BY <1>1, <1>4, <1>5, <1>6, <1>7, <1>8 DEF Next, Rx

(***************************************************************************)
(* In a session that began with nothing left over, a is the absolute       *)
(* number of the frame that the window starts with: what was indicated is  *)
(* below it, what is buffered is above it and within the window, and both  *)
(* are in order.                                                           *)
(***************************************************************************)
Starts == {a \in Int : FirstFrame + 1 - WSize <= a}

Window(a) ==
  /\ a <= top + 1 /\ indicate_seq = SN(a)
  /\ \A i \in 1..Len(session) : session[i] < a
  /\ \A i \in 1..Len(queue) : /\ a < queue[i] /\ queue[i] < a + WSize
                              /\ queue[i] <= top
  /\ Ascending(session) /\ Ascending(queue)
  /\ ~skipped /\ ~stopped /\ session # <<>> => a = session[Len(session)] + 1

SessionInv ==
  /\ ~clean => session = <<>>
  /\ clean => enable /\ addpc \notin {"enable", "disable"}
  /\ rxpc = "direct" /\ clean => queue = <<>> /\ session = <<>>
  /\ NoGap
  /\ clean /\ (queue # <<>> \/ session # <<>>) => \E a \in Starts : Window(a)

\* The session invariant holds initially.
LEMMA SessionInit == Init => SessionInv
BY DEF Init, SessionInv, NoGap

(***************************************************************************)
(* Steps that leave the window alone, and steps that end the session.      *)
(***************************************************************************)
LEMMA SessionKept ==
  ASSUME SessionInv, UNCHANGED <<session, clean, queue, indicate_seq, top>>,
         skipped => skipped', stopped' = stopped \/ stopped',
         enable' = enable, addpc' = addpc \/ addpc' \notin {"enable", "disable"},
         rxpc' = rxpc \/ rxpc' # "direct"
  PROVE  SessionInv'
<1>1. NoGap'
  BY DEF SessionInv, NoGap
<1>2. ASSUME NEW a \in Starts, Window(a) PROVE Window(a)'
  <2>1. /\ (a <= top + 1)' /\ (indicate_seq = SN(a))'
        /\ (\A i \in 1..Len(session) : session[i] < a)'
        /\ (\A i \in 1..Len(queue) : /\ a < queue[i] /\ queue[i] < a + WSize
                                    /\ queue[i] <= top)'
        /\ Ascending(session)' /\ Ascending(queue)'
    BY <1>2 DEF Window, Ascending
  <2>2. (~skipped /\ ~stopped /\ session # <<>> => a = session[Len(session)] + 1)'
    BY <1>2 DEF Window
  <2> QED
    BY <2>1, <2>2 DEF Window
<1>3. clean' /\ (queue' # <<>> \/ session' # <<>>) => \E a \in Starts : Window(a)'
  BY <1>2 DEF SessionInv
<1> QED
  BY <1>1, <1>3 DEF SessionInv

\* It holds when a session begins with something left over.
LEMMA SessionOver ==
  ASSUME session' = <<>>, ~clean'
  PROVE  SessionInv'
BY DEF SessionInv, NoGap

(***************************************************************************)
(* The frames that an indication adds to the session.                      *)
(***************************************************************************)
LEMMA SessionGrows ==
  ASSUME NEW q \in Seq(Frames), NEW start, Indicate(q, start), session \in Seq(Frames),
         clean, ~stopped
  PROVE  LET k == Ready(q, start)
             l == Len(session)
         IN  /\ Len(session') = l + k
             /\ \A i \in 1..l : session'[i] = session[i]
             /\ \A i \in (l + 1)..(l + k) : i - l \in 1..k /\ session'[i] = q[i - l]
<1> DEFINE k == Ready(q, start)
           u == SubSeq(q, 1, k)
<1>1. /\ k \in 0..Len(q) /\ u \in Seq(Frames) /\ Len(u) = k
      /\ \A i \in 1..k : i \in 1..Len(q) /\ u[i] = q[i]
  BY IndicateParts
<1>2. session' = session \o u
  BY DEF Indicate
<1>3. Len(session) \in Nat /\ Len(q) \in Nat
  OBVIOUS
<1> HIDE DEF k, u
<1>4. Len(session') = Len(session) + k
  BY <1>1, <1>2, ConcatProperties
<1>5. \A i \in 1..Len(session) : session'[i] = session[i]
  BY <1>1, <1>2, <1>3, ConcatProperties
<1>6. ASSUME NEW i \in (Len(session) + 1)..(Len(session) + k)
      PROVE  i - Len(session) \in 1..k /\ session'[i] = q[i - Len(session)]
  <2>1. i - Len(session) \in 1..k
    BY <1>1, <1>3
  <2>2. session'[i] = u[i - Len(session)]
    BY <1>1, <1>2, <1>3, <1>6, ConcatProperties
  <2> QED
    BY <1>1, <2>1, <2>2
<1> QED
  BY <1>4, <1>5, <1>6 DEF k

(***************************************************************************)
(* An indication from a start a on frames in order, all above what was     *)
(* indicated before, leaves the frames that go in order below the new      *)
(* start and the others above it.  Unless a frame is given up, the frames  *)
(* that go follow the last one without a gap.                              *)
(***************************************************************************)
Continues(q, a) ==
  /\ ~skipped
  /\ \/ /\ \A i \in 1..Len(q) : a < q[i]
        /\ ~stopped /\ session # <<>> => a = session[Len(session)] + 1
     \/ /\ q # <<>> /\ q[1] = a - 1
        /\ ~stopped /\ session # <<>> => q[1] = session[Len(session)] + 1

\* Indicating from an ordered buffer keeps the session in order.
LEMMA WindowIndicated ==
  ASSUME Numbers, Numbers', NoGap, Ascending(session), clean, stopped' = stopped,
         NEW q \in Seq(Frames), NEW a \in Starts,
         Indicate(q, SN(a)), Ascending(q), Near(q, a),
         \A i \in 1..Len(session) : session[i] < a /\ \A j \in 1..Len(q) : session[i] < q[j],
         a <= top' + 1, \A i \in 1..Len(q) : q[i] <= top' /\ q[i] < a + WSize,
         ~skipped' => Continues(q, a)
  PROVE  NoGap' /\ \E b \in Starts : Window(b)'
<1> DEFINE k == Ready(q, SN(a))
           l == Len(session)
<1>0. /\ a \in Int /\ FirstFrame + 1 - WSize <= a /\ WSize \in Int /\ FirstFrame \in Int
      /\ Len(q) \in Nat /\ l \in Nat /\ top' \in Int /\ top \in Int
      /\ session \in Seq(Frames)
  BY IntFrames, PeerNumbers, ReorderBoundsAssumption DEF Starts, Numbers
<1>1. /\ k \in 0..Len(q)
      /\ queue' \in Seq(Frames) /\ Len(queue') = Len(q) - k
      /\ \A i \in 1..Len(queue') : i + k \in 1..Len(q) /\ queue'[i] = q[i + k]
      /\ indicate_seq' = StartAfter(q, SN(a))[k]
      /\ session' \in Seq(Frames)
  BY <1>0, IndicateParts
<1>2. PICK b \in Int : /\ StartAfter(q, SN(a))[k] = SN(b) /\ Passed(q, a, k, b)
                       /\ \A i \in (k + 1)..Len(q) : b < q[i]
  BY <1>0, ReadyPass
<1>3. ~stopped => /\ Len(session') = l + k
                  /\ \A i \in 1..l : session'[i] = session[i]
                  /\ \A i \in (l + 1)..(l + k) : i - l \in 1..k /\ session'[i] = q[i - l]
  BY <1>0, SessionGrows
<1>4. stopped => session' = session
  BY DEF Indicate
<1> HIDE DEF k
<1>5. \A i \in 1..Len(q) : q[i] \in Int
  BY FrameNumber
<1>6. \A i \in 1..l : session[i] \in Int
  BY <1>0, FrameNumber
<1>7. a <= b /\ b <= top' + 1 /\ b \in Starts
  <2>1. k > 0 => k \in 1..Len(q)
    BY <1>0, <1>1
  <2>2. a <= b /\ (b = a \/ (k > 0 /\ b = q[k] + 1))
    BY <1>2 DEF Passed
  <2>3. k > 0 => q[k] \in Int /\ q[k] <= top'
    BY <1>5, <2>1
  <2>4. a <= top' + 1
    OBVIOUS
  <2>5. b <= top' + 1
    <3>1. CASE b = a
      BY <2>4, <3>1
    <3>2. CASE k > 0 /\ b = q[k] + 1
      <4>1. \A x, y \in Int : x <= y => x + 1 <= y + 1
        OBVIOUS
      <4> QED
        BY <1>0, <2>3, <3>2, <4>1, Zenon
    <3> QED
      BY <2>2, <3>1, <3>2
  <2>6. FirstFrame + 1 - WSize <= b
    <3>1. \A x, y, z \in Int : x <= y /\ y <= z => x <= z
      OBVIOUS
    <3>2. FirstFrame + 1 - WSize \in Int
      BY <1>0
    <3> QED
      BY <1>0, <2>2, <3>1, <3>2, Zenon
  <2> QED
    BY <2>2, <2>5, <2>6 DEF Starts
<1>8. \A j \in 1..k : j \in 1..Len(q) /\ q[j] < b
  BY <1>0, <1>1, <1>2 DEF Passed
<1>9. \A i \in 1..Len(session') : session'[i] < b
  <2> TAKE i \in 1..Len(session')
  <2>1. CASE stopped
    <3>1. i \in 1..l /\ session'[i] = session[i]
      BY <1>4, <2>1
    <3> QED
      BY <1>0, <1>6, <1>7, <3>1
  <2>2. CASE ~stopped
    <3>1. i \in 1..l \/ i \in (l + 1)..(l + k)
      BY <1>0, <1>1, <1>3, <2>2
    <3>2. CASE i \in 1..l
      BY <1>0, <1>3, <1>6, <1>7, <2>2, <3>2
    <3>3. CASE i \in (l + 1)..(l + k)
      BY <1>3, <1>8, <2>2, <3>3
    <3> QED
      BY <3>1, <3>2, <3>3
  <2> QED
    BY <2>1, <2>2
<1>10. Ascending(session')
  <2>1. CASE stopped
    BY <1>4, <2>1
  <2>2. CASE ~stopped
    <3> SUFFICES ASSUME NEW i \in 1..Len(session'), NEW j \in 1..Len(session'), i < j
                 PROVE  session'[i] < session'[j]
      BY DEF Ascending
    <3>1. (i \in 1..l \/ i \in (l + 1)..(l + k)) /\ (j \in 1..l \/ j \in (l + 1)..(l + k))
      BY <1>0, <1>1, <1>3, <2>2
    <3>2. CASE i \in 1..l /\ j \in 1..l
      BY <1>3, <2>2, <3>2 DEF Ascending
    <3>3. CASE i \in 1..l /\ j \in (l + 1)..(l + k)
      BY <1>3, <1>8, <2>2, <3>3
    <3>4. CASE i \in (l + 1)..(l + k) /\ j \in (l + 1)..(l + k)
      <4>1. i - l < j - l
        BY <1>0, <1>1
      <4> QED
        BY <1>3, <1>8, <2>2, <3>4, <4>1 DEF Ascending
    <3>5. ~(i \in (l + 1)..(l + k) /\ j \in 1..l)
      BY <1>0, <1>1
    <3> QED
      BY <3>1, <3>2, <3>3, <3>4, <3>5
  <2> QED
    BY <2>1, <2>2
<1>11. Ascending(queue')
  <2> SUFFICES ASSUME NEW i \in 1..Len(queue'), NEW j \in 1..Len(queue'), i < j
               PROVE  queue'[i] < queue'[j]
    BY DEF Ascending
  <2>1. i + k < j + k
    BY <1>0, <1>1
  <2> QED
    BY <1>1, <2>1 DEF Ascending
<1>12. \A i \in 1..Len(queue') : b < queue'[i] /\ queue'[i] < b + WSize /\ queue'[i] <= top'
  <2> TAKE i \in 1..Len(queue')
  <2>1. i + k \in 1..Len(q) /\ i + k \in (k + 1)..Len(q) /\ queue'[i] = q[i + k]
    BY <1>0, <1>1
  <2> QED
    BY <1>0, <1>2, <1>5, <1>7, <2>1
<1>13. ASSUME ~skipped', ~stopped, k > 0
       PROVE  /\ q[1] = a - 1 /\ b = q[k] + 1
              /\ session # <<>> => q[1] = session[l] + 1
              /\ \A j \in 2..k : q[j] = q[j - 1] + 1
  <2>0. 1 \in 1..k /\ 1 \in 1..Len(q) /\ k \in 1..Len(q) /\ q[1] \in Int /\ q[k] \in Int
    BY <1>0, <1>1, <1>5, <1>13
  <2>1. q[1] <= a
    BY <1>2, <2>0 DEF Passed
  <2>2. q[1] = a - 1 /\ (session # <<>> => q[1] = session[l] + 1)
    BY <1>0, <1>13, <2>0, <2>1 DEF Continues
  <2>3. ASSUME NEW j \in 2..k PROVE q[j] = q[j - 1] + 1
    <3>1. j \in 1..k /\ j \in 1..Len(q) /\ j - 1 \in 1..Len(q) /\ 1 < j /\ j - 1 < j
          /\ (j - 1 = 1 \/ 1 < j - 1)
      BY <1>0, <1>1, <2>3
    <3>2. q[j] \in Int /\ q[j - 1] \in Int /\ q[1] < q[j] /\ q[j - 1] < q[j]
          /\ (j - 1 = 1 \/ q[1] < q[j - 1])
      BY <1>5, <2>0, <3>1 DEF Ascending
    <3>3. q[j] <= a \/ q[j] = q[j - 1] + 1
      BY <1>2, <3>1 DEF Passed
    <3>4. q[1] <= q[j - 1]
      BY <2>0, <3>2
    <3> QED
      BY <1>0, <2>0, <2>2, <3>2, <3>3, <3>4
  <2>4. b = q[k] + 1
    <3>1. b = a \/ b = q[k] + 1
      BY <1>2 DEF Passed
    <3>2. q[k] < b
      BY <1>8, <2>0, <1>13
    <3>3. k = 1 \/ 1 < k
      BY <1>1, <1>13
    <3>4. k = 1 \/ q[1] < q[k]
      BY <2>0, <3>3 DEF Ascending
    <3> QED
      BY <1>0, <2>0, <2>2, <3>1, <3>2, <3>4
  <2> QED
    BY <2>2, <2>3, <2>4
<1>14. ~skipped' /\ ~stopped' /\ session' # <<>> => b = session'[Len(session')] + 1
  <2> SUFFICES ASSUME ~skipped', ~stopped, session' # <<>>
               PROVE  b = session'[Len(session')] + 1
    OBVIOUS
  <2>1. CASE k > 0
    <3>1. Len(session') = l + k /\ l + k \in (l + 1)..(l + k) /\ (l + k) - l = k
      BY <1>0, <1>1, <1>3, <2>1
    <3>2. session'[l + k] = q[k]
      BY <1>3, <3>1
    <3> QED
      BY <1>13, <2>1, <3>1, <3>2
  <2>2. CASE k = 0
    <3>1. Len(session') = l
      BY <1>0, <1>3, <2>2
    <3>2. l \in 1..l /\ session # <<>>
      <4>1. l # 0
        BY <1>1, <3>1, EmptySeq
      <4> QED
        BY <1>0, <4>1
    <3>3. session'[l] = session[l]
      BY <1>3, <3>2
    <3>4. b = a
      BY <1>2, <2>2 DEF Passed
    <3>5. a = session[l] + 1
      <4>1. CASE \A i \in 1..Len(q) : a < q[i]
        <5>1. CASE q # <<>> /\ q[1] = a - 1
          <6>1. 1 \in 1..Len(q)
            BY <1>0, <5>1
          <6> QED
            BY <1>0, <1>5, <4>1, <5>1, <6>1
        <5>2. CASE ~(q # <<>> /\ q[1] = a - 1)
          BY <3>2, <5>2 DEF Continues
        <5> QED
          BY <5>1, <5>2
      <4>2. CASE ~ \A i \in 1..Len(q) : a < q[i]
        <5>1. q # <<>> /\ q[1] = a - 1
          BY <4>2 DEF Continues
        <5>2. 1 \in 1..Len(q) /\ 1 \in (k + 1)..Len(q)
          BY <1>0, <2>2, <5>1
        <5>3. b < q[1]
          BY <1>2, <5>2
        <5> QED
          BY <1>0, <1>5, <3>4, <5>1, <5>2, <5>3
      <4> QED
        BY <4>1, <4>2
    <3> QED
      BY <3>1, <3>3, <3>4, <3>5
  <2> QED
    BY <1>1, <2>1, <2>2
<1>15. NoGap'
  <2> SUFFICES ASSUME ~skipped', NEW i \in 2..Len(session')
               PROVE  session'[i] = session'[i - 1] + 1
    BY DEF NoGap
  <2>0. ~skipped
    BY DEF Continues
  <2>1. CASE stopped
    BY <1>4, <2>0, <2>1 DEF NoGap
  <2>2. CASE ~stopped /\ i <= l
    <3>1. i \in 1..l /\ i - 1 \in 1..l /\ i \in 2..l
      BY <1>0, <2>2
    <3> QED
      BY <1>3, <2>0, <2>2, <3>1 DEF NoGap
  <2>3. CASE ~stopped /\ i = l + 1
    <3>1. l \in 1..l /\ l + 1 \in (l + 1)..(l + k) /\ (l + 1) - l = 1 /\ k > 0 /\ i - 1 = l
          /\ session # <<>>
      BY <1>0, <1>1, <1>3, <2>3
    <3>2. session'[l + 1] = q[1] /\ session'[l] = session[l]
      BY <1>3, <2>3, <3>1
    <3> QED
      BY <1>13, <2>3, <3>1, <3>2
  <2>4. CASE ~stopped /\ i > l + 1
    <3>1. /\ i \in (l + 1)..(l + k) /\ i - 1 \in (l + 1)..(l + k) /\ k > 0
          /\ (i - 1) - l = (i - l) - 1 /\ i - l \in 2..k
      BY <1>0, <1>1, <1>3, <2>4
    <3>2. session'[i] = q[i - l] /\ session'[i - 1] = q[(i - l) - 1]
      BY <1>3, <2>4, <3>1
    <3> QED
      BY <1>13, <2>4, <3>1, <3>2
  <2> QED
    BY <1>0, <2>1, <2>2, <2>3, <2>4
<1>16. Window(b)'
  BY <1>1, <1>2, <1>7, <1>9, <1>10, <1>11, <1>12, <1>14 DEF Window, Ascending
<1> QED
  BY <1>7, <1>15, <1>16

(***************************************************************************)
(* A frame is taken in a session: it goes to its place, and the frames     *)
(* that are ready go.                                                      *)
(***************************************************************************)
LEMMA HigherBounds ==
  ASSUME NEW x \in Int, rxn \in Int, top \in Int, x <= rxn + 1
  PROVE  x <= Higher(rxn) + 1
BY DEF Higher

\* A frame within the window keeps the session invariant.
LEMMA TakenInOrder ==
  ASSUME Numbers, Numbers', SessionInv, clean, recv_indicatepkt_reorder,
         NEW a \in Starts, check_indicate_seq(SN(rxn)) = SN(a), a <= rxn + 1,
         Ascending(session), Ascending(queue), Near(queue, rxn), rxn < a + WSize,
         \A i \in 1..Len(queue) : /\ queue[i] < a + WSize /\ a - queue[i] < 2048
                                  /\ queue[i] <= top,
         \A i \in 1..Len(session) : /\ session[i] < a /\ session[i] < rxn
                                    /\ \A j \in 1..Len(queue) : session[i] < queue[j],
         ~skipped' => \/ /\ a < rxn /\ \A i \in 1..Len(queue) : a < queue[i]
                         /\ ~stopped /\ session # <<>> => a = session[Len(session)] + 1
                      \/ /\ a = rxn + 1 /\ \A i \in 1..Len(queue) : rxn < queue[i]
                         /\ ~stopped /\ session # <<>> => rxn = session[Len(session)] + 1
  PROVE  SessionInv'
<1> DEFINE q == Inserted(queue, rxn)
<1>0. /\ queue \in Seq(Frames) /\ rxn \in Frames /\ rxn \in Int /\ top \in Int
      /\ a \in Int /\ WSize \in Int /\ WSize <= 1024 /\ WSize >= 2
      /\ \A i \in 1..Len(queue) : queue[i] \in Int
  BY IntFrames, PeerNumbers, FrameNumber DEF Numbers, Starts
<1>1. /\ q \in Seq(Frames) /\ q # <<>>
      /\ \E p \in 1..Len(q) : q[p] = rxn
      /\ \A i \in 1..Len(q) : q[i] = rxn \/ \E j \in 1..Len(queue) : q[i] = queue[j]
  BY <1>0, InsertedFrames
<1>2. Ascending(q)
  <2>1. ~Duplicate(queue, rxn)
    BY DEF recv_indicatepkt_reorder
  <2> QED
    BY <1>0, <2>1, InsertedAscending
<1>3. Indicate(q, SN(a))
  BY DEF recv_indicatepkt_reorder
<1>4. /\ UNCHANGED <<clean, stopped, enable, addpc>> /\ rxpc' # "direct"
      /\ top' = Higher(rxn) /\ (skipped' = (skipped \/ BeyondWindow(SN(rxn))))
  BY DEF recv_indicatepkt_reorder, baVars
<1> HIDE DEF q
<1>5. rxn <= top' /\ top <= top' /\ top' \in Int
  BY <1>0, <1>4 DEF Higher
<1>6. Near(q, a)
  <2> SUFFICES ASSUME NEW i \in 1..Len(q) PROVE q[i] - a < 2048 /\ a - q[i] < 2048
    BY DEF Near
  <2>1. CASE q[i] = rxn
    BY <1>0, <2>1
  <2>2. CASE \E j \in 1..Len(queue) : q[i] = queue[j]
    <3>1. PICK j \in 1..Len(queue) : q[i] = queue[j]
      BY <2>2
    <3>2. queue[j] \in Int /\ queue[j] < a + WSize /\ a - queue[j] < 2048
      BY <1>0
    <3> QED
      BY <1>0, <3>1, <3>2
  <2> QED
    BY <1>1, <2>1, <2>2
<1>7. \A i \in 1..Len(session) : session[i] < a /\ \A j \in 1..Len(q) : session[i] < q[j]
  BY <1>1
<1>8. a <= top' + 1 /\ \A i \in 1..Len(q) : q[i] <= top' /\ q[i] < a + WSize
  <2>1. a <= top' + 1
    <3>1. a <= Higher(rxn) + 1
      BY <1>0, HigherBounds
    <3> QED
      BY <1>4, <3>1
  <2>2. ASSUME NEW j \in 1..Len(queue) PROVE queue[j] <= top' /\ queue[j] < a + WSize
    <3>1. queue[j] \in Int /\ queue[j] <= top
      BY <1>0
    <3> QED
      BY <1>0, <1>5, <3>1
  <2> QED
    BY <1>1, <1>5, <2>1, <2>2
<1>9. ASSUME ~skipped' PROVE Continues(q, a)
  <2>1. ~skipped
    BY <1>4, <1>9
  <2>2. CASE /\ a < rxn /\ \A i \in 1..Len(queue) : a < queue[i]
             /\ ~stopped /\ session # <<>> => a = session[Len(session)] + 1
    BY <1>1, <2>1, <2>2 DEF Continues
  <2>3. CASE /\ a = rxn + 1 /\ \A i \in 1..Len(queue) : rxn < queue[i]
             /\ ~stopped /\ session # <<>> => rxn = session[Len(session)] + 1
    <3>1. PICK p \in 1..Len(q) : q[p] = rxn
      BY <1>1
    <3>2. Len(q) \in Nat /\ 1 \in 1..Len(q) /\ (p = 1 \/ 1 < p)
      BY <1>1
    <3>3. p = 1 \/ q[1] < rxn
      BY <1>2, <3>1, <3>2 DEF Ascending
    <3>4. q[1] = rxn \/ rxn < q[1]
      BY <1>1, <2>3, <3>2
    <3>5. q[1] = rxn
      <4>1. q[1] \in Int
        BY <1>1, <3>2, FrameNumber
      <4> QED
        BY <1>0, <3>1, <3>3, <3>4, <4>1
    <3>6. q[1] = a - 1
      BY <1>0, <2>3, <3>5
    <3> QED
      BY <1>1, <2>1, <2>3, <3>5, <3>6 DEF Continues
  <2> QED
    BY <1>9, <2>2, <2>3
<1>10. NoGap' /\ \E b \in Starts : Window(b)'
  <2>1. NoGap
    BY DEF SessionInv
  <2> QED
    BY <1>1, <1>2, <1>3, <1>4, <1>6, <1>7, <1>8, <1>9, <2>1, WindowIndicated
<1> QED
  BY <1>4, <1>10 DEF SessionInv

\* More than half the number space ahead looks less to SN_LESS.
LEMMA FarIsLess ==
  ASSUME NEW x \in Int, NEW y \in Int, 2048 <= x - y, x - y < 4096
  PROVE  SN_LESS(SN(x), SN(y))
BY DEF SN, SN_LESS

(***************************************************************************)
(* A frame that check_indicate_seq lets through is not below the start of  *)
(* the window, and the tests of check_indicate_seq are those on absolute   *)
(* numbers.                                                                *)
(***************************************************************************)
LEMMA LetThrough ==
  ASSUME MaxFrames + WSize <= 4096, Numbers, PeerInv, rxpc = "have",
         ~TooOld(SN(rxn)),
         NEW a \in Starts, a <= top + 1, indicate_seq = SN(a)
  PROVE  /\ a <= rxn /\ rxn - a < 2048
         /\ SN(rxn) = indicate_seq <=> rxn = a
         /\ BeyondWindow(SN(rxn)) <=> a + WSize <= rxn
         /\ indicate_seq # Unset
<1>0. /\ a \in Int /\ rxn \in Int /\ top \in Int /\ WSize \in Int /\ 2 <= WSize
      /\ WSize <= 1024 /\ FirstFrame \in Int /\ MaxFrames \in Int
      /\ rxn <= FirstFrame + MaxFrames - 1 /\ FirstFrame + 1 - WSize <= a
  BY IntFrames, PeerNumbers DEF Numbers, Starts
<1>1. top < rxn + WSize
  BY DEF PeerInv
<1>2. indicate_seq # Unset
  BY <1>0, SNType
<1>3. ~SN_LESS(SN(rxn), SN(a))
  BY <1>2 DEF TooOld
<1>4. a - rxn <= WSize /\ rxn - a < 4096
  BY <1>0, <1>1
<1>5. a <= rxn
  <2> SUFFICES ASSUME rxn < a PROVE FALSE
    BY <1>0
  <2>1. rxn - a < 2048 /\ a - rxn < 2048
    BY <1>0, <1>4
  <2> QED
    BY <1>0, <1>3, <2>1, LessIsLess
<1>6. rxn - a < 2048
  BY <1>0, <1>3, <1>4, FarIsLess
<1>7. SN(rxn) = SN(a) <=> rxn = a
  <2>1. rxn - a < 4096 /\ a - rxn < 4096
    BY <1>0, <1>5, <1>6
  <2> QED
    BY <1>0, <2>1, SameIsSame
<1>8. BeyondWindow(SN(rxn)) <=> a + WSize <= rxn
  <2> DEFINE e == a + WSize - 1
  <2>1. e \in Int /\ e - rxn < 2048 /\ rxn - e < 2048
    BY <1>0, <1>5, <1>6
  <2>2. (indicate_seq + WSize - 1) % 4096 = SN(e)
    BY <1>0, WindowEnd
  <2>3. SN_LESS(SN(e), SN(rxn)) <=> e < rxn
    BY <1>0, <2>1, LessIsLess
  <2>4. e < rxn <=> a + WSize <= rxn
    BY <1>0
  <2>5. a + WSize <= rxn => rxn # a
    BY <1>0
  <2> HIDE DEF e
  <2> QED
    BY <1>2, <1>7, <2>2, <2>3, <2>4, <2>5 DEF BeyondWindow
<1> QED
  BY <1>2, <1>5, <1>6, <1>7, <1>8

(***************************************************************************)
(* The first frame of a session finds the start not set, or set by a race  *)
(* to any number.                                                          *)
(***************************************************************************)
LEMMA InsideWindow ==
  ASSUME NEW y \in Int, NEW x \in Int, NEW w \in Int, 2 <= w, w <= 1024,
         0 <= y, y < 4096, 0 <= x, x < 4096, y # x,
         (y - x) % 4096 < 2048, (((x + w - 1) % 4096) - y) % 4096 < 2048
  PROVE  0 < (y - x) % 4096 /\ (y - x) % 4096 < w /\ (y - x) % 4096 \in Int
OBVIOUS

\* A frame inside the window is less than a window above its start.
LEMMA BackToStart ==
  ASSUME NEW r \in Int, NEW x \in Int, NEW w \in Int, 2 <= w, w <= 1024,
         x \in SNs, SN(r) # x, ~SN_LESS(SN(r), x), ~SN_LESS((x + w - 1) % 4096, SN(r))
  PROVE  \E d \in Int : 0 < d /\ d < w /\ SN(r - d) = x
<1>0. 0 <= x /\ x < 4096
  BY DEF SNs
<1>1. PICK y \in Int : y = r % 4096 /\ y = SN(r) /\ 0 <= y /\ y < 4096
  BY DEF SN
<1>2. y # x /\ (y - x) % 4096 < 2048 /\ (((x + w - 1) % 4096) - y) % 4096 < 2048
  BY <1>0, <1>1 DEF SN_LESS
<1>3. 0 < (y - x) % 4096 /\ (y - x) % 4096 < w /\ (y - x) % 4096 \in Int
  BY <1>0, <1>1, <1>2, InsideWindow
<1>4. PICK d \in Int : d = (y - x) % 4096
  OBVIOUS
<1>5. SN(r - d) = x
  BY <1>0, <1>1, <1>4 DEF SN
<1>6. 0 < d /\ d < w
  BY <1>3, <1>4
<1> QED
  BY <1>5, <1>6

\* The first frame of a session finds or makes a start that fits it.
LEMMA FirstTaken ==
  ASSUME Numbers, ~TooOld(SN(rxn))
  PROVE  \E a \in Starts : /\ check_indicate_seq(SN(rxn)) = SN(a)
                           /\ a = rxn + 1 \/ (a < rxn /\ rxn < a + WSize)
<1>0. /\ rxn \in Int /\ FirstFrame <= rxn /\ FirstFrame \in Int
      /\ WSize \in Int /\ 2 <= WSize /\ WSize <= 1024
  BY IntFrames, PeerNumbers DEF Numbers
<1> DEFINE s == SN(rxn)
<1>1. s \in SNs /\ (s + 1) % 4096 = SN(rxn + 1) /\ ShiftedStart(s) = SN(rxn + 1 - WSize)
  BY <1>0, SNType, NextNumber, ShiftIsShift
<1>2. CASE indicate_seq = Unset \/ s = indicate_seq
  <2>1. check_indicate_seq(s) = SN(rxn + 1)
    BY <1>1, <1>2 DEF check_indicate_seq
  <2>2. rxn + 1 \in Starts
    BY <1>0 DEF Starts
  <2> QED
    BY <2>1, <2>2
<1>3. CASE ~(indicate_seq = Unset \/ s = indicate_seq) /\ BeyondWindow(s)
  <2>1. check_indicate_seq(s) = SN(rxn + 1 - WSize)
    BY <1>1, <1>3 DEF check_indicate_seq
  <2>2. /\ rxn + 1 - WSize \in Starts /\ rxn + 1 - WSize < rxn
        /\ rxn < (rxn + 1 - WSize) + WSize
    BY <1>0 DEF Starts
  <2> QED
    BY <2>1, <2>2
<1>4. CASE ~(indicate_seq = Unset \/ s = indicate_seq) /\ ~BeyondWindow(s)
  <2>1. indicate_seq \in SNs /\ check_indicate_seq(s) = indicate_seq
    BY <1>4 DEF Numbers, check_indicate_seq
  <2>2. indicate_seq \in Int
    BY <2>1 DEF SNs
  <2>3. ~SN_LESS(s, indicate_seq) /\ ~SN_LESS((indicate_seq + WSize - 1) % 4096, s)
        /\ s # indicate_seq
    BY <1>4 DEF TooOld, BeyondWindow
  <2>5. PICK d \in Int : 0 < d /\ d < WSize /\ SN(rxn - d) = indicate_seq
    BY <1>0, <2>1, <2>2, <2>3, BackToStart
  <2>9. rxn - d \in Starts /\ rxn - d < rxn /\ rxn < (rxn - d) + WSize
    BY <1>0, <2>5 DEF Starts
  <2>10. check_indicate_seq(SN(rxn)) = SN(rxn - d)
    BY <2>1, <2>5
  <2> QED
    BY <2>9, <2>10
<1> QED
  BY <1>2, <1>3, <1>4

(***************************************************************************)
(* Each step keeps the session in order.                                   *)
(***************************************************************************)
LEMMA SkippedStays ==
  ASSUME skipped' = (skipped \/ BeyondWindow(SN(rxn)))
  PROVE  (skipped \/ BeyondWindow(SN(rxn))) => skipped'
OBVIOUS

\* The first frame of a session keeps the session invariant.
LEMMA FirstKeeps ==
  ASSUME Numbers, Numbers', SessionInv, clean, recv_indicatepkt_reorder,
         queue = <<>>, session = <<>>
  PROVE  SessionInv'
<1>1. ~TooOld(SN(rxn))
  BY DEF recv_indicatepkt_reorder
<1>2. PICK a \in Starts : /\ check_indicate_seq(SN(rxn)) = SN(a)
                          /\ a = rxn + 1 \/ (a < rxn /\ rxn < a + WSize)
  BY <1>1, FirstTaken
<1>3. a \in Int /\ rxn \in Int /\ WSize \in Int /\ 2 <= WSize
  BY IntFrames, PeerNumbers DEF Starts
<1>4. a <= rxn + 1 /\ rxn < a + WSize
  BY <1>2, <1>3
<1>5. Len(queue) = 0 /\ Len(session) = 0
  OBVIOUS
<1>6. Ascending(queue) /\ Ascending(session) /\ Near(queue, rxn)
  BY <1>5 DEF Ascending, Near
<1>7. /\ \A i \in 1..Len(queue) : /\ queue[i] < a + WSize /\ a - queue[i] < 2048
                                  /\ queue[i] <= top
      /\ \A i \in 1..Len(session) : /\ session[i] < a /\ session[i] < rxn
                                    /\ \A j \in 1..Len(queue) : session[i] < queue[j]
      /\ \A i \in 1..Len(queue) : a < queue[i] /\ rxn < queue[i]
  BY <1>5
<1> QED
  BY <1>2, <1>4, <1>6, <1>7, TakenInOrder

\* Every further frame keeps the session invariant.
LEMMA NextKeeps ==
  ASSUME MaxFrames + WSize <= 4096, Numbers, Numbers', PeerInv, SessionInv, clean,
         recv_indicatepkt_reorder, NEW a0 \in Starts, Window(a0)
  PROVE  SessionInv'
<1>0. /\ a0 \in Int /\ rxn \in Int /\ top \in Int /\ WSize \in Int /\ 2 <= WSize
      /\ WSize <= 1024 /\ FirstFrame \in Int /\ FirstFrame <= rxn
      /\ queue \in Seq(Frames) /\ session \in Seq(Frames)
  BY IntFrames, PeerNumbers DEF Starts, Numbers
<1>1. ~TooOld(SN(rxn)) /\ rxpc = "have"
  BY DEF recv_indicatepkt_reorder
<1>11. (skipped \/ BeyondWindow(SN(rxn))) => skipped'
  BY SkippedStays DEF recv_indicatepkt_reorder
<1>2. /\ a0 <= top + 1 /\ indicate_seq = SN(a0)
      /\ \A i \in 1..Len(session) : session[i] < a0
      /\ \A i \in 1..Len(queue) : /\ a0 < queue[i] /\ queue[i] < a0 + WSize
                                  /\ queue[i] <= top
      /\ Ascending(session) /\ Ascending(queue)
      /\ ~skipped /\ ~stopped /\ session # <<>> => a0 = session[Len(session)] + 1
  BY DEF Window
<1>3. /\ a0 <= rxn /\ rxn - a0 < 2048
      /\ SN(rxn) = indicate_seq <=> rxn = a0
      /\ BeyondWindow(SN(rxn)) <=> a0 + WSize <= rxn
      /\ indicate_seq # Unset
  BY <1>1, <1>2, LetThrough
<1>4. \A i \in 1..Len(queue) : queue[i] \in Int
  BY <1>0, FrameNumber
<1>5. \A i \in 1..Len(session) : session[i] \in Int
  BY <1>0, FrameNumber
<1>6. Near(queue, rxn)
  BY <1>0, <1>2, <1>3, <1>4 DEF Near
<1>7. \A i \in 1..Len(session) : /\ session[i] < rxn
                                 /\ \A j \in 1..Len(queue) : session[i] < queue[j]
  BY <1>0, <1>2, <1>3, <1>4, <1>5
<1>8. CASE rxn = a0
  <2> DEFINE a == rxn + 1
  <2>1. check_indicate_seq(SN(rxn)) = SN(a)
    BY <1>0, <1>3, <1>8, NextNumber DEF check_indicate_seq
  <2>2. a \in Starts /\ a = rxn + 1 /\ a <= rxn + 1 /\ rxn < a + WSize /\ a \in Int
    BY <1>0 DEF Starts
  <2> HIDE DEF a
  <2>3. \A i \in 1..Len(queue) : /\ queue[i] < a + WSize /\ a - queue[i] < 2048
                                 /\ queue[i] <= top /\ rxn < queue[i]
    BY <1>0, <1>2, <1>4, <1>8, <2>2
  <2>4. \A i \in 1..Len(session) : session[i] < a
    BY <1>0, <1>5, <1>7, <2>2
  <2>5. ~skipped' => /\ \A i \in 1..Len(queue) : rxn < queue[i]
                     /\ ~stopped /\ session # <<>> => rxn = session[Len(session)] + 1
    <3>1. ~skipped /\ ~stopped /\ session # <<>> => rxn = session[Len(session)] + 1
      BY <1>2, <1>8
    <3> QED
      BY <1>11, <2>3, <3>1
  <2> QED
    BY <1>2, <1>6, <1>7, <2>1, <2>2, <2>3, <2>4, <2>5, TakenInOrder
<1>9. CASE a0 + WSize <= rxn
  <2> DEFINE a == rxn + 1 - WSize
  <2>1. check_indicate_seq(SN(rxn)) = SN(a)
    <3>1. rxn # a0
      BY <1>0, <1>9
    <3> QED
      BY <1>0, <1>3, <1>9, <3>1, ShiftIsShift DEF check_indicate_seq
  <2>2. a \in Starts /\ a <= rxn + 1 /\ rxn < a + WSize /\ a0 < a /\ a \in Int
        /\ a - a0 < 2048
    BY <1>0, <1>3, <1>9 DEF Starts
  <2> HIDE DEF a
  <2>3. \A i \in 1..Len(queue) : /\ queue[i] < a + WSize /\ a - queue[i] < 2048
                                 /\ queue[i] <= top
    BY <1>0, <1>2, <1>4, <2>2
  <2>4. \A i \in 1..Len(session) : session[i] < a
    BY <1>0, <1>2, <1>5, <2>2
  <2>5. skipped'
    BY <1>3, <1>9, <1>11
  <2> QED
    BY <1>2, <1>6, <1>7, <2>1, <2>2, <2>3, <2>4, <2>5, TakenInOrder
<1>10. CASE a0 < rxn /\ rxn < a0 + WSize
  <2>1. check_indicate_seq(SN(rxn)) = SN(a0)
    <3>1. rxn # a0 /\ ~(a0 + WSize <= rxn)
      BY <1>0, <1>10
    <3> QED
      BY <1>2, <1>3, <3>1 DEF check_indicate_seq
  <2>2. a0 <= rxn + 1
    BY <1>0, <1>10
  <2>3. \A i \in 1..Len(queue) : /\ queue[i] < a0 + WSize /\ a0 - queue[i] < 2048
                                 /\ queue[i] <= top
    BY <1>0, <1>2, <1>4
  <2>4. ~skipped' => /\ a0 < rxn /\ \A i \in 1..Len(queue) : a0 < queue[i]
                     /\ ~stopped /\ session # <<>> => a0 = session[Len(session)] + 1
    BY <1>2, <1>10, <1>11
  <2> QED
    BY <1>2, <1>6, <1>7, <1>10, <2>1, <2>2, <2>3, <2>4, TakenInOrder
<1> QED
  BY <1>0, <1>3, <1>8, <1>9, <1>10

\* Dropping a duplicate keeps the session invariant.
LEMMA DuplicateKeeps ==
  ASSUME MaxFrames + WSize <= 4096, Numbers, PeerInv, SessionInv, clean, DropDuplicate
  PROVE  SessionInv'
<1>0. queue \in Seq(Frames) /\ Len(queue) \in Nat
  BY DEF Numbers
<1>1. /\ ~TooOld(SN(rxn)) /\ rxpc = "have" /\ Duplicate(queue, rxn)
      /\ indicate_seq' = check_indicate_seq(SN(rxn))
      /\ rxpc' = "idle"
      /\ UNCHANGED <<stopped, enable, queue, addpc, session, clean, top>>
  BY DEF DropDuplicate, baVars
<1>11. skipped => skipped'
  BY SkippedStays DEF DropDuplicate
<1>2. PICK j \in 1..Len(queue) : SN(queue[j]) = SN(rxn)
  <2>1. InsertPos(queue, rxn) \in 1..(Len(queue) + 1)
    BY <1>0, InsertPosStops
  <2>2. InsertPos(queue, rxn) <= Len(queue) /\ SN(queue[InsertPos(queue, rxn)]) = SN(rxn)
    BY <1>1 DEF Duplicate
  <2> QED
    BY <1>0, <2>1, <2>2
<1>3. queue # <<>>
  BY <1>0, <1>2
<1>4. PICK a \in Starts : Window(a)
  BY <1>3 DEF SessionInv
<1>5. /\ a \in Int /\ rxn \in Int /\ top \in Int /\ WSize \in Int /\ 2 <= WSize
      /\ WSize <= 1024 /\ queue[j] \in Int
  BY <1>0, IntFrames, PeerNumbers, FrameNumber DEF Starts
<1>6. a <= top + 1 /\ indicate_seq = SN(a) /\ a < queue[j] /\ queue[j] < a + WSize
  BY <1>4 DEF Window
<1>7. /\ a <= rxn /\ rxn - a < 2048
      /\ SN(rxn) = indicate_seq <=> rxn = a
      /\ BeyondWindow(SN(rxn)) <=> a + WSize <= rxn
      /\ indicate_seq # Unset
  BY <1>1, <1>6, LetThrough
<1>8. queue[j] = rxn
  <2>1. queue[j] - rxn < 4096 /\ rxn - queue[j] < 4096
    BY <1>5, <1>6, <1>7
  <2> QED
    BY <1>2, <1>5, <2>1, SameIsSame
<1>9. SN(rxn) # indicate_seq /\ ~BeyondWindow(SN(rxn))
  BY <1>5, <1>6, <1>7, <1>8
<1>10. indicate_seq' = indicate_seq
  BY <1>1, <1>7, <1>9 DEF check_indicate_seq
<1> QED
  BY <1>1, <1>10, <1>11, SessionKept

\* Sessions with something left over are outside the invariant.
LEMMA UncleanKeeps ==
  ASSUME SessionInv, ~clean, clean' = clean,
         NEW q, NEW start, Indicate(q, start)
  PROVE  SessionInv'
<1>1. session' = <<>>
  BY DEF SessionInv, Indicate
<1> QED
  BY <1>1, SessionOver

\* The timer handler's forced indication keeps the session invariant.
LEMMA HandlerKeeps ==
  ASSUME Numbers, Numbers', SessionInv, clean, rtw_reordering_ctrl_timeout_handler,
         queue # <<>>
  PROVE  SessionInv'
<1>0. /\ queue \in Seq(Frames) /\ session \in Seq(Frames) /\ Len(queue) \in Nat
      /\ 1 \in 1..Len(queue)
  BY DEF Numbers
<1>1. /\ Indicate(queue, SN(queue[1])) /\ skipped'
      /\ UNCHANGED <<stopped, enable, rxpc, addpc, clean, top>>
  BY DEF rtw_reordering_ctrl_timeout_handler, baVars
<1>2. PICK a0 \in Starts : Window(a0)
  BY DEF SessionInv
<1>3. /\ a0 \in Int /\ top \in Int /\ WSize \in Int /\ 2 <= WSize
      /\ WSize <= 1024 /\ FirstFrame \in Int /\ FirstFrame + 1 - WSize <= a0
  BY IntFrames, PeerNumbers DEF Starts, Numbers
<1>4. /\ \A i \in 1..Len(session) : session[i] < a0
      /\ \A i \in 1..Len(queue) : /\ a0 < queue[i] /\ queue[i] < a0 + WSize
                                  /\ queue[i] <= top
      /\ Ascending(session) /\ Ascending(queue)
  BY <1>2 DEF Window
<1>5. /\ \A i \in 1..Len(queue) : queue[i] \in Int
      /\ \A i \in 1..Len(session) : session[i] \in Int
  BY <1>0, FrameNumber
<1> DEFINE a == queue[1]
<1>6. a \in Starts /\ a \in Int /\ a0 < a /\ a < a0 + WSize /\ a <= top
  BY <1>0, <1>3, <1>4, <1>5 DEF Starts
<1> HIDE DEF a
<1>7. Near(queue, a)
  BY <1>3, <1>4, <1>5, <1>6 DEF Near
<1>8. \A i \in 1..Len(session) : session[i] < a /\ \A j \in 1..Len(queue) : session[i] < queue[j]
  BY <1>3, <1>4, <1>5, <1>6
<1>9. a <= top' + 1 /\ \A i \in 1..Len(queue) : queue[i] <= top' /\ queue[i] < a + WSize
  <2>1. a <= top' + 1
    BY <1>1, <1>3, <1>6
  <2>2. \A i \in 1..Len(queue) : queue[i] <= top' /\ queue[i] < a + WSize
    BY <1>1, <1>3, <1>4, <1>5, <1>6
  <2> QED
    BY <2>1, <2>2
<1>10. Indicate(queue, SN(a))
  BY <1>1 DEF a
<1>11. NoGap' /\ \E b \in Starts : Window(b)'
  <2>1. NoGap
    BY DEF SessionInv
  <2> QED
    BY <1>0, <1>1, <1>4, <1>6, <1>7, <1>8, <1>9, <1>10, <2>1, WindowIndicated
<1>12. rxpc = "direct" => FALSE
  BY DEF SessionInv
<1> QED
  BY <1>1, <1>11, <1>12 DEF SessionInv

\* Freeing the station keeps the session invariant.
LEMMA FlushKeeps ==
  ASSUME Numbers, SessionInv, FreeFlush
  PROVE  SessionInv'
<1>1. /\ queue' = <<>>
      /\ UNCHANGED <<stopped, enable, indicate_seq, rxpc, addpc, session, clean, skipped, top>>
  BY DEF FreeFlush, baVars, histVars
<1>2. NoGap'
  BY <1>1 DEF SessionInv, NoGap
<1>3. ASSUME NEW a \in Starts, Window(a) PROVE Window(a)'
  <2>1. Len(queue') = 0
    BY <1>1
  <2>2. /\ (a <= top + 1)' /\ (indicate_seq = SN(a))'
        /\ (\A i \in 1..Len(session) : session[i] < a)'
        /\ Ascending(session)'
    BY <1>1, <1>3 DEF Window, Ascending
  <2>3. (\A i \in 1..Len(queue) : /\ a < queue[i] /\ queue[i] < a + WSize
                                  /\ queue[i] <= top)'
        /\ Ascending(queue)'
    BY <2>1 DEF Ascending
  <2>4. (~skipped /\ ~stopped /\ session # <<>> => a = session[Len(session)] + 1)'
    BY <1>1, <1>3 DEF Window
  <2> QED
    BY <2>2, <2>3, <2>4 DEF Window
<1>4. clean' /\ (queue' # <<>> \/ session' # <<>>) => \E a \in Starts : Window(a)'
  BY <1>1, <1>3 DEF SessionInv
<1> QED
  BY <1>1, <1>2, <1>4 DEF SessionInv

(***************************************************************************)
(* A session that is enabled with nothing left over is clean.              *)
(***************************************************************************)
LEMMA EnabledKeeps ==
  ASSUME SessionInv, AddbaEnd
  PROVE  SessionInv'
<1>1. CASE addpc = "disable" /\ UNCHANGED clean
  <2>1. ~clean
    BY <1>1 DEF SessionInv
  <2> QED
    BY <1>1, <2>1, SessionOver DEF AddbaEnd, SessionInv
<1>2. CASE addpc = "enable" /\ enable' = TRUE /\ clean' = (queue = <<>>)
  <2>1. session = <<>>
    BY <1>2 DEF SessionInv
  <2>2. session' = <<>> /\ queue' = queue /\ addpc' = "idle"
    BY <2>1 DEF AddbaEnd
  <2>3. NoGap'
    BY <2>2 DEF NoGap
  <2>4. clean' => queue' = <<>>
    BY <1>2, <2>2
  <2> QED
    BY <1>2, <2>2, <2>3, <2>4 DEF SessionInv
<1> QED
  BY <1>1, <1>2 DEF AddbaEnd

\* Every step keeps the session invariant.
LEMMA SessionNext ==
  ASSUME MaxFrames + WSize <= 4096, Numbers, Numbers', PeerInv, SessionInv, [Next]_vars
  PROVE  SessionInv'
<1>1. CASE UNCHANGED vars
  BY <1>1, SessionKept DEF vars, histVars
<1>2. CASE PeerSlides
  BY <1>2, SessionKept DEF PeerSlides, baVars, histVars
<1>3. ASSUME NEW n \in Frames, Receive(n) PROVE SessionInv'
  BY <1>3, SessionKept DEF Receive, baVars, histVars
<1>4. CASE IndicateDirect
  <2>1. ~clean
    BY <1>4 DEF IndicateDirect, SessionInv
  <2> QED
    BY <1>4, <2>1, SessionOver DEF IndicateDirect, histVars, SessionInv
<1>5. CASE IndicateDirectEnd
  <2>1. CASE clean
    <3>1. UNCHANGED <<session, clean, queue, enable, addpc>> /\ rxpc' = "idle"
      BY <1>5 DEF IndicateDirectEnd, baVars, histVars
    <3>2. NoGap'
      BY <1>5 DEF IndicateDirectEnd, histVars, SessionInv, NoGap
    <3> QED
      BY <1>5, <2>1, <3>1, <3>2 DEF IndicateDirectEnd, SessionInv
  <2>2. CASE ~clean
    BY <1>5, <2>2, SessionOver DEF IndicateDirectEnd, histVars, SessionInv
  <2> QED
    BY <2>1, <2>2
<1>6. CASE DropOld
  BY <1>6, SessionKept DEF DropOld, baVars, histVars
<1>7. CASE DropDuplicate
  <2>1. CASE clean
    BY <1>7, <2>1, DuplicateKeeps
  <2>2. CASE ~clean
    BY <1>7, <2>2, SessionOver DEF DropDuplicate, SessionInv
  <2> QED
    BY <2>1, <2>2
<1>8. CASE recv_indicatepkt_reorder
  <2>1. CASE ~clean
    BY <1>8, <2>1, UncleanKeeps DEF recv_indicatepkt_reorder
  <2>2. CASE clean /\ queue = <<>> /\ session = <<>>
    BY <1>8, <2>2, FirstKeeps
  <2>3. CASE clean /\ (queue # <<>> \/ session # <<>>)
    <3>1. PICK a \in Starts : Window(a)
      BY <2>3 DEF SessionInv
    <3> QED
      BY <1>8, <2>3, <3>1, NextKeeps
  <2> QED
    BY <2>1, <2>2, <2>3
<1>9. CASE CancelTimer
  BY <1>9, SessionKept DEF CancelTimer, baVars, histVars
<1>10. CASE TimerExpires
  BY <1>10, SessionKept DEF TimerExpires, baVars, histVars
<1>11. CASE rtw_reordering_ctrl_timeout_handler
  <2>1. CASE queue = <<>>
    <3>1. /\ UNCHANGED <<queue, indicate_seq, session, skipped, stopped, enable,
                         rxpc, addpc, clean, top>>
      BY <1>11, <2>1 DEF rtw_reordering_ctrl_timeout_handler, baVars
    <3> QED
      BY <3>1, SessionKept
  <2>2. CASE clean /\ queue # <<>>
    BY <1>11, <2>2, HandlerKeeps
  <2>3. CASE ~clean /\ queue # <<>>
    BY <1>11, <2>3, UncleanKeeps DEF rtw_reordering_ctrl_timeout_handler
  <2> QED
    BY <2>1, <2>2, <2>3
<1>12. CASE AddbaAnswer
  BY <1>12, SessionKept DEF AddbaAnswer, histVars
<1>13. CASE AddbaUnset \/ OnDelba \/ send_delba_sta_tid
  BY <1>13, SessionOver DEF AddbaUnset, OnDelba, send_delba_sta_tid
<1>14. CASE AddbaEnd
  BY <1>14, EnabledKeeps
<1>15. CASE PeerGetsDelba
  BY <1>15, SessionKept DEF PeerGetsDelba, histVars
<1>16. CASE FreeCancel
  BY <1>16, SessionKept DEF FreeCancel, baVars, histVars
<1>17. CASE FreeFlush
  BY <1>17, FlushKeeps
<1>18. CASE Stop
  BY <1>18, SessionKept DEF Stop, baVars, histVars
<1> QED
  BY <1>1, <1>2, <1>3, <1>4, <1>5, <1>6, <1>7, <1>8, <1>9, <1>10, <1>11,
     <1>12, <1>13, <1>14, <1>15, <1>16, <1>17, <1>18
  DEF Next, Rx, Timer, BlockAck

\* The three invariants hold in every reachable state.
LEMMA SessionAlways ==
  ASSUME MaxFrames + WSize <= 4096
  PROVE  Spec => [](TypeOK /\ PeerInv /\ SessionInv)
<1>1. Init => TypeOK /\ PeerInv /\ SessionInv
  BY TypeInit, PeerInit, SessionInit
<1>2. TypeOK /\ PeerInv /\ SessionInv /\ [Next]_vars => (TypeOK /\ PeerInv /\ SessionInv)'
  <2> SUFFICES ASSUME TypeOK, PeerInv, SessionInv, [Next]_vars
               PROVE  TypeOK' /\ PeerInv' /\ SessionInv'
    OBVIOUS
  <2>1. TypeOK'
    BY TypeNext
  <2>2. Numbers /\ Numbers'
    BY <2>1, TypeParts, PTL
  <2> QED
    BY <2>1, <2>2, PeerNext, SessionNext
<1> QED
  BY <1>1, <1>2, PTL DEF Spec

(***************************************************************************)
(* In every session that began with an empty buffer the frames are         *)
(* indicated in the order they were sent and none twice: for every window  *)
(* size, wherever the sequence number wraps, whatever was lost, repeated,  *)
(* forced out by the timer or shifted out by a frame beyond the window,    *)
(* and also when the unlocked writes of the block ack handlers interleave  *)
(* with the tasklet.  With MaxFrames + WSize above 4096 the peer could let *)
(* the whole number space pass while a frame is buffered.                  *)
(***************************************************************************)
THEOREM SessionInOrder ==
  ASSUME MaxFrames + WSize <= 4096
  PROVE  Spec => []InOrder
<1>1. SessionInv => InOrder
  <2>1. CASE clean /\ session # <<>>
    BY <2>1 DEF SessionInv, Window, Ascending, InOrder
  <2>2. CASE session = <<>>
    BY <2>2 DEF InOrder
  <2> QED
    BY <2>1, <2>2 DEF SessionInv
<1> QED
  BY <1>1, SessionAlways, PTL

(***************************************************************************)
(* A session that never gave up on a frame has indicated every frame since *)
(* its first one, under the same hypothesis.                               *)
(***************************************************************************)
THEOREM SessionWithoutGap ==
  ASSUME MaxFrames + WSize <= 4096
  PROVE  Spec => []NoGap
<1>1. SessionInv => NoGap
  BY DEF SessionInv
<1> QED
  BY <1>1, SessionAlways, PTL

(***************************************************************************)
(* Without the race of the block ack handlers with the tasklet, the start  *)
(* of the window of a session is not set, or never beyond the frame after  *)
(* the highest one taken.                                                  *)
(***************************************************************************)
StartKnown ==
  indicate_seq = Unset \/ \E a \in Starts : a <= top + 1 /\ indicate_seq = SN(a)

StartInv ==
  /\ enable \/ addpc = "enable" => StartKnown
  /\ rxpc \in {"have", "direct"} => addpc = "idle"
  /\ rxpc = "direct" => ~enable
  /\ \A i \in 1..Len(queue) : queue[i] <= top

\* The bound on the start holds initially.
LEMMA StartInit == Init => StartInv
BY DEF Init, StartInv

\* Steps that leave buffer and start alone keep the bound.
LEMMA StartKept ==
  ASSUME StartInv, UNCHANGED <<queue, top>>,
         indicate_seq' = indicate_seq \/ indicate_seq' = Unset,
         enable' => enable \/ (addpc = "enable" /\ rxpc' # "direct"),
         addpc' = "enable" => addpc = "enable" \/ indicate_seq' = Unset,
         rxpc' \in {"have", "direct"} => addpc' = "idle",
         rxpc' = "direct" => rxpc = "direct"
  PROVE  StartInv'
<1>1. StartKnown => StartKnown'
  BY DEF StartKnown
<1>2. indicate_seq' = Unset => StartKnown'
  BY DEF StartKnown
<1> QED
  BY <1>1, <1>2 DEF StartInv

(***************************************************************************)
(* An indication that begins with a window in bounds leaves it in bounds.  *)
(***************************************************************************)
LEMMA IndicatedInBounds ==
  ASSUME MaxFrames + WSize <= 2048, session \in Seq(Frames),
         NEW q \in Seq(Frames), NEW a \in Starts, Indicate(q, SN(a)),
         NEW t \in Frames, a <= t + 1, \A i \in 1..Len(q) : q[i] <= t
  PROVE  /\ \E b \in Starts : b <= t + 1 /\ indicate_seq' = SN(b)
         /\ \A i \in 1..Len(queue') : queue'[i] <= t
<1>0. /\ a \in Int /\ FirstFrame + 1 - WSize <= a /\ WSize \in Int /\ FirstFrame \in Int
      /\ MaxFrames \in Int /\ t \in Int /\ FirstFrame <= t /\ t <= FirstFrame + MaxFrames - 1
      /\ 2 <= WSize
  BY IntFrames DEF Starts
<1>1. /\ Ready(q, SN(a)) \in 0..Len(q)
      /\ indicate_seq' = StartAfter(q, SN(a))[Ready(q, SN(a))]
      /\ \A i \in 1..Len(queue') : i + Ready(q, SN(a)) \in 1..Len(q)
                                   /\ queue'[i] = q[i + Ready(q, SN(a))]
  BY IndicateParts
<1>2. Below(q, a, t)
  <2> SUFFICES ASSUME NEW i \in 1..Len(q)
               PROVE  q[i] <= t /\ t + 1 - q[i] < 4096 /\ q[i] - a < 4096
    BY DEF Below
  <2>1. q[i] \in Frames
    BY FrameNumber
  <2>2. q[i] \in Int /\ FirstFrame <= q[i] /\ q[i] <= FirstFrame + MaxFrames - 1
    BY <2>1, IntFrames
  <2>3. q[i] <= t
    OBVIOUS
  <2> QED
    BY <1>0, <2>2, <2>3
<1>3. PICK b \in Int : a <= b /\ b <= t + 1 /\ indicate_seq' = SN(b)
  <2>1. \A i \in 0..Len(q) :
          \E b \in Int : a <= b /\ b <= t + 1 /\ StartAfter(q, SN(a))[i] = SN(b)
    BY <1>0, <1>2, StartBetween
  <2> DEFINE k == Ready(q, SN(a))
  <2>2. k \in 0..Len(q) /\ indicate_seq' = StartAfter(q, SN(a))[k]
    BY <1>1
  <2> HIDE DEF k
  <2> QED
    BY <2>1, <2>2
<1>4. b \in Starts
  BY <1>0, <1>3 DEF Starts
<1>5. ASSUME NEW i \in 1..Len(queue') PROVE queue'[i] <= t
  <2>1. PICK j \in 1..Len(q) : queue'[i] = q[j]
    BY <1>1
  <2> QED
    BY <2>1
<1> QED
  BY <1>3, <1>4, <1>5

(***************************************************************************)
(* check_indicate_seq for a frame of the session.                          *)
(***************************************************************************)
LEMMA CheckedInBounds ==
  ASSUME Numbers, StartKnown, NEW t \in Frames, rxn <= t, top <= t
  PROVE  \E a \in Starts : a <= t + 1 /\ check_indicate_seq(SN(rxn)) = SN(a)
<1>0. /\ rxn \in Int /\ FirstFrame <= rxn /\ FirstFrame \in Int /\ top \in Int
      /\ WSize \in Int /\ 2 <= WSize /\ t \in Int
  BY IntFrames, PeerNumbers DEF Numbers
<1>1. CASE indicate_seq = Unset \/ SN(rxn) = indicate_seq
  <2>1. check_indicate_seq(SN(rxn)) = SN(rxn + 1)
    BY <1>0, <1>1, NextNumber DEF check_indicate_seq
  <2>2. rxn + 1 \in Starts /\ rxn + 1 <= t + 1
    BY <1>0 DEF Starts
  <2> QED
    BY <2>1, <2>2
<1>2. CASE ~(indicate_seq = Unset \/ SN(rxn) = indicate_seq) /\ BeyondWindow(SN(rxn))
  <2>1. check_indicate_seq(SN(rxn)) = SN(rxn + 1 - WSize)
    BY <1>0, <1>2, ShiftIsShift DEF check_indicate_seq
  <2>2. rxn + 1 - WSize \in Starts /\ rxn + 1 - WSize <= t + 1
    BY <1>0 DEF Starts
  <2> QED
    BY <2>1, <2>2
<1>3. CASE ~(indicate_seq = Unset \/ SN(rxn) = indicate_seq) /\ ~BeyondWindow(SN(rxn))
  <2>1. check_indicate_seq(SN(rxn)) = indicate_seq
    BY <1>3 DEF check_indicate_seq
  <2>2. PICK a \in Starts : a <= top + 1 /\ indicate_seq = SN(a)
    BY <1>3 DEF StartKnown
  <2>3. a <= t + 1
    BY <1>0, <2>2 DEF Starts
  <2> QED
    BY <2>1, <2>2, <2>3
<1> QED
  BY <1>1, <1>2, <1>3

\* A duplicate really is a frame that is buffered.
LEMMA DuplicateIsThere ==
  ASSUME MaxFrames + WSize <= 2048, Numbers, Duplicate(queue, rxn)
  PROVE  \E j \in 1..Len(queue) : queue[j] = rxn
<1>0. queue \in Seq(Frames) /\ Len(queue) \in Nat /\ rxn \in Frames
  BY DEF Numbers
<1>1. PICK j \in 1..Len(queue) : SN(queue[j]) = SN(rxn)
  <2>1. InsertPos(queue, rxn) \in 1..(Len(queue) + 1)
    BY <1>0, InsertPosStops
  <2>2. InsertPos(queue, rxn) <= Len(queue) /\ SN(queue[InsertPos(queue, rxn)]) = SN(rxn)
    BY DEF Duplicate
  <2> QED
    BY <1>0, <2>1, <2>2
<1>2. queue[j] \in Frames
  BY <1>0, FrameNumber
<1>3. /\ queue[j] \in Int /\ rxn \in Int
      /\ FirstFrame <= queue[j] /\ queue[j] <= FirstFrame + MaxFrames - 1
      /\ FirstFrame <= rxn /\ rxn <= FirstFrame + MaxFrames - 1
      /\ FirstFrame \in Int /\ MaxFrames \in Int /\ WSize \in Int /\ 2 <= WSize
  BY <1>0, <1>2, IntFrames
<1>4. queue[j] - rxn < 4096 /\ rxn - queue[j] < 4096
  BY <1>3
<1>5. queue[j] = rxn
  BY <1>1, <1>3, <1>4, SameIsSame
<1> QED
  BY <1>5

\* Taking a frame keeps the start within its bound.
LEMMA TakenInBounds ==
  ASSUME MaxFrames + WSize <= 2048, Numbers, StartInv, recv_indicatepkt_reorder
  PROVE  StartInv'
<1>0. /\ queue \in Seq(Frames) /\ session \in Seq(Frames) /\ rxn \in Frames
      /\ rxn \in Int /\ top \in Int /\ \A i \in 1..Len(queue) : queue[i] \in Int
  BY PeerNumbers, FrameNumber DEF Numbers
<1>1. /\ enable /\ rxpc = "have"
      /\ Indicate(Inserted(queue, rxn), check_indicate_seq(SN(rxn)))
      /\ top' = Higher(rxn) /\ rxpc' \notin {"have", "direct"}
      /\ UNCHANGED <<enable, addpc>>
  BY DEF recv_indicatepkt_reorder, baVars
<1>2. top' \in Frames /\ rxn <= top' /\ top <= top' /\ top' \in Int
  <2>1. top \in Frames \cup {-1}
    BY DEF Numbers
  <2>2. -1 < rxn
    BY <1>0, ReorderBoundsAssumption DEF Frames
  <2> QED
    BY <1>0, <1>1, <2>1, <2>2 DEF Higher
<1>3. PICK a \in Starts : a <= top' + 1 /\ check_indicate_seq(SN(rxn)) = SN(a)
  <2>1. StartKnown
    BY <1>1 DEF StartInv
  <2> QED
    BY <1>2, <2>1, CheckedInBounds
<1> DEFINE q == Inserted(queue, rxn)
<1>4. q \in Seq(Frames) /\ \A i \in 1..Len(q) : q[i] <= top'
  <2>1. /\ q \in Seq(Frames)
        /\ \A i \in 1..Len(q) : q[i] = rxn \/ \E j \in 1..Len(queue) : q[i] = queue[j]
    BY <1>0, InsertedFrames
  <2>2. \A j \in 1..Len(queue) : queue[j] <= top'
    BY <1>0, <1>2 DEF StartInv
  <2> HIDE DEF q
  <2> QED
    BY <1>2, <2>1, <2>2
<1>5. Indicate(q, SN(a))
  BY <1>1, <1>3
<1> HIDE DEF q
<1>6. /\ \E b \in Starts : b <= top' + 1 /\ indicate_seq' = SN(b)
      /\ \A i \in 1..Len(queue') : queue'[i] <= top'
  BY <1>0, <1>2, <1>3, <1>4, <1>5, IndicatedInBounds
<1> QED
  BY <1>1, <1>6 DEF StartInv, StartKnown

\* A forced indication keeps the start within its bound.
LEMMA ForcedInBounds ==
  ASSUME MaxFrames + WSize <= 2048, Numbers, StartInv,
         rtw_reordering_ctrl_timeout_handler, queue # <<>>
  PROVE  StartInv'
<1>0. /\ queue \in Seq(Frames) /\ session \in Seq(Frames) /\ Len(queue) \in Nat
      /\ 1 \in 1..Len(queue) /\ top \in Int
  BY PeerNumbers DEF Numbers
<1>1. /\ Indicate(queue, SN(queue[1])) /\ UNCHANGED <<enable, addpc, rxpc, top>>
  BY DEF rtw_reordering_ctrl_timeout_handler, baVars
<1> DEFINE a == queue[1]
<1>2. a \in Frames /\ a \in Int
  BY <1>0, FrameNumber
<1>3. a <= top
  BY <1>0 DEF StartInv
<1>4. Indicate(queue, SN(a))
  BY <1>1
<1> HIDE DEF a
<1>5. a \in Starts /\ top \in Frames /\ a <= top + 1
  <2>1. FirstFrame <= a /\ FirstFrame \in Int /\ WSize \in Int /\ 2 <= WSize /\ 0 <= FirstFrame
    BY <1>2, IntFrames, ReorderBoundsAssumption
  <2>2. top \in Frames \cup {-1}
    BY DEF Numbers
  <2> QED
    BY <1>0, <1>2, <1>3, <2>1, <2>2 DEF Starts
<1>6. \A i \in 1..Len(queue) : queue[i] <= top
  BY DEF StartInv
<1>7. /\ \E b \in Starts : b <= top + 1 /\ indicate_seq' = SN(b)
      /\ \A i \in 1..Len(queue') : queue'[i] <= top
  BY <1>0, <1>4, <1>5, <1>6, IndicatedInBounds
<1> QED
  BY <1>1, <1>7 DEF StartInv, StartKnown

\* Every step keeps the start within its bound.
LEMMA StartNext ==
  ASSUME ~Concurrent, MaxFrames + WSize <= 2048, Numbers, StartInv, [Next]_vars
  PROVE  StartInv'
<1>1. CASE UNCHANGED vars
  BY <1>1, StartKept DEF vars, StartInv
<1>2. CASE PeerSlides
  BY <1>2, StartKept DEF PeerSlides, baVars, StartInv
<1>3. ASSUME NEW n \in Frames, Receive(n) PROVE StartInv'
  BY <1>3, StartKept DEF Receive, baVars
<1>4. CASE IndicateDirect
  <2>1. ~enable' /\ addpc' = "idle" /\ queue' = queue /\ top' = Higher(rxn)
    BY <1>4 DEF IndicateDirect, baVars, StartInv
  <2>2. ASSUME NEW i \in 1..Len(queue) PROVE queue[i] <= Higher(rxn)
    <3>1. queue[i] <= top /\ queue[i] \in Int /\ rxn \in Int /\ top \in Int
      BY PeerNumbers, FrameNumber DEF Numbers, StartInv
    <3> QED
      BY <3>1 DEF Higher
  <2> QED
    BY <2>1, <2>2 DEF StartInv
<1>5. CASE IndicateDirectEnd
  BY <1>5 DEF IndicateDirectEnd, baVars, StartInv
<1>6. CASE DropOld
  BY <1>6, StartKept DEF DropOld, baVars, StartInv
<1>7. CASE DropDuplicate
  <2>1. /\ Duplicate(queue, rxn) /\ enable /\ rxpc' = "idle"
        /\ indicate_seq' = check_indicate_seq(SN(rxn))
        /\ UNCHANGED <<enable, addpc, queue, top>>
    BY <1>7 DEF DropDuplicate, baVars
  <2>2. PICK j \in 1..Len(queue) : queue[j] = rxn
    BY <2>1, DuplicateIsThere
  <2>3. rxn <= top
    BY <2>2 DEF StartInv
  <2>4. top \in Frames
    <3>1. -1 < rxn /\ rxn \in Int /\ top \in Frames \cup {-1}
      BY PeerNumbers, ReorderBoundsAssumption DEF Numbers, Frames
    <3> QED
      BY <2>3, <3>1
  <2>5. StartKnown /\ top <= top
    BY <2>1, PeerNumbers DEF StartInv
  <2>6. \E a \in Starts : a <= top + 1 /\ check_indicate_seq(SN(rxn)) = SN(a)
    BY <2>3, <2>4, <2>5, CheckedInBounds
  <2> QED
    BY <2>1, <2>6 DEF StartInv, StartKnown
<1>8. CASE recv_indicatepkt_reorder
  BY <1>8, TakenInBounds
<1>9. CASE CancelTimer
  BY <1>9, StartKept DEF CancelTimer, baVars, StartInv
<1>10. CASE TimerExpires
  BY <1>10, StartKept DEF TimerExpires, baVars, StartInv
<1>11. CASE rtw_reordering_ctrl_timeout_handler
  <2>1. CASE queue = <<>>
    <3>1. UNCHANGED <<queue, indicate_seq, enable, rxpc, addpc, top>>
      BY <1>11, <2>1 DEF rtw_reordering_ctrl_timeout_handler, baVars
    <3> QED
      BY <3>1, StartKept DEF StartInv
  <2>2. CASE queue # <<>>
    BY <1>11, <2>2, ForcedInBounds
  <2> QED
    BY <2>1, <2>2
<1>12. CASE AddbaAnswer
  BY <1>12, StartKept DEF AddbaAnswer, StartInv
<1>13. CASE AddbaUnset
  BY <1>13, StartKept DEF AddbaUnset, StartInv
<1>14. CASE AddbaEnd
  BY <1>14, StartKept DEF AddbaEnd, StartInv
<1>15. CASE OnDelba
  BY <1>15, StartKept DEF OnDelba, StartInv
<1>16. CASE send_delba_sta_tid
  BY <1>16, StartKept DEF send_delba_sta_tid, baVars, StartInv
<1>17. CASE PeerGetsDelba
  BY <1>17, StartKept DEF PeerGetsDelba, StartInv
<1>18. CASE FreeCancel
  BY <1>18, StartKept DEF FreeCancel, baVars, StartInv
<1>19. CASE FreeFlush
  <2>1. UNCHANGED <<indicate_seq, enable, rxpc, addpc, top>> /\ Len(queue') = 0
    BY <1>19 DEF FreeFlush, baVars
  <2> QED
    BY <2>1 DEF StartInv, StartKnown
<1>20. CASE Stop
  BY <1>20, StartKept DEF Stop, baVars, StartInv
<1> QED
  BY <1>1, <1>2, <1>3, <1>4, <1>5, <1>6, <1>7, <1>8, <1>9, <1>10, <1>11,
     <1>12, <1>13, <1>14, <1>15, <1>16, <1>17, <1>18, <1>19, <1>20
  DEF Next, Rx, Timer, BlockAck

(***************************************************************************)
(* A step takes the frame in the tasklet's hand if it is newer than all    *)
(* that were taken before.                                                 *)
(***************************************************************************)
LEMMA FreshStep ==
  ASSUME MaxFrames + WSize <= 2048, Numbers, StartInv, [Next]_vars,
         rxpc = "have", rxpc' # "have", rxn > top
  PROVE  top' = rxn
<1>0. /\ rxn \in Int /\ top \in Int /\ WSize \in Int /\ 2 <= WSize /\ FirstFrame \in Int
      /\ MaxFrames \in Int /\ rxn <= FirstFrame + MaxFrames - 1
  BY IntFrames, PeerNumbers DEF Numbers
<1>1. CASE IndicateDirect \/ recv_indicatepkt_reorder
  <2>1. top' = Higher(rxn)
    BY <1>1 DEF IndicateDirect, recv_indicatepkt_reorder
  <2> QED
    BY <2>1 DEF Higher
<1>2. CASE DropOld
  <2>1. enable /\ indicate_seq # Unset /\ SN_LESS(SN(rxn), indicate_seq)
    BY <1>2 DEF DropOld, TooOld
  <2>2. PICK a \in Starts : a <= top + 1 /\ indicate_seq = SN(a)
    BY <2>1 DEF StartInv, StartKnown
  <2>3. a \in Int /\ a <= rxn /\ rxn - a < 2048 /\ a - rxn < 2048
    BY <1>0, <2>2 DEF Starts
  <2>4. ~SN_LESS(SN(rxn), SN(a))
    BY <1>0, <2>3, LessIsLess
  <2> QED
    BY <2>1, <2>2, <2>4
<1>3. CASE DropDuplicate
  <2>1. PICK j \in 1..Len(queue) : queue[j] = rxn
    BY <1>3, DuplicateIsThere DEF DropDuplicate
  <2>2. rxn <= top
    BY <2>1 DEF StartInv
  <2> QED
    BY <1>0, <2>2
<1>4. CASE \/ UNCHANGED vars \/ PeerSlides \/ Timer \/ BlockAck
           \/ FreeCancel \/ FreeFlush \/ Stop
  <2>1. rxpc' = rxpc
    BY <1>4 DEF vars, PeerSlides, Timer, TimerExpires,
       rtw_reordering_ctrl_timeout_handler, BlockAck, AddbaAnswer, AddbaUnset,
       AddbaEnd, OnDelba, send_delba_sta_tid, PeerGetsDelba, FreeCancel,
       FreeFlush, Stop
  <2> QED
    BY <2>1
<1>5. CASE (\E n \in Frames : Receive(n)) \/ IndicateDirectEnd \/ CancelTimer
  BY <1>5 DEF Receive, IndicateDirectEnd, CancelTimer
<1> QED
  BY <1>1, <1>2, <1>3, <1>4, <1>5 DEF Next, Rx

(***************************************************************************)
(* A frame newer than all that were taken before is never dropped, whatever*)
(* the order of frames, timer and block ack requests, as long as no frame  *)
(* is handled while add_ba_rsp_hdl is between its two unlocked writes, and *)
(* as long as fewer frames are sent than SN_LESS can tell apart.           *)
(***************************************************************************)
THEOREM FreshTaken ==
  ASSUME ~Concurrent, MaxFrames + WSize <= 2048
  PROVE  Spec => FreshIsTaken
<1>1. Init => TypeOK /\ StartInv
  BY TypeInit, StartInit
<1>2. TypeOK /\ StartInv /\ [Next]_vars => (TypeOK /\ StartInv)'
  <2> SUFFICES ASSUME TypeOK, StartInv, [Next]_vars
               PROVE  TypeOK' /\ StartInv'
    OBVIOUS
  <2>1. TypeOK'
    BY TypeNext
  <2> QED
    BY <2>1, StartNext, TypeParts
<1>3. TypeOK /\ StartInv /\ [Next]_vars =>
        [rxpc = "have" /\ rxpc' # "have" /\ rxn > top => top' = rxn]_vars
  BY FreshStep, TypeParts
<1> QED
  BY <1>1, <1>2, <1>3, PTL DEF Spec, FreshIsTaken
==============================================================================
