--------------------------- MODULE XmitPoolProofs ---------------------------
(***************************************************************************)
(* Proof that the pools of the transmit path are conserved, for any number *)
(* of categories, frames and buffers: every xmit_frame and every transmit  *)
(* buffer is in exactly one place, apart from the frames that              *)
(* xmit_xmitframes is known to lose; and that every variable keeps its     *)
(* type.                                                                   *)
(***************************************************************************)
EXTENDS XmitOrderProofs, FiniteSetTheorems, WellFoundedInduction

(***************************************************************************)
(* Every set of natural numbers that is not empty has a least element:     *)
(* induction, in a form that can be instantiated.                          *)
(***************************************************************************)
LEMMA NatMin ==
  ASSUME NEW T \in SUBSET Nat, T # {}
  PROVE  \E n \in T : \A k \in T : n <= k
<1> DEFINE R == OpToRel(<, Nat)
<1>1. IsWellFoundedOn(R, Nat)
  BY NatLessThanWellFounded
<1>2. \A k, n \in Nat : k < n => <<k, n>> \in R
  BY DEF OpToRel
<1> HIDE DEF R
<1>3. PICK n \in T : \A k \in T : ~(<<k, n>> \in R)
  BY <1>1, WFMin
<1>4. \A k \in T : ~(k < n)
  BY <1>2, <1>3
<1> QED
  BY <1>4

-----------------------------------------------------------------------------
(***************************************************************************)
(* The frames.  Chain(f) adds them up category by category, f[a] being     *)
(* the number of frames that are free, lost, packed first, or queued in    *)
(* one of the categories 1..a.                                             *)
(***************************************************************************)
Held == IF xbuf # <<>> THEN 1 ELSE 0

Chain(f) ==
  /\ f \in [Pools -> Int]
  /\ f[0] = free_cnt + lost + Held
  /\ \A a \in ACs : f[a] = f[a - 1] + InQueues(a)
  /\ f[NumACs] = NumFrames

FrameInv == free_cnt \in Nat /\ \E f : Chain(f)

\* The number of frames of a category is natural.
LEMMA InQueuesType == PackInv => \A a \in ACs : InQueues(a) \in Nat
<1> SUFFICES ASSUME PackInv, NEW a \in ACs PROVE InQueues(a) \in Nat
  OBVIOUS
<1>1. Len(pending[a]) \in Nat
  BY LenProperties DEF PackInv
<1>2. CASE entry[a] = "hal"
  BY <1>1, <1>2 DEF InQueues
<1>3. CASE entry[a] # "hal"
  BY <1>1, <1>3 DEF InQueues
<1> QED
  BY <1>2, <1>3

\* The indices of the categories and of the partial sums.
LEMMA ACsInPools ==
  /\ 0 \in Pools /\ NumACs \in Pools /\ NumACs \in Nat
  /\ \A x \in Pools : x \in Nat /\ x <= NumACs
  /\ \A a \in ACs : a \in Pools /\ a - 1 \in Pools /\ a \in Nat
  /\ \A x \in Pools : x # 0 => x \in ACs
BY XmitAssumption DEF Pools, ACs

(***************************************************************************)
(* What the pools hold never exceeds the number of frames, so that the     *)
(* sums of PoolsConserved are in its range.                                *)
(***************************************************************************)
LEMMA ChainBounded ==
  ASSUME PackInv, free_cnt \in Nat, NEW f, Chain(f)
  PROVE  f \in [Pools -> 0..NumFrames]
<1>1. \A a \in ACs : InQueues(a) \in Nat
  BY InQueuesType
<1>2. \A x \in Pools : f[x] \in Int
  BY DEF Chain
<1>3. \A x \in Pools : f[x] >= 0
  <2> DEFINE T == {x \in Pools : f[x] < 0}
  <2> SUFFICES ASSUME T # {} PROVE FALSE
    BY <1>2
  <2>1. T \in SUBSET Nat
    BY ACsInPools
  <2>2. PICK n \in T : \A k \in T : n <= k
    BY <2>1, NatMin
  <2>3. f[0] >= 0
    BY DEF Chain, PackInv, Held
  <2>4. n # 0 /\ n \in ACs
    BY <1>2, <2>3, ACsInPools
  <2>5. n - 1 \in Pools /\ n - 1 < n /\ n \in Nat
    BY <2>4, ACsInPools
  <2>6. f[n - 1] >= 0
    BY <1>2, <2>2, <2>5
  <2>7. f[n] = f[n - 1] + InQueues(n)
    BY <2>4 DEF Chain
  <2> QED
    BY <1>1, <1>2, <2>4, <2>5, <2>6, <2>7
<1>4. \A x \in Pools : f[x] <= NumFrames
  <2> DEFINE T == {y \in Pools : f[NumACs - y] > NumFrames}
  <2>0. \A y \in Pools : NumACs - y \in Pools /\ NumACs - (NumACs - y) = y
    BY XmitAssumption DEF Pools
  <2>1. T \in SUBSET Nat
    BY ACsInPools
  <2>2. CASE T # {}
    <3>1. PICK n \in T : \A k \in T : n <= k
      BY <2>1, <2>2, NatMin
    <3>2. f[NumACs - 0] = NumFrames
      BY ACsInPools DEF Chain
    <3>3. n # 0 /\ n \in ACs
      <4>1. f[NumACs - n] > NumFrames /\ n \in Pools
        OBVIOUS
      <4>2. ~(f[NumACs - 0] > NumFrames)
        BY <3>2, XmitAssumption
      <4> QED
        BY <4>1, <4>2, ACsInPools
    <3>4. n - 1 \in Pools /\ n - 1 < n
      BY <3>3, ACsInPools
    <3>5. f[NumACs - (n - 1)] <= NumFrames
      <4>1. n - 1 \notin T
        BY <2>1, <3>1, <3>4
      <4>2. f[NumACs - (n - 1)] \in Int
        BY <1>2, <2>0, <3>4
      <4> QED
        BY <3>4, <4>1, <4>2, XmitAssumption
    <3>6. NumACs - (n - 1) \in ACs /\ NumACs - (n - 1) - 1 = NumACs - n
      BY <3>3, XmitAssumption DEF ACs
    <3>7. f[NumACs - (n - 1)] = f[NumACs - n] + InQueues(NumACs - (n - 1))
      BY <3>6 DEF Chain
    <3>8. f[NumACs - n] > NumFrames /\ f[NumACs - n] \in Int
      BY <1>2, <2>0, <3>1
    <3> QED
      BY <1>1, <3>5, <3>6, <3>7, <3>8, XmitAssumption
  <2>3. CASE T = {}
    <3> TAKE x \in Pools
    <3>1. ~(f[NumACs - (NumACs - x)] > NumFrames)
      BY <2>0, <2>3
    <3> QED
      BY <1>2, <2>0, <3>1, XmitAssumption
  <2> QED
    BY <2>2, <2>3
<1> QED
  BY <1>2, <1>3, <1>4, XmitAssumption DEF Chain

(***************************************************************************)
(* A step that moves d frames out of the queue of a, or back.              *)
(***************************************************************************)
LEMMA FramesMoved ==
  ASSUME PackInv, PackInv', FrameInv, free_cnt' \in Nat, NEW a \in ACs, NEW d \in Int,
         free_cnt' + lost' + Held' = free_cnt + lost + Held + d,
         InQueues(a)' = InQueues(a) - d,
         \A c \in ACs \ {a} : InQueues(c)' = InQueues(c)
  PROVE  FrameInv'
<1>1. PICK f : Chain(f)
  BY DEF FrameInv
<1> DEFINE g == [x \in Pools |-> IF x < a THEN f[x] + d ELSE f[x]]
<1>2. \A c \in ACs : InQueues(c) \in Nat
  BY InQueuesType
<1>3. \A x \in Pools : f[x] \in Int
  BY <1>1 DEF Chain
<1>4. g \in [Pools -> Int]
  BY <1>3
<1>5. g[0] = free_cnt' + lost' + Held'
  <2>1. 0 < a /\ 0 \in Pools
    BY XmitAssumption DEF ACs, Pools
  <2>2. f[0] = free_cnt + lost + Held
    BY <1>1 DEF Chain
  <2> QED
    BY <2>1, <2>2
<1>6. g[NumACs] = NumFrames
  <2>1. NumACs \in Pools /\ ~(NumACs < a)
    BY XmitAssumption DEF ACs, Pools
  <2> QED
    BY <1>1, <2>1 DEF Chain
<1>7. \A c \in ACs : g[c] = g[c - 1] + InQueues(c)'
  <2> TAKE c \in ACs
  <2>1. c \in Pools /\ c - 1 \in Pools /\ a \in Int /\ c \in Int
    BY XmitAssumption DEF ACs, Pools
  <2>2. f[c] = f[c - 1] + InQueues(c) /\ f[c] \in Int /\ f[c - 1] \in Int
    BY <1>1, <1>3, <2>1 DEF Chain
  <2>3. CASE c = a
    <3>1. g[c] = f[c] /\ g[c - 1] = f[c - 1] + d
      BY <2>1, <2>3
    <3> QED
      BY <1>2, <2>2, <2>3, <3>1
  <2>4. CASE c < a
    <3>1. g[c] = f[c] + d /\ g[c - 1] = f[c - 1] + d
      BY <2>1, <2>4
    <3>2. InQueues(c)' = InQueues(c)
      BY <2>1, <2>4
    <3> QED
      BY <1>2, <2>2, <3>1, <3>2
  <2>5. CASE c > a
    <3>1. g[c] = f[c] /\ g[c - 1] = f[c - 1]
      BY <2>1, <2>5
    <3>2. InQueues(c)' = InQueues(c)
      BY <2>1, <2>5
    <3> QED
      BY <2>2, <3>1, <3>2
  <2> QED
    BY <2>1, <2>3, <2>4, <2>5
<1> HIDE DEF g
<1>8. Chain(g)'
  BY <1>4, <1>5, <1>6, <1>7 DEF Chain
<1> QED
  BY <1>8 DEF FrameInv


-----------------------------------------------------------------------------
\* A step that takes as many frames as it gives keeps the sums.
LEMMA FramesKept ==
  ASSUME PackInv, PackInv', FrameInv, free_cnt' \in Nat,
         free_cnt' + lost' + Held' = free_cnt + lost + Held,
         \A c \in ACs : InQueues(c)' = InQueues(c)
  PROVE  FrameInv'
<1>1. 1 \in ACs /\ InQueues(1) \in Nat
  BY InQueuesType, XmitAssumption DEF ACs
<1>2. /\ free_cnt \in Nat /\ lost \in Nat /\ Held \in Nat
  BY DEF FrameInv, PackInv, Held
<1> QED
  BY <1>1, <1>2, FramesMoved, 0 \in Int

\* A step that leaves the frames alone keeps the sums.
LEMMA FramesQuiet ==
  ASSUME FrameInv, UNCHANGED <<free_cnt, lost, xbuf, pending, entry>>
  PROVE  FrameInv'
BY DEF FrameInv, Chain, Held, InQueues

\* All frames are free initially.
LEMMA FrameInit == Init => FrameInv
<1> SUFFICES ASSUME Init PROVE FrameInv
  OBVIOUS
<1>1. \A a \in ACs : InQueues(a) = 0
  BY DEF Init, InQueues
<1>2. free_cnt = NumFrames /\ lost = 0 /\ Held = 0
  BY DEF Init, Held
<1> DEFINE f == [x \in Pools |-> NumFrames]
<1>3. Chain(f)
  BY <1>1, <1>2, ACsInPools, XmitAssumption DEF Chain
<1> QED
  BY <1>2, <1>3, XmitAssumption DEF FrameInv

\* A frame goes from or to the head of the queue of category a.
LEMMA QueuePopped ==
  ASSUME PackInv, NEW a \in ACs, pending[a] # <<>>,
         pending' = [pending EXCEPT ![a] = Tail(@)], UNCHANGED entry
  PROVE  /\ InQueues(a)' = InQueues(a) - 1
         /\ \A c \in ACs \ {a} : InQueues(c)' = InQueues(c)
<1>1. pending[a] \in Seq(Nat) /\ pending \in [ACs -> Seq(Nat)]
  BY DEF PackInv
<1>2. Len(Tail(pending[a])) = Len(pending[a]) - 1 /\ Len(pending[a]) \in Nat
  BY <1>1, HeadTailProperties, LenProperties
<1>3. Len(pending'[a]) = Len(pending[a]) - 1
  BY <1>1, <1>2
<1>4. \A c \in ACs \ {a} : pending'[c] = pending[c]
  BY <1>1
<1>5. InQueues(a)' = InQueues(a) - 1
  <2>1. entry'[a] = entry[a]
    OBVIOUS
  <2>2. CASE entry[a] = "hal"
    BY <1>2, <1>3, <2>1, <2>2 DEF InQueues
  <2>3. CASE entry[a] # "hal"
    BY <1>2, <1>3, <2>1, <2>3 DEF InQueues
  <2> QED
    BY <2>2, <2>3
<1> QED
  BY <1>4, <1>5 DEF InQueues

(***************************************************************************)
(* FrameInv is inductive.                                                  *)
(***************************************************************************)
LEMMA FrameNext ==
  PackInv /\ PackInv' /\ FrameInv /\ [Next]_vars => FrameInv'
<1> SUFFICES ASSUME PackInv, PackInv', FrameInv, [Next]_vars PROVE FrameInv'
  OBVIOUS
<1>0. /\ free_cnt \in Nat /\ lost \in Nat /\ lost' \in Nat
      /\ Held \in {0, 1} /\ Held' \in {0, 1}
      /\ \A a \in ACs : InQueues(a) \in Nat
  BY InQueuesType DEF FrameInv, PackInv, Held
<1>1. ASSUME NEW a \in ACs, XmitEntry(a) PROVE FrameInv'
  <2>1. \A c \in ACs : InQueues(c)' = InQueues(c)
    BY <1>1 DEF XmitEntry, InQueues, frmVars, PackInv
  <2>2. UNCHANGED <<free_cnt, lost, Held>>
    BY <1>1 DEF XmitEntry, frmVars, xVars, Held
  <2> QED
    BY <1>0, <2>1, <2>2, FramesKept
<1>2. ASSUME NEW a \in ACs, StopSubqueue(a) \/ DropPacket(a) PROVE FrameInv'
  <2>1. \A c \in ACs : InQueues(c)' = InQueues(c)
    BY <1>2 DEF StopSubqueue, DropPacket, InQueues, frmVars, PackInv
  <2>2. UNCHANGED <<free_cnt, lost, Held>>
    BY <1>2 DEF StopSubqueue, DropPacket, frmVars, xVars, Held
  <2> QED
    BY <1>0, <2>1, <2>2, FramesKept
<1>3. ASSUME NEW a \in ACs, AllocFrame(a) PROVE FrameInv'
  <2>1. /\ free_cnt > 0 /\ free_cnt' = free_cnt - 1 /\ UNCHANGED <<lost, xbuf>>
        /\ entry[a] = "alloc" /\ entry' = [entry EXCEPT ![a] = "hal"]
        /\ UNCHANGED pending
    BY <1>3 DEF AllocFrame, xVars
  <2>2. /\ entry'[a] = "hal" /\ \A c \in ACs \ {a} : entry'[c] = entry[c]
    BY <2>1 DEF PackInv
  <2>3. Len(pending[a]) \in Nat
    BY LenProperties DEF PackInv
  <2>4. /\ InQueues(a)' = InQueues(a) - (-1)
        /\ \A c \in ACs \ {a} : InQueues(c)' = InQueues(c)
    BY <2>1, <2>2, <2>3 DEF InQueues
  <2>5. Held' = Held
    BY <2>1 DEF Held
  <2>6. free_cnt' \in Nat /\ free_cnt' + lost' + Held' = free_cnt + lost + Held + (-1)
    BY <1>0, <2>1, <2>5
  <2> QED
    BY <2>4, <2>6, FramesMoved, -1 \in Int
<1>4. ASSUME NEW a \in ACs, DropFrame(a) PROVE FrameInv'
  <2>1. /\ free_cnt' = free_cnt + 1 /\ UNCHANGED <<lost, xbuf>>
        /\ entry[a] = "hal" /\ entry' = [entry EXCEPT ![a] = "idle"]
        /\ UNCHANGED pending
    BY <1>4 DEF DropFrame, xVars
  <2>2. /\ entry'[a] = "idle" /\ \A c \in ACs \ {a} : entry'[c] = entry[c]
    BY <2>1 DEF PackInv
  <2>3. Len(pending[a]) \in Nat
    BY LenProperties DEF PackInv
  <2>4. /\ InQueues(a)' = InQueues(a) - 1
        /\ \A c \in ACs \ {a} : InQueues(c)' = InQueues(c)
    <3>1. InQueues(a)' = Len(pending[a]) /\ InQueues(a) = Len(pending[a]) + 1
      <4>1. InQueues(a) = Len(pending[a]) + 1
        BY <2>1 DEF InQueues
      <4>2. InQueues(a)' = Len(pending[a]) + 0
        BY <2>1, <2>2, "idle" # "hal", Zenon DEF InQueues
      <4> QED
        BY <2>3, <4>1, <4>2
    <3>2. \A c \in ACs \ {a} : InQueues(c)' = InQueues(c)
      BY <2>1, <2>2 DEF InQueues
    <3> QED
      BY <2>3, <3>1, <3>2
  <2>5. Held' = Held
    BY <2>1 DEF Held
  <2>6. free_cnt' \in Nat /\ free_cnt' + lost' + Held' = free_cnt + lost + Held + 1
    BY <1>0, <2>1, <2>5
  <2> QED
    BY <2>4, <2>6, FramesMoved, 1 \in Int
<1>5. ASSUME NEW a \in ACs, hal_xmit(a) PROVE FrameInv'
  <2>1. /\ pending' = [pending EXCEPT ![a] = Append(@, hand[a])]
        /\ entry[a] = "hal" /\ entry' = [entry EXCEPT ![a] = "idle"]
        /\ UNCHANGED <<free_cnt, lost, xbuf>>
    BY <1>5 DEF hal_xmit
  <2>2. pending[a] \in Seq(Nat) /\ hand[a] \in Nat /\ Len(pending[a]) \in Nat
    BY LenProperties DEF PackInv
  <2>3. Len(Append(pending[a], hand[a])) = Len(pending[a]) + 1
    BY <2>2, AppendProperties
  <2>4. /\ entry'[a] = "idle" /\ pending'[a] = Append(pending[a], hand[a])
        /\ \A c \in ACs \ {a} : entry'[c] = entry[c] /\ pending'[c] = pending[c]
    BY <2>1 DEF PackInv
  <2>5. \A c \in ACs : InQueues(c)' = InQueues(c)
    <3>1. InQueues(a)' = Len(pending[a]) + 1 /\ InQueues(a) = Len(pending[a]) + 1
      <4>1. InQueues(a) = Len(pending[a]) + 1
        BY <2>1 DEF InQueues
      <4>2. InQueues(a)' = Len(pending'[a]) + 0
        BY <2>4, "idle" # "hal", Zenon DEF InQueues
      <4> QED
        BY <2>2, <2>3, <2>4, <4>1, <4>2
    <3>2. \A c \in ACs \ {a} : InQueues(c)' = InQueues(c)
      BY <2>4 DEF InQueues
    <3> QED
      BY <3>1, <3>2
  <2>6. UNCHANGED <<free_cnt, lost, Held>>
    BY <2>1 DEF Held
  <2> QED
    BY <1>0, <2>5, <2>6, FramesKept
<1>6. ASSUME FlushBuf, xbuf # <<>>, UNCHANGED <<entry, pending, lost>>
      PROVE  FrameInv'
  <2>1. Held = 1 /\ Held' = 0 /\ free_cnt' = free_cnt + 1
    BY <1>6 DEF FlushBuf, Held
  <2>2. \A c \in ACs : InQueues(c)' = InQueues(c)
    BY <1>6 DEF InQueues
  <2>3. free_cnt' \in Nat /\ free_cnt' + lost' + Held' = free_cnt + lost + Held
    BY <1>0, <1>6, <2>1
  <2> QED
    BY <2>2, <2>3, FramesKept
<1>7. CASE XFlush
  BY <1>6, <1>7 DEF XFlush
<1>8. CASE XDump
  <2>1. CASE FlushBuf /\ xbuf # <<>>
    BY <1>6, <1>8, <2>1 DEF XDump
  <2>2. CASE UNCHANGED <<free_cnt, xbuf>>
    BY <1>8, <2>2, FramesQuiet DEF XDump
  <2> QED
    BY <1>8, <2>1, <2>2 DEF XDump
<1>9. CASE XCoalesce
  <2>1. /\ pending[xac] # <<>> /\ xac \in ACs
        /\ pending' = [pending EXCEPT ![xac] = Tail(@)]
        /\ xbuf' = Append(xbuf, Head(pending[xac]))
        /\ UNCHANGED <<entry, lost>>
        /\ IF xbuf = <<>> THEN UNCHANGED free_cnt ELSE free_cnt' = free_cnt + 1
    BY <1>9 DEF XCoalesce, PackInv
  <2>2. xbuf' # <<>>
    <3>1. pending[xac] \in Seq(Nat) /\ xbuf \in Seq(Nat)
      BY <2>1 DEF PackInv
    <3>2. Head(pending[xac]) \in Nat
      BY <2>1, <3>1, HeadTailProperties
    <3> QED
      BY <2>1, <3>1, <3>2, AppendProperties
  <2>3. free_cnt' \in Nat /\ free_cnt' + lost' + Held' = free_cnt + lost + Held + 1
    BY SMTT(30), <1>0, <2>1, <2>2 DEF Held
  <2>4. PICK a \in ACs : a = xac
    BY <2>1
  <2>5. pending' = [pending EXCEPT ![a] = Tail(@)] /\ pending[a] # <<>>
    BY <2>1, <2>4
  <2>6. /\ InQueues(a)' = InQueues(a) - 1
        /\ \A c \in ACs \ {a} : InQueues(c)' = InQueues(c)
    BY <2>1, <2>5, QueuePopped
  <2> QED
    BY <2>3, <2>6, FramesMoved, 1 \in Int
<1>10. CASE XCoalesceFails
  <2>1. /\ pending[xac] # <<>> /\ xac \in ACs
        /\ pending' = [pending EXCEPT ![xac] = Tail(@)]
        /\ UNCHANGED <<entry, xbuf>>
        /\ \/ lost' = lost + 1 /\ UNCHANGED free_cnt
           \/ free_cnt' = free_cnt + 1 /\ UNCHANGED lost
    BY <1>10 DEF XCoalesceFails, PackInv
  <2>2. Held' = Held
    BY <2>1 DEF Held
  <2>3. free_cnt' \in Nat /\ free_cnt' + lost' + Held' = free_cnt + lost + Held + 1
    BY <1>0, <2>1, <2>2
  <2>4. PICK a \in ACs : a = xac
    BY <2>1
  <2>5. pending' = [pending EXCEPT ![a] = Tail(@)] /\ pending[a] # <<>>
    BY <2>1, <2>4
  <2>6. /\ InQueues(a)' = InQueues(a) - 1
        /\ \A c \in ACs \ {a} : InQueues(c)' = InQueues(c)
    BY <2>1, <2>5, QueuePopped
  <2> QED
    BY <2>3, <2>6, FramesMoved, 1 \in Int
<1>11. CASE XDown \/ XNext \/ XCategory \/ XAllocBuf \/ XEnd
  BY <1>11, FramesQuiet DEF XDown, XNext, XCategory, XAllocBuf, XEnd, netVars, frmVars
<1>12. CASE BStep \/ ChipSends
  BY <1>12, FramesQuiet DEF BStep, BDown, BSelect, BShort, wait_enough_TxOQT_space,
     BWrite, ChipSends, netVars, frmVars, xVars
<1>13. CASE SurveyStart \/ ScanStep \/ DevUnload
  BY <1>13, FramesQuiet DEF SurveyStart, ScanStep, SurveyComplete,
     os_xmit_schedule, DevUnload, netVars, frmVars, xVars
<1>14. ASSUME NEW p \in BOOLEAN, mgnt_xmit(p) PROVE FrameInv'
  BY <1>14, FramesQuiet DEF mgnt_xmit, netVars, frmVars, xVars
<1>15. CASE UNCHANGED vars
  BY <1>15, FramesQuiet DEF vars, netVars, frmVars, xVars
<1> QED
  BY <1>1, <1>2, <1>3, <1>4, <1>5, <1>7, <1>8, <1>9, <1>10, <1>11, <1>12, <1>13,
     <1>14, <1>15 DEF Next, EntryStep, XStep

-----------------------------------------------------------------------------
(***************************************************************************)
(* The transmit buffers.  How many of a queue belong to a pool B.          *)
(***************************************************************************)
Of(q, B) == {i \in DOMAIN q : q[i] \in B}

Count(q, B) == Cardinality(Of(q, B))

\* The places of a queue that hold a buffer of B are finitely many.
LEMMA OfFinite ==
  ASSUME NEW S, NEW q \in Seq(S), NEW B
  PROVE  IsFiniteSet(Of(q, B)) /\ Count(q, B) \in Nat
<1>1. Len(q) \in Nat /\ DOMAIN q = 1 .. Len(q)
  BY LenProperties
<1>2. Of(q, B) \in SUBSET Nat /\ \A i \in Of(q, B) : i <= Len(q)
  BY <1>1 DEF Of
<1>3. IsFiniteSet(Of(q, B))
  BY <1>1, <1>2, FS_BoundedSetOfNaturals
<1> QED
  BY <1>3, FS_CardinalityType DEF Count

\* A buffer appended to a queue counts one.
LEMMA CountAppend ==
  ASSUME NEW S, NEW q \in Seq(S), NEW e \in S, NEW B
  PROVE  Count(Append(q, e), B) = Count(q, B) + (IF e \in B THEN 1 ELSE 0)
<1>1. /\ Append(q, e) \in Seq(S) /\ Len(Append(q, e)) = Len(q) + 1
      /\ \A i \in 1 .. Len(q) : Append(q, e)[i] = q[i]
      /\ Append(q, e)[Len(q) + 1] = e
  BY AppendProperties
<1>2. /\ Len(q) \in Nat /\ DOMAIN q = 1 .. Len(q)
      /\ DOMAIN Append(q, e) = 1 .. Len(q) + 1
  BY <1>1, LenProperties
<1>3. IsFiniteSet(Of(q, B)) /\ Len(q) + 1 \notin Of(q, B) /\ Count(q, B) \in Nat
  <2>1. Len(q) + 1 \notin Of(q, B)
    BY <1>2 DEF Of
  <2> QED
    BY <2>1, OfFinite
<1>4. CASE e \in B
  <2>1. Of(Append(q, e), B) = Of(q, B) \cup {Len(q) + 1}
    BY <1>1, <1>2, <1>4 DEF Of
  <2> QED
    BY <1>3, <1>4, <2>1, FS_AddElement DEF Count
<1>5. CASE e \notin B
  <2>1. Of(Append(q, e), B) = Of(q, B)
    BY <1>1, <1>2, <1>5 DEF Of
  <2> QED
    BY <1>3, <1>5, <2>1 DEF Count
<1> QED
  BY <1>4, <1>5

(***************************************************************************)
(* Taking the i-th buffer out of a queue: the others keep their places, or *)
(* move up by one.                                                         *)
(***************************************************************************)
LEMMA CountWithout ==
  ASSUME NEW S, NEW q \in Seq(S), NEW i \in DOMAIN q, NEW B
  PROVE  Count(Without(q, i), B) + (IF q[i] \in B THEN 1 ELSE 0) = Count(q, B)
<1> DEFINE w == Without(q, i)
           g == [k \in Of(w, B) |-> IF k < i THEN k ELSE k + 1]
<1>1. /\ Len(q) \in Nat /\ DOMAIN q = 1 .. Len(q) /\ i \in 1 .. Len(q)
      /\ DOMAIN w = 1 .. Len(q) - 1
      /\ \A k \in 1 .. Len(q) - 1 : w[k] = IF k < i THEN q[k] ELSE q[k + 1]
  <2>1. /\ w \in Seq(S) /\ Len(w) = Len(q) - 1
        /\ \A k \in 1 .. Len(q) - 1 : w[k] = IF k < i THEN q[k] ELSE q[k + 1]
    BY WithoutIndex
  <2> HIDE DEF w
  <2> QED
    BY <2>1, LenProperties
<1>2. w \in Seq(S)
  BY WithoutIndex
<1> HIDE DEF w
<1>3. IsFiniteSet(Of(w, B)) /\ IsFiniteSet(Of(q, B)) /\ Count(q, B) \in Nat
  BY <1>2, OfFinite
<1>4. \A k \in Of(w, B) : /\ k \in Nat /\ g[k] \in Of(q, B) \ {i}
                          /\ g[k] = IF k < i THEN k ELSE k + 1
  BY <1>1 DEF Of
<1>5. g \in Injection(Of(w, B), Of(q, B) \ {i})
  <2>1. g \in [Of(w, B) -> Of(q, B) \ {i}]
    BY <1>4
  <2>2. \A j, k \in Of(w, B) : g[j] = g[k] => j = k
    BY <1>1, <1>4
  <2> QED
    BY <2>1, <2>2 DEF Injection, IsInjective
<1>6. g \in Surjection(Of(w, B), Of(q, B) \ {i})
  <2>1. ASSUME NEW j \in Of(q, B) \ {i}
        PROVE  \E k \in Of(w, B) : g[k] = j
    <3>1. j \in 1 .. Len(q) /\ j # i /\ q[j] \in B
      BY <1>1 DEF Of
    <3>2. CASE j < i
      <4>1. j \in Of(w, B)
        BY <1>1, <3>1, <3>2 DEF Of
      <4> QED
        BY <3>2, <4>1
    <3>3. CASE j > i
      <4>1. j - 1 \in 1 .. Len(q) - 1 /\ ~(j - 1 < i) /\ (j - 1) + 1 = j
        BY <1>1, <3>1, <3>3
      <4>2. j - 1 \in Of(w, B)
        BY <1>1, <3>1, <4>1 DEF Of
      <4> QED
        BY <4>1, <4>2
    <3> QED
      BY <1>1, <3>1, <3>2, <3>3
  <2>2. g \in [Of(w, B) -> Of(q, B) \ {i}]
    BY <1>4
  <2> HIDE DEF g
  <2> QED
    BY <2>1, <2>2 DEF Surjection
<1>7. ExistsBijection(Of(w, B), Of(q, B) \ {i})
  <2> HIDE DEF g
  <2> QED
    BY <1>5, <1>6 DEF ExistsBijection, Bijection
<1>8. Cardinality(Of(q, B) \ {i}) = Count(w, B)
  BY <1>3, <1>7, FS_Bijection DEF Count
<1>9. i \in Of(q, B) <=> q[i] \in B
  BY DEF Of
<1>10. Cardinality(Of(q, B) \ {i}) = IF q[i] \in B THEN Count(q, B) - 1 ELSE Count(q, B)
  BY <1>3, <1>9, FS_RemoveElement DEF Count
<1> QED
  BY <1>3, <1>8, <1>10 DEF w

\* A buffer put back at the head of a queue counts one.
LEMMA CountPutBack ==
  ASSUME NEW S, NEW p \in Seq(S), Len(p) = 1, NEW q \in Seq(S), NEW B
  PROVE  Count(p \o q, B) = Count(q, B) + (IF p[1] \in B THEN 1 ELSE 0)
<1> DEFINE r == p \o q
<1>1. /\ r \in Seq(S) /\ Len(r) = 1 + Len(q) /\ r[1] = p[1] /\ Len(q) \in Nat
      /\ \A i \in 1 .. Len(q) : r[i + 1] = q[i]
  <2>1. /\ r \in Seq(S) /\ Len(r) = Len(p) + Len(q)
        /\ \A i \in 1 .. Len(p) + Len(q) : r[i] = IF i <= Len(p) THEN p[i]
                                                  ELSE q[i - Len(p)]
    BY ConcatProperties
  <2> HIDE DEF r
  <2>2. Len(q) \in Nat
    BY LenProperties
  <2>3. \A i \in 1 .. Len(q) : r[i + 1] = q[i]
    <3> TAKE i \in 1 .. Len(q)
    <3>1. i + 1 \in 1 .. 1 + Len(q) /\ ~(i + 1 <= 1) /\ i + 1 - 1 = i
      BY <2>2
    <3> QED
      BY <2>1, <3>1
  <2> QED
    BY <2>1, <2>2, <2>3
<1> HIDE DEF r
<1>2. 1 \in DOMAIN r
  BY <1>1, LenProperties
<1>3. /\ Without(r, 1) \in Seq(S) /\ Len(Without(r, 1)) = Len(r) - 1
      /\ \A k \in 1 .. Len(r) - 1 : Without(r, 1)[k] = IF k < 1 THEN r[k] ELSE r[k + 1]
  BY <1>1, <1>2, WithoutIndex
<1>4. Without(r, 1) = q
  <2>1. Len(Without(r, 1)) = Len(q) /\ \A k \in 1 .. Len(q) : Without(r, 1)[k] = q[k]
    BY <1>1, <1>3
  <2> QED
    BY <1>3, <2>1, SeqEqual
<1>5. Count(q, B) + (IF r[1] \in B THEN 1 ELSE 0) = Count(r, B)
  BY <1>1, <1>2, <1>4, CountWithout
<1> QED
  BY <1>1, <1>5 DEF r

-----------------------------------------------------------------------------
DataBufs == {b \in Bufs : ~b.mgnt}
MgntBufs == {b \in Bufs : b.mgnt}

\* The second thread has a buffer of pool B.
Writing(B) == IF bbuf # <<>> /\ bbuf[1] \in B THEN 1 ELSE 0

Packing == IF has THEN 1 ELSE 0

(***************************************************************************)
(* The two pools of transmit buffers are conserved.                        *)
(***************************************************************************)
BufInv ==
  /\ free_bufs \in Nat /\ ext_bufs \in Nat
  /\ Len(bbuf) <= 1
  /\ bpc # "hold" => bbuf = <<>>
  /\ NumBufs = free_bufs + Count(pendq, DataBufs) + Packing + Writing(DataBufs)
  /\ NumExtBufs = ext_bufs + Count(pendq, MgntBufs) + Writing(MgntBufs)

\* The counts that are summed are natural numbers.
LEMMA BufTypes ==
  RoomInv => /\ Count(pendq, DataBufs) \in Nat /\ Count(pendq, MgntBufs) \in Nat
             /\ Packing \in {0, 1}
             /\ Writing(DataBufs) \in {0, 1} /\ Writing(MgntBufs) \in {0, 1}
BY OfFinite DEF RoomInv, Packing, Writing

\* A step that leaves the buffers alone keeps the sums.
LEMMA BufQuiet ==
  ASSUME BufInv, UNCHANGED <<free_bufs, ext_bufs, pendq, bbuf, bpc, has>>
  PROVE  BufInv'
BY DEF BufInv, Count, Of, DataBufs, MgntBufs, Writing, Packing

\* All buffers are free initially.
LEMMA BufInit == Init => BufInv
<1> SUFFICES ASSUME Init PROVE BufInv
  OBVIOUS
<1>1. /\ free_bufs = NumBufs /\ ext_bufs = NumExtBufs /\ pendq = <<>>
      /\ bbuf = <<>> /\ ~has
  BY DEF Init
<1>2. \A B : Count(pendq, B) = 0
  <2> TAKE B
  <2>1. Of(pendq, B) = {}
    BY <1>1 DEF Of
  <2> QED
    BY <2>1, FS_EmptySet DEF Count
<1>3. Packing = 0 /\ Writing(DataBufs) = 0 /\ Writing(MgntBufs) = 0
  BY <1>1 DEF Packing, Writing
<1>4. Len(bbuf) = 0
  BY <1>1, EmptySeq
<1> QED
  BY <1>1, <1>2, <1>3, <1>4, XmitAssumption DEF BufInv

\* A buffer is passed to the second thread.
LEMMA BufPassed ==
  ASSUME RoomInv, BufInv, NEW b \in Bufs, pendq' = Append(pendq, b),
         UNCHANGED <<bbuf, bpc>>,
         \/ ~b.mgnt /\ has /\ ~has' /\ UNCHANGED <<free_bufs, ext_bufs>>
         \/ b.mgnt /\ ext_bufs > 0 /\ ext_bufs' = ext_bufs - 1
            /\ UNCHANGED <<free_bufs, has>>
  PROVE  BufInv'
<1>1. /\ Count(pendq, DataBufs) \in Nat /\ Count(pendq, MgntBufs) \in Nat
      /\ Packing \in {0, 1} /\ free_bufs \in Nat /\ ext_bufs \in Nat
      /\ Writing(DataBufs) \in {0, 1} /\ Writing(MgntBufs) \in {0, 1}
  BY BufTypes DEF BufInv
<1>2. \A B : Count(pendq', B) = Count(pendq, B) + (IF b \in B THEN 1 ELSE 0)
  BY CountAppend DEF RoomInv
<1>3. Count(pendq, DataBufs)' = Count(pendq', DataBufs)
      /\ Count(pendq, MgntBufs)' = Count(pendq', MgntBufs)
  BY DEF Count, Of, DataBufs, MgntBufs
<1>4. UNCHANGED <<Writing(DataBufs), Writing(MgntBufs)>>
  BY DEF Writing, DataBufs, MgntBufs
<1>5. CASE ~b.mgnt
  <2>1. b \in DataBufs /\ b \notin MgntBufs
    BY <1>5 DEF DataBufs, MgntBufs
  <2>2. Packing = 1 /\ Packing' = 0 /\ UNCHANGED <<free_bufs, ext_bufs>>
    BY <1>5 DEF Packing
  <2>3. /\ Count(pendq, DataBufs)' = Count(pendq, DataBufs) + 1
        /\ Count(pendq, MgntBufs)' = Count(pendq, MgntBufs)
    BY <1>1, <1>2, <1>3, <2>1
  <2> QED
    BY <1>1, <1>4, <2>2, <2>3 DEF BufInv
<1>6. CASE b.mgnt
  <2>1. b \notin DataBufs /\ b \in MgntBufs
    BY <1>6 DEF DataBufs, MgntBufs
  <2>2. /\ ext_bufs > 0 /\ ext_bufs' = ext_bufs - 1
        /\ UNCHANGED <<free_bufs, Packing>>
    BY <1>6 DEF Packing
  <2>3. /\ Count(pendq, DataBufs)' = Count(pendq, DataBufs)
        /\ Count(pendq, MgntBufs)' = Count(pendq, MgntBufs) + 1
    BY <1>1, <1>2, <1>3, <2>1
  <2> QED
    BY <1>1, <1>4, <2>2, <2>3 DEF BufInv
<1> QED
  BY <1>5, <1>6

\* The buffer that was written or given up goes back to its pool.
LEMMA BufFreed ==
  ASSUME RoomInv, BufInv, bpc = "hold", FreeBuf, UNCHANGED <<pendq, has>>
  PROVE  BufInv'
<1>1. /\ Count(pendq, DataBufs) \in Nat /\ Count(pendq, MgntBufs) \in Nat
      /\ Packing \in {0, 1} /\ free_bufs \in Nat /\ ext_bufs \in Nat
  BY BufTypes DEF BufInv
<1>2. /\ UNCHANGED <<Count(pendq, DataBufs), Count(pendq, MgntBufs), Packing>>
  BY DEF Count, Of, DataBufs, MgntBufs, Packing
<1>3. bbuf # <<>> /\ bbuf[1] \in Bufs /\ bbuf' = <<>> /\ Len(bbuf') = 0 /\ bpc' = "loop"
  BY EmptySeq, ElementOfSeq DEF RoomInv, FreeBuf
<1>4. Writing(DataBufs)' = 0 /\ Writing(MgntBufs)' = 0
  BY <1>3 DEF Writing
<1>5. CASE bbuf[1].mgnt
  <2>1. Writing(DataBufs) = 0 /\ Writing(MgntBufs) = 1
    BY <1>3, <1>5 DEF Writing, DataBufs, MgntBufs
  <2>2. ext_bufs' = ext_bufs + 1 /\ UNCHANGED free_bufs
    BY <1>5 DEF FreeBuf
  <2> QED
    BY <1>1, <1>2, <1>3, <1>4, <2>1, <2>2 DEF BufInv
<1>6. CASE ~bbuf[1].mgnt
  <2>1. Writing(DataBufs) = 1 /\ Writing(MgntBufs) = 0
    BY <1>3, <1>6 DEF Writing, DataBufs, MgntBufs
  <2>2. free_bufs' = free_bufs + 1 /\ UNCHANGED ext_bufs
    BY <1>6 DEF FreeBuf
  <2> QED
    BY <1>1, <1>2, <1>3, <1>4, <2>1, <2>2 DEF BufInv
<1> QED
  BY <1>5, <1>6

\* The buffer is taken from the queue, or put back.
LEMMA BufTaken ==
  ASSUME RoomInv, BufInv, bpc = "loop", NEW i \in DOMAIN pendq,
         bbuf' = <<pendq[i]>>, pendq' = Without(pendq, i), bpc' = "hold",
         UNCHANGED <<free_bufs, ext_bufs, has>>
  PROVE  BufInv'
<1>1. /\ Count(pendq, DataBufs) \in Nat /\ Count(pendq, MgntBufs) \in Nat
      /\ Packing \in {0, 1} /\ free_bufs \in Nat /\ ext_bufs \in Nat
  BY BufTypes DEF BufInv
<1>2. bbuf = <<>>
  BY DEF BufInv
<1>3. bbuf' # <<>> /\ bbuf'[1] = pendq[i] /\ Len(bbuf') = 1
  OBVIOUS
<1>4. \A B : Count(pendq', B) + (IF pendq[i] \in B THEN 1 ELSE 0) = Count(pendq, B)
  BY CountWithout DEF RoomInv
<1>5. Count(pendq, DataBufs)' = Count(pendq', DataBufs)
      /\ Count(pendq, MgntBufs)' = Count(pendq', MgntBufs)
  BY DEF Count, Of, DataBufs, MgntBufs
<1>6. Writing(DataBufs) = 0 /\ Writing(MgntBufs) = 0 /\ UNCHANGED Packing
  BY <1>2 DEF Writing, Packing
<1>7. /\ Writing(DataBufs)' = IF pendq[i] \in DataBufs THEN 1 ELSE 0
      /\ Writing(MgntBufs)' = IF pendq[i] \in MgntBufs THEN 1 ELSE 0
  BY <1>3 DEF Writing, DataBufs, MgntBufs
<1>8. /\ Count(pendq, DataBufs)' + Writing(DataBufs)' = Count(pendq, DataBufs)
      /\ Count(pendq, MgntBufs)' + Writing(MgntBufs)' = Count(pendq, MgntBufs)
  BY <1>4, <1>5, <1>7
<1>9. pendq' \in Seq(Bufs)
  BY WithoutType DEF RoomInv
<1>10. /\ Count(pendq', DataBufs) \in Nat /\ Count(pendq', MgntBufs) \in Nat
  BY <1>9, OfFinite
<1>11. Writing(DataBufs)' \in {0, 1} /\ Writing(MgntBufs)' \in {0, 1}
  BY <1>7
<1> QED
  BY SMTT(30), <1>1, <1>3, <1>5, <1>6, <1>8, <1>10, <1>11 DEF BufInv

\* Putting the buffer back at the head of pendq keeps the sums.
LEMMA BufPutBack ==
  ASSUME RoomInv, BufInv, bpc = "hold", pendq' = bbuf \o pendq, bbuf' = <<>>,
         UNCHANGED <<free_bufs, ext_bufs, has>>
  PROVE  BufInv'
<1>1. /\ Count(pendq, DataBufs) \in Nat /\ Count(pendq, MgntBufs) \in Nat
      /\ Packing \in {0, 1} /\ free_bufs \in Nat /\ ext_bufs \in Nat
  BY BufTypes DEF BufInv
<1>2. bbuf # <<>> /\ bbuf \in Seq(Bufs) /\ Len(bbuf) = 1
  <2>1. \A n \in Nat \ {0} : n <= 1 => n = 1
    OBVIOUS
  <2>2. bbuf # <<>> /\ bbuf \in Seq(Bufs) /\ Len(bbuf) \in Nat \ {0} /\ Len(bbuf) <= 1
    BY EmptySeq, LenProperties DEF RoomInv, BufInv
  <2> QED
    BY <2>1, <2>2, Zenon
<1>3. \A B : Count(pendq', B) = Count(pendq, B) + (IF bbuf[1] \in B THEN 1 ELSE 0)
  BY <1>2, CountPutBack DEF RoomInv
<1>4. Count(pendq, DataBufs)' = Count(pendq', DataBufs)
      /\ Count(pendq, MgntBufs)' = Count(pendq', MgntBufs)
  BY DEF Count, Of, DataBufs, MgntBufs
<1>5. /\ Writing(DataBufs) = IF bbuf[1] \in DataBufs THEN 1 ELSE 0
      /\ Writing(MgntBufs) = IF bbuf[1] \in MgntBufs THEN 1 ELSE 0
  BY <1>2 DEF Writing
<1>6. Writing(DataBufs)' = 0 /\ Writing(MgntBufs)' = 0 /\ UNCHANGED Packing
  BY DEF Writing, Packing
<1>7. /\ Count(pendq, DataBufs)' = Count(pendq, DataBufs) + Writing(DataBufs)
      /\ Count(pendq, MgntBufs)' = Count(pendq, MgntBufs) + Writing(MgntBufs)
  BY <1>3, <1>4, <1>5
<1>8. Writing(DataBufs) \in {0, 1} /\ Writing(MgntBufs) \in {0, 1}
  BY <1>5
<1>9. Len(bbuf') = 0
  BY EmptySeq
<1> QED
  BY <1>1, <1>6, <1>7, <1>8, <1>9 DEF BufInv

(***************************************************************************)
(* BufInv is inductive.                                                    *)
(***************************************************************************)
LEMMA BufNext == PackInv /\ RoomInv /\ BufInv /\ [Next]_vars => BufInv'
<1> SUFFICES ASSUME PackInv, RoomInv, BufInv, [Next]_vars PROVE BufInv'
  OBVIOUS
<1>0. /\ Count(pendq, DataBufs) \in Nat /\ Count(pendq, MgntBufs) \in Nat
      /\ Packing \in {0, 1} /\ free_bufs \in Nat /\ ext_bufs \in Nat
      /\ Writing(DataBufs) \in {0, 1} /\ Writing(MgntBufs) \in {0, 1}
  BY BufTypes DEF BufInv
<1>1. ASSUME NEW a \in ACs, XmitEntry(a) \/ EntryStep(a) PROVE BufInv'
  BY <1>1, BufQuiet DEF XmitEntry, EntryStep, StopSubqueue, AllocFrame,
     DropPacket, DropFrame, hal_xmit, bufVars, bVars, xVars
<1>2. CASE XDown \/ XNext \/ XCategory \/ XCoalesce \/ XCoalesceFails \/ XEnd
  BY <1>2, BufQuiet DEF XDown, XNext, XCategory, XCoalesce, XCoalesceFails, XEnd, bufVars, bVars
<1>3. ASSUME UNCHANGED <<pendq, bbuf, bpc>>
      PROVE  UNCHANGED <<Count(pendq, DataBufs), Count(pendq, MgntBufs),
                         Writing(DataBufs), Writing(MgntBufs)>>
  BY <1>3 DEF Count, Of, DataBufs, MgntBufs, Writing
<1>4. CASE XAllocBuf
  <2>1. CASE free_bufs = 0
    BY <1>4, <2>1, BufQuiet DEF XAllocBuf, bVars
  <2>2. CASE free_bufs > 0
    <3>1. /\ UNCHANGED <<pendq, bbuf, bpc, ext_bufs>>
          /\ free_bufs' = free_bufs - 1 /\ ~has /\ has'
      BY <1>4, <2>2 DEF XAllocBuf, bVars
    <3>2. Packing = 0 /\ Packing' = 1
      BY <3>1 DEF Packing
    <3> QED
      BY <1>0, <1>3, <2>2, <3>1, <3>2 DEF BufInv
  <2> QED
    BY <1>0, <2>1, <2>2
<1>5. DataBuf \in Bufs /\ ~DataBuf.mgnt
  BY DEF DataBuf, Bufs, PackInv
<1>6. CASE XFlush
  BY <1>5, <1>6, BufPassed DEF XFlush, FlushBuf, bVars
<1>7. CASE XDump
  <2>0. UNCHANGED <<ext_bufs, bbuf, bpc>>
    BY <1>7 DEF XDump, bVars
  <2>1. CASE has /\ FlushBuf /\ UNCHANGED free_bufs
    BY <1>5, <2>0, <2>1, BufPassed DEF FlushBuf
  <2>2. CASE has /\ ~has' /\ free_bufs' = free_bufs + 1 /\ UNCHANGED pendq
    <3>1. Packing = 1 /\ Packing' = 0
      BY <2>2 DEF Packing
    <3> QED
      BY <1>0, <1>3, <2>0, <2>2, <3>1 DEF BufInv
  <2>3. CASE UNCHANGED <<free_bufs, pendq, has>>
    BY <2>0, <2>3, BufQuiet
  <2> QED
    BY <1>7, <2>1, <2>2, <2>3 DEF XDump
<1>8. CASE BDown
  <2>1. /\ UNCHANGED <<free_bufs, ext_bufs, pendq, bbuf, has>> /\ bpc = "wait"
    BY <1>8 DEF BDown, xVars
  <2>2. bbuf = <<>> /\ bbuf' = <<>>
    BY <2>1 DEF BufInv
  <2>3. UNCHANGED <<Count(pendq, DataBufs), Count(pendq, MgntBufs), Packing,
                    Writing(DataBufs), Writing(MgntBufs)>>
    BY <2>1 DEF Count, Of, DataBufs, MgntBufs, Writing, Packing
  <2> QED
    BY <2>1, <2>2, <2>3 DEF BufInv
<1>9. CASE BSelect
  <2>0. bpc = "loop" /\ UNCHANGED <<free_bufs, ext_bufs, has>>
    BY <1>9 DEF BSelect, xVars
  <2>1. CASE UNCHANGED <<pendq, bbuf>>
    <3>1. bbuf = <<>> /\ bbuf' = <<>>
      BY <2>0, <2>1 DEF BufInv
    <3>2. UNCHANGED <<Count(pendq, DataBufs), Count(pendq, MgntBufs), Packing,
                      Writing(DataBufs), Writing(MgntBufs)>>
      BY <2>0, <2>1 DEF Count, Of, DataBufs, MgntBufs, Writing, Packing
    <3> QED
      BY <2>0, <2>1, <3>1, <3>2 DEF BufInv
  <2>2. ASSUME NEW i \in Selected, bbuf' = <<pendq[i]>>,
               pendq' = Without(pendq, i), bpc' = "hold"
        PROVE  BufInv'
    <3>1. i \in DOMAIN pendq
      BY <2>2 DEF Selected, FirstOf
    <3> QED
      BY <2>0, <2>2, <3>1, BufTaken
  <2> QED
    BY <1>9, <2>1, <2>2 DEF BSelect
<1>10. CASE BShort
  <2>0. bpc = "hold" /\ UNCHANGED has
    BY <1>10 DEF BShort, xVars
  <2>1. CASE drv_stopped
    BY <1>10, <2>0, <2>1, BufFreed DEF BShort
  <2>2. CASE ~drv_stopped /\ UNCHANGED <<pendq, bbuf, bpc>>
    BY <1>10, <2>0, <2>2, BufQuiet DEF BShort
  <2>3. CASE ~drv_stopped /\ pendq' = bbuf \o pendq /\ bbuf' = <<>>
    BY <1>10, <2>0, <2>3, BufPutBack DEF BShort
  <2> QED
    BY <1>10, <2>1, <2>2, <2>3 DEF BShort
<1>11. CASE wait_enough_TxOQT_space
  <2>0. bpc = "hold" /\ UNCHANGED <<pendq, has>>
    BY <1>11 DEF wait_enough_TxOQT_space, xVars
  <2>1. CASE FreeBuf
    BY <2>0, <2>1, BufFreed
  <2>2. CASE UNCHANGED <<bbuf, bpc, free_bufs, ext_bufs>>
    BY <2>0, <2>2, BufQuiet
  <2> QED
    BY <1>11, <2>1, <2>2 DEF wait_enough_TxOQT_space
<1>12. CASE BWrite
  BY <1>12, BufFreed DEF BWrite, Writable, xVars
<1>13. CASE ChipSends \/ SurveyStart \/ ScanStep \/ DevUnload
  BY <1>13, BufQuiet DEF ChipSends, SurveyStart, ScanStep, SurveyComplete,
     os_xmit_schedule, DevUnload, bufVars, bVars, xVars
<1>14. ASSUME NEW p \in BOOLEAN, mgnt_xmit(p) PROVE BufInv'
  <2> DEFINE b == [mgnt |-> TRUE, probe |-> p, fifo |-> 1, ids |-> <<1>>]
  <2>1. b \in Bufs /\ b.mgnt
    BY <1>14, XmitAssumption DEF Bufs, ACs
  <2>2. pendq' = Append(pendq, b) /\ UNCHANGED <<bbuf, bpc>>
        /\ ext_bufs > 0 /\ ext_bufs' = ext_bufs - 1 /\ UNCHANGED <<free_bufs, has>>
    BY <1>14 DEF mgnt_xmit, bVars, xVars
  <2> HIDE DEF b
  <2> QED
    BY <2>1, <2>2, BufPassed
<1>15. CASE UNCHANGED vars
  BY <1>15, BufQuiet DEF vars, bufVars, bVars, xVars
<1> QED
  BY <1>1, <1>2, <1>4, <1>6, <1>7, <1>8, <1>9, <1>10, <1>11, <1>12, <1>13,
     <1>14, <1>15 DEF Next, XStep, BStep

-----------------------------------------------------------------------------
(***************************************************************************)
(* Counters.  Every packet that is handed over is one of the events.       *)
(***************************************************************************)
CountInv ==
  /\ events \in 0..MaxEvents
  /\ hand \in [ACs -> Nat] /\ \A a \in ACs : hand[a] <= events
  /\ sema \in Nat /\ xmit_sema \in Nat
  /\ survey \in BOOLEAN /\ evt \in BOOLEAN /\ drv_stopped \in BOOLEAN

\* The bound on what the network stack carries holds initially.
LEMMA CountInit == Init => CountInv
<1> SUFFICES ASSUME Init PROVE CountInv
  OBVIOUS
<1>1. survey \in BOOLEAN /\ evt \in BOOLEAN /\ drv_stopped \in BOOLEAN
  BY Zenon DEF Init
<1>2. /\ events = 0 /\ sema = 0 /\ xmit_sema = 0
      /\ hand = [a \in ACs |-> 0]
  BY DEF Init
<1>3. /\ events \in 0..MaxEvents
      /\ hand \in [ACs -> Nat] /\ \A a \in ACs : hand[a] <= events
      /\ sema \in Nat /\ xmit_sema \in Nat
  BY <1>2, XmitAssumption
<1> QED
  BY <1>1, <1>3 DEF CountInv

\* Every step keeps it: no more is carried than was given.
LEMMA CountNext == CountInv /\ [Next]_vars => CountInv'
<1> SUFFICES ASSUME CountInv, [Next]_vars PROVE CountInv'
  OBVIOUS
<1>0. MaxEvents \in Nat
  BY XmitAssumption
<1>1. /\ events' \in 0..MaxEvents /\ events <= events'
      /\ hand' \in [ACs -> Nat]
      /\ \A a \in ACs : hand'[a] <= events'
  <2>0. events \in 0..MaxEvents /\ hand \in [ACs -> Nat] /\ \A a \in ACs : hand[a] <= events
    BY DEF CountInv
  <2>1. ASSUME NEW a \in ACs, XmitEntry(a) PROVE <1>1!:
    BY <1>0, <2>0, <2>1 DEF XmitEntry
  <2>2. CASE UNCHANGED hand /\ (events' = events \/ (events < MaxEvents /\ events' = events + 1))
    BY <1>0, <2>0, <2>2
  <2>3. ASSUME NEW a \in ACs, EntryStep(a)
        PROVE  UNCHANGED <<hand, events>>
    BY <2>3 DEF EntryStep, StopSubqueue, AllocFrame, DropPacket, DropFrame, hal_xmit
  <2>4. ASSUME XStep \/ BStep \/ ChipSends \/ SurveyStart \/ ScanStep \/ DevUnload
        PROVE  UNCHANGED hand /\ (events' = events \/ (events < MaxEvents /\ events' = events + 1))
    BY <2>4 DEF XStep, XDown, XNext, XCategory, XFlush, XAllocBuf, XCoalesce, XCoalesceFails,
       XDump, XEnd, BStep, BDown, BSelect, BShort, wait_enough_TxOQT_space, BWrite,
       ChipSends, SurveyStart, ScanStep, SurveyComplete, os_xmit_schedule, DevUnload,
       netVars
  <2>5. ASSUME NEW p \in BOOLEAN, mgnt_xmit(p)
        PROVE  UNCHANGED hand /\ events < MaxEvents /\ events' = events + 1
    BY <2>5 DEF mgnt_xmit, netVars
  <2>6. CASE UNCHANGED vars
    BY <2>2, <2>6 DEF vars, netVars
  <2> QED
    BY <2>1, <2>2, <2>3, <2>4, <2>5, <2>6 DEF Next
<1>2. sema' \in Nat
  <2> DEFINE Ok == sema' = sema \/ sema' = sema + 1 \/ (sema > 0 /\ sema' = sema - 1)
  <2>1. ASSUME NEW a \in ACs, XmitEntry(a) \/ EntryStep(a) PROVE Ok
    BY <2>1 DEF XmitEntry, EntryStep, StopSubqueue, AllocFrame, DropPacket, DropFrame,
       hal_xmit, xVars, bufVars
  <2>2. ASSUME XDown \/ XNext \/ XCategory \/ XFlush \/ XAllocBuf PROVE Ok
    BY <2>2 DEF XDown, XNext, XCategory, XFlush, FlushBuf, XAllocBuf, bufVars
  <2>3. ASSUME XCoalesce \/ XCoalesceFails \/ XEnd PROVE Ok
    BY <2>3 DEF XCoalesce, XCoalesceFails, XEnd, bufVars
  <2>4. ASSUME XDump PROVE Ok
    BY <2>4 DEF XDump, FlushBuf
  <2>5. ASSUME BDown \/ BSelect \/ BShort \/ wait_enough_TxOQT_space \/ BWrite PROVE Ok
    BY <2>5 DEF BDown, BSelect, BShort, wait_enough_TxOQT_space, BWrite, xVars
  <2>6. ASSUME ChipSends \/ SurveyStart \/ DevUnload PROVE Ok
    BY <2>6 DEF ChipSends, SurveyStart, DevUnload, xVars, bufVars
  <2>7. ASSUME ScanStep PROVE Ok
    BY <2>7 DEF ScanStep, SurveyComplete, os_xmit_schedule, xVars, bufVars
  <2>8. ASSUME NEW p \in BOOLEAN, mgnt_xmit(p) PROVE Ok
    BY <2>8 DEF mgnt_xmit, xVars
  <2>9. ASSUME UNCHANGED vars PROVE Ok
    BY <2>9 DEF vars, xVars, bufVars
  <2>10. Ok
    <3> HIDE DEF Ok
    <3> QED
      BY <2>1, <2>2, <2>3, <2>4, <2>5, <2>6, <2>7, <2>8, <2>9 DEF Next, XStep, BStep
  <2>11. sema \in Nat
    BY DEF CountInv
  <2> QED
    BY <2>10, <2>11
<1>3. xmit_sema' \in Nat
  <2> DEFINE Ok == xmit_sema' = xmit_sema \/ xmit_sema' = xmit_sema + 1 \/ (xmit_sema > 0 /\ xmit_sema' = xmit_sema - 1)
  <2>1. ASSUME NEW a \in ACs, XmitEntry(a) \/ EntryStep(a) PROVE Ok
    BY <2>1 DEF XmitEntry, EntryStep, StopSubqueue, AllocFrame, DropPacket, DropFrame,
       hal_xmit, xVars, bufVars
  <2>2. ASSUME XDown \/ XNext \/ XCategory \/ XFlush \/ XAllocBuf PROVE Ok
    BY <2>2 DEF XDown, XNext, XCategory, XFlush, FlushBuf, XAllocBuf, bufVars
  <2>3. ASSUME XCoalesce \/ XCoalesceFails \/ XEnd PROVE Ok
    BY <2>3 DEF XCoalesce, XCoalesceFails, XEnd, bufVars
  <2>4. ASSUME XDump PROVE Ok
    BY <2>4 DEF XDump, FlushBuf
  <2>5. ASSUME BDown \/ BSelect \/ BShort \/ wait_enough_TxOQT_space \/ BWrite PROVE Ok
    BY <2>5 DEF BDown, BSelect, BShort, wait_enough_TxOQT_space, BWrite, xVars
  <2>6. ASSUME ChipSends \/ SurveyStart \/ DevUnload PROVE Ok
    BY <2>6 DEF ChipSends, SurveyStart, DevUnload, xVars, bufVars
  <2>7. ASSUME ScanStep PROVE Ok
    BY <2>7 DEF ScanStep, SurveyComplete, os_xmit_schedule, xVars, bufVars
  <2>8. ASSUME NEW p \in BOOLEAN, mgnt_xmit(p) PROVE Ok
    BY <2>8 DEF mgnt_xmit, xVars
  <2>9. ASSUME UNCHANGED vars PROVE Ok
    BY <2>9 DEF vars, xVars, bufVars
  <2>10. Ok
    <3> HIDE DEF Ok
    <3> QED
      BY <2>1, <2>2, <2>3, <2>4, <2>5, <2>6, <2>7, <2>8, <2>9 DEF Next, XStep, BStep
  <2>11. xmit_sema \in Nat
    BY DEF CountInv
  <2> QED
    BY <2>10, <2>11
<1>4. survey' \in BOOLEAN /\ evt' \in BOOLEAN /\ drv_stopped' \in BOOLEAN
  <2>1. CASE SurveyStart \/ ScanStep \/ DevUnload
    BY <2>1, Zenon DEF SurveyStart, ScanStep, SurveyComplete, os_xmit_schedule,
       DevUnload, scanVars, CountInv
  <2>2. CASE UNCHANGED <<survey, evt, drv_stopped>>
    BY <2>2, Zenon DEF CountInv
  <2>3. \/ SurveyStart \/ ScanStep \/ DevUnload
        \/ UNCHANGED <<survey, evt, drv_stopped>>
    BY DEF Next, XmitEntry, EntryStep, StopSubqueue, AllocFrame, DropPacket, DropFrame,
       hal_xmit, XStep, XDown, XNext, XCategory, XFlush, XAllocBuf, XCoalesce, XCoalesceFails,
       XDump, XEnd, BStep, BDown, BSelect, BShort, wait_enough_TxOQT_space, BWrite,
       ChipSends, mgnt_xmit, vars, scanVars
  <2> QED
    BY <2>1, <2>2, <2>3
<1> QED
  BY <1>1, <1>2, <1>3, <1>4 DEF CountInv

XmitInv == PackInv /\ RoomInv /\ LineInv /\ FrameInv /\ BufInv /\ CountInv

\* The invariants of the transmit path hold in every reachable state.
LEMMA XmitInvAlways == Spec => []XmitInv
<1>1. Init => XmitInv
  BY PackInit, RoomInit, LineInit, FrameInit, BufInit, CountInit DEF XmitInv
<1>2. XmitInv /\ [Next]_vars => XmitInv'
  BY PackNext, RoomNext, LineNext, FrameNext, BufNext, CountNext DEF XmitInv
<1> QED
  BY <1>1, <1>2, PTL DEF Spec

-----------------------------------------------------------------------------
(***************************************************************************)
(* No xmit_frame and no transmit buffer is lost or freed twice, whatever   *)
(* the two threads, the network stack and the stopping of the driver do in *)
(* whichever order: rtw_alloc_xmitframe, rtw_free_xmitframe,               *)
(* rtw_alloc_xmitbuf and rtw_free_xmitbuf are balanced on every path but   *)
(* the one counted by lost.                                                *)
(***************************************************************************)
THEOREM FramesAndBuffersConserved == Spec => []PoolsConserved
<1>1. XmitInv => PoolsConserved
  <2> SUFFICES ASSUME XmitInv PROVE PoolsConserved
    OBVIOUS
  <2>1. PICK f : Chain(f)
    BY DEF XmitInv, FrameInv
  <2>2. f \in [Pools -> 0..NumFrames]
    BY <2>1, ChainBounded DEF XmitInv, FrameInv
  <2>3. \E g \in [Pools -> 0..NumFrames] :
          /\ g[0] = free_cnt + lost + (IF xbuf # <<>> THEN 1 ELSE 0)
          /\ \A a \in ACs : g[a] = g[a - 1] + InQueues(a)
          /\ g[NumACs] = NumFrames
    BY <2>1, <2>2 DEF Chain, Held
  <2>4. NumData = Count(pendq, DataBufs)
    <3>1. \A i \in DOMAIN pendq : pendq[i] \in Bufs
      BY LenProperties, ElementOfSeq DEF XmitInv, RoomInv
    <3>2. {i \in DOMAIN pendq : ~pendq[i].mgnt} = Of(pendq, DataBufs)
      BY <3>1 DEF Of, DataBufs
    <3> QED
      BY <3>2 DEF NumData, Count
  <2>5. Writing(DataBufs) = IF bbuf # <<>> /\ ~bbuf[1].mgnt THEN 1 ELSE 0
    <3>1. bbuf # <<>> => bbuf[1] \in Bufs
      BY EmptySeq, ElementOfSeq DEF XmitInv, RoomInv
    <3> QED
      BY <3>1 DEF Writing, DataBufs
  <2>6. NumBufs = free_bufs + NumData + (IF has THEN 1 ELSE 0)
                  + (IF bbuf # <<>> /\ ~bbuf[1].mgnt THEN 1 ELSE 0)
    BY <2>4, <2>5 DEF XmitInv, BufInv, Packing
  <2> QED
    BY <2>3, <2>6 DEF PoolsConserved
<1> QED
  BY <1>1, XmitInvAlways, PTL

(***************************************************************************)
(* Every variable of the transmit path keeps its type: the counts of free  *)
(* frames and buffers stay between zero and the size of their pool.        *)
(***************************************************************************)
THEOREM XmitTypeCorrect == Spec => []TypeOK
<1>1. XmitInv => TypeOK
  <2> SUFFICES ASSUME XmitInv PROVE TypeOK
    OBVIOUS
  <2>1. free_cnt \in 0..NumFrames
    <3>1. PICK f : Chain(f)
      BY DEF XmitInv, FrameInv
    <3>2. f[0] \in 0..NumFrames
      BY <3>1, ChainBounded, ACsInPools DEF XmitInv, FrameInv
    <3>3. f[0] = free_cnt + lost + Held /\ free_cnt \in Nat /\ lost \in Nat /\ Held \in Nat
      BY <3>1 DEF Chain, XmitInv, FrameInv, PackInv, Held
    <3> QED
      BY <3>2, <3>3, XmitAssumption
  <2>2. free_bufs \in 0..NumBufs /\ ext_bufs \in 0..NumExtBufs
    <3>1. /\ Count(pendq, DataBufs) \in Nat /\ Count(pendq, MgntBufs) \in Nat
          /\ Packing \in {0, 1}
          /\ Writing(DataBufs) \in {0, 1} /\ Writing(MgntBufs) \in {0, 1}
      BY BufTypes DEF XmitInv
    <3> QED
      BY <3>1, XmitAssumption DEF XmitInv, BufInv
  <2>3. \A a \in ACs : /\ hand[a] \in 0..MaxEvents /\ Bound(a) \in Int
                       /\ Bound(a) <= MaxEvents /\ written[a] \in 0..MaxEvents
    <3> TAKE a \in ACs
    <3>1. hand[a] \in Nat /\ hand[a] <= events /\ events \in 0..MaxEvents
      BY DEF XmitInv, CountInv
    <3>2. Bound(a) \in Int /\ Bound(a) <= MaxEvents
      BY <3>1, XmitAssumption DEF Bound
    <3>3. written[a] \in Nat /\ written[a] <= Bound(a)
      BY DEF XmitInv, LineInv
    <3> QED
      BY <3>1, <3>2, <3>3, XmitAssumption
  <2>4. ASSUME NEW q \in Seq(Nat), NEW a \in ACs, InLine(a, q)
        PROVE  q \in Seq(Pkts)
    <3>1. Len(q) \in Nat /\ DOMAIN q = 1 .. Len(q) /\ q \in [1 .. Len(q) -> Nat]
      BY LenProperties
    <3>2. \A i \in 1 .. Len(q) : q[i] \in Pkts
      <4> TAKE i \in 1 .. Len(q)
      <4>1. q[i] \in Nat /\ written[a] < q[i] /\ q[i] <= Bound(a)
        BY <2>4, <3>1 DEF InLine, Between
      <4> QED
        BY <2>3, <4>1, XmitAssumption DEF Pkts
    <3> QED
      BY <3>1, <3>2, SeqDef
  <2>5. pending \in [ACs -> Seq(Pkts)] /\ xbuf \in Seq(Pkts)
    <3>1. /\ pending \in [ACs -> Seq(Nat)] /\ xbuf \in Seq(Nat) /\ xac \in ACs
          /\ InLine(xac, xbuf) /\ \A a \in ACs : InLine(a, pending[a])
      BY DEF XmitInv, PackInv, LineInv
    <3>2. \A a \in ACs : pending[a] \in Seq(Pkts)
      BY <2>4, <3>1
    <3>3. xbuf \in Seq(Pkts)
      BY <2>4, <3>1
    <3> QED
      BY <3>1, <3>2, <3>3
  <2>6. hand \in [ACs -> 0..MaxEvents] /\ written \in [ACs -> 0..MaxEvents]
    BY <2>3 DEF XmitInv, CountInv, LineInv
  <2>7. hwOqt \in 0..MaxOqt
    BY XmitAssumption DEF XmitInv, RoomInv
  <2> QED
    BY <2>1, <2>2, <2>5, <2>6, <2>7
       DEF TypeOK, XmitInv, PackInv, RoomInv, BufInv, CountInv
<1> QED
  BY <1>1, XmitInvAlways, PTL

=============================================================================
