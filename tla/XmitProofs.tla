----------------------------- MODULE XmitProofs -----------------------------
(***************************************************************************)
(* Proofs about the transmit path, for any number of access categories,    *)
(* frames, buffers, pages and packets: a stopped subqueue is never left    *)
(* without a packet that wakes it, and nothing is written to the chip that *)
(* it has no room for.                                                     *)
(***************************************************************************)
EXTENDS Xmit, SequenceTheorems, TLAPS

(***************************************************************************)
(* The packing side.  The packets in the buffer being packed belong to the *)
(* category that is served, because the thread gives its buffer away       *)
(* before it turns to another one or waits.                                *)
(***************************************************************************)
PackInv ==
  /\ stopped \in SUBSET ACs
  /\ entry \in [ACs -> {"idle", "stop", "alloc", "hal"}]
  /\ hand \in [ACs -> Nat]
  /\ pending \in [ACs -> Seq(Nat)]
  /\ lost \in Nat
  /\ xpc \in {"wait", "next", "category", "frame", "end", "exit"}
  /\ xac \in ACs /\ has \in BOOLEAN /\ xbuf \in Seq(Nat)
  /\ xpc # "frame" => ~has
  /\ ~has => xbuf = <<>>
  /\ StopIsUndone

packVars == <<stopped, entry, hand, pending, lost, xpc, xac, has, xbuf>>

(***************************************************************************)
(* The writing side.  What the driver believes to be free in the chip is   *)
(* never more than what is free: the chip only frees, and both take from   *)
(* the category's own pages before they take public ones.                  *)
(***************************************************************************)
RoomInv ==
  /\ pendq \in Seq(Bufs)
  /\ bpc \in {"wait", "loop", "hold", "exit"}
  /\ bbuf \in Seq(Bufs) /\ (bpc = "hold" => bbuf # <<>>)
  /\ freePage \in [Pools -> Nat] /\ hwPage \in [Pools -> Nat]
  /\ oqt \in Nat /\ hwOqt \in Nat
  /\ \A x \in Pools : freePage[x] <= hwPage[x] /\ hwPage[x] <= PageCap(x)
  /\ oqt <= hwOqt /\ hwOqt <= MaxOqt

roomVars == <<pendq, bpc, bbuf, freePage, oqt, hwPage, hwOqt>>

-----------------------------------------------------------------------------
\* A step that leaves the packing thread's state alone keeps PackInv.
LEMMA PackUnchanged == PackInv /\ UNCHANGED packVars => PackInv'
BY DEF PackInv, packVars, StopIsUndone, Holds

\* A step that leaves pages and buffers alone keeps RoomInv.
LEMMA RoomUnchanged == RoomInv /\ UNCHANGED roomVars => RoomInv'
BY DEF RoomInv, roomVars, PageCap

\* PackInv holds initially.
LEMMA PackInit == Init => PackInv
<1> SUFFICES ASSUME Init PROVE PackInv
  OBVIOUS
<1>1. <<>> \in Seq(Nat) /\ 1 \in ACs
  BY XmitAssumption DEF ACs
<1>2. StopIsUndone
  BY DEF Init, StopIsUndone
<1>3. pending \in [ACs -> Seq(Nat)] /\ entry \in [ACs -> {"idle", "stop", "alloc", "hal"}]
      /\ hand \in [ACs -> Nat]
  BY <1>1 DEF Init
<1> QED
  BY <1>1, <1>2, <1>3 DEF Init, PackInv

(***************************************************************************)
(* The thread waits or turns to another category only when it has no       *)
(* buffer or has just passed it on.                                        *)
(***************************************************************************)
LEMMA HandedOn ==
  ASSUME PackInv, xac' \in ACs, xpc' \in {"wait", "next", "category", "frame", "end", "exit"},
         UNCHANGED <<entry, hand, pending, lost>>,
         has' = FALSE, xbuf' = <<>>,
         \/ UNCHANGED stopped /\ xbuf = <<>>
         \/ stopped' = stopped \ {xac}
  PROVE  PackInv'
<1>1. StopIsUndone'
  <2> SUFFICES ASSUME lost' = 0, NEW b \in stopped' PROVE Holds(b)'
    BY DEF StopIsUndone
  <2>1. lost = 0 /\ b \in stopped
    OBVIOUS
  <2>2. Holds(b)
    BY <2>1 DEF PackInv, StopIsUndone
  <2>3. ~(xac = b /\ xbuf # <<>>)
    OBVIOUS
  <2> QED
    BY <2>2, <2>3 DEF Holds
<1>2. stopped' \in SUBSET ACs
  BY DEF PackInv
<1>3. xbuf' \in Seq(Nat)
  BY EmptySeq
<1>4. has' \in BOOLEAN
  OBVIOUS
<1> QED
  BY <1>1, <1>2, <1>3, <1>4 DEF PackInv

(***************************************************************************)
(* PackInv is inductive.                                                   *)
(***************************************************************************)
LEMMA PackNext == PackInv /\ [Next]_vars => PackInv'
<1> SUFFICES ASSUME PackInv, [Next]_vars PROVE PackInv'
  OBVIOUS
<1> USE DEF PackInv
<1>1. ASSUME NEW a \in ACs, XmitEntry(a) PROVE PackInv'
  BY <1>1 DEF XmitEntry, frmVars, xVars, StopIsUndone, Holds
<1>2. ASSUME NEW a \in ACs, StopSubqueue(a) PROVE PackInv'
  BY <1>2 DEF StopSubqueue, frmVars, xVars, StopIsUndone, Holds
<1>3. ASSUME NEW a \in ACs, AllocFrame(a) PROVE PackInv'
  BY <1>3 DEF AllocFrame, xVars, StopIsUndone, Holds
<1>4. ASSUME NEW a \in ACs, DropPacket(a) PROVE PackInv'
  BY <1>4 DEF DropPacket, frmVars, xVars, StopIsUndone, Holds
<1>5. ASSUME NEW a \in ACs, DropFrame(a) PROVE PackInv'
  BY <1>5 DEF DropFrame, xVars, StopIsUndone, Holds
<1>6. ASSUME NEW a \in ACs, hal_xmit(a) PROVE PackInv'
  <2>1. /\ Append(pending[a], hand[a]) \in Seq(Nat)
        /\ Append(pending[a], hand[a]) # <<>>
    <3>1. pending[a] \in Seq(Nat)
      BY <1>6
    <3>2. hand[a] \in Nat
      BY <1>6
    <3> HIDE DEF PackInv
    <3> QED
      BY <3>1, <3>2, AppendProperties
  <2> QED
    BY <1>6, <2>1 DEF hal_xmit, StopIsUndone, Holds
<1>7. CASE XDown
  BY <1>7 DEF XDown, netVars, frmVars, StopIsUndone, Holds
<1>8. CASE XNext
  <2>1. UNCHANGED <<stopped, entry, hand, pending, lost, has, xbuf>>
        /\ ~has /\ xbuf = <<>>
    BY <1>8 DEF XNext, netVars, frmVars
  <2>2. CASE xpc' = "category" /\ xac' = 1
    <3>1. 1 \in ACs
      BY XmitAssumption DEF ACs
    <3> QED
      BY <2>1, <2>2, <3>1, HandedOn
  <2>3. CASE xpc' \in {"exit", "wait"} /\ UNCHANGED xac
    BY <2>1, <2>3 DEF StopIsUndone, Holds
  <2> QED
    BY <1>8, <2>2, <2>3 DEF XNext
<1>20. CASE XCategory
  <2>1. UNCHANGED <<stopped, entry, hand, pending, lost, xac, has, xbuf>>
        /\ ~has /\ xbuf = <<>> /\ xpc' \in {"frame", "next"}
    BY <1>20 DEF XCategory, netVars, frmVars
  <2> QED
    BY <2>1, HandedOn
<1>9. CASE XFlush
  <2>1. /\ UNCHANGED <<entry, hand, pending, lost, xpc, xac>>
        /\ stopped' = stopped \ {xac} /\ has' = FALSE /\ xbuf' = <<>>
    BY <1>9 DEF XFlush, FlushBuf
  <2> QED
    BY <2>1, HandedOn
<1>10. CASE XAllocBuf
  <2>1. /\ UNCHANGED <<stopped, entry, hand, pending, lost, xac, xbuf>>
        /\ xbuf = <<>>
    BY <1>10 DEF XAllocBuf, netVars, frmVars
  <2>2. \/ has' = TRUE /\ xpc' = "frame"
        \/ has' = FALSE /\ xpc' = "next"
    BY <1>10 DEF XAllocBuf
  <2>3. StopIsUndone'
    BY <2>1 DEF StopIsUndone, Holds
  <2> QED
    BY <2>1, <2>2, <2>3
<1>11. CASE XCoalesce
  <2>1. /\ Head(pending[xac]) \in Nat /\ Tail(pending[xac]) \in Seq(Nat)
        /\ Append(xbuf, Head(pending[xac])) \in Seq(Nat)
        /\ Append(xbuf, Head(pending[xac])) # <<>>
    BY <1>11, HeadTailProperties, AppendProperties DEF XCoalesce
  <2> QED
    BY <1>11, <2>1 DEF XCoalesce, StopIsUndone, Holds
<1>12. CASE XCoalesceFails
  <2>1. Tail(pending[xac]) \in Seq(Nat)
    BY <1>12, HeadTailProperties DEF XCoalesceFails
  <2>2. CASE Len(xbuf) = 1
    BY <1>12, <2>1, <2>2 DEF XCoalesceFails, StopIsUndone
  <2>3. CASE Len(xbuf) # 1
    BY <1>12, <2>1, <2>3 DEF XCoalesceFails, StopIsUndone, Holds
  <2> QED
    BY <2>2, <2>3
<1>13. CASE XDump
  <2>1. /\ UNCHANGED <<entry, hand, pending, lost>>
        /\ has' = FALSE /\ xbuf' = <<>>
        /\ \/ UNCHANGED stopped /\ xbuf = <<>>
           \/ stopped' = stopped \ {xac}
    BY <1>13 DEF XDump, FlushBuf
  <2>2. CASE xac < NumACs /\ xac' = xac + 1 /\ xpc' = "category"
    <3>1. xac + 1 \in ACs
      BY <2>2, XmitAssumption DEF ACs
    <3> QED
      BY <2>1, <2>2, <3>1, HandedOn
  <2>3. CASE xac' = 1 /\ xpc' = "end"
    <3>1. 1 \in ACs
      BY XmitAssumption DEF ACs
    <3> QED
      BY <2>1, <2>3, <3>1, HandedOn
  <2> QED
    BY <1>13, <2>2, <2>3 DEF XDump
<1>14. CASE XEnd
  BY <1>14 DEF XEnd, netVars, frmVars, StopIsUndone, Holds
<1>15. CASE BStep
  BY <1>15, PackUnchanged DEF BStep, BDown, BSelect, BShort,
     wait_enough_TxOQT_space, BWrite, packVars, netVars, frmVars, xVars
<1>16. CASE ChipSends
  BY <1>16, PackUnchanged DEF ChipSends, packVars, netVars, frmVars, xVars
<1>17. CASE SurveyStart \/ ScanStep \/ DevUnload
  BY <1>17, PackUnchanged DEF SurveyStart, ScanStep, SurveyComplete,
     os_xmit_schedule, DevUnload, packVars, netVars, frmVars, xVars
<1>18. ASSUME NEW p \in BOOLEAN, mgnt_xmit(p) PROVE PackInv'
  BY <1>18, PackUnchanged DEF mgnt_xmit, packVars, netVars, frmVars, xVars
<1>19. CASE UNCHANGED vars
  BY <1>19, PackUnchanged DEF vars, packVars, netVars, frmVars, xVars
<1> QED
  BY <1>1, <1>2, <1>3, <1>4, <1>5, <1>6, <1>7, <1>8, <1>9, <1>10, <1>11,
     <1>12, <1>13, <1>14, <1>15, <1>16, <1>17, <1>18, <1>19, <1>20
     DEF Next, EntryStep, XStep

(***************************************************************************)
(* A subqueue that rtw_check_xmit_resource stopped, although it read the   *)
(* free frames before, always has a packet in the driver whose completion  *)
(* wakes it, as long as no frame was lost in xmit_xmitframes.              *)
(***************************************************************************)
THEOREM StoppedQueuesAreHeld == Spec => []StopIsUndone
<1>1. PackInv => StopIsUndone
  BY DEF PackInv
<1> QED
  BY <1>1, PackInit, PackNext, PTL DEF Spec

-----------------------------------------------------------------------------
\* RoomInv holds initially.
LEMMA RoomInit == Init => RoomInv
<1> SUFFICES ASSUME Init PROVE RoomInv
  OBVIOUS
<1>1. pendq \in Seq(Bufs) /\ bbuf \in Seq(Bufs) /\ bpc = "wait"
  BY EmptySeq DEF Init
<1>2. PICK used \in 0..PubPages :
        /\ hwOqt = MaxOqt - used /\ hwOqt >= 0 /\ oqt = hwOqt
        /\ hwPage = [[x \in Pools |-> PageCap(x)] EXCEPT ![0] = @ - used]
        /\ freePage = hwPage
  BY DEF Init
<1>3. oqt \in Nat /\ hwOqt \in Nat /\ oqt <= hwOqt /\ hwOqt <= MaxOqt
  BY <1>2, XmitAssumption
<1>4. 0 \in Pools /\ \A x \in Pools : PageCap(x) \in Nat
  BY XmitAssumption DEF Pools, PageCap
<1>5. /\ hwPage \in [Pools -> Nat]
      /\ \A x \in Pools : hwPage[x] <= PageCap(x)
  BY <1>2, <1>4, XmitAssumption DEF PageCap
<1> QED
  BY <1>1, <1>2, <1>3, <1>5 DEF RoomInv

(***************************************************************************)
(* The queue of buffers: what is selected leaves a queue of buffers.       *)
(***************************************************************************)
LEMMA WithoutType ==
  ASSUME NEW S, NEW q \in Seq(S), NEW i \in DOMAIN q
  PROVE  Without(q, i) \in Seq(S)
<1>1. i \in 1..Len(q) /\ Len(q) \in Nat /\ \A j \in 1..Len(q) : q[j] \in S
  BY LenProperties, ElementOfSeq
<1>2. SubSeq(q, 1, i - 1) \in Seq(S)
  BY <1>1, SubSeqProperties
<1>3. SubSeq(q, i + 1, Len(q)) \in Seq(S)
  BY <1>1, SubSeqProperties
<1> QED
  BY <1>2, <1>3, ConcatProperties DEF Without

(***************************************************************************)
(* Both sides take the pages of a write, and the driver's counts stay      *)
(* below the chip's.                                                       *)
(***************************************************************************)
LEMMA TakeKeepsBelow ==
  ASSUME NEW x \in ACs, NEW n \in Nat,
         freePage \in [Pools -> Nat], hwPage \in [Pools -> Nat],
         \A y \in Pools : freePage[y] <= hwPage[y],
         Room(freePage, x, n), ChipTakes(x, n),
         freePage' = Take(freePage, x, n)
  PROVE  /\ freePage' \in [Pools -> Nat] /\ hwPage' \in [Pools -> Nat]
         /\ \A y \in Pools : freePage'[y] <= hwPage'[y] /\ hwPage'[y] <= hwPage[y]
<1>1. x \in Pools /\ 0 \in Pools /\ x # 0
  BY XmitAssumption DEF ACs, Pools
<1>2. /\ freePage[x] \in Nat /\ freePage[0] \in Nat
      /\ hwPage[x] \in Nat /\ hwPage[0] \in Nat
      /\ freePage[x] <= hwPage[x] /\ freePage[0] <= hwPage[0]
      /\ freePage[x] + freePage[0] >= n
  BY <1>1 DEF Room
<1>3. CASE n <= freePage[x]
  BY <1>1, <1>2, <1>3 DEF Take, ChipTakes
<1>4. CASE n > freePage[x] /\ n <= hwPage[x]
  BY <1>1, <1>2, <1>4 DEF Take, ChipTakes
<1>5. CASE n > hwPage[x]
  BY <1>1, <1>2, <1>5 DEF Take, ChipTakes
<1> QED
  BY <1>2, <1>3, <1>4, <1>5

(***************************************************************************)
(* RoomInv is inductive.                                                   *)
(***************************************************************************)
LEMMA RoomNext == PackInv /\ RoomInv /\ [Next]_vars => RoomInv'
<1> SUFFICES ASSUME PackInv, RoomInv, [Next]_vars PROVE RoomInv'
  OBVIOUS
<1>1. ASSUME NEW a \in ACs, XmitEntry(a) \/ EntryStep(a) PROVE RoomInv'
  BY <1>1, RoomUnchanged DEF XmitEntry, EntryStep, StopSubqueue, AllocFrame,
     DropPacket, DropFrame, hal_xmit, roomVars, bufVars, bVars, hwVars
<1>2. CASE XDown \/ XNext \/ XCategory \/ XAllocBuf \/ XCoalesce \/ XCoalesceFails \/ XEnd
  BY <1>2, RoomUnchanged DEF XDown, XNext, XCategory, XAllocBuf, XCoalesce,
     XCoalesceFails, XEnd, roomVars, bufVars, bVars, hwVars
<1>3. ASSUME NEW b \in Bufs, pendq' = Append(pendq, b),
             UNCHANGED <<bpc, bbuf, freePage, oqt, hwPage, hwOqt>>
      PROVE  RoomInv'
  <2>1. pendq' \in Seq(Bufs)
    BY <1>3, AppendProperties DEF RoomInv
  <2> QED
    BY <1>3, <2>1 DEF RoomInv, PageCap
<1>4. DataBuf \in Bufs
  BY DEF DataBuf, Bufs, PackInv
<1>5. CASE XFlush
  BY <1>3, <1>4, <1>5 DEF XFlush, FlushBuf, bVars, hwVars
<1>6. CASE XDump
  <2>1. CASE FlushBuf
    BY <1>3, <1>4, <1>6, <2>1 DEF XDump, FlushBuf, bVars, hwVars
  <2>2. CASE UNCHANGED pendq
    BY <1>6, <2>2, RoomUnchanged DEF XDump, roomVars, bVars, hwVars
  <2> QED
    BY <1>6, <2>1, <2>2 DEF XDump
<1>7. CASE BDown
  BY <1>7 DEF BDown, hwVars, RoomInv, PageCap
<1>8. CASE BSelect
  <2>1. CASE bpc' = "wait" /\ UNCHANGED <<pendq, bbuf>>
    BY <1>8, <2>1 DEF BSelect, hwVars, RoomInv, PageCap
  <2>2. ASSUME NEW i \in Selected, bbuf' = <<pendq[i]>>,
               pendq' = Without(pendq, i), bpc' = "hold"
        PROVE  RoomInv'
    <3>1. i \in DOMAIN pendq /\ pendq \in Seq(Bufs)
      BY <2>2 DEF Selected, FirstOf, RoomInv
    <3>2. pendq[i] \in Bufs
      BY <3>1, LenProperties, ElementOfSeq
    <3>3. bbuf' \in Seq(Bufs) /\ bbuf' # <<>>
      BY <2>2, <3>2
    <3>4. pendq' \in Seq(Bufs)
      BY <2>2, <3>1, WithoutType
    <3> QED
      BY <1>8, <2>2, <3>3, <3>4 DEF BSelect, hwVars, RoomInv, PageCap
  <2> QED
    BY <1>8, <2>1, <2>2 DEF BSelect
<1>9. ASSUME FreeBuf, UNCHANGED <<pendq, freePage, oqt, hwPage, hwOqt>>
      PROVE  RoomInv'
  BY <1>9, EmptySeq DEF FreeBuf, RoomInv, PageCap
<1>10. CASE BShort
  <2>1. CASE drv_stopped
    BY <1>9, <1>10, <2>1 DEF BShort, hwVars
  <2>2. CASE ~drv_stopped /\ UNCHANGED <<pendq, bbuf, bpc>>
    BY <1>10, <2>2 DEF BShort, hwVars, RoomInv, PageCap
  <2>3. CASE ~drv_stopped /\ pendq' = bbuf \o pendq /\ bbuf' = <<>> /\ bpc' = "loop"
    <3>1. pendq' \in Seq(Bufs) /\ bbuf' \in Seq(Bufs)
      BY <2>3, ConcatProperties, EmptySeq DEF RoomInv
    <3> QED
      BY <1>10, <2>3, <3>1 DEF BShort, hwVars, RoomInv, PageCap
  <2> QED
    BY <1>10, <2>1, <2>2, <2>3 DEF BShort
<1>11. CASE wait_enough_TxOQT_space
  <2>1. CASE drv_stopped
    BY <1>9, <1>11, <2>1 DEF wait_enough_TxOQT_space, hwVars
  <2>2. CASE ~drv_stopped
    BY <1>11, <2>2 DEF wait_enough_TxOQT_space, hwVars, RoomInv, PageCap
  <2> QED
    BY <2>1, <2>2
<1>12. CASE BWrite
  <2>1. bbuf[1] \in Bufs
    BY <1>12, EmptySeq, ElementOfSeq DEF BWrite, Writable, RoomInv
  <2>2. bbuf[1].fifo \in ACs /\ Agg \in Nat
    BY <2>1, LenProperties DEF Bufs, Agg
  <2>3. /\ Room(freePage, bbuf[1].fifo, Agg) /\ oqt >= Agg
        /\ ChipTakes(bbuf[1].fifo, Agg)
        /\ freePage' = Take(freePage, bbuf[1].fifo, Agg)
        /\ oqt' = oqt - Agg /\ hwOqt' = hwOqt - Agg
        /\ UNCHANGED pendq /\ bbuf' = <<>> /\ bpc' = "loop"
    BY <1>12 DEF BWrite, Writable, FreeBuf
  <2>4. /\ freePage \in [Pools -> Nat] /\ hwPage \in [Pools -> Nat]
        /\ \A y \in Pools : freePage[y] <= hwPage[y] /\ hwPage[y] <= PageCap(y)
    BY DEF RoomInv
  <2>5. /\ freePage' \in [Pools -> Nat] /\ hwPage' \in [Pools -> Nat]
        /\ \A y \in Pools : freePage'[y] <= hwPage'[y] /\ hwPage'[y] <= hwPage[y]
    BY <2>2, <2>3, <2>4, TakeKeepsBelow
  <2>6. \A y \in Pools : PageCap(y) \in Nat
    BY XmitAssumption DEF PageCap
  <2>7. \A y \in Pools : freePage'[y] <= hwPage'[y] /\ hwPage'[y] <= PageCap(y)
    BY <2>4, <2>5, <2>6
  <2>8. /\ oqt' \in Nat /\ hwOqt' \in Nat
        /\ oqt' <= hwOqt' /\ hwOqt' <= MaxOqt
    BY <2>2, <2>3, XmitAssumption DEF RoomInv
  <2> QED
    BY <2>3, <2>5, <2>7, <2>8, EmptySeq DEF RoomInv, PageCap
<1>13. CASE ChipSends
  <2>1. \A y \in Pools : PageCap(y) \in Nat
    BY XmitAssumption DEF PageCap
  <2> QED
    BY <1>13, <2>1, XmitAssumption DEF ChipSends, bufVars, bVars, RoomInv, PageCap
<1>14. CASE SurveyStart \/ ScanStep \/ DevUnload
  BY <1>14, RoomUnchanged DEF SurveyStart, ScanStep, SurveyComplete,
     os_xmit_schedule, DevUnload, roomVars, bufVars, bVars, hwVars
<1>15. ASSUME NEW p \in BOOLEAN, mgnt_xmit(p) PROVE RoomInv'
  <2> DEFINE b == [mgnt |-> TRUE, probe |-> p, fifo |-> 1, ids |-> <<1>>]
  <2>1. b \in Bufs
    BY <1>15, XmitAssumption DEF Bufs, ACs
  <2> QED
    BY <1>3, <1>15, <2>1 DEF mgnt_xmit, bVars, hwVars
<1>16. CASE UNCHANGED vars
  BY <1>16, RoomUnchanged DEF vars, roomVars, bufVars, bVars, hwVars
<1> QED
  BY <1>1, <1>2, <1>5, <1>6, <1>7, <1>8, <1>10, <1>11, <1>12, <1>13, <1>14,
     <1>15, <1>16 DEF Next, XStep, BStep

(***************************************************************************)
(* What _dequeue_writeport decides on counts it read earlier is right: the *)
(* chip has the pages and output queue entries for every buffer written.   *)
(***************************************************************************)
THEOREM RoomForEveryWrite == Spec => []ChipHasRoom
<1>1. RoomInv => ChipHasRoom
  <2> SUFFICES ASSUME RoomInv, Writable
               PROVE  Room(hwPage, bbuf[1].fifo, Agg) /\ hwOqt >= Agg
    BY DEF ChipHasRoom
  <2>1. bbuf[1] \in Bufs
    BY EmptySeq, ElementOfSeq DEF Writable, RoomInv
  <2>2. bbuf[1].fifo \in Pools /\ 0 \in Pools /\ Agg \in Nat
    BY <2>1, XmitAssumption, LenProperties DEF Bufs, Agg, ACs, Pools
  <2> QED
    BY <2>2 DEF Writable, Room, RoomInv
<1> QED
  BY <1>1, PackInit, PackNext, RoomInit, RoomNext, PTL DEF Spec

=============================================================================
