--------------------------- MODULE XmitOrderProofs ---------------------------
(***************************************************************************)
(* Proof that the packets of an access category are written in the order   *)
(* they came and once, for any number of categories, packets and buffers,  *)
(* with the buffers that are put back, held back during a survey or        *)
(* overtaken by management frames.                                         *)
(***************************************************************************)
EXTENDS XmitProofs
(***************************************************************************)
(* The packets of a category stand in one increasing line: written, in the *)
(* buffer of the second thread, in pendq, in the buffer being packed, in   *)
(* the category's queue, and last the one the network stack carries.       *)
(***************************************************************************)
Increasing(q) == \A i, j \in DOMAIN q : i < j => q[i] < q[j]

Between(q, lo, hi) == \A i \in DOMAIN q : lo < q[i] /\ q[i] <= hi

Before(p, q) == \A i \in DOMAIN p : \A j \in DOMAIN q : p[i] < q[j]

\* The last packet of category a that may be past rtl8723bs_hal_xmit.
Bound(a) == IF entry[a] = "idle" THEN hand[a] ELSE hand[a] - 1

InLine(a, q) == Increasing(q) /\ Between(q, written[a], Bound(a))

BufInLine(b) ==
  ~b.mgnt =>
    /\ ~b.probe /\ b.ids # <<>> /\ InLine(b.fifo, b.ids)
    /\ Before(b.ids, pending[b.fifo])
    /\ xac = b.fifo => Before(b.ids, xbuf)

Follows(b, c) ==
  ~b.mgnt /\ ~c.mgnt /\ b.fifo = c.fifo => Before(b.ids, c.ids)

LineInv ==
  /\ written \in [ACs -> Nat]
  /\ \A a \in ACs : written[a] <= Bound(a) /\ InLine(a, pending[a])
  /\ InLine(xac, xbuf) /\ Before(xbuf, pending[xac])
  /\ \A i \in DOMAIN pendq : BufInLine(pendq[i])
  /\ Len(bbuf) <= 1
  /\ bbuf # <<>> => BufInLine(bbuf[1])
  /\ \A i, j \in DOMAIN pendq : i < j => Follows(pendq[i], pendq[j])
  /\ bbuf # <<>> => \A i \in DOMAIN pendq : Follows(bbuf[1], pendq[i])

-----------------------------------------------------------------------------
(* Facts about sequences of packet numbers.                                *)

\* A place that is empty is in line with every other.
LEMMA EmptyInLine ==
  ASSUME NEW lo, NEW hi, NEW p
  PROVE  /\ Increasing(<<>>) /\ Between(<<>>, lo, hi)
         /\ Before(<<>>, p) /\ Before(p, <<>>)
BY DEF Increasing, Between, Before

(***************************************************************************)
(* What holds of a queue holds of what is left when its head is taken.     *)
(***************************************************************************)
LEMMA TailInLine ==
  ASSUME NEW q \in Seq(Nat), q # <<>>, NEW lo \in Int, NEW hi \in Int
  PROVE  /\ Increasing(q) => Increasing(Tail(q))
         /\ Between(q, lo, hi) => Between(Tail(q), lo, hi)
         /\ \A p : Before(p, q) => Before(p, Tail(q))
<1>1. /\ Tail(q) \in Seq(Nat) /\ Len(Tail(q)) = Len(q) - 1
      /\ \A i \in 1 .. Len(Tail(q)) : Tail(q)[i] = q[i + 1]
  BY HeadTailProperties
<1>2. /\ Len(q) \in Nat /\ DOMAIN q = 1 .. Len(q)
      /\ DOMAIN Tail(q) = 1 .. Len(Tail(q))
  BY <1>1, LenProperties
<1>3. \A i \in DOMAIN Tail(q) : i \in Nat /\ i + 1 \in DOMAIN q /\ Tail(q)[i] = q[i + 1]
  BY <1>1, <1>2
<1> QED
  BY <1>3 DEF Increasing, Between, Before

(***************************************************************************)
(* The head of a queue in line comes after what came before the queue and  *)
(* before what is left.                                                    *)
(***************************************************************************)
LEMMA HeadInLine ==
  ASSUME NEW q \in Seq(Nat), q # <<>>
  PROVE  /\ Head(q) \in Nat /\ 1 \in DOMAIN q /\ Head(q) = q[1]
         /\ Increasing(q) => \A j \in DOMAIN Tail(q) : Head(q) < Tail(q)[j]
<1>1. /\ Tail(q) \in Seq(Nat) /\ Len(Tail(q)) = Len(q) - 1 /\ Head(q) \in Nat
      /\ \A i \in 1 .. Len(Tail(q)) : Tail(q)[i] = q[i + 1]
  BY HeadTailProperties
<1>2. /\ Len(q) \in Nat \ {0} /\ DOMAIN q = 1 .. Len(q)
      /\ DOMAIN Tail(q) = 1 .. Len(Tail(q))
  BY <1>1, LenProperties, EmptySeq
<1>3. Head(q) = q[1] /\ 1 \in DOMAIN q
  BY <1>2
<1>4. \A i \in DOMAIN Tail(q) : 1 < i + 1 /\ i + 1 \in DOMAIN q /\ Tail(q)[i] = q[i + 1]
  BY <1>1, <1>2
<1> QED
  BY <1>1, <1>3, <1>4 DEF Increasing

(***************************************************************************)
(* A packet that comes after those in a sequence is appended to it.        *)
(***************************************************************************)
LEMMA AppendInLine ==
  ASSUME NEW q \in Seq(Nat), NEW e \in Nat
  PROVE  /\ Increasing(q) /\ (\A i \in DOMAIN q : q[i] < e)
              => Increasing(Append(q, e))
         /\ \A lo, hi \in Int : Between(q, lo, hi) /\ lo < e /\ e <= hi
              => Between(Append(q, e), lo, hi)
         /\ \A p : Before(p, q) /\ (\A i \in DOMAIN p : p[i] < e)
              => Before(p, Append(q, e))
         /\ \A p : Before(q, p) /\ (\A i \in DOMAIN p : e < p[i])
              => Before(Append(q, e), p)
<1>1. /\ Append(q, e) \in Seq(Nat) /\ Len(Append(q, e)) = Len(q) + 1
      /\ \A i \in 1 .. Len(q) : Append(q, e)[i] = q[i]
      /\ Append(q, e)[Len(q) + 1] = e
  BY AppendProperties
<1>2. /\ Len(q) \in Nat /\ DOMAIN q = 1 .. Len(q)
      /\ DOMAIN Append(q, e) = 1 .. Len(Append(q, e))
  BY <1>1, LenProperties
<1>3. \A i \in DOMAIN Append(q, e) :
        \/ i \in DOMAIN q /\ Append(q, e)[i] = q[i]
        \/ i = Len(q) + 1 /\ Append(q, e)[i] = e
  BY <1>1, <1>2
<1>4. \A i \in DOMAIN q : i \in Nat /\ i < Len(q) + 1
  BY <1>2
<1>5. Increasing(q) /\ (\A i \in DOMAIN q : q[i] < e) => Increasing(Append(q, e))
  BY <1>2, <1>3, <1>4 DEF Increasing
<1> QED
  BY <1>3, <1>5 DEF Between, Before

-----------------------------------------------------------------------------
(* The line of packets under the steps of the contexts.                    *)

\* The bound on the packets under way is a number.
LEMMA BoundType == PackInv => \A a \in ACs : Bound(a) \in Int
BY DEF PackInv, Bound

\* No packet of category a is taken back by a step.
Grows(a) == Bound(a)' \in Int /\ Bound(a) <= Bound(a)'

\* A place that does not change stays in line while its category grows.
LEMMA InLineKept ==
  ASSUME PackInv, NEW a \in ACs, NEW q \in Seq(Nat), InLine(a, q),
         written'[a] = written[a], Grows(a)
  PROVE  InLine(a, q)'
<1>1. \A i \in DOMAIN q : q[i] \in Nat
  BY LenProperties, ElementOfSeq
<1>2. Bound(a) \in Int
  BY BoundType
<1>3. \A i \in DOMAIN q : q[i] <= Bound(a)'
  BY <1>1, <1>2 DEF InLine, Between, Grows
<1> QED
  BY <1>3 DEF InLine, Between, Increasing

\* The fields of a transmit buffer.
LEMMA BufType ==
  ASSUME NEW b \in Bufs
  PROVE  b.fifo \in ACs /\ b.ids \in Seq(Nat) /\ b.mgnt \in BOOLEAN
BY DEF Bufs

(***************************************************************************)
(* A buffer stays in line when what comes after it still does.             *)
(***************************************************************************)
LEMMA BufKept ==
  ASSUME PackInv, NEW b \in Bufs, BufInLine(b), UNCHANGED written,
         \A a \in ACs : Grows(a),
         ~b.mgnt => Before(b.ids, pending'[b.fifo]),
         ~b.mgnt /\ xac' = b.fifo => Before(b.ids, xbuf')
  PROVE  BufInLine(b)'
<1>1. ~b.mgnt => InLine(b.fifo, b.ids)'
  BY BufType, InLineKept DEF BufInLine
<1> QED
  BY <1>1 DEF BufInLine, Before

(***************************************************************************)
(* A step that leaves the packed buffers alone and keeps them in line.     *)
(***************************************************************************)
LEMMA LineKept ==
  ASSUME PackInv, RoomInv, LineInv, UNCHANGED <<written, pendq, bbuf>>,
         \A a \in ACs : Grows(a),
         \A b \in Bufs : BufInLine(b) /\ ~b.mgnt =>
            /\ Before(b.ids, pending'[b.fifo])
            /\ xac' = b.fifo => Before(b.ids, xbuf'),
         \A a \in ACs : InLine(a, pending[a])',
         InLine(xac, xbuf)', Before(xbuf, pending[xac])'
  PROVE  LineInv'
<1>1. \A b \in Bufs : BufInLine(b) => BufInLine(b)'
  BY BufKept
<1>2. \A a \in ACs : written'[a] <= Bound(a)'
  <2> TAKE a \in ACs
  <2>1. written[a] \in Nat /\ Bound(a) \in Int /\ written[a] <= Bound(a)
    BY BoundType DEF LineInv
  <2> QED
    BY <2>1 DEF Grows
<1>3. /\ \A i \in DOMAIN pendq : pendq[i] \in Bufs
      /\ bbuf # <<>> => bbuf[1] \in Bufs
  BY LenProperties, ElementOfSeq, EmptySeq DEF RoomInv
<1>4. \A i \in DOMAIN pendq' : BufInLine(pendq[i])'
  BY <1>1, <1>3 DEF LineInv
<1>5. bbuf' # <<>> => BufInLine(bbuf[1])'
  BY <1>1, <1>3 DEF LineInv
<1>6. /\ \A i, j \in DOMAIN pendq' : i < j => Follows(pendq[i], pendq[j])'
      /\ bbuf' # <<>> => \A i \in DOMAIN pendq' : Follows(bbuf[1], pendq[i])'
  BY DEF LineInv, Follows, Before
<1> QED
  BY <1>2, <1>4, <1>5, <1>6 DEF LineInv

(***************************************************************************)
(* Steps that touch no packet.                                             *)
(***************************************************************************)
LEMMA LineQuiet ==
  ASSUME PackInv, RoomInv, LineInv,
         UNCHANGED <<written, pending, xac, xbuf, pendq, bbuf>>,
         \A a \in ACs : Grows(a)
  PROVE  LineInv'
<1>1. \A a \in ACs : pending[a] \in Seq(Nat)
  BY DEF PackInv
<1>2. \A a \in ACs : InLine(a, pending[a])'
  BY <1>1, InLineKept DEF LineInv
<1>3. InLine(xac, xbuf)'
  BY InLineKept DEF LineInv, PackInv
<1>4. Before(xbuf, pending[xac])'
  BY DEF LineInv, Before
<1> QED
  BY <1>2, <1>3, <1>4, LineKept DEF BufInLine

\* All places are empty initially.
LEMMA LineInit == Init => LineInv
<1> SUFFICES ASSUME Init PROVE LineInv
  OBVIOUS
<1>1. \A a \in ACs : /\ pending[a] = <<>> /\ written[a] = 0 /\ Bound(a) = 0
  BY DEF Init, Bound
<1>2. \A a \in ACs : InLine(a, <<>>)
  BY EmptyInLine DEF InLine
<1>3. written \in [ACs -> Nat] /\ xac \in ACs /\ xbuf = <<>> /\ pendq = <<>> /\ bbuf = <<>>
  BY XmitAssumption DEF Init, ACs
<1>4. Before(xbuf, pending[xac])
  BY <1>3, EmptyInLine
<1>5. DOMAIN pendq = {}
  BY <1>3
<1> QED
  BY <1>1, <1>2, <1>3, <1>4, <1>5 DEF LineInv

(***************************************************************************)
(* The network stack's context: Bound grows by at most the packet that was *)
(* dropped or queued.                                                      *)
(***************************************************************************)
LEMMA EntryGrows ==
  ASSUME PackInv, NEW a \in ACs, XmitEntry(a) \/ EntryStep(a)
  PROVE  \A c \in ACs : Grows(c)
<1> TAKE c \in ACs
<1>1. /\ entry \in [ACs -> {"idle", "stop", "alloc", "hal"}]
      /\ hand \in [ACs -> Nat]
  BY DEF PackInv
<1>2. CASE XmitEntry(a)
  BY <1>1, <1>2 DEF XmitEntry, Grows, Bound
<1>3. CASE EntryStep(a)
  BY <1>1, <1>3 DEF EntryStep, StopSubqueue, AllocFrame, DropPacket,
     DropFrame, hal_xmit, Grows, Bound
<1> QED
  BY <1>2, <1>3

\* rtw_xmit keeps the line: a packet in entry is the newest of its category.
LEMMA LineEntry ==
  ASSUME PackInv, RoomInv, LineInv, NEW a \in ACs,
         XmitEntry(a) \/ StopSubqueue(a) \/ AllocFrame(a) \/ DropPacket(a)
           \/ DropFrame(a)
  PROVE  LineInv'
<1>1. UNCHANGED <<written, pending, xac, xbuf, pendq, bbuf>>
  BY DEF XmitEntry, StopSubqueue, AllocFrame, DropPacket, DropFrame,
     frmVars, xVars, bufVars, bVars
<1>2. \A c \in ACs : Grows(c)
  BY EntryGrows DEF EntryStep
<1> QED
  BY <1>1, <1>2, LineQuiet

(***************************************************************************)
(* The packet that is queued comes after all others of its category.       *)
(***************************************************************************)
LEMMA LineQueued ==
  ASSUME PackInv, RoomInv, LineInv, NEW a \in ACs, hal_xmit(a)
  PROVE  LineInv'
<1>1. /\ UNCHANGED <<written, hand, xac, xbuf, pendq, bbuf>>
      /\ entry[a] = "hal" /\ entry' = [entry EXCEPT ![a] = "idle"]
      /\ pending' = [pending EXCEPT ![a] = Append(@, hand[a])]
  BY DEF hal_xmit, bufVars, bVars
<1>2. \A c \in ACs : Grows(c)
  BY EntryGrows DEF EntryStep
<1>3. /\ pending \in [ACs -> Seq(Nat)] /\ hand[a] \in Nat
      /\ entry \in [ACs -> {"idle", "stop", "alloc", "hal"}]
      /\ pending'[a] = Append(pending[a], hand[a])
      /\ \A c \in ACs \ {a} : pending'[c] = pending[c]
  BY <1>1 DEF PackInv
<1>4. Bound(a) = hand[a] - 1 /\ Bound(a)' = hand[a]
  BY <1>1, <1>3 DEF Bound
<1>5. ASSUME NEW q \in Seq(Nat), InLine(a, q)
      PROVE  \A i \in DOMAIN q : q[i] < hand[a]
  <2>1. \A i \in DOMAIN q : q[i] \in Nat
    BY <1>5, LenProperties, ElementOfSeq
  <2> QED
    BY <1>3, <1>4, <1>5, <2>1 DEF InLine, Between
<1>6. ASSUME NEW q \in Seq(Nat), InLine(a, q), Before(q, pending[a])
      PROVE  Before(q, pending'[a])
  BY <1>3, <1>5, <1>6, AppendInLine
<1>7. \A b \in Bufs : BufInLine(b) /\ ~b.mgnt =>
            /\ Before(b.ids, pending'[b.fifo])
            /\ xac' = b.fifo => Before(b.ids, xbuf')
  <2> SUFFICES ASSUME NEW b \in Bufs, BufInLine(b), ~b.mgnt
               PROVE  Before(b.ids, pending'[b.fifo])
    BY <1>1 DEF BufInLine
  <2>1. b.fifo \in ACs /\ b.ids \in Seq(Nat)
    BY BufType
  <2>2. CASE b.fifo = a
    BY <1>6, <2>1, <2>2 DEF BufInLine
  <2>3. CASE b.fifo # a
    BY <1>3, <2>1, <2>3 DEF BufInLine
  <2> QED
    BY <2>2, <2>3
<1>8. \A c \in ACs : InLine(c, pending[c])'
  <2> TAKE c \in ACs
  <2>1. InLine(c, pending[c]) /\ pending[c] \in Seq(Nat)
    BY <1>3 DEF LineInv
  <2>2. InLine(c, pending[c]) => Increasing(pending[c])
    BY DEF InLine
  <2>3. CASE c # a
    <3>1. pending'[c] = pending[c]
      BY <1>3, <2>3
    <3>2. /\ Increasing(pending'[c])
          /\ Between(pending'[c], written'[c], Bound(c)')
      BY <1>1, <1>2, <2>1, <3>1, InLineKept DEF InLine, Between, Increasing
    <3> QED
      BY <3>2 DEF InLine, Between, Increasing
  <2>4. CASE c = a
    <3>1. /\ written[a] \in Nat /\ written[a] <= Bound(a)
      BY DEF LineInv
    <3>2. written[a] < hand[a]
      BY <1>3, <1>4, <3>1
    <3>3. \A i \in DOMAIN pending[a] : pending[a][i] < hand[a]
      BY <1>5, <2>1, <2>4
    <3>4. Increasing(pending'[a])
      BY <1>3, <2>1, <2>2, <2>4, <3>3, AppendInLine
    <3>5. \A i \in DOMAIN pending[a] : pending[a][i] \in Nat
      BY <1>3, LenProperties, ElementOfSeq
    <3>6. Between(pending[a], written[a], hand[a])
      BY <1>3, <2>1, <2>4, <3>3, <3>5 DEF InLine, Between
    <3>7. Between(pending'[a], written[a], hand[a])
      BY <1>3, <3>1, <3>2, <3>6, AppendInLine
    <3> QED
      BY <1>1, <1>4, <2>4, <3>4, <3>7 DEF InLine, Between, Increasing
  <2> QED
    BY <2>3, <2>4
<1>9. InLine(xac, xbuf)'
  BY <1>1, <1>2, InLineKept DEF LineInv, PackInv
<1>10. Before(xbuf, pending[xac])'
  <2>1. xac \in ACs /\ xbuf \in Seq(Nat)
    BY DEF PackInv
  <2>2. InLine(xac, xbuf) /\ Before(xbuf, pending[xac])
    BY DEF LineInv
  <2>3. Before(xbuf, pending'[xac])
    BY <1>3, <1>6, <2>1, <2>2
  <2> QED
    BY <1>1, <2>3 DEF Before
<1> QED
  BY <1>1, <1>2, <1>7, <1>8, <1>9, <1>10, LineKept

(***************************************************************************)
(* Steps that leave hand and entry alone.                                  *)
(***************************************************************************)
LEMMA SameBound ==
  ASSUME PackInv, UNCHANGED <<entry, hand>>
  PROVE  \A a \in ACs : Grows(a)
<1> TAKE a \in ACs
<1>1. Bound(a)' = Bound(a) /\ Bound(a) \in Int
  BY BoundType DEF Bound
<1> QED
  BY <1>1 DEF Grows

(***************************************************************************)
(* The thread turns to another category, or waits, with nothing packed.    *)
(***************************************************************************)
LEMMA LineTurned ==
  ASSUME PackInv, RoomInv, LineInv, xac' \in ACs, xbuf' = <<>>,
         UNCHANGED <<entry, hand, written, pending, pendq, bbuf>>
  PROVE  LineInv'
<1>1. \A a \in ACs : Grows(a)
  BY SameBound
<1>2. \A a \in ACs : InLine(a, pending[a])'
  BY <1>1, InLineKept DEF LineInv, PackInv
<1>3. InLine(xac, xbuf)' /\ Before(xbuf, pending[xac])'
  BY DEF InLine, Increasing, Between, Before
<1>4. \A b \in Bufs : Before(b.ids, xbuf')
  BY EmptyInLine
<1> QED
  BY <1>1, <1>2, <1>3, <1>4, LineKept DEF BufInLine

(***************************************************************************)
(* The head of a category's queue leaves it, for the buffer or for good.   *)
(***************************************************************************)
LEMMA LineTaken ==
  ASSUME PackInv, RoomInv, LineInv,
         UNCHANGED <<entry, hand, written, xac, pendq, bbuf>>,
         pending[xac] # <<>>,
         pending' = [pending EXCEPT ![xac] = Tail(@)],
         xbuf' = xbuf \/ xbuf' = Append(xbuf, Head(pending[xac]))
  PROVE  LineInv'
<1> DEFINE q == pending[xac]
           h == Head(pending[xac])
<1>1. \A a \in ACs : Grows(a)
  BY SameBound
<1>2. /\ xac \in ACs /\ xbuf \in Seq(Nat) /\ q \in Seq(Nat) /\ q # <<>>
      /\ pending \in [ACs -> Seq(Nat)]
      /\ pending'[xac] = Tail(q) /\ \A c \in ACs \ {xac} : pending'[c] = pending[c]
  BY DEF PackInv
<1>3. h \in Nat /\ 1 \in DOMAIN q /\ h = q[1]
  BY <1>2, HeadInLine
<1>4. /\ InLine(xac, q) /\ InLine(xac, xbuf) /\ Before(xbuf, q)
      /\ written[xac] \in Nat /\ Bound(xac) \in Int
  BY <1>2, BoundType DEF LineInv
<1>5. \A j \in DOMAIN Tail(q) : h < Tail(q)[j]
  BY <1>2, <1>4, HeadInLine DEF InLine
<1>6. /\ Increasing(Tail(q)) /\ Between(Tail(q), written[xac], Bound(xac))
      /\ \A p : Before(p, q) => Before(p, Tail(q))
  BY <1>2, <1>4, TailInLine DEF InLine
<1>7. Tail(q) \in Seq(Nat)
  BY <1>2, HeadTailProperties
<1>8. \A p : Before(p, q) => \A i \in DOMAIN p : p[i] < h
  BY <1>3 DEF Before
<1>9. \A p : Before(p, q) /\ Before(p, xbuf) => Before(p, xbuf')
  <2> SUFFICES ASSUME NEW p, Before(p, q), Before(p, xbuf),
                      xbuf' = Append(xbuf, h)
               PROVE  Before(p, Append(xbuf, h))
    OBVIOUS
  <2>1. \A i \in DOMAIN p : p[i] < h
    BY <1>8
  <2> QED
    BY <1>2, <1>3, <2>1, AppendInLine
<1>10. \A b \in Bufs : BufInLine(b) /\ ~b.mgnt =>
            /\ Before(b.ids, pending'[b.fifo])
            /\ xac' = b.fifo => Before(b.ids, xbuf')
  BY <1>2, <1>6, <1>9, BufType DEF BufInLine
<1>11. \A c \in ACs : InLine(c, pending[c])'
  <2> TAKE c \in ACs
  <2>1. InLine(c, pending'[c]) /\ pending'[c] \in Seq(Nat)
    <3>1. CASE c = xac
      BY <1>2, <1>6, <1>7, <3>1 DEF InLine
    <3>2. CASE c # xac
      BY <1>2, <3>2 DEF LineInv
    <3> QED
      BY <3>1, <3>2
  <2>2. Bound(c)' = Bound(c)
    BY DEF Bound
  <2> QED
    BY <2>1, <2>2 DEF InLine
<1>12. InLine(xac, xbuf') /\ Before(xbuf', pending'[xac])
  <2>1. Before(xbuf, Tail(q))
    BY <1>4, <1>6
  <2>2. CASE xbuf' = xbuf
    BY <1>2, <1>4, <2>1, <2>2
  <2>3. CASE xbuf' = Append(xbuf, h)
    <3>1. \A i \in DOMAIN xbuf : xbuf[i] < h
      BY <1>4, <1>8
    <3>2. Increasing(xbuf')
      BY <1>2, <1>3, <1>4, <2>3, <3>1, AppendInLine DEF InLine
    <3>3. written[xac] < h /\ h <= Bound(xac)
      BY <1>3, <1>4 DEF InLine, Between
    <3>4. Between(xbuf', written[xac], Bound(xac))
      BY <1>2, <1>3, <1>4, <2>3, <3>3, AppendInLine DEF InLine
    <3>5. Before(xbuf', Tail(q))
      BY <1>2, <1>3, <1>5, <2>1, <2>3, AppendInLine
    <3> QED
      BY <1>2, <3>2, <3>4, <3>5 DEF InLine
  <2> QED
    BY <2>2, <2>3
<1>13. InLine(xac, xbuf)' /\ Before(xbuf, pending[xac])'
  <2>1. Bound(xac)' = Bound(xac)
    BY DEF Bound
  <2> QED
    BY <1>12, <2>1 DEF InLine, Before
<1> QED
  BY <1>1, <1>10, <1>11, <1>13, LineKept

(***************************************************************************)
(* A buffer is appended to pendq: it is a management frame's, or comes     *)
(* after every buffer of its category.                                     *)
(***************************************************************************)
LEMMA LineAppended ==
  ASSUME PackInv, RoomInv, LineInv, NEW b \in Bufs, b.probe => b.mgnt,
         UNCHANGED <<entry, hand, written, pending, bbuf>>,
         pendq' = Append(pendq, b),
         b.mgnt => UNCHANGED <<xac, xbuf>>,
         ~b.mgnt => /\ b.fifo = xac /\ b.ids = xbuf /\ xbuf # <<>>
                    /\ xbuf' = <<>> /\ xac' \in ACs
  PROVE  LineInv'
<1>1. /\ \A i \in DOMAIN pendq : pendq[i] \in Bufs
      /\ bbuf # <<>> => bbuf[1] \in Bufs
      /\ Len(pendq) \in Nat /\ DOMAIN pendq = 1 .. Len(pendq)
  BY LenProperties, ElementOfSeq, EmptySeq DEF RoomInv
<1>2. /\ Len(pendq') = Len(pendq) + 1 /\ DOMAIN pendq' = 1 .. Len(pendq')
      /\ \A i \in 1 .. Len(pendq) : pendq'[i] = pendq[i]
      /\ pendq'[Len(pendq) + 1] = b
  BY AppendProperties, LenProperties DEF RoomInv
<1>3. \A i \in DOMAIN pendq' : \/ i \in DOMAIN pendq /\ pendq'[i] = pendq[i]
                               \/ i = Len(pendq) + 1 /\ pendq'[i] = b
  BY <1>1, <1>2
<1>4. \A a \in ACs : Bound(a)' = Bound(a)
  BY DEF Bound
<1>5. \A c \in Bufs : BufInLine(c) => BufInLine(c)'
  <2> SUFFICES ASSUME NEW c \in Bufs, BufInLine(c), ~c.mgnt PROVE BufInLine(c)'
    BY DEF BufInLine
  <2>1. xac' = c.fifo => Before(c.ids, xbuf')
    BY BufType, EmptyInLine DEF BufInLine
  <2>2. \A a \in ACs : Grows(a)
    BY SameBound
  <2> QED
    BY <2>1, <2>2, BufKept DEF BufInLine
<1>6. BufInLine(b)'
  <2>1. CASE b.mgnt
    BY <2>1 DEF BufInLine
  <2>2. CASE ~b.mgnt
    <3>1. /\ InLine(b.fifo, b.ids) /\ Before(b.ids, pending[b.fifo])
          /\ ~b.probe /\ b.ids # <<>> /\ b.fifo \in ACs
      BY <2>2, BufType DEF LineInv
    <3>2. InLine(b.fifo, b.ids)' /\ Before(b.ids, pending[b.fifo])'
      BY <1>4, <3>1 DEF InLine, Before
    <3>3. Before(b.ids, xbuf)'
      BY <2>2, EmptyInLine
    <3> QED
      BY <3>1, <3>2, <3>3 DEF BufInLine
  <2> QED
    BY <2>1, <2>2, BufType
<1>7. ASSUME NEW c \in Bufs, BufInLine(c) PROVE Follows(c, b)
  BY <1>7 DEF BufInLine, Follows
<1>8. \A i \in DOMAIN pendq' : BufInLine(pendq[i])'
  <2> TAKE i \in DOMAIN pendq'
  <2>1. CASE i \in DOMAIN pendq /\ pendq'[i] = pendq[i]
    BY <1>1, <1>5, <2>1 DEF LineInv
  <2>2. CASE pendq'[i] = b
    BY <1>6, <2>2
  <2> QED
    BY <1>3, <2>1, <2>2
<1>9. bbuf' # <<>> => BufInLine(bbuf[1])'
  BY <1>1, <1>5 DEF LineInv
<1>10. \A i, j \in DOMAIN pendq' : i < j => Follows(pendq'[i], pendq'[j])
  BY <1>1, <1>2, <1>3, <1>7 DEF LineInv
<1>11. bbuf' # <<>> => \A i \in DOMAIN pendq' : Follows(bbuf'[1], pendq'[i])
  BY <1>1, <1>3, <1>7 DEF LineInv
<1>12. /\ InLine(xac, xbuf)' /\ Before(xbuf, pending[xac])'
  <2>1. CASE b.mgnt
    BY <1>4, <2>1 DEF LineInv, InLine, Before, PackInv
  <2>2. CASE ~b.mgnt
    BY <2>2 DEF InLine, Increasing, Between, Before
  <2> QED
    BY <2>1, <2>2, BufType
<1>13. \A a \in ACs : (written[a] <= Bound(a) /\ InLine(a, pending[a]))'
  BY <1>4 DEF LineInv, InLine
<1>14. /\ \A i, j \in DOMAIN pendq' : i < j => Follows(pendq[i], pendq[j])'
       /\ bbuf' # <<>> => \A i \in DOMAIN pendq' : Follows(bbuf[1], pendq[i])'
  BY <1>10, <1>11 DEF Follows, Before
<1>15. written' \in [ACs -> Nat]
  BY DEF LineInv
<1> QED
  BY <1>8, <1>9, <1>12, <1>13, <1>14, <1>15 DEF LineInv


(***************************************************************************)
(* The second thread moves buffers between pendq and its own hands.        *)
(***************************************************************************)
LEMMA LineRequeued ==
  ASSUME PackInv, RoomInv, LineInv,
         UNCHANGED <<entry, hand, written, pending, xac, xbuf>>,
         Len(bbuf') <= 1,
         \A i \in DOMAIN pendq' :
            pendq'[i] \in Bufs /\ BufInLine(pendq'[i]),
         bbuf' # <<>> => bbuf'[1] \in Bufs /\ BufInLine(bbuf'[1]),
         \A i, j \in DOMAIN pendq' : i < j => Follows(pendq'[i], pendq'[j]),
         bbuf' # <<>> => \A i \in DOMAIN pendq' : Follows(bbuf'[1], pendq'[i])
  PROVE  LineInv'
<1>1. \A a \in ACs : Grows(a) /\ Bound(a)' = Bound(a)
  BY SameBound DEF Bound
<1>2. \A c \in Bufs : BufInLine(c) => BufInLine(c)'
  BY <1>1, BufKept DEF BufInLine
<1>3. \A i \in DOMAIN pendq' : BufInLine(pendq[i])'
  BY <1>2
<1>4. bbuf' # <<>> => BufInLine(bbuf[1])'
  BY <1>2
<1>5. /\ \A i, j \in DOMAIN pendq' : i < j => Follows(pendq[i], pendq[j])'
      /\ bbuf' # <<>> => \A i \in DOMAIN pendq' : Follows(bbuf[1], pendq[i])'
  BY DEF Follows, Before
<1>6. \A a \in ACs : (written[a] <= Bound(a) /\ InLine(a, pending[a]))'
  BY <1>1 DEF LineInv, InLine
<1>7. InLine(xac, xbuf)' /\ Before(xbuf, pending[xac])'
  BY <1>1 DEF LineInv, InLine, Before, PackInv
<1>8. written' \in [ACs -> Nat] /\ Len(bbuf') <= 1
  BY DEF LineInv
<1> QED
  BY <1>3, <1>4, <1>5, <1>6, <1>7, <1>8 DEF LineInv

(***************************************************************************)
(* What LineInv says of the buffers, with their types.                     *)
(***************************************************************************)
LEMMA LineBufs ==
  ASSUME RoomInv, LineInv
  PROVE  /\ Len(pendq) \in Nat /\ DOMAIN pendq = 1 .. Len(pendq)
         /\ \A i \in DOMAIN pendq :
               pendq[i] \in Bufs /\ BufInLine(pendq[i])
         /\ bbuf # <<>> => bbuf[1] \in Bufs /\ BufInLine(bbuf[1]) /\ Len(bbuf) = 1
<1>1. /\ \A i \in DOMAIN pendq : pendq[i] \in Bufs
      /\ bbuf # <<>> => bbuf[1] \in Bufs /\ Len(bbuf) \in Nat \ {0}
      /\ Len(pendq) \in Nat /\ DOMAIN pendq = 1 .. Len(pendq)
  BY LenProperties, ElementOfSeq, EmptySeq DEF RoomInv
<1>2. bbuf # <<>> => Len(bbuf) = 1
  <2> SUFFICES ASSUME bbuf # <<>> PROVE Len(bbuf) = 1
    OBVIOUS
  <2>1. Len(bbuf) \in Nat \ {0}
    BY <1>1
  <2>2. Len(bbuf) <= 1
    BY DEF LineInv
  <2>3. \A n \in Nat \ {0} : n <= 1 => n = 1
    OBVIOUS
  <2> QED
    BY <2>1, <2>2, <2>3, Zenon
<1> QED
  BY <1>1, <1>2 DEF LineInv

\* Freeing the second thread's buffer keeps the line.
LEMMA LineFreed ==
  ASSUME PackInv, RoomInv, LineInv, bbuf' = <<>>,
         UNCHANGED <<entry, hand, written, pending, xac, xbuf, pendq>>
  PROVE  LineInv'
<1>1. Len(bbuf') <= 1
  BY EmptySeq
<1>2. \A i, j \in DOMAIN pendq' : i < j => Follows(pendq'[i], pendq'[j])
  BY DEF LineInv
<1> QED
  BY <1>1, <1>2, LineBufs, LineRequeued

(***************************************************************************)
(* A buffer that is put back goes to the head of pendq, before those it    *)
(* was selected before.                                                    *)
(***************************************************************************)
LEMMA LinePutBack ==
  ASSUME PackInv, RoomInv, LineInv, bbuf # <<>>,
         pendq' = bbuf \o pendq, bbuf' = <<>>,
         UNCHANGED <<entry, hand, written, pending, xac, xbuf>>
  PROVE  LineInv'
<1>1. Len(bbuf') <= 1
  BY EmptySeq
<1>2. Len(bbuf) = 1
  BY LineBufs
<1>3. /\ pendq' \in Seq(Bufs) /\ Len(pendq') = Len(pendq) + 1
      /\ \A i \in 1 .. Len(pendq) + 1 : pendq'[i] = IF i <= 1 THEN bbuf[i] ELSE pendq[i - 1]
  <2>1. /\ bbuf \o pendq \in Seq(Bufs) /\ Len(bbuf \o pendq) = Len(bbuf) + Len(pendq)
        /\ \A i \in 1 .. Len(bbuf) + Len(pendq) : (bbuf \o pendq)[i] =
                 IF i <= Len(bbuf) THEN bbuf[i] ELSE pendq[i - Len(bbuf)]
    BY ConcatProperties DEF RoomInv
  <2>2. 1 + Len(pendq) = Len(pendq) + 1
    BY LineBufs
  <2> QED
    BY <1>2, <2>1, <2>2
<1>4. DOMAIN pendq' = 1 .. Len(pendq) + 1
  BY <1>3, LenProperties
<1>5. \A i \in DOMAIN pendq' :
        \/ i = 1 /\ pendq'[i] = bbuf[1]
        \/ i > 1 /\ i - 1 \in DOMAIN pendq /\ pendq'[i] = pendq[i - 1]
  BY <1>3, <1>4, LineBufs
<1>6. \A i \in DOMAIN pendq' :
         pendq'[i] \in Bufs /\ BufInLine(pendq'[i])
  BY <1>5, LineBufs
<1>7. \A i, j \in DOMAIN pendq' : i < j => Follows(pendq'[i], pendq'[j])
  <2> SUFFICES ASSUME NEW i \in DOMAIN pendq', NEW j \in DOMAIN pendq', i < j
               PROVE  Follows(pendq'[i], pendq'[j])
    OBVIOUS
  <2>1. i \in Int /\ j \in Int /\ j > 1
    BY <1>4, LineBufs
  <2>2. CASE i = 1
    BY <1>5, <2>1, <2>2 DEF LineInv
  <2>3. CASE i > 1
    <3>1. i - 1 < j - 1
      BY <2>1
    <3> QED
      BY <1>5, <2>1, <2>3, <3>1 DEF LineInv
  <2> QED
    BY <1>5, <2>2, <2>3
<1> QED
  BY <1>1, <1>6, <1>7, LineRequeued


\* What is left of a sequence when one element is taken out.
LEMMA WithoutIndex ==
  ASSUME NEW S, NEW s \in Seq(S), NEW i \in DOMAIN s
  PROVE  /\ Without(s, i) \in Seq(S)
         /\ Len(Without(s, i)) = Len(s) - 1
         /\ \A k \in 1 .. Len(s) - 1 :
              Without(s, i)[k] = IF k < i THEN s[k] ELSE s[k + 1]
<1>1. /\ Len(s) \in Nat /\ i \in 1 .. Len(s)
      /\ \A k \in 1 .. Len(s) : s[k] \in S
  BY LenProperties, ElementOfSeq
<1> DEFINE f == SubSeq(s, 1, i - 1)
           g == SubSeq(s, i + 1, Len(s))
<1>2. /\ f \in Seq(S) /\ Len(f) = i - 1
      /\ \A k \in 1 .. i - 1 : f[k] = s[k]
  <2>1. i - 1 \in Int /\ \A k \in 1 .. i - 1 : s[k] \in S
    BY <1>1
  <2>2. /\ f \in Seq(S) /\ Len(f) = IF 1 <= i - 1 THEN i - 1 - 1 + 1 ELSE 0
        /\ \A k \in 1 .. i - 1 - 1 + 1 : f[k] = s[1 + k - 1]
    BY <2>1, SubSeqProperties, 1 \in Int
  <2> HIDE DEF f
  <2> QED
    BY <1>1, <2>2
<1>3. /\ g \in Seq(S) /\ Len(g) = Len(s) - i
      /\ \A k \in 1 .. Len(s) - i : g[k] = s[i + k]
  <2>1. i + 1 \in Int /\ Len(s) \in Int /\ \A k \in i + 1 .. Len(s) : s[k] \in S
    BY <1>1
  <2>2. /\ g \in Seq(S) /\ Len(g) = IF i + 1 <= Len(s) THEN Len(s) - (i + 1) + 1 ELSE 0
        /\ \A k \in 1 .. Len(s) - (i + 1) + 1 : g[k] = s[i + 1 + k - 1]
    BY <2>1, SubSeqProperties
  <2> HIDE DEF g
  <2> QED
    BY <1>1, <2>2
<1> HIDE DEF f, g
<1>4. /\ f \o g \in Seq(S) /\ Len(f \o g) = Len(f) + Len(g)
      /\ \A k \in 1 .. Len(f) + Len(g) : (f \o g)[k] =
               IF k <= Len(f) THEN f[k] ELSE g[k - Len(f)]
  BY <1>2, <1>3, ConcatProperties
<1>5. Without(s, i) = f \o g
  BY DEF Without, f, g
<1>6. Len(f) + Len(g) = Len(s) - 1
  BY <1>1, <1>2, <1>3
<1>7. \A k \in 1 .. Len(s) - 1 : (f \o g)[k] = IF k < i THEN s[k] ELSE s[k + 1]
  <2> TAKE k \in 1 .. Len(s) - 1
  <2>1. CASE k < i
    BY <1>1, <1>2, <1>4, <1>6, <2>1
  <2>2. CASE ~(k < i)
    <3>1. k - (i - 1) \in 1 .. Len(s) - i /\ i + (k - (i - 1)) = k + 1
      BY <1>1, <2>2
    <3>2. (f \o g)[k] = g[k - (i - 1)]
      BY <1>1, <1>2, <1>4, <1>6, <2>2
    <3> QED
      BY <1>3, <2>2, <3>1, <3>2
  <2> QED
    BY <2>1, <2>2
<1> QED
  BY <1>4, <1>5, <1>6, <1>7

(***************************************************************************)
(* select_and_dequeue_pending_xmitbuf takes the first buffer, unless it    *)
(* takes one of a management frame.                                        *)
(***************************************************************************)
LEMMA SelectedFirst ==
  ASSUME RoomInv, LineInv, NEW i \in Selected
  PROVE  i \in DOMAIN pendq /\ (pendq[i].mgnt \/ i = 1)
<1>1. i \in DOMAIN pendq
  BY DEF Selected, FirstOf
<1>2. pendq[i].mgnt \/ i \in FirstOf(DOMAIN pendq)
  <2>1. CASE survey
    <3>1. pendq[i].probe
      BY <2>1 DEF Selected, FirstOf
    <3> QED
      BY <1>1, <3>1 DEF LineInv, BufInLine
  <2>2. CASE ~survey
    BY <2>2 DEF Selected, FirstOf
  <2> QED
    BY <2>1, <2>2
<1>3. i \in FirstOf(DOMAIN pendq) => i = 1
  <2> SUFFICES ASSUME i \in FirstOf(DOMAIN pendq) PROVE i = 1
    OBVIOUS
  <2>1. i \in 1 .. Len(pendq) /\ Len(pendq) \in Nat /\ DOMAIN pendq = 1 .. Len(pendq)
    BY <1>1, LineBufs
  <2>2. 1 \in DOMAIN pendq
    BY <2>1
  <2>3. i <= 1
    BY <2>2 DEF FirstOf
  <2> QED
    BY <2>1, <2>3
<1> QED
  BY <1>1, <1>2, <1>3

\* Taking a buffer from the middle of pendq keeps the line.
LEMMA LineSelected ==
  ASSUME PackInv, RoomInv, LineInv, NEW i \in Selected,
         bbuf' = <<pendq[i]>>, pendq' = Without(pendq, i),
         UNCHANGED <<entry, hand, written, pending, xac, xbuf>>
  PROVE  LineInv'
<1>1. i \in DOMAIN pendq /\ (pendq[i].mgnt \/ i = 1)
  BY SelectedFirst
<1>2. /\ pendq \in Seq(Bufs) /\ Len(pendq) \in Nat /\ DOMAIN pendq = 1 .. Len(pendq)
      /\ i \in 1 .. Len(pendq)
  BY <1>1, LineBufs DEF RoomInv
<1>3. /\ pendq' \in Seq(Bufs) /\ Len(pendq') = Len(pendq) - 1
      /\ \A k \in 1 .. Len(pendq) - 1 :
           pendq'[k] = IF k < i THEN pendq[k] ELSE pendq[k + 1]
  BY <1>1, <1>2, WithoutIndex
<1>4. DOMAIN pendq' = 1 .. Len(pendq) - 1
  BY <1>3, LenProperties
<1>5. \A k \in DOMAIN pendq' :
        /\ k \in 1 .. Len(pendq)
        /\ \/ k < i /\ k \in DOMAIN pendq /\ pendq'[k] = pendq[k]
           \/ ~(k < i) /\ k + 1 \in DOMAIN pendq /\ pendq'[k] = pendq[k + 1]
  BY <1>2, <1>3, <1>4
<1>6. \A k \in DOMAIN pendq' : pendq'[k] \in Bufs /\ BufInLine(pendq'[k])
  BY <1>5, LineBufs
<1>7. \A k, j \in DOMAIN pendq' : k < j => Follows(pendq'[k], pendq'[j])
  <2> SUFFICES ASSUME NEW k \in DOMAIN pendq', NEW j \in DOMAIN pendq', k < j
               PROVE  Follows(pendq'[k], pendq'[j])
    OBVIOUS
  <2>1. k \in Int /\ j \in Int /\ i \in Int
    BY <1>2, <1>5
  <2>2. k < j + 1 /\ k + 1 < j + 1 /\ (j < i => k < i)
    BY <2>1
  <2> QED
    BY <1>5, <2>2 DEF LineInv
<1>8. bbuf'[1] = pendq[i] /\ Len(bbuf') = 1
  OBVIOUS
<1>9. \A k \in DOMAIN pendq' : Follows(bbuf'[1], pendq'[k])
  <2> TAKE k \in DOMAIN pendq'
  <2>1. CASE pendq[i].mgnt
    BY <1>8, <2>1 DEF Follows
  <2>2. CASE i = 1
    <3>1. k \in Nat /\ ~(k < i) /\ 1 < k + 1 /\ 1 \in DOMAIN pendq
      BY <1>2, <1>5, <2>2
    <3> QED
      BY <1>5, <1>8, <2>2, <3>1 DEF LineInv
  <2> QED
    BY <1>1, <2>1, <2>2
<1>10. bbuf'[1] \in Bufs /\ BufInLine(bbuf'[1])
  BY <1>1, <1>8, LineBufs
<1> QED
  BY <1>6, <1>7, <1>8, <1>9, <1>10, LineRequeued


(***************************************************************************)
(* The buffer is written: what is left of its category comes after its     *)
(* last packet.                                                            *)
(***************************************************************************)
LEMMA LineWritten ==
  ASSUME PackInv, RoomInv, LineInv, BWrite
  PROVE  LineInv'
<1> DEFINE b == bbuf[1]
           w == Last(bbuf[1].ids)
<1>1. /\ bbuf # <<>> /\ bbuf' = <<>>
      /\ UNCHANGED <<entry, hand, pending, xac, xbuf, pendq>>
      /\ written' = IF b.mgnt THEN written ELSE [written EXCEPT ![b.fifo] = w]
  BY DEF BWrite, Writable, FreeBuf, RoomInv, netVars, frmVars, xVars
<1>2. CASE b.mgnt
  BY <1>1, <1>2, LineFreed
<1>3. CASE ~b.mgnt
  <2>1. /\ b \in Bufs /\ b.fifo \in ACs /\ b.ids \in Seq(Nat) /\ b.ids # <<>>
        /\ InLine(b.fifo, b.ids) /\ Before(b.ids, pending[b.fifo])
        /\ xac = b.fifo => Before(b.ids, xbuf)
        /\ \A i \in DOMAIN pendq : Follows(b, pendq[i])
    BY <1>1, <1>3, LineBufs, BufType DEF LineInv, BufInLine
  <2> HIDE DEF b
  <2>2. /\ Len(b.ids) \in DOMAIN b.ids /\ w = b.ids[Len(b.ids)] /\ w \in Nat
    <3>1. Len(b.ids) \in Nat \ {0} /\ DOMAIN b.ids = 1 .. Len(b.ids)
      BY <2>1, EmptySeq, LenProperties
    <3>2. Len(b.ids) \in DOMAIN b.ids
      BY <3>1
    <3> QED
      BY <2>1, <3>1, <3>2, ElementOfSeq DEF Last, b
  <2> HIDE DEF w
  <2>3. \A q : Before(b.ids, q) => \A j \in DOMAIN q : w < q[j]
    BY <2>2 DEF Before
  <2>4. w <= Bound(b.fifo)
    BY <2>1, <2>2 DEF InLine, Between
  <2>5. /\ written \in [ACs -> Nat] /\ written' \in [ACs -> Nat]
        /\ \A c \in ACs : written'[c] = IF c = b.fifo THEN w ELSE written[c]
    BY <1>1, <1>3, <2>1, <2>2 DEF LineInv
  <2>6. \A a \in ACs : Bound(a)' = Bound(a)
    BY <1>1 DEF Bound
  <2>7. ASSUME NEW c \in ACs, NEW q, InLine(c, q), c = b.fifo => Before(b.ids, q)
        PROVE  Increasing(q) /\ Between(q, written'[c], Bound(c)')
    BY <2>3, <2>5, <2>6, <2>7 DEF InLine, Between
  <2>8. \A c \in ACs : (written[c] <= Bound(c) /\ InLine(c, pending[c]))'
    <3> TAKE c \in ACs
    <3>1. /\ written[c] <= Bound(c) /\ InLine(c, pending[c])
          /\ c = b.fifo => Before(b.ids, pending[c])
      BY <2>1 DEF LineInv
    <3>2. written'[c] <= Bound(c)'
      BY <2>4, <2>5, <2>6, <3>1
    <3>3. Increasing(pending[c]) /\ Between(pending[c], written'[c], Bound(c)')
      BY <2>7, <3>1
    <3> QED
      BY <1>1, <3>2, <3>3 DEF InLine, Increasing, Between
  <2>9. InLine(xac, xbuf)' /\ Before(xbuf, pending[xac])'
    <3>1. xac \in ACs /\ InLine(xac, xbuf) /\ Before(xbuf, pending[xac])
      BY DEF LineInv, PackInv
    <3>2. Increasing(xbuf) /\ Between(xbuf, written'[xac], Bound(xac)')
      BY <1>1, <2>1, <2>7, <3>1
    <3> QED
      BY <1>1, <2>6, <3>1, <3>2 DEF InLine, Before, Increasing, Between
  <2>10. \A i \in DOMAIN pendq : BufInLine(pendq[i])'
    <3> TAKE i \in DOMAIN pendq
    <3> DEFINE c == pendq[i]
    <3>1. c \in Bufs /\ BufInLine(c) /\ c.fifo \in ACs /\ c.mgnt \in BOOLEAN
      BY LineBufs, BufType
    <3>2. CASE c.mgnt
      BY <1>1, <3>2 DEF BufInLine
    <3>3. CASE ~c.mgnt
      <4>1. /\ ~c.probe /\ c.ids # <<>> /\ InLine(c.fifo, c.ids)
            /\ Before(c.ids, pending[c.fifo])
            /\ xac = c.fifo => Before(c.ids, xbuf)
            /\ c.fifo = b.fifo => Before(b.ids, c.ids)
        BY <1>3, <2>1, <3>1, <3>3 DEF BufInLine, Follows, b
      <4>2. Increasing(c.ids) /\ Between(c.ids, written'[c.fifo], Bound(c.fifo)')
        BY <1>1, <2>7, <3>1, <4>1
      <4> QED
        BY <1>1, <2>6, <3>1, <4>1, <4>2
           DEF BufInLine, InLine, Before, Increasing, Between
    <3> QED
      BY <3>1, <3>2, <3>3
  <2>11. \A i, j \in DOMAIN pendq : i < j => Follows(pendq[i], pendq[j])'
    BY <1>1 DEF LineInv, Follows, Before
  <2>12. Len(bbuf') <= 1
    BY <1>1, EmptySeq
  <2> QED
    BY <1>1, <2>5, <2>8, <2>9, <2>10, <2>11, <2>12 DEF LineInv
<1>4. b.mgnt \in BOOLEAN
  BY <1>1, LineBufs, BufType
<1> QED
  BY <1>2, <1>3, <1>4


(***************************************************************************)
(* LineInv is inductive.                                                   *)
(***************************************************************************)
LEMMA LineNext == PackInv /\ RoomInv /\ LineInv /\ [Next]_vars => LineInv'
<1> SUFFICES ASSUME PackInv, RoomInv, LineInv, [Next]_vars PROVE LineInv'
  OBVIOUS
<1>1. ASSUME NEW a \in ACs, XmitEntry(a) \/ EntryStep(a) PROVE LineInv'
  BY <1>1, LineEntry, LineQueued DEF EntryStep
<1>2. ASSUME UNCHANGED <<entry, hand, written, pending, xac, xbuf, pendq, bbuf>>
      PROVE  LineInv'
  BY <1>2, SameBound, LineQuiet
<1>3. CASE XDown \/ XCategory \/ XAllocBuf \/ XEnd
  BY <1>2, <1>3 DEF XDown, XCategory, XAllocBuf, XEnd, netVars, frmVars, bufVars, bVars
<1>4. CASE XNext
  <2>1. xac' \in ACs /\ xbuf = <<>>
    BY <1>4, XmitAssumption DEF XNext, PackInv, ACs
  <2> QED
    BY <1>4, <2>1, LineTurned DEF XNext, netVars, frmVars, bufVars, bVars
<1>5. /\ DataBuf \in Bufs /\ DataBuf.mgnt = FALSE /\ DataBuf.probe = FALSE
      /\ DataBuf.fifo = xac /\ DataBuf.ids = xbuf
  BY DEF DataBuf, Bufs, PackInv
<1>6. ASSUME FlushBuf, xbuf # <<>>, xac' \in ACs,
             UNCHANGED <<entry, hand, written, pending, bbuf>>
      PROVE  LineInv'
  BY <1>5, <1>6, LineAppended DEF FlushBuf
<1>7. CASE XFlush
  BY <1>6, <1>7 DEF XFlush, bVars, PackInv
<1>8. CASE XCoalesce \/ XCoalesceFails
  BY <1>8, LineTaken DEF XCoalesce, XCoalesceFails, bufVars, bVars
<1>9. CASE XDump
  <2>1. xac' \in ACs
    <3>1. xac' = 1 \/ (xac < NumACs /\ xac' = xac + 1)
      BY <1>9 DEF XDump
    <3>2. xac \in 1 .. NumACs
      BY DEF PackInv, ACs
    <3> QED
      BY <3>1, <3>2, XmitAssumption DEF ACs
  <2>2. UNCHANGED <<entry, hand, written, pending, bbuf>>
    BY <1>9 DEF XDump, bVars
  <2>3. CASE xbuf # <<>> /\ FlushBuf
    BY <1>6, <2>1, <2>2, <2>3
  <2>4. CASE xbuf = <<>> /\ UNCHANGED <<pendq, xbuf>>
    BY <2>1, <2>2, <2>4, LineTurned
  <2>5. ~has => xbuf = <<>>
    BY DEF PackInv
  <2> QED
    BY <1>9, <2>3, <2>4, <2>5 DEF XDump
<1>10. CASE BDown
  BY <1>2, <1>10 DEF BDown, netVars, frmVars, xVars
<1>11. CASE BSelect
  BY <1>2, <1>11, LineSelected DEF BSelect, netVars, frmVars, xVars
<1>12. CASE BShort
  <2>1. UNCHANGED <<entry, hand, written, pending, xac, xbuf>>
    BY <1>12 DEF BShort, netVars, frmVars, xVars
  <2>2. bbuf # <<>>
    BY <1>12 DEF BShort, RoomInv
  <2>3. \/ bbuf' = <<>> /\ UNCHANGED pendq
        \/ UNCHANGED <<pendq, bbuf>>
        \/ pendq' = bbuf \o pendq /\ bbuf' = <<>>
    BY <1>12 DEF BShort, FreeBuf
  <2> QED
    BY <1>2, <2>1, <2>2, <2>3, LineFreed, LinePutBack
<1>13. CASE wait_enough_TxOQT_space
  <2>1. UNCHANGED <<entry, hand, written, pending, xac, xbuf, pendq>>
    BY <1>13 DEF wait_enough_TxOQT_space, netVars, frmVars, xVars
  <2>2. bbuf' = <<>> \/ UNCHANGED bbuf
    BY <1>13 DEF wait_enough_TxOQT_space, FreeBuf
  <2> QED
    BY <1>2, <2>1, <2>2, LineFreed
<1>14. CASE BWrite
  BY <1>14, LineWritten
<1>15. CASE ChipSends \/ SurveyStart \/ ScanStep \/ DevUnload \/ UNCHANGED vars
  BY <1>2, <1>15 DEF ChipSends, SurveyStart, ScanStep, SurveyComplete,
     os_xmit_schedule, DevUnload, vars, netVars, frmVars, xVars, bufVars, bVars
<1>16. ASSUME NEW p \in BOOLEAN, mgnt_xmit(p) PROVE LineInv'
  <2> DEFINE b == [mgnt |-> TRUE, probe |-> p, fifo |-> 1, ids |-> <<1>>]
  <2>1. b \in Bufs /\ b.mgnt = TRUE
    BY <1>16, XmitAssumption DEF Bufs, ACs
  <2>2. /\ pendq' = Append(pendq, b)
        /\ UNCHANGED <<entry, hand, written, pending, xac, xbuf, bbuf>>
    BY <1>16 DEF mgnt_xmit, netVars, frmVars, xVars, bVars
  <2> HIDE DEF b
  <2> QED
    BY <2>1, <2>2, LineAppended
<1> QED
  BY <1>1, <1>3, <1>4, <1>7, <1>8, <1>9, <1>10, <1>11, <1>12, <1>13, <1>14,
     <1>15, <1>16 DEF Next, XStep, BStep

(***************************************************************************)
(* Only rtw_write_port writes, and it writes the buffer's packets.         *)
(***************************************************************************)
LEMMA WriteStep ==
  ASSUME [Next]_vars
  PROVE  UNCHANGED written \/ BWrite
BY DEF Next, vars, XStep, BStep, EntryStep, ScanStep, XmitEntry, StopSubqueue,
   AllocFrame, DropPacket, DropFrame, hal_xmit, XDown, XNext, XCategory, XFlush, XAllocBuf,
   XCoalesce, XCoalesceFails, XDump, XEnd, BDown, BSelect, BShort,
   wait_enough_TxOQT_space, ChipSends, SurveyStart, SurveyComplete,
   os_xmit_schedule, DevUnload, mgnt_xmit, bVars

(***************************************************************************)
(* The packets of an access category are written in the order they came    *)
(* from the network stack and each at most once, although buffers are put  *)
(* back when pages are short, held back during a site survey and overtaken *)
(* by management frames.                                                   *)
(***************************************************************************)
THEOREM WrittenInOrder == Spec => InOrder
<1> DEFINE Step == \A a \in ACs : written'[a] # written[a] =>
                     \A i \in DOMAIN bbuf[1].ids :
                       bbuf[1].ids[i] > (IF i = 1 THEN written[a]
                                         ELSE bbuf[1].ids[i - 1])
<1>1. PackInv /\ RoomInv /\ LineInv /\ [Next]_vars => [Step]_vars
  <2> SUFFICES ASSUME PackInv, RoomInv, LineInv, [Next]_vars,
                      NEW a \in ACs, written'[a] # written[a],
                      NEW i \in DOMAIN bbuf[1].ids
               PROVE  bbuf[1].ids[i] > (IF i = 1 THEN written[a]
                                        ELSE bbuf[1].ids[i - 1])
    OBVIOUS
  <2> DEFINE b == bbuf[1]
  <2>1. BWrite
    BY WriteStep
  <2>2. bbuf # <<>> /\ ~b.mgnt /\ b.fifo = a
    BY <2>1 DEF BWrite, Writable, RoomInv, LineInv
  <2>3. b \in Bufs /\ BufInLine(b)
    BY <2>2, LineBufs
  <2> HIDE DEF b
  <2>4. /\ b.ids \in Seq(Nat) /\ Increasing(b.ids)
        /\ \A k \in DOMAIN b.ids : written[a] < b.ids[k]
    BY <2>2, <2>3, BufType DEF BufInLine, InLine, Between
  <2>5. /\ i \in 1 .. Len(b.ids) /\ Len(b.ids) \in Nat
        /\ DOMAIN b.ids = 1 .. Len(b.ids)
        /\ written[a] \in Nat
        /\ \A k \in DOMAIN b.ids : b.ids[k] \in Nat
    BY <2>4, LenProperties, ElementOfSeq DEF LineInv, b
  <2>6. CASE i = 1
    BY <2>4, <2>5, <2>6 DEF b
  <2>7. CASE i # 1
    <3>1. i - 1 \in DOMAIN b.ids /\ i \in DOMAIN b.ids /\ i - 1 < i
      BY <2>5, <2>7
    <3>2. b.ids[i - 1] < b.ids[i]
      BY <2>4, <3>1 DEF Increasing
    <3> QED
      BY <2>5, <2>7, <3>1, <3>2 DEF b
  <2> QED
    BY <2>6, <2>7
<1> QED
  BY <1>1, PackInit, PackNext, RoomInit, RoomNext, LineInit, LineNext, PTL
     DEF Spec, InOrder

=============================================================================
