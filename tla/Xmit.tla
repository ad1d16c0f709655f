-------------------------------- MODULE Xmit --------------------------------
(***************************************************************************)
(* The transmit path in station mode, from the network stack to the chip:  *)
(* os_dep/xmit_linux.c, core/rtw_xmit.c and the two transmit threads of    *)
(* hal/rtl8723b/sdio/rtl8723bs_xmit.c, with registrypriv.wifi_spec = 0.    *)
(*                                                                         *)
(* Packets take an xmit_frame from a pool and wait in the queue of their   *)
(* access category.  The first thread (SdioXmitSema) packs them into       *)
(* transmit buffers, of which there are few, and the second (xmit_sema)    *)
(* writes the buffers to the chip as far as its pages and its output queue *)
(* have room.  A site survey holds all buffers back but probe requests and *)
(* null frames.  Management frames come in buffers of their own.           *)
(*                                                                         *)
(* There is one peer.  The power save handshake around the second thread's *)
(* work is the subject of PwrCtrl.                                         *)
(***************************************************************************)
EXTENDS Integers, Sequences, FiniteSets

CONSTANTS
  NumACs,     \* access categories, served in the order 1..NumACs
  NumFrames,  \* NR_XMITFRAME
  StopLevel,  \* a subqueue is stopped when no more frames are free (4)
  NumBufs,    \* NR_XMITBUFF
  NumExtBufs, \* NR_XMIT_EXTBUFF
  MaxOqt,     \* entries of the chip's output queue (SdioTxOQTMaxFreeSpace)
  OwnPages,   \* pages of the chip reserved for each category
  PubPages,   \* pages of the chip shared by all
  MaxEvents   \* bound: packets, management frames, site surveys, frames that
              \* rtw_xmitframe_coalesce fails on, and stopping the driver

ASSUME XmitAssumption ==
  /\ NumACs \in Nat \ {0} /\ NumFrames \in Nat /\ StopLevel \in Nat
  /\ NumBufs \in Nat /\ NumExtBufs \in Nat
  /\ MaxOqt \in Nat /\ MaxOqt > 1
  /\ OwnPages \in Nat /\ PubPages \in Nat
  /\ MaxEvents \in Nat

ACs == 1..NumACs
Pkts == 1..MaxEvents
Pools == 0..NumACs              \* page pools of the chip, 0 is the public one

Bufs == [mgnt : BOOLEAN, probe : BOOLEAN, fifo : ACs, ids : Seq(Nat)]

VARIABLES
  stopped,     \* subqueues of the net_device that are stopped
  entry,       \* where rtw_xmit_entry is, for each subqueue
  hand,        \* the number of the packet it carries, or carried last
  free_cnt,    \* free_xmitframe_cnt
  pending,     \* sta_pending, the queue of frames of each category
  lost,        \* history: frames that left every queue without being freed
  sema,        \* SdioXmitSema
  xpc,         \* where the first thread is
  xac,         \* the category it serves
  has,         \* whether it holds a transmit buffer
  xbuf,        \* the packets in that buffer; the first frame is priv_data
  free_bufs,   \* free_xmitbuf_cnt
  ext_bufs,    \* free_xmit_extbuf_cnt
  pendq,       \* pending_xmitbuf_queue
  xmit_sema,
  bpc,         \* where the second thread is
  bbuf,        \* the buffer it writes, as a sequence
  written,     \* history: the last packet written, for each category
  freePage,    \* SdioTxFIFOFreePage
  oqt,         \* SdioTxOQTFreeSpace
  hwPage,      \* the chip: pages that are free
  hwOqt,       \* the chip: output queue entries that are free
  survey,      \* the scan state is not SCAN_DISABLE
  evt,         \* the survey done event is under way
  drv_stopped, \* bDriverStopped
  events       \* counter for the bound

netVars == <<stopped, entry, hand>>
frmVars == <<free_cnt, pending, lost>>
xVars == <<sema, xpc, xac, has, xbuf>>
bufVars == <<free_bufs, ext_bufs, pendq, xmit_sema>>
bVars == <<bpc, bbuf, written, freePage, oqt>>
hwVars == <<hwPage, hwOqt>>
scanVars == <<survey, evt>>

vars == <<netVars, frmVars, xVars, bufVars, bVars, hwVars, scanVars,
          drv_stopped, events>>

TypeOK ==
  /\ stopped \in SUBSET ACs
  /\ entry \in [ACs -> {"idle", "stop", "alloc", "hal"}]
  /\ hand \in [ACs -> 0..MaxEvents]
  /\ free_cnt \in 0..NumFrames
  /\ pending \in [ACs -> Seq(Pkts)]
  /\ lost \in Nat /\ sema \in Nat
  /\ xpc \in {"wait", "next", "category", "frame", "end", "exit"}
  /\ xac \in ACs /\ has \in BOOLEAN /\ xbuf \in Seq(Pkts)
  /\ free_bufs \in 0..NumBufs /\ ext_bufs \in 0..NumExtBufs
  /\ pendq \in Seq(Bufs) /\ xmit_sema \in Nat
  /\ bpc \in {"wait", "loop", "hold", "exit"}
  /\ bbuf \in Seq(Bufs) /\ Len(bbuf) <= 1
  /\ written \in [ACs -> 0..MaxEvents]
  /\ freePage \in [Pools -> Nat] /\ hwPage \in [Pools -> Nat]
  /\ oqt \in Nat /\ hwOqt \in 0..MaxOqt
  /\ survey \in BOOLEAN /\ evt \in BOOLEAN
  /\ drv_stopped \in BOOLEAN /\ events \in 0..MaxEvents

PageCap(x) == IF x = 0 THEN PubPages ELSE OwnPages

(***************************************************************************)
(* The driver is idle; the chip may still be sending what it was given.    *)
(***************************************************************************)
Init ==
  /\ stopped = {} /\ entry = [a \in ACs |-> "idle"]
  /\ hand = [a \in ACs |-> 0]
  /\ free_cnt = NumFrames /\ pending = [a \in ACs |-> <<>>] /\ lost = 0
  /\ sema = 0 /\ xpc = "wait" /\ xac = 1 /\ has = FALSE /\ xbuf = <<>>
  /\ free_bufs = NumBufs /\ ext_bufs = NumExtBufs /\ pendq = <<>>
  /\ xmit_sema = 0 /\ bpc = "wait" /\ bbuf = <<>>
  /\ written = [a \in ACs |-> 0]
  /\ \E used \in 0..PubPages :
       /\ hwOqt = MaxOqt - used /\ hwOqt >= 0 /\ oqt = hwOqt
       /\ hwPage = [[x \in Pools |-> PageCap(x)] EXCEPT ![0] = @ - used]
       /\ freePage = hwPage
  /\ survey = FALSE /\ evt = FALSE /\ drv_stopped = FALSE /\ events = 0

-----------------------------------------------------------------------------
(* The network stack's context, one for each subqueue.                     *)

(***************************************************************************)
(* rtw_check_xmit_resource: the count of free frames is read, the subqueue *)
(* is stopped afterwards, and the packet goes on in either case.           *)
(***************************************************************************)
XmitEntry(a) ==
  /\ entry[a] = "idle" /\ a \notin stopped /\ ~drv_stopped
  /\ events < MaxEvents /\ events' = events + 1
  /\ hand' = [hand EXCEPT ![a] = @ + 1]
  /\ entry' = [entry EXCEPT ![a] = IF free_cnt <= StopLevel THEN "stop"
                                   ELSE "alloc"]
  /\ UNCHANGED <<stopped, frmVars, xVars, bufVars, bVars, hwVars, scanVars,
                 drv_stopped>>

StopSubqueue(a) ==
  /\ entry[a] = "stop"
  /\ stopped' = stopped \cup {a}
  /\ entry' = [entry EXCEPT ![a] = "alloc"]
  /\ UNCHANGED <<hand, frmVars, xVars, bufVars, bVars, hwVars,
                 scanVars, drv_stopped, events>>

(***************************************************************************)
(* rtw_xmit: the packet gets a frame, or it is dropped.                    *)
(***************************************************************************)
AllocFrame(a) ==
  /\ entry[a] = "alloc" /\ free_cnt > 0
  /\ free_cnt' = free_cnt - 1
  /\ entry' = [entry EXCEPT ![a] = "hal"]
  /\ UNCHANGED <<stopped, hand, pending, lost, xVars, bufVars, bVars,
                 hwVars, scanVars, drv_stopped, events>>

\* Deliberate fault: the dropped packet does not wake its subqueue.
Bug_DropPacket(a) ==
  /\ entry[a] = "alloc" /\ free_cnt = 0
  /\ entry' = [entry EXCEPT ![a] = "idle"]
  /\ UNCHANGED <<stopped, hand, frmVars, xVars, bufVars, bVars, hwVars,
                 scanVars, drv_stopped, events>>

(***************************************************************************)
(* rtw_os_pkt_complete wakes the packet's subqueue.                        *)
(***************************************************************************)
DropPacket(a) ==
  /\ entry[a] = "alloc" /\ free_cnt = 0
  /\ stopped' = stopped \ {a}
  /\ entry' = [entry EXCEPT ![a] = "idle"]
  /\ UNCHANGED <<hand, frmVars, xVars, bufVars, bVars, hwVars, scanVars,
                 drv_stopped, events>>

(***************************************************************************)
(* The packet's attributes cannot be determined, or its station is gone    *)
(* when it is to be queued: the frame is freed and the packet completed.   *)
(***************************************************************************)
DropFrame(a) ==
  /\ entry[a] = "hal"
  /\ free_cnt' = free_cnt + 1
  /\ stopped' = stopped \ {a}
  /\ entry' = [entry EXCEPT ![a] = "idle"]
  /\ UNCHANGED <<hand, pending, lost, xVars, bufVars, bVars, hwVars,
                 scanVars, drv_stopped, events>>

(***************************************************************************)
(* rtl8723bs_hal_xmit: the frame is queued under pxmitpriv->lock, which    *)
(* the first thread holds while it packs.                                  *)
(***************************************************************************)
hal_xmit(a) ==
  /\ entry[a] = "hal" /\ xpc # "frame"
  /\ pending' = [pending EXCEPT ![a] = Append(@, hand[a])]
  /\ sema' = sema + 1
  /\ entry' = [entry EXCEPT ![a] = "idle"]
  /\ UNCHANGED <<stopped, hand, free_cnt, lost, xpc, xac, has, xbuf,
                 bufVars, bVars, hwVars, scanVars, drv_stopped, events>>

-----------------------------------------------------------------------------
(* The first thread: rtl8723bs_xmit_handler and xmit_xmitframes.           *)

XDown ==
  /\ xpc = "wait" /\ sema > 0
  /\ sema' = sema - 1 /\ xpc' = "next"
  /\ UNCHANGED <<netVars, frmVars, xac, has, xbuf, bufVars, bVars,
                 hwVars, scanVars, drv_stopped, events>>

txframes_pending == \E a \in ACs : pending[a] # <<>>

XNext ==
  /\ xpc = "next"
  /\ IF ~drv_stopped /\ txframes_pending THEN xpc' = "category" /\ xac' = 1
     ELSE xpc' = (IF drv_stopped THEN "exit" ELSE "wait") /\ UNCHANGED xac
  /\ UNCHANGED <<netVars, frmVars, sema, has, xbuf, bufVars, bVars,
                 hwVars, scanVars, drv_stopped, events>>

(***************************************************************************)
(* The lock is taken to pack the frames of a category, and released after  *)
(* it: frames are queued before each category's turn.  Under heavy traffic *)
(* (bHigherBusyTxTraffic) a short queue is left to grow as long as buffers *)
(* wait to be written: xmit_xmitframes returns -2.                         *)
(***************************************************************************)
XCategory ==
  /\ xpc = "category"
  /\ \/ xpc' = "frame"
     \/ pendq # <<>> /\ Len(pending[xac]) \in 1..4 /\ xpc' = "next"
  /\ UNCHANGED <<netVars, frmVars, sema, xac, has, xbuf, bufVars, bVars,
                 hwVars, scanVars, drv_stopped, events>>

(***************************************************************************)
(* A frame is not packed into a buffer that is too long for it (which the  *)
(* lengths decide) or has MaxOqt - 1 frames.                               *)
(***************************************************************************)
MustFlush == Len(xbuf) >= MaxOqt - 1

DataBuf == [mgnt |-> FALSE, probe |-> FALSE, fifo |-> xac, ids |-> xbuf]

\* Deliberate fault: the first frame is not freed.
Bug_FlushBuf ==
  /\ pendq' = Append(pendq, DataBuf)
  /\ xmit_sema' = xmit_sema + 1
  /\ has' = FALSE /\ xbuf' = <<>>
  /\ UNCHANGED <<free_cnt, stopped>>

(***************************************************************************)
(* enqueue_pending_xmitbuf; the first frame is freed, and its packet       *)
(* completed, only here.                                                   *)
(***************************************************************************)
FlushBuf ==
  /\ pendq' = Append(pendq, DataBuf)
  /\ xmit_sema' = xmit_sema + 1
  /\ free_cnt' = free_cnt + 1
  /\ stopped' = stopped \ {xac}
  /\ has' = FALSE /\ xbuf' = <<>>

XFlush ==
  /\ xpc = "frame" /\ pending[xac] # <<>> /\ has /\ xbuf # <<>>
  /\ FlushBuf
  /\ UNCHANGED <<entry, hand, pending, lost, sema, xpc, xac,
                 free_bufs, ext_bufs, bVars, hwVars, scanVars, drv_stopped, events>>

(***************************************************************************)
(* rtw_alloc_xmitbuf; without a buffer the thread starts again.            *)
(***************************************************************************)
XAllocBuf ==
  /\ xpc = "frame" /\ pending[xac] # <<>> /\ ~has
  /\ \/ /\ free_bufs > 0
        /\ free_bufs' = free_bufs - 1 /\ has' = TRUE
        /\ UNCHANGED xpc
     \/ /\ free_bufs = 0
        /\ xpc' = "next"
        /\ UNCHANGED <<free_bufs, has>>
  /\ UNCHANGED <<netVars, frmVars, sema, xac, xbuf, ext_bufs, pendq,
                 xmit_sema, bVars, hwVars, scanVars, drv_stopped, events>>

\* Deliberate fault: the first frame is freed here as well.
Bug_XCoalesce ==
  /\ xpc = "frame" /\ pending[xac] # <<>> /\ has /\ ~MustFlush
  /\ pending' = [pending EXCEPT ![xac] = Tail(@)]
  /\ xbuf' = Append(xbuf, Head(pending[xac]))
  /\ free_cnt' = free_cnt + 1 /\ stopped' = stopped \ {xac}
  /\ UNCHANGED <<entry, hand, lost, sema, xpc, xac, has,
                 bufVars, bVars, hwVars, scanVars, drv_stopped, events>>

(***************************************************************************)
(* A frame is packed.  All but the first are freed at once.                *)
(***************************************************************************)
XCoalesce ==
  /\ xpc = "frame" /\ pending[xac] # <<>> /\ has /\ ~MustFlush
  /\ pending' = [pending EXCEPT ![xac] = Tail(@)]
  /\ xbuf' = Append(xbuf, Head(pending[xac]))
  /\ IF xbuf = <<>>
     THEN UNCHANGED <<free_cnt, stopped>>
     ELSE free_cnt' = free_cnt + 1 /\ stopped' = stopped \ {xac}
  /\ UNCHANGED <<entry, hand, lost, sema, xpc, xac, has,
                 bufVars, bVars, hwVars, scanVars, drv_stopped, events>>

(***************************************************************************)
(* rtw_xmitframe_coalesce fails (the station is no longer linked).  With   *)
(* one frame in the buffer the code takes the failed one for the first and *)
(* does not free it.                                                       *)
(***************************************************************************)
XCoalesceFails ==
  /\ xpc = "frame" /\ pending[xac] # <<>> /\ has /\ ~MustFlush
  /\ events < MaxEvents /\ events' = events + 1
  /\ pending' = [pending EXCEPT ![xac] = Tail(@)]
  /\ IF Len(xbuf) = 1
     THEN lost' = lost + 1 /\ UNCHANGED <<free_cnt, stopped>>
     ELSE /\ free_cnt' = free_cnt + 1 /\ stopped' = stopped \ {xac}
          /\ UNCHANGED lost
  /\ UNCHANGED <<entry, hand, sema, xpc, xac, has, xbuf, bufVars,
                 bVars, hwVars, scanVars, drv_stopped>>

(***************************************************************************)
(* The category's queue is empty: the buffer is passed on, or freed when   *)
(* nothing was packed into it.                                             *)
(***************************************************************************)
XDump ==
  /\ xpc = "frame" /\ pending[xac] = <<>>
  /\ \/ /\ has /\ xbuf # <<>> /\ FlushBuf
        /\ UNCHANGED free_bufs
     \/ /\ has /\ xbuf = <<>>
        /\ has' = FALSE /\ free_bufs' = free_bufs + 1
        /\ UNCHANGED <<stopped, free_cnt, pendq, xmit_sema, xbuf>>
     \/ ~has /\ UNCHANGED <<stopped, free_cnt, free_bufs, pendq, xmit_sema,
                            has, xbuf>>
  /\ IF xac < NumACs THEN xac' = xac + 1 /\ xpc' = "category"
     ELSE xac' = 1 /\ xpc' = "end"
  /\ UNCHANGED <<entry, hand, pending, lost, sema, ext_bufs,
                 bVars, hwVars, scanVars, drv_stopped, events>>

XEnd ==
  /\ xpc = "end"
  /\ xpc' = IF txframes_pending THEN "next" ELSE "wait"
  /\ UNCHANGED <<netVars, frmVars, sema, xac, has, xbuf, bufVars,
                 bVars, hwVars, scanVars, drv_stopped, events>>

-----------------------------------------------------------------------------
(* The second thread: rtl8723bs_xmit_buf_handler and _dequeue_writeport.   *)

BDown ==
  /\ bpc = "wait" /\ xmit_sema > 0
  /\ xmit_sema' = xmit_sema - 1
  /\ bpc' = IF drv_stopped THEN "exit"
            ELSE IF pendq = <<>> THEN "wait" ELSE "loop"
  /\ UNCHANGED <<netVars, frmVars, xVars, free_bufs, ext_bufs, pendq, bbuf,
                 written, freePage, oqt, hwVars, scanVars, drv_stopped, events>>

(***************************************************************************)
(* select_and_dequeue_pending_xmitbuf: during a site survey only probe     *)
(* requests and null frames; otherwise management frames first.            *)
(***************************************************************************)
FirstOf(S) == {i \in S : \A j \in S : i <= j}

Selected ==
  LET probes == {i \in DOMAIN pendq : pendq[i].probe}
      mgmt == {i \in DOMAIN pendq : pendq[i].mgnt}
  IN IF survey THEN FirstOf(probes)
     ELSE IF mgmt # {} THEN FirstOf(mgmt)
     ELSE FirstOf(DOMAIN pendq)

Without(s, i) == SubSeq(s, 1, i - 1) \o SubSeq(s, i + 1, Len(s))

BSelect ==
  /\ bpc = "loop"
  /\ \/ /\ Selected = {}
        /\ bpc' = "wait"
        /\ UNCHANGED <<pendq, bbuf>>
     \/ \E i \in Selected :
          /\ bbuf' = <<pendq[i]>>
          /\ pendq' = Without(pendq, i)
          /\ bpc' = "hold"
  /\ UNCHANGED <<netVars, frmVars, xVars, free_bufs, ext_bufs, xmit_sema,
                 written, freePage, oqt, hwVars, scanVars, drv_stopped, events>>

Agg == Len(bbuf[1].ids)

Last(q) == q[Len(q)]

Room(f, x, n) == f[x] + f[0] >= n

\* Deliberate fault: the count is not reduced.
Bug_Take(f, x, n) == f

(***************************************************************************)
(* rtw_hal_sdio_update_tx_freepage.  A frame takes one page.               *)
(***************************************************************************)
Take(f, x, n) ==
  IF n <= f[x] THEN [f EXCEPT ![x] = @ - n]
  ELSE [f EXCEPT ![x] = 0, ![0] = @ - (n - f[x])]

(***************************************************************************)
(* rtw_free_xmitbuf.                                                       *)
(***************************************************************************)
FreeBuf ==
  /\ IF bbuf[1].mgnt THEN ext_bufs' = ext_bufs + 1 /\ UNCHANGED free_bufs
     ELSE free_bufs' = free_bufs + 1 /\ UNCHANGED ext_bufs
  /\ bbuf' = <<>> /\ bpc' = "loop"

\* Deliberate fault: the buffer goes back to the queue's tail.
Bug_BShort ==
  /\ bpc = "hold" /\ ~Room(freePage, bbuf[1].fifo, Agg)
  /\ IF drv_stopped THEN FreeBuf /\ UNCHANGED <<pendq, freePage>>
     ELSE /\ freePage' = hwPage
          /\ \/ UNCHANGED <<pendq, bbuf, bpc>>
             \/ /\ ~Room(hwPage, bbuf[1].fifo, Agg)
                /\ pendq' = pendq \o bbuf
                /\ bbuf' = <<>> /\ bpc' = "loop"
          /\ UNCHANGED <<free_bufs, ext_bufs>>
  /\ UNCHANGED <<netVars, frmVars, xVars, xmit_sema, written, oqt, hwVars,
                 scanVars, drv_stopped, events>>

(***************************************************************************)
(* Too few pages: the buffer is given up when the driver stops; the count  *)
(* is read again, nine times, and when it is still too small the buffer    *)
(* goes back to the queue's head.                                          *)
(***************************************************************************)
BShort ==
  /\ bpc = "hold" /\ ~Room(freePage, bbuf[1].fifo, Agg)
  /\ IF drv_stopped THEN FreeBuf /\ UNCHANGED <<pendq, freePage>>
     ELSE /\ freePage' = hwPage
          /\ \/ UNCHANGED <<pendq, bbuf, bpc>>
             \/ /\ ~Room(hwPage, bbuf[1].fifo, Agg)
                /\ pendq' = bbuf \o pendq
                /\ bbuf' = <<>> /\ bpc' = "loop"
          /\ UNCHANGED <<free_bufs, ext_bufs>>
  /\ UNCHANGED <<netVars, frmVars, xVars, xmit_sema, written, oqt, hwVars,
                 scanVars, drv_stopped, events>>

\* Deliberate fault: the wait ignores that the driver stops.
Bug_wait_enough_TxOQT_space ==
  /\ bpc = "hold" /\ Room(freePage, bbuf[1].fifo, Agg) /\ oqt < Agg
  /\ oqt' = hwOqt
  /\ UNCHANGED <<netVars, frmVars, xVars, bufVars, bpc, bbuf, written,
                 freePage, hwVars, scanVars, drv_stopped, events>>

(***************************************************************************)
(* rtw_sdio_wait_enough_TxOQT_space while there is none: a wait without a  *)
(* limit, which only the driver's being stopped ends.                      *)
(***************************************************************************)
wait_enough_TxOQT_space ==
  /\ bpc = "hold" /\ Room(freePage, bbuf[1].fifo, Agg) /\ oqt < Agg
  /\ \/ drv_stopped /\ FreeBuf /\ UNCHANGED oqt
     \/ /\ ~drv_stopped /\ oqt' = hwOqt
        /\ UNCHANGED <<bbuf, bpc, free_bufs, ext_bufs>>
  /\ UNCHANGED <<netVars, frmVars, xVars, pendq, xmit_sema, written,
                 freePage, hwVars, scanVars, drv_stopped, events>>

(***************************************************************************)
(* The chip serves a write from the queue's own pages first.               *)
(***************************************************************************)
ChipTakes(x, n) ==
  LET own == IF n <= hwPage[x] THEN n ELSE hwPage[x]
  IN hwPage' = [hwPage EXCEPT ![x] = @ - own, ![0] = @ - (n - own)]

(***************************************************************************)
(* There is room: rtw_write_port, the counts and the buffer's release.     *)
(***************************************************************************)
Writable == bpc = "hold" /\ Room(freePage, bbuf[1].fifo, Agg) /\ oqt >= Agg

BWrite ==
  /\ Writable
  /\ freePage' = Take(freePage, bbuf[1].fifo, Agg)
  /\ oqt' = oqt - Agg
  /\ ChipTakes(bbuf[1].fifo, Agg)
  /\ hwOqt' = hwOqt - Agg
  /\ written' = IF bbuf[1].mgnt THEN written
                ELSE [written EXCEPT ![bbuf[1].fifo] = Last(bbuf[1].ids)]
  /\ FreeBuf
  /\ UNCHANGED <<netVars, frmVars, xVars, pendq, xmit_sema, scanVars,
                 drv_stopped, events>>

(***************************************************************************)
(* The chip has sent what it was given.                                    *)
(***************************************************************************)
ChipSends ==
  /\ hwOqt < MaxOqt
  /\ hwPage' = [x \in Pools |-> PageCap(x)] /\ hwOqt' = MaxOqt
  /\ UNCHANGED <<netVars, frmVars, xVars, bufVars, bVars, scanVars,
                 drv_stopped, events>>

-----------------------------------------------------------------------------
(* Management frames, site surveys and stopping the driver.                *)

(***************************************************************************)
(* rtl8723bs_mgnt_xmit of a frame that is no beacon.  Management frames    *)
(* have buffers of their own and use the first queue.                      *)
(***************************************************************************)
mgnt_xmit(probe) ==
  /\ ~drv_stopped /\ ext_bufs > 0
  /\ events < MaxEvents /\ events' = events + 1
  /\ ext_bufs' = ext_bufs - 1
  /\ pendq' = Append(pendq, [mgnt |-> TRUE, probe |-> probe, fifo |-> 1,
                             ids |-> <<1>>])
  /\ xmit_sema' = xmit_sema + 1
  /\ UNCHANGED <<netVars, frmVars, xVars, free_bufs, bVars, hwVars, survey,
                 evt, drv_stopped>>

SurveyStart ==
  /\ ~survey /\ ~evt /\ events < MaxEvents
  /\ survey' = TRUE /\ events' = events + 1
  /\ UNCHANGED <<netVars, frmVars, xVars, bufVars, bVars, hwVars, evt,
                 drv_stopped>>

(***************************************************************************)
(* SCAN_COMPLETE in sitesurvey_cmd_hdl: the state is SCAN_DISABLE before   *)
(* the event is reported.                                                  *)
(***************************************************************************)
SurveyComplete ==
  /\ survey
  /\ survey' = FALSE /\ evt' = TRUE
  /\ UNCHANGED <<netVars, frmVars, xVars, bufVars, bVars, hwVars,
                 drv_stopped, events>>

\* Deliberate fault: the second thread is not woken.
Bug_os_xmit_schedule ==
  /\ evt /\ evt' = FALSE
  /\ UNCHANGED <<netVars, frmVars, xVars, bufVars, bVars, hwVars, survey,
                 drv_stopped, events>>

(***************************************************************************)
(* rtw_surveydone_event_callback calls rtw_os_xmit_schedule.               *)
(***************************************************************************)
os_xmit_schedule ==
  /\ evt /\ evt' = FALSE
  /\ xmit_sema' = IF pendq # <<>> THEN xmit_sema + 1 ELSE xmit_sema
  /\ UNCHANGED <<netVars, frmVars, xVars, free_bufs, ext_bufs, pendq, bVars,
                 hwVars, survey, drv_stopped, events>>

(***************************************************************************)
(* rtw_dev_unload: rtw_set_drv_stopped, the waiting caller is released and *)
(* both threads are woken; rtw_thread_stop waits until they exit.          *)
(***************************************************************************)
DevUnload ==
  /\ ~drv_stopped /\ drv_stopped' = TRUE
  /\ events < MaxEvents /\ events' = events + 1
  /\ xmit_sema' = xmit_sema + 1 /\ sema' = sema + 1
  /\ UNCHANGED <<netVars, frmVars, xpc, xac, has, xbuf, free_bufs,
                 ext_bufs, pendq, bVars, hwVars, scanVars>>

-----------------------------------------------------------------------------
EntryStep(a) == StopSubqueue(a) \/ AllocFrame(a) \/ DropPacket(a)
                \/ DropFrame(a) \/ hal_xmit(a)

XStep == XDown \/ XNext \/ XCategory \/ XFlush \/ XAllocBuf
         \/ XCoalesce \/ XCoalesceFails \/ XDump \/ XEnd

BStep == BDown \/ BSelect \/ BShort \/ wait_enough_TxOQT_space \/ BWrite

ScanStep == SurveyComplete \/ os_xmit_schedule

Next ==
  \/ \E a \in ACs : XmitEntry(a) \/ EntryStep(a)
  \/ XStep \/ BStep \/ ChipSends
  \/ SurveyStart \/ ScanStep \/ DevUnload
  \/ \E probe \in BOOLEAN : mgnt_xmit(probe)

Spec == Init /\ [][Next]_vars

(***************************************************************************)
(* The threads run, the network stack's contexts and the waiting callers   *)
(* finish, a survey ends and the chip sends what it has.                   *)
(***************************************************************************)
Fairness ==
  /\ \A a \in ACs : WF_vars(EntryStep(a))
  /\ WF_vars(XStep) /\ WF_vars(BStep) /\ WF_vars(ChipSends /\ ~drv_stopped)
  /\ WF_vars(ScanStep)

FairSpec == Spec /\ Fairness

-----------------------------------------------------------------------------
(***************************************************************************)
(* A stopped subqueue has a packet inside the driver that will wake it:    *)
(* one in rtw_xmit, one in the queue, or the first one of the buffer being *)
(* packed.  rtw_check_xmit_resource counts on it: it reads the free frames *)
(* first and stops the subqueue afterwards, when all may be free again.    *)
(* Not so once a frame was lost in xmit_xmitframes.                        *)
(***************************************************************************)
Holds(a) == \/ entry[a] \in {"stop", "alloc", "hal"}
            \/ pending[a] # <<>>
            \/ xac = a /\ xbuf # <<>>

StopIsUndone == lost = 0 => \A a \in stopped : Holds(a)

(***************************************************************************)
(* Frames and buffers are never lost or freed twice, apart from the frames *)
(* counted by lost.                                                        *)
(***************************************************************************)
InQueues(a) == Len(pending[a]) + (IF entry[a] = "hal" THEN 1 ELSE 0)

NumData == Cardinality({i \in DOMAIN pendq : ~pendq[i].mgnt})

PoolsConserved ==
  /\ \E f \in [Pools -> 0..NumFrames] :
       /\ f[0] = free_cnt + lost + (IF xbuf # <<>> THEN 1 ELSE 0)
       /\ \A a \in ACs : f[a] = f[a - 1] + InQueues(a)
       /\ f[NumACs] = NumFrames
  /\ NumBufs = free_bufs + NumData + (IF has THEN 1 ELSE 0)
               + (IF bbuf # <<>> /\ ~bbuf[1].mgnt THEN 1 ELSE 0)

(***************************************************************************)
(* The packets of a category are written in the order they came, each      *)
(* once, whatever is put back, blocked or overtaken on the way.            *)
(***************************************************************************)
InOrder ==
  [][\A a \in ACs : written'[a] # written[a] =>
       \A i \in DOMAIN bbuf[1].ids :
         bbuf[1].ids[i] > (IF i = 1 THEN written[a] ELSE bbuf[1].ids[i - 1])]_vars

(***************************************************************************)
(* The chip has room for what is written to it: the counts the driver      *)
(* keeps between two reads of the registers never exceed the chip's.       *)
(***************************************************************************)
ChipHasRoom ==
  Writable => Room(hwPage, bbuf[1].fifo, Agg) /\ hwOqt >= Agg

(***************************************************************************)
(* Liveness: packets that are queued are written in the end, across site   *)
(* surveys and with few buffers and pages, and none is left in a queue or  *)
(* a buffer when no more come: no wake-up of a thread is lost.             *)
(***************************************************************************)
Drained == ~txframes_pending /\ xbuf = <<>> /\ pendq = <<>> /\ bbuf = <<>>

QueuedIsWritten == txframes_pending ~> (Drained \/ drv_stopped)

(***************************************************************************)
(* Liveness: rtw_dev_unload, which waits for both threads, returns.        *)
(***************************************************************************)
ThreadsExit == drv_stopped ~> (xpc = "exit" /\ bpc = "exit")

=============================================================================
