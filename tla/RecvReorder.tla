----------------------------- MODULE RecvReorder -----------------------------
(***************************************************************************)
(* The receive reordering buffer of one traffic stream (one sta_info, one  *)
(* TID): recv_reorder_ctrl in core/rtw_recv.c, and the block ack handlers  *)
(* that switch it on and off (core/rtw_mlme_ext.c).                        *)
(*                                                                         *)
(* Frames carry a 12 bit sequence number.  Inside a block ack session the  *)
(* peer sends any frame of its window in any order, again when an ack is   *)
(* lost, and moves the window on when it gives a frame up.  The receive    *)
(* tasklet puts the frames back into order; the reordering timer, in its   *)
(* own softirq, gives up waiting for a missing frame; the command thread   *)
(* (add_ba_rsp_hdl, _send_delba_sta_tid) changes indicate_seq and enable   *)
(* without any lock; rtw_free_stainfo takes the sta_info away.             *)
(*                                                                         *)
(* Frames are named by their absolute number; the code only ever sees it   *)
(* modulo 4096.                                                            *)
(***************************************************************************)
EXTENDS Integers, Sequences, FiniteSets

CONSTANTS
  WSize,       \* wsize_b, 64 in the code
  FirstFrame,  \* absolute number of the first frame sent
  MaxFrames,   \* bound: number of frames sent
  MaxAddba,    \* bound: block ack sessions set up
  Concurrent,  \* whether frames are handled while add_ba_rsp_hdl runs
  MayStop,     \* whether the driver may be stopped
  MayFree      \* whether the sta_info may be freed

ASSUME WindowAssumption == WSize \in 2..1024

ASSUME ReorderBoundsAssumption ==
  /\ FirstFrame \in Nat /\ MaxFrames \in Nat \ {0} /\ MaxAddba \in Nat
  /\ Concurrent \in BOOLEAN /\ MayStop \in BOOLEAN /\ MayFree \in BOOLEAN

LastFrame == FirstFrame + MaxFrames - 1
Frames == FirstFrame .. LastFrame

(***************************************************************************)
(* Sequence numbers: SN_LESS looks at bit 0x800 of the difference; 0xFFFF  *)
(* in indicate_seq means "not set".                                        *)
(***************************************************************************)
SN(n) == n % 4096
Unset == 65535

\* Deliberate fault: sequence numbers are compared as integers.
Bug_PlainLess(a, b) == a < b

SN_LESS(a, b) == (a - b) % 4096 >= 2048

VARIABLES
  stopped,       \* RTW_CANNOT_RUN
  sta,           \* the sta_info: "linked", "unlinked" or "freed"
  enable,        \* reorder_ctrl->enable
  indicate_seq,  \* start of the receive window
  queue,         \* pending_recvframe_queue
  waiting,       \* bReorderWaiting
  timer,         \* reordering_ctrl_timer is armed
  fired,         \* it has expired and its handler is about to take the lock
  rxpc,          \* where the receive tasklet is
  rxn,           \* the frame in its hand
  rxcache,       \* rxcache.tid_rxseq: the last frame let through, or Unset
  addpc,         \* where add_ba_rsp_hdl is
  sessions,      \* sessions set up so far
  agg,           \* the peer aggregates: it believes in a session
  base,          \* start of the peer's window
  session,       \* history: the frames indicated in a clean session
  clean,         \* history: the session began with nothing left over
  skipped,       \* history: the session gave up a missing frame
  top            \* history: the highest frame taken so far, or -1

airVars  == <<sta, rxcache, base>>
baVars   == <<addpc, sessions, agg>>
histVars == <<session, clean, skipped>>
vars == <<stopped, sta, enable, indicate_seq, queue, waiting, timer, fired,
          rxpc, rxn, rxcache, addpc, sessions, agg, base, session,
          clean, skipped, top>>

TypeOK ==
  /\ stopped \in BOOLEAN /\ sta \in {"linked", "unlinked", "freed"}
  /\ enable \in BOOLEAN /\ indicate_seq \in 0..4095 \cup {Unset}
  /\ queue \in Seq(Frames) /\ session \in Seq(Frames)
  /\ waiting \in BOOLEAN /\ timer \in BOOLEAN /\ fired \in BOOLEAN
  /\ rxpc \in {"idle", "have", "direct", "cancel"} /\ rxn \in Frames
  /\ rxcache \in 0..4095 \cup {Unset}
  /\ addpc \in {"idle", "answered", "rejected", "enable", "disable"}
  /\ sessions \in Nat
  /\ agg \in BOOLEAN /\ base \in Frames
  /\ clean \in BOOLEAN /\ skipped \in BOOLEAN
  /\ top \in Frames \cup {-1}

(***************************************************************************)
(* rtw_alloc_stainfo.                                                      *)
(***************************************************************************)
Init ==
  /\ stopped = FALSE /\ sta = "linked"
  /\ enable = FALSE /\ indicate_seq = Unset
  /\ queue = <<>> /\ waiting = FALSE /\ timer = FALSE /\ fired = FALSE
  /\ rxpc = "idle" /\ rxn = FirstFrame /\ rxcache = Unset
  /\ addpc = "idle" /\ sessions = 0 /\ agg = FALSE /\ base = FirstFrame
  /\ session = <<>>
  /\ clean = FALSE /\ skipped = FALSE /\ top = -1

(***************************************************************************)
(* The peer (external): without a session it sends one frame until it is   *)
(* acknowledged or given up, with one any frame of its window.             *)
(***************************************************************************)
Sendable == IF agg THEN {n \in Frames : base <= n /\ n < base + WSize}
            ELSE {base}

PeerSlides ==
  /\ base < LastFrame
  /\ base' = base + 1
  /\ UNCHANGED <<stopped, sta, enable, indicate_seq, queue, waiting, timer,
                 fired, rxpc, rxn, rxcache, baVars, histVars, top>>

(***************************************************************************)
(* A frame arrives: the tasklet finds the sta_info (rtw_get_stainfo) and   *)
(* recv_decache drops a repetition of the frame it saw last.               *)
(***************************************************************************)
recv_decache(n) == SN(n) # rxcache

Receive(n) ==
  /\ rxpc = "idle" /\ sta = "linked" /\ ~stopped
  /\ Concurrent \/ addpc = "idle"
  /\ n \in Sendable /\ recv_decache(n)
  /\ rxcache' = SN(n) /\ rxn' = n /\ rxpc' = "have"
  /\ UNCHANGED <<stopped, sta, enable, indicate_seq, queue, waiting, timer,
                 fired, baVars, base, histVars, top>>

Higher(n) == IF n > top THEN n ELSE top

(***************************************************************************)
(* recv_indicatepkt_reorder without a session: the frame goes straight to  *)
(* the network stack, between two unlocked writes of indicate_seq.         *)
(***************************************************************************)
IndicateDirect ==
  /\ rxpc = "have" /\ ~enable
  /\ indicate_seq' = SN(rxn)
  /\ top' = Higher(rxn)
  /\ rxpc' = "direct"
  /\ UNCHANGED <<stopped, enable, queue, waiting, timer, fired, rxn, airVars,
                 baVars, histVars>>

IndicateDirectEnd ==
  /\ rxpc = "direct"
  /\ indicate_seq' = (indicate_seq + 1) % 4096
  /\ rxpc' = "idle"
  /\ UNCHANGED <<stopped, enable, queue, waiting, timer, fired, rxn, airVars,
                 baVars, histVars, top>>

(***************************************************************************)
(* check_indicate_seq: the first frame sets the window; an older one is    *)
(* dropped; the expected one moves the window by one; one beyond its end   *)
(* moves the window so that it becomes the last.                           *)
(***************************************************************************)
TooOld(s) == indicate_seq # Unset /\ SN_LESS(s, indicate_seq)

BeyondWindow(s) ==
  /\ indicate_seq # Unset /\ s # indicate_seq
  /\ SN_LESS((indicate_seq + WSize - 1) % 4096, s)

\* Deliberate fault: the new window does not wrap below zero.
Bug_ShiftNoWrap(s) == s + 1 - WSize

ShiftedStart(s) ==
  IF s >= WSize - 1 THEN s + 1 - WSize ELSE 4095 - (WSize - (s + 1)) + 1

\* Deliberate fault: every frame moves the start of the window.
Bug_StartFollows(s) == (s + 1) % 4096

check_indicate_seq(s) ==
  IF indicate_seq = Unset \/ s = indicate_seq THEN (s + 1) % 4096
  ELSE IF BeyondWindow(s) THEN ShiftedStart(s)
  ELSE indicate_seq

(***************************************************************************)
(* enqueue_reorder_recvframe: before the first frame that is not smaller,  *)
(* unless that frame has the same number.                                  *)
(***************************************************************************)
InsertPos(q, n) ==
  CHOOSE i \in 1..(Len(q) + 1) :
    /\ \A j \in 1..(i - 1) : SN_LESS(SN(q[j]), SN(n))
    /\ i = Len(q) + 1 \/ ~SN_LESS(SN(q[i]), SN(n))

Duplicate(q, n) ==
  LET i == InsertPos(q, n) IN i <= Len(q) /\ SN(q[i]) = SN(n)

\* Deliberate fault: a frame is put at the end whatever its number.
Bug_InsertedAtTail(q, n) == Append(q, n)

Inserted(q, n) ==
  LET i == InsertPos(q, n)
  IN  SubSeq(q, 1, i - 1) \o <<n>> \o SubSeq(q, i, Len(q))

(***************************************************************************)
(* recv_indicatepkts_in_order: from the head, indicate every frame that is *)
(* not beyond the start of the window, moving the start on past the ones   *)
(* that are expected.  StartAfter(q, start)[i] is the start once i frames  *)
(* are out, Ready the number of frames that go.                            *)
(***************************************************************************)
StartAfter(q, start) ==
  LET f[i \in 0..Len(q)] ==
        IF i = 0 THEN start
        ELSE IF SN(q[i]) = f[i - 1] THEN (f[i - 1] + 1) % 4096 ELSE f[i - 1]
  IN  f

Ready(q, start) ==
  CHOOSE k \in 0..Len(q) :
    /\ \A i \in 1..k : ~SN_LESS(StartAfter(q, start)[i - 1], SN(q[i]))
    /\ k = Len(q) \/ SN_LESS(StartAfter(q, start)[k], SN(q[k + 1]))

Indicate(q, start) ==
  LET k == Ready(q, start)
  IN  /\ queue' = SubSeq(q, k + 1, Len(q))
      /\ indicate_seq' = StartAfter(q, start)[k]
      /\ session' = IF stopped \/ ~clean THEN session
                    ELSE session \o SubSeq(q, 1, k)

(***************************************************************************)
(* recv_indicatepkt_reorder within a session, under the queue's lock: a    *)
(* frame that is too old, or already there, is dropped; otherwise it is    *)
(* inserted and what is ready is indicated.  With frames left the timer is *)
(* armed unless one is believed to be waiting; with none left it is        *)
(* cancelled, after the lock is released.                                  *)
(***************************************************************************)
DropOld ==
  /\ rxpc = "have" /\ enable /\ TooOld(SN(rxn))
  /\ rxpc' = "idle"
  /\ UNCHANGED <<stopped, enable, indicate_seq, queue, waiting, timer, fired,
                 rxn, airVars, baVars, histVars, top>>

DropDuplicate ==
  /\ rxpc = "have" /\ enable /\ ~TooOld(SN(rxn)) /\ Duplicate(queue, rxn)
  /\ indicate_seq' = check_indicate_seq(SN(rxn))
  /\ skipped' = (skipped \/ BeyondWindow(SN(rxn)))
  /\ rxpc' = "idle"
  /\ UNCHANGED <<stopped, enable, queue, waiting, timer, fired, rxn, airVars,
                 baVars, session, clean, top>>

recv_indicatepkt_reorder ==
  /\ rxpc = "have" /\ enable /\ ~TooOld(SN(rxn)) /\ ~Duplicate(queue, rxn)
  /\ Indicate(Inserted(queue, rxn), check_indicate_seq(SN(rxn)))
  /\ skipped' = (skipped \/ BeyondWindow(SN(rxn)))
  /\ top' = Higher(rxn)
  /\ \/ /\ queue' # <<>>
        /\ waiting' = TRUE /\ timer' = (timer \/ ~waiting)
        /\ rxpc' = "idle"
     \/ /\ queue' = <<>>
        /\ waiting' = FALSE /\ UNCHANGED timer
        /\ rxpc' = "cancel"
  /\ UNCHANGED <<stopped, enable, fired, rxn, airVars, baVars, clean>>

(***************************************************************************)
(* _cancel_timer_ex is del_timer_sync: it waits for a running handler.     *)
(***************************************************************************)
CancelTimer ==
  /\ rxpc = "cancel" /\ ~fired
  /\ timer' = FALSE /\ rxpc' = "idle"
  /\ UNCHANGED <<stopped, enable, indicate_seq, queue, waiting, fired, rxn,
                 airVars, baVars, histVars, top>>

(***************************************************************************)
(* rtw_reordering_ctrl_timeout_handler: the timer expires, then, under the *)
(* lock, a forced indication starts the window at the first frame there    *)
(* is.  Forced on an empty buffer, recv_indicatepkts_in_order reports that *)
(* packets are left, so the timer is armed again.                          *)
(***************************************************************************)
TimerExpires ==
  /\ timer /\ ~fired
  /\ timer' = FALSE /\ fired' = ~stopped
  /\ UNCHANGED <<stopped, enable, indicate_seq, queue, waiting, rxpc, rxn,
                 airVars, baVars, histVars, top>>

\* Deliberate fault: the handler arms no timer for the frames that stay.
Bug_NoRearm ==
  /\ fired /\ fired' = FALSE
  /\ waiting' = FALSE
  /\ \/ /\ queue = <<>>
        /\ timer' = TRUE
        /\ UNCHANGED <<queue, indicate_seq, session, skipped>>
     \/ /\ queue # <<>>
        /\ Indicate(queue, SN(queue[1]))
        /\ UNCHANGED timer
        /\ skipped' = TRUE
  /\ UNCHANGED <<stopped, enable, rxpc, rxn, airVars, baVars, clean, top>>

rtw_reordering_ctrl_timeout_handler ==
  /\ fired /\ fired' = FALSE
  /\ waiting' = FALSE
  /\ \/ /\ queue = <<>>
        /\ timer' = TRUE
        /\ UNCHANGED <<queue, indicate_seq, session, skipped>>
     \/ /\ queue # <<>>
        /\ Indicate(queue, SN(queue[1]))
        /\ timer' = (timer \/ queue' # <<>>)
        /\ skipped' = TRUE
  /\ UNCHANGED <<stopped, enable, rxpc, rxn, airVars, baVars, clean, top>>

(***************************************************************************)
(* add_ba_rsp_hdl in the command thread.  The response goes out; it may be *)
(* lost, or the peer begins to aggregate.  Then indicate_seq is unset,     *)
(* then the session is enabled, or disabled when the request was rejected. *)
(* Frames that are still buffered stay.                                    *)
(***************************************************************************)
AddbaAnswer ==
  /\ addpc = "idle" /\ sta = "linked" /\ ~stopped /\ sessions < MaxAddba
  /\ Concurrent \/ rxpc \in {"idle", "cancel"}
  /\ \/ addpc' = "answered" /\ agg' \in BOOLEAN
     \/ addpc' = "rejected" /\ UNCHANGED agg
  /\ sessions' = sessions + 1
  /\ UNCHANGED <<stopped, enable, indicate_seq, queue, waiting, timer, fired,
                 rxpc, rxn, airVars, histVars, top>>

AddbaUnset ==
  /\ \/ addpc = "answered" /\ addpc' = "enable"
     \/ addpc = "rejected" /\ addpc' = "disable"
  /\ indicate_seq' = Unset
  /\ clean' = FALSE /\ session' = <<>>
  /\ UNCHANGED <<stopped, enable, queue, waiting, timer, fired, rxpc, rxn,
                 airVars, sessions, agg, skipped, top>>

AddbaEnd ==
  /\ \/ addpc = "enable" /\ enable' = TRUE /\ clean' = (queue = <<>>)
     \/ addpc = "disable" /\ enable' = FALSE /\ UNCHANGED clean
  /\ addpc' = "idle" /\ skipped' = FALSE
  /\ UNCHANGED <<stopped, indicate_seq, queue, waiting, timer, fired, rxpc,
                 rxn, airVars, sessions, agg, session, top>>

(***************************************************************************)
(* The session ends: OnAction_back handles the peer's DELBA in the         *)
(* tasklet, _send_delba_sta_tid sends one from any thread and the peer     *)
(* stops when it gets it.  Neither touches the buffer or the timer.        *)
(***************************************************************************)
OnDelba ==
  /\ enable /\ rxpc = "idle" /\ sta = "linked"
  /\ enable' = FALSE /\ agg' = FALSE
  /\ clean' = FALSE /\ session' = <<>>
  /\ UNCHANGED <<stopped, indicate_seq, queue, waiting, timer, fired, rxpc,
                 rxn, airVars, addpc, sessions, skipped, top>>

send_delba_sta_tid ==
  /\ enable /\ sta = "linked" /\ ~stopped
  /\ enable' = FALSE
  /\ clean' = FALSE /\ session' = <<>>
  /\ UNCHANGED <<stopped, indicate_seq, queue, waiting, timer, fired, rxpc,
                 rxn, airVars, baVars, skipped, top>>

PeerGetsDelba ==
  /\ agg /\ ~enable /\ addpc = "idle"
  /\ agg' = FALSE
  /\ UNCHANGED <<stopped, enable, indicate_seq, queue, waiting, timer, fired,
                 rxpc, rxn, airVars, addpc, sessions, histVars,
                 top>>

(***************************************************************************)
(* rtw_free_stainfo takes the sta_info out of the hash and cancels the     *)
(* timer, then frees what is buffered.  The driver may be stopped at any   *)
(* time.                                                                   *)
(***************************************************************************)
FreeCancel ==
  /\ MayFree /\ sta = "linked" /\ addpc = "idle" /\ ~fired
  /\ sta' = "unlinked" /\ timer' = FALSE
  /\ UNCHANGED <<stopped, enable, indicate_seq, queue, waiting, fired, rxpc,
                 rxn, rxcache, baVars, base, histVars, top>>

FreeFlush ==
  /\ sta = "unlinked"
  /\ sta' = "freed" /\ queue' = <<>>
  /\ UNCHANGED <<stopped, enable, indicate_seq, waiting, timer, fired, rxpc,
                 rxn, rxcache, baVars, base, histVars, top>>

Stop ==
  /\ MayStop /\ ~stopped
  /\ stopped' = TRUE
  /\ UNCHANGED <<enable, indicate_seq, queue, waiting, timer, fired, rxpc,
                 rxn, airVars, baVars, histVars, top>>

Rx ==
  \/ \E n \in Frames : Receive(n)
  \/ IndicateDirect \/ IndicateDirectEnd
  \/ DropOld \/ DropDuplicate \/ recv_indicatepkt_reorder \/ CancelTimer

Timer == TimerExpires \/ rtw_reordering_ctrl_timeout_handler

BlockAck ==
  \/ AddbaAnswer \/ AddbaUnset \/ AddbaEnd
  \/ OnDelba \/ send_delba_sta_tid \/ PeerGetsDelba

Next ==
  \/ PeerSlides \/ Rx \/ Timer \/ BlockAck
  \/ FreeCancel \/ FreeFlush \/ Stop

Spec == Init /\ [][Next]_vars

(***************************************************************************)
(* Fairness: an armed timer expires and its handler gets the lock.         *)
(* Nothing is asked of the peer or of the network.                         *)
(***************************************************************************)
FairSpec ==
  Spec /\ WF_vars(TimerExpires) /\ WF_vars(rtw_reordering_ctrl_timeout_handler)
------------------------------------------------------------------------------
(***************************************************************************)
(* Safety: the frames of a session are indicated in the order they were    *)
(* sent and none twice, whatever was lost, repeated or forced, also where  *)
(* the sequence number wraps (recv_indicatepkts_in_order).                 *)
(***************************************************************************)
InOrder ==
  \A i, j \in DOMAIN session : i < j => session[i] < session[j]

(***************************************************************************)
(* Safety: a session that never gave up on a frame (no forced indication,  *)
(* no window shift) has indicated every frame since its first one: what    *)
(* arrived out of order was kept, nothing was dropped as old.              *)
(***************************************************************************)
NoGap ==
  ~skipped => \A i \in 2..Len(session) : session[i] = session[i - 1] + 1

(***************************************************************************)
(* Action property: a frame newer than all that were taken before is never *)
(* dropped: the frames dropped by check_indicate_seq are "delay,           *)
(* retransmission, redundant packets" (core/rtw_debug.c).                  *)
(***************************************************************************)
FreshIsTaken ==
  [][rxpc = "have" /\ rxpc' # "have" /\ rxn > top => top' = rxn]_vars

(***************************************************************************)
(* Safety: as long as frames are buffered the timer is armed or its        *)
(* handler is about to run: bReorderWaiting, written by the tasklet and by *)
(* the handler, never claims a timer that is not there.                    *)
(***************************************************************************)
BufferedHasTimer ==
  ~stopped /\ sta = "linked" =>
    /\ queue # <<>> => timer \/ fired
    /\ waiting => timer \/ fired

(***************************************************************************)
(* Liveness: a buffered frame leaves the buffer in the end, without any    *)
(* further frame from the peer; only an indication takes it out.           *)
(***************************************************************************)
BufferedIsDelivered ==
  \A n \in Frames :
    (\E i \in DOMAIN queue : queue[i] = n)
      ~> \/ \A i \in DOMAIN queue : queue[i] # n
         \/ stopped \/ sta # "linked"
------------------------------------------------------------------------------
(***************************************************************************)
(* The inductive invariant behind BufferedHasTimer: when the tasklet is    *)
(* about to cancel the timer, nothing is buffered and nobody waits.        *)
(***************************************************************************)
TimerInv ==
  /\ BufferedHasTimer
  /\ ~stopped /\ sta = "linked" /\ rxpc = "cancel" => queue = <<>> /\ ~waiting
==============================================================================
