------------------------------ MODULE ApSleep ------------------------------
(***************************************************************************)
(* Access point mode: frames for a station that sleeps are buffered and    *)
(* announced in the beacon, and released when the station polls for them   *)
(* (PS-Poll), triggers their delivery (U-APSD) or wakes.  core/rtw_xmit.c, *)
(* core/rtw_recv.c, core/rtw_ap.c and the transmit thread's queues of      *)
(* hal/rtl8723b/sdio/rtl8723bs_xmit.c, with registrypriv.wifi_spec = 0.    *)
(*                                                                         *)
(* One station (its bit of the bitmaps is "sta") and the group addressed   *)
(* frames ("grp", bit 0), kept in the sleep queue of the bcmc station.     *)
(* Of the four access categories two are enough: "be", the one the driver  *)
(* takes a PS-Poll to belong to, and "vo".                                 *)
(*                                                                         *)
(* A section under pxmitpriv->lock is one step, an operator from the state *)
(* s before to the state after.  Three places touch this state without the *)
(* lock and take several steps: the transmit path between its test of the  *)
(* station's state and rtw_hal_xmit, a PS-Poll that finds nothing, and the *)
(* alive check of the command thread.                                      *)
(***************************************************************************)
EXTENDS Integers, Sequences, FiniteSets, SequencesExt

CONSTANTS
  AgeLen,     \* a sleep queue longer than this is flushed (NR_XMITFRAME / n)
  LenMod,     \* sleepq_len and sleepq_ac_len count modulo this (2^32)
  MaxEvents   \* bound: frames to send, times the station goes to sleep,
              \* alive checks, and beacons that cannot be downloaded

ASSUME BoundsAssumption ==
  /\ AgeLen \in Nat /\ MaxEvents \in Nat
  /\ LenMod \in Nat /\ LenMod > MaxEvents

ACs == {"be", "vo"}

Whose == {"sta", "grp"}

Categories == ACs \cup {"grp"}

Frames == [id : 1..MaxEvents, ac : Categories, triggered : BOOLEAN]

VARIABLES
  uapsd,  \* the access categories with U-APSD (uapsd_be, uapsd_vo)
  s,      \* the state under pxmitpriv->lock, the beacon, the command queue
  air,    \* the TIM of the beacon on the air
  tx,     \* the frame between the test and rtw_hal_xmit, as a set
  rx,     \* where the receive context is
  rxTim,  \* its value of tim_bitmap
  cmd,    \* where the command thread is
  cmdTim, \* its value of tim_bitmap
  sent,   \* history: numbers of the frames given to the hardware
  late,   \* history: a frame entered a queue after the station dozed off
  races,  \* history: unlocked sections that were interfered with
  failed, \* history: a beacon was not downloaded
  events  \* counter for the bound

vars == <<uapsd, s, air, tx, rx, rxTim, cmd, cmdTim, sent, late, races,
          failed, events>>

States ==
  [asleep : BOOLEAN, alive_chk : BOOLEAN,
   dz : SUBSET Whose, tim : SUBSET Whose,
   sleep_q : [Whose -> Seq(Frames)],
   len : [Whose -> 0..(LenMod - 1)], ac_len : 0..(LenMod - 1),
   pending : [Categories -> Seq(Frames)],
   bcn : SUBSET Whose, cmdq : Seq({"beacon", "bmc"})]

TypeOK ==
  /\ uapsd \in SUBSET ACs
  /\ s \in States
  /\ air \in SUBSET Whose
  /\ tx \in SUBSET Frames /\ Cardinality(tx) <= 1
  /\ rx \in {"idle", "poll_empty", "poll_clear", "update"}
  /\ cmd \in {"idle", "alive_write", "update", "bmc"}
  /\ rxTim \in SUBSET Whose /\ cmdTim \in SUBSET Whose
  /\ sent \in [Categories -> Seq(1..MaxEvents)]
  /\ late \in BOOLEAN /\ races \in Nat
  /\ failed \in BOOLEAN /\ events \in 0..MaxEvents

Init ==
  /\ uapsd \in SUBSET ACs
  /\ s = [asleep |-> FALSE, alive_chk |-> FALSE, dz |-> {}, tim |-> {},
          sleep_q |-> [w \in Whose |-> <<>>], len |-> [w \in Whose |-> 0],
          ac_len |-> 0, pending |-> [c \in Categories |-> <<>>],
          bcn |-> {}, cmdq |-> <<>>]
  /\ air = {} /\ tx = {} /\ rx = "idle" /\ cmd = "idle"
  /\ rxTim = {} /\ cmdTim = {}
  /\ sent = [c \in Categories |-> <<>>]
  /\ late = FALSE /\ races = 0 /\ failed = FALSE
  /\ events = 0

-----------------------------------------------------------------------------
(* Operators on s.                                                         *)

has_legacy_ac == uapsd # ACs

Of(f) == IF f.ac = "grp" THEN "grp" ELSE "sta"

(***************************************************************************)
(* _update_beacon(_TIM_IE_, tx): the TIM element is written anew and a     *)
(* command that downloads the beacon is queued.                            *)
(***************************************************************************)
update_beacon(p) == [p EXCEPT !.bcn = p.tim, !.cmdq = Append(@, "beacon")]

(***************************************************************************)
(* A frame of this category is announced in the TIM element: U-APSD frames *)
(* only when the station has no legacy category.                           *)
(***************************************************************************)
Announced(ac) == (has_legacy_ac /\ ac \notin uapsd) \/
                 (~has_legacy_ac /\ ac \in uapsd)

Sleeps(p, f) == IF f.ac = "grp" THEN p.dz # {} ELSE p.asleep /\ "sta" \in p.dz

(***************************************************************************)
(* The frame enters a sleep queue, which is q from now on.  The first      *)
(* frame to be announced updates the beacon; a further group addressed     *)
(* frame has the queue looked at.                                          *)
(***************************************************************************)
Enqueue(p, f, q) ==
  LET w == Of(f)
      held == [p EXCEPT !.sleep_q[w] = q,
                        !.len[w] = (@ + 1) % LenMod,
                        !.ac_len = IF f.ac \in uapsd THEN (@ + 1) % LenMod
                                   ELSE @]
      shown == [held EXCEPT !.tim = @ \cup {w},
                            !.dz = IF w = "grp" THEN @ \cup {"grp"} ELSE @]
  IN IF w = "sta" /\ ~Announced(f.ac) THEN held
     ELSE IF w \notin p.tim THEN update_beacon(shown)
     ELSE IF w = "grp" THEN [shown EXCEPT !.cmdq = Append(@, "bmc")]
     ELSE shown

\* Deliberate fault: the frame goes to the head of the queue.
Bug_enqueue_head_for_sleeping_sta(p, f) ==
  Enqueue(p, f, <<f>> \o p.sleep_q[Of(f)])

\* Deliberate fault: the beacon is not updated.
Bug_enqueue_silent_for_sleeping_sta(p, f) ==
  [Enqueue(p, f, Append(p.sleep_q[Of(f)], f)) EXCEPT !.bcn = p.bcn,
                                                     !.cmdq = p.cmdq]

(***************************************************************************)
(* xmitframe_enqueue_for_sleeping_sta when it takes the frame.             *)
(***************************************************************************)
enqueue_for_sleeping_sta(p, f) ==
  Enqueue(p, f, Append(p.sleep_q[Of(f)], f))

\* Deliberate fault: the counter goes below zero.
Bug_release(p, f) ==
  [p EXCEPT !.sleep_q[Of(f)] = RemoveFirst(@, f),
            !.len[Of(f)] = @ - 1,
            !.pending[f.ac] = Append(@, [f EXCEPT !.triggered = TRUE])]

(***************************************************************************)
(* A frame leaves the sleep queue for the transmit queue, marked as        *)
(* triggered so that the transmit thread sends it.                         *)
(***************************************************************************)
release(p, f) ==
  [p EXCEPT !.sleep_q[Of(f)] = RemoveFirst(@, f),
            !.len[Of(f)] = (@ - 1) % LenMod,
            !.pending[f.ac] = Append(@, [f EXCEPT !.triggered = TRUE])]

release_ac(p, f) ==
  [release(p, f) EXCEPT !.ac_len = IF f.ac \in uapsd THEN (@ - 1) % LenMod
                                   ELSE @]

stop_sta_xmit(p) ==
  LET dozing == [p EXCEPT !.asleep = TRUE, !.dz = @ \cup {"sta"},
                          !.pending = [c \in Categories |-> <<>>]]
      moved == p.pending["vo"] \o p.pending["be"] \o p.pending["grp"]
  IN FoldLeft(enqueue_for_sleeping_sta, dozing,
              [i \in DOMAIN moved |-> [moved[i] EXCEPT !.triggered = FALSE]])

wakeup_sta_to_xmit(p) ==
  LET out == FoldLeft(release_ac, p, p.sleep_q["sta"])
      up == IF out.len["sta"] # 0 THEN out
            ELSE [out EXCEPT !.tim = @ \ {"sta"}, !.dz = @ \ {"sta"},
                             !.asleep = FALSE, !.alive_chk = FALSE]
      all == FoldLeft(release, up, up.sleep_q["grp"])
  IN IF "sta" \in up.dz THEN up
     ELSE IF all.len["grp"] # 0 THEN all
     ELSE [all EXCEPT !.tim = @ \ {"grp"}, !.dz = @ \ {"grp"}]

(***************************************************************************)
(* One frame of xmit_delivery_enabled_frames.                              *)
(***************************************************************************)
deliver(p, f) ==
  LET out == release_ac(p, f)
  IN IF f.ac \notin uapsd THEN p
     ELSE IF out.ac_len = 0 /\ ~has_legacy_ac
     THEN update_beacon([out EXCEPT !.tim = @ \ {"sta"}])
     ELSE out

xmit_delivery_enabled_frames(p) == FoldLeft(deliver, p, p.sleep_q["sta"])

-----------------------------------------------------------------------------
(* The transmit path and the transmit thread.                              *)

(***************************************************************************)
(* rtw_xmit: the frame is buffered, or goes on to rtw_hal_xmit after the   *)
(* lock was released.                                                      *)
(***************************************************************************)
rtw_xmit(ac) ==
  /\ tx = {}
  /\ events < MaxEvents /\ events' = events + 1
  /\ LET f == [id |-> events + 1, ac |-> ac, triggered |-> FALSE]
     IN \/ /\ Sleeps(s, f)
           /\ s' = enqueue_for_sleeping_sta(s, f)
           /\ UNCHANGED tx
        \/ /\ ~Sleeps(s, f)
           /\ tx' = {f}
           /\ UNCHANGED s
  /\ UNCHANGED <<uapsd, air, rx, rxTim, cmd, cmdTim, sent, late, races,
                 failed>>

rtl8723bs_hal_xmit ==
  /\ \E f \in tx :
       /\ s' = [s EXCEPT !.pending[f.ac] = Append(@, f)]
       /\ late' = (late \/ Sleeps(s, f))
  /\ tx' = {}
  /\ UNCHANGED <<uapsd, air, rx, rxTim, cmd, cmdTim, sent, races,
                 failed, events>>

(***************************************************************************)
(* One frame of xmit_xmitframes.  A frame that is not triggered blocks the *)
(* queue of a station that sleeps.                                         *)
(***************************************************************************)
xmit_xmitframes(ac) ==
  /\ s.pending[ac] # <<>>
  /\ ac = "grp" \/ ~s.asleep \/ Head(s.pending[ac]).triggered
  /\ s' = [s EXCEPT !.pending[ac] = Tail(@)]
  /\ sent' = [sent EXCEPT ![ac] = Append(@, Head(s.pending[ac]).id)]
  /\ UNCHANGED <<uapsd, air, tx, rx, rxTim, cmd, cmdTim, late, races,
                 failed, events>>

-----------------------------------------------------------------------------
(* The receive context.                                                    *)

(***************************************************************************)
(* process_pwrbit_data: the station sets or clears its power management    *)
(* bit.  After waking the beacon is updated outside the lock.              *)
(***************************************************************************)
Doze ==
  /\ rx = "idle" /\ ~s.asleep /\ events < MaxEvents
  /\ s' = stop_sta_xmit(s)
  /\ events' = events + 1
  /\ UNCHANGED <<uapsd, air, tx, rx, rxTim, cmd, cmdTim, sent, late, races,
                 failed>>

WakeUp ==
  /\ rx = "idle" /\ s.asleep
  /\ s' = wakeup_sta_to_xmit(s)
  /\ rx' = IF s'.tim # s.tim THEN "update" ELSE "idle"
  /\ UNCHANGED <<uapsd, air, tx, rxTim, cmd, cmdTim, sent, late, races,
                 failed, events>>

UpdateBeacon ==
  /\ rx = "update"
  /\ s' = update_beacon(s)
  /\ rx' = "idle"
  /\ UNCHANGED <<uapsd, air, tx, rxTim, cmd, cmdTim, sent, late, races,
                 failed, events>>

(***************************************************************************)
(* validate_recv_ctrl_frame: a PS-Poll counts as a frame of "be" and is    *)
(* refused when that category has U-APSD.  It takes the head of the sleep  *)
(* queue, whatever its category, and leaves sleepq_ac_len alone.           *)
(***************************************************************************)
PollAccepted == s.asleep /\ "sta" \in s.dz /\ "be" \notin uapsd

\* Deliberate fault: the counter is not reduced.
Bug_Polled_uncounted(p) ==
  [release(p, Head(p.sleep_q["sta"])) EXCEPT !.alive_chk = FALSE,
                                             !.len["sta"] = p.len["sta"]]

\* Deliberate fault: the bit is cleared with frames left.
Bug_Polled_cleared(p) ==
  LET out == [release(p, Head(p.sleep_q["sta"])) EXCEPT !.alive_chk = FALSE]
  IN update_beacon([out EXCEPT !.tim = @ \ {"sta"}])

Polled(p) ==
  LET out == [release(p, Head(p.sleep_q["sta"])) EXCEPT !.alive_chk = FALSE]
  IN IF out.len["sta"] = 0
     THEN update_beacon([out EXCEPT !.tim = @ \ {"sta"}])
     ELSE out

PsPoll ==
  /\ rx = "idle" /\ PollAccepted
  /\ \/ /\ s.sleep_q["sta"] # <<>>
        /\ s' = Polled(s)
        /\ UNCHANGED rx
     \/ /\ s.sleep_q["sta"] = <<>>
        /\ s' = [s EXCEPT !.alive_chk = FALSE]
        /\ rx' = "poll_empty"
  /\ UNCHANGED <<uapsd, air, tx, rxTim, cmd, cmdTim, sent, late, races,
                 failed, events>>

(***************************************************************************)
(* After the lock was released: sleepq_len is tested and tim_bitmap is     *)
(* read and written back without it.                                       *)
(***************************************************************************)
PollEmpty ==
  /\ rx = "poll_empty"
  /\ \/ /\ "sta" \in s.tim
        /\ s' = [s EXCEPT !.len["sta"] = 0]
        /\ races' = IF s.sleep_q["sta"] # <<>> THEN races + 1 ELSE races
        /\ rxTim' = s.tim \ {"sta"}
        /\ rx' = "poll_clear"
     \/ /\ "sta" \notin s.tim
        /\ rx' = "idle"
        /\ UNCHANGED <<s, rxTim, races>>
  /\ UNCHANGED <<uapsd, air, tx, cmd, cmdTim, sent, late,
                 failed, events>>

PollClear ==
  /\ rx = "poll_clear"
  /\ s' = [s EXCEPT !.tim = rxTim]
  /\ races' = IF s.tim # rxTim \cup {"sta"} \/ s.sleep_q["sta"] # <<>>
              THEN races + 1 ELSE races
  /\ rx' = "update" /\ rxTim' = {}
  /\ UNCHANGED <<uapsd, air, tx, cmd, cmdTim, sent, late,
                 failed, events>>

(***************************************************************************)
(* process_wmmps_data: a frame of a U-APSD category triggers delivery.     *)
(***************************************************************************)
Trigger ==
  /\ rx = "idle" /\ s.asleep /\ uapsd # {} /\ s.ac_len > 0
  /\ s' = xmit_delivery_enabled_frames(s)
  /\ UNCHANGED <<uapsd, air, tx, rx, rxTim, cmd, cmdTim, sent, late, races,
                 failed, events>>

-----------------------------------------------------------------------------
(* The command thread.                                                     *)

(***************************************************************************)
(* tx_beacon_hdl: send_beacon, then chk_bmc_sleepq_hdl; a failure returns  *)
(* between the two.  The copy of the elements that the command carries is  *)
(* not used: the beacon is built from those of the moment.                 *)
(***************************************************************************)
chk_bmc_sleepq(p) == "grp" \in p.tim /\ p.len["grp"] > 0

\* Deliberate fault: the group addressed frames are not looked at.
Bug_tx_beacon_hdl ==
  /\ cmd = "idle" /\ s.cmdq # <<>> /\ Head(s.cmdq) = "beacon"
  /\ s' = [s EXCEPT !.cmdq = Tail(@)]
  /\ \/ /\ air' = s.bcn
        /\ cmd' = cmd
        /\ UNCHANGED <<failed, events>>
     \/ /\ events < MaxEvents /\ events' = events + 1 /\ failed' = TRUE
        /\ UNCHANGED <<air, cmd>>
  /\ UNCHANGED <<uapsd, tx, rx, rxTim, cmdTim, sent, late, races>>

tx_beacon_hdl ==
  /\ cmd = "idle" /\ s.cmdq # <<>> /\ Head(s.cmdq) = "beacon"
  /\ s' = [s EXCEPT !.cmdq = Tail(@)]
  /\ \/ /\ air' = s.bcn
        /\ cmd' = IF chk_bmc_sleepq(s) THEN "bmc" ELSE "idle"
        /\ UNCHANGED <<failed, events>>
     \/ /\ events < MaxEvents /\ events' = events + 1 /\ failed' = TRUE
        /\ UNCHANGED <<air, cmd>>
  /\ UNCHANGED <<uapsd, tx, rx, rxTim, cmdTim, sent, late, races>>

chk_bmc_sleepq_hdl ==
  /\ cmd = "idle" /\ s.cmdq # <<>> /\ Head(s.cmdq) = "bmc"
  /\ s' = [s EXCEPT !.cmdq = Tail(@)]
  /\ cmd' = IF chk_bmc_sleepq(s) THEN "bmc" ELSE "idle"
  /\ UNCHANGED <<uapsd, air, tx, rx, rxTim, cmdTim, sent, late, races,
                 failed, events>>

(***************************************************************************)
(* After a sleep of 10 ms.  rtw_chk_hi_queue_cmd, queued afterwards, does  *)
(* nothing unless wifi_spec is set: bit 0 stays in both bitmaps.           *)
(***************************************************************************)
BmcSleepqSent ==
  /\ cmd = "bmc"
  /\ s' = FoldLeft(release, s, s.sleep_q["grp"])
  /\ cmd' = "idle"
  /\ UNCHANGED <<uapsd, air, tx, rx, rxTim, cmdTim, sent, late, races,
                 failed, events>>

(***************************************************************************)
(* expire_timeout_chk, under asoc_list_lock only: a station that was       *)
(* silent for long and sleeps is asked to poll.  The update of tim_bitmap  *)
(* is a read and a write.                                                  *)
(***************************************************************************)
AliveCheck ==
  /\ cmd = "idle" /\ s.asleep /\ ~s.alive_chk /\ events < MaxEvents
  /\ events' = events + 1
  /\ s' = [s EXCEPT !.alive_chk = TRUE]
  /\ cmdTim' = s.tim \cup {"sta"}
  /\ cmd' = "alive_write"
  /\ UNCHANGED <<uapsd, air, tx, rx, rxTim, sent, late, races,
                 failed>>

AliveWrite ==
  /\ cmd = "alive_write"
  /\ s' = update_beacon([s EXCEPT !.tim = cmdTim])
  /\ races' = IF s.tim \cup {"sta"} # cmdTim THEN races + 1 ELSE races
  /\ cmd' = "idle" /\ cmdTim' = {}
  /\ UNCHANGED <<uapsd, air, tx, rx, rxTim, sent, late,
                 failed, events>>

(***************************************************************************)
(* expire_timeout_chk flushes a sleep queue that has grown too long, with  *)
(* the station still asleep.                                               *)
(***************************************************************************)
AgeOut ==
  /\ cmd = "idle" /\ s.len["sta"] > AgeLen
  /\ s' = wakeup_sta_to_xmit(s)
  /\ cmd' = IF s'.tim # s.tim THEN "update" ELSE "idle"
  /\ UNCHANGED <<uapsd, air, tx, rx, rxTim, cmdTim, sent, late, races,
                 failed, events>>

AgeUpdate ==
  /\ cmd = "update"
  /\ s' = update_beacon(s)
  /\ cmd' = "idle"
  /\ UNCHANGED <<uapsd, air, tx, rx, rxTim, cmdTim, sent, late, races,
                 failed, events>>

-----------------------------------------------------------------------------
Xmit == \E ac \in Categories : rtw_xmit(ac)

CmdStep == tx_beacon_hdl \/ chk_bmc_sleepq_hdl \/ BmcSleepqSent \/ AliveWrite
           \/ AgeUpdate

RxStep == UpdateBeacon \/ PollEmpty \/ PollClear

(***************************************************************************)
(* A station that sees its bit in the beacon fetches its frames.           *)
(***************************************************************************)
Fetches == "sta" \in air /\ IF has_legacy_ac THEN PsPoll ELSE Trigger

Next ==
  \/ Xmit \/ rtl8723bs_hal_xmit
  \/ \E ac \in Categories : xmit_xmitframes(ac)
  \/ Doze \/ WakeUp \/ PsPoll \/ Trigger
  \/ RxStep \/ CmdStep \/ AliveCheck \/ AgeOut

Spec == Init /\ [][Next]_vars

(***************************************************************************)
(* The threads and the receive context run when they have something to do; *)
(* the station fetches what is announced, but need not wake.               *)
(***************************************************************************)
Fairness ==
  /\ \A ac \in Categories : WF_vars(xmit_xmitframes(ac))
  /\ WF_vars(rtl8723bs_hal_xmit)
  /\ WF_vars(CmdStep) /\ WF_vars(RxStep)
  /\ SF_vars(Fetches)

FairSpec == Spec /\ Fairness

-----------------------------------------------------------------------------
(***************************************************************************)
(* sleepq_len is the length of the sleep queue, unless an unlocked section *)
(* was interfered with.  The transmit, the receive and the command context *)
(* all change both; WIFI_SLEEP_STATE is cleared only when it reaches 0, so *)
(* a count too high keeps the station asleep for good.                     *)
(***************************************************************************)
SleepqLen == \A w \in Whose : s.len[w] = Len(s.sleep_q[w])

CountedQueues == races = 0 => SleepqLen

(***************************************************************************)
(* A frame of an announced category is never buffered without its bit in   *)
(* tim_bitmap, which four contexts set and clear; unless an unlocked       *)
(* section was interfered with.                                            *)
(***************************************************************************)
BufferedIsAnnounced ==
  races = 0 =>
    \A w \in Whose : \A i \in DOMAIN s.sleep_q[w] :
      w = "grp" \/ Announced(s.sleep_q[w][i].ac) => w \in s.tim

(***************************************************************************)
(* The frames of a category reach the hardware in the order they came,     *)
(* through sleep queue, polls, triggers and wake-ups; unless a frame       *)
(* passed the test of rtw_xmit before the station dozed off and was queued *)
(* afterwards.                                                             *)
(***************************************************************************)
InOrder ==
  ~late => \A c \in DOMAIN sent : \A i, j \in DOMAIN sent[c] :
             i < j => sent[c][i] < sent[c][j]

\* The three ways in which the code loses sight of a frame.
Disturbed == late \/ races > 0 \/ failed

Waiting ==
  \E i \in DOMAIN s.sleep_q["sta"] : Announced(s.sleep_q["sta"][i].ac)

(***************************************************************************)
(* Liveness: frames of announced categories are sent to a station that     *)
(* fetches what the beacon announces, although it never wakes; unless it   *)
(* has U-APSD for "be" and a legacy category beside it (its PS-Polls are   *)
(* refused), or one of the disturbances happened.                          *)
(***************************************************************************)
BufferedIsSent ==
  ((has_legacy_ac => "be" \notin uapsd) /\ Waiting)
     ~> (Disturbed \/ (~Waiting /\ \A c \in ACs : s.pending[c] = <<>>))

(***************************************************************************)
(* Liveness: group addressed frames are sent after a beacon, whatever the  *)
(* station does; with the same exceptions.                                 *)
(***************************************************************************)
GroupIsSent ==
  s.sleep_q["grp"] # <<>>
     ~> (Disturbed \/ (s.sleep_q["grp"] = <<>> /\ s.pending["grp"] = <<>>))

=============================================================================
