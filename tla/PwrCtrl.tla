------------------------------- MODULE PwrCtrl -------------------------------
(***************************************************************************)
(* The leisure power save (LPS) clock handshake between the driver and the *)
(* firmware of the RTL8723BS: core/rtw_pwrctrl.c built with                *)
(* CONFIG_LPS_LCLK, CONFIG_DETECT_CPWM_BY_POLLING, CONFIG_LPS_RPWM_TIMER   *)
(* and CONFIG_BT_COEXIST.                                                  *)
(*                                                                         *)
(* The driver asks the firmware for a clock level by writing HRPWM (the    *)
(* "request"); the firmware acknowledges a wake-up by flipping the toggle  *)
(* bit of HCPWM.  Two threads need the chip awake before they do I/O: the  *)
(* command thread (rtw_cmd_thread) and the transmit thread                 *)
(* (rtl8723bs_xmit_buf_handler).  Each registers itself in `alives' and    *)
(* unregisters when its queue is empty; the last one to leave lets the     *)
(* firmware drop to the 32 kHz clock again.  LPS contexts (the watchdog    *)
(* command, ioctls, the traffic check) enter and leave LPS at any time.    *)
(*                                                                         *)
(* pwrctrl->lock serialises the handshake, and is held while the toggle is *)
(* polled; every other critical section is one step.                       *)
(***************************************************************************)
EXTENDS Integers, Sequences, FiniteSets

CONSTANTS
  Ctrls,        \* contexts that may call LPS_Enter / LPS_Leave
  WorkItem,     \* the rpwmtimeoutwi work item
  NoOne,        \* nobody holds pwrctrl->lock
  MaxJobs,      \* bound: commands or transmit buffers waiting, per thread
  MaxSema,      \* bound: count of a thread's semaphore
  MaxTimeouts,  \* bound: cpwm pollings that run into LPS_RPWM_WAIT_MS
  LevelIoctl,   \* whether "iwpriv pm_set lps_level=" may be used
  MayStop       \* whether the driver may be stopped or the card removed

(***************************************************************************)
(* The two threads that register as alive: alives bits CMD_ALIVE and       *)
(* XMIT_ALIVE.                                                             *)
(***************************************************************************)
Tasks == {"cmd", "xmit"}

Procs == Tasks \cup Ctrls \cup {WorkItem}

ASSUME ProcsAssumption ==
  /\ WorkItem \notin Tasks \cup Ctrls
  /\ NoOne \notin Tasks \cup Ctrls \cup {WorkItem}
  /\ Ctrls \cap Tasks = {}

ASSUME BoundsAssumption ==
  /\ MaxJobs \in Nat /\ MaxSema \in Nat /\ MaxTimeouts \in Nat
  /\ LevelIoctl \in BOOLEAN /\ MayStop \in BOOLEAN

(***************************************************************************)
(* Power states: PS_STATE_S0 (32 kHz clock), S2 and S4 (awake).  The value *)
(* 0 is what rpwm holds before the first request.                          *)
(***************************************************************************)
S0 == 1
S2 == 2
S4 == 12
Levels == {0, S0, S2, S4}

VARIABLES
  stopped,     \* rtw_is_drv_stopped
  removed,     \* rtw_is_surprise_removed
  lps_level,   \* "NORMAL" or "LCLK"
  pwr_mode,    \* "ACTIVE" or "PS"
  inPS,        \* bFwCurrentInPSMode
  rpwm,        \* level last requested
  cpwm,        \* level the driver believes the firmware is at
  alives,      \* registered threads
  lock,        \* holder of pwrctrl->lock
  resume,      \* where the holder continues once its polling ends
  cpwm_orig,   \* HCPWM toggle read before the request was written
  timer,       \* pwr_rpwm_timer armed
  wiQueued,    \* rpwmtimeoutwi queued
  pc,          \* where each context is
  jobs,        \* commands / transmit buffers waiting, per thread
  sema,        \* cmd_queue_sema, xmit_sema
  timeouts,    \* polling timeouts so far (only the bound reads it)
  hrpwm,       \* HRPWM register: the clock bit and the ack bit
  fwPend,      \* the firmware has not read HRPWM since it was written
  fwClk,       \* the firmware's clock: "40M" or "32K"
  hcpwm        \* HCPWM toggle bit

drvVars == <<stopped, removed>>
lpsVars == <<pwr_mode, inPS>>
hskVars == <<rpwm, cpwm, lock, resume, cpwm_orig, hrpwm, fwPend>>
thrVars == <<jobs, sema>>
wiVars  == <<timer, wiQueued>>
vars == <<stopped, removed, lps_level, pwr_mode, inPS, rpwm, cpwm, alives,
          lock, resume, cpwm_orig, timer, wiQueued, pc, jobs, sema, timeouts,
          hrpwm, fwPend, fwClk, hcpwm>>

JobKinds == {"io", "no_io"}
Labels == {"idle", "wait", "next", "unreg", "recheck", "run", "quit", "exit",
           "enter", "leave", "h2c", "read", "int", "retry", "poll"}

TypeOK ==
  /\ stopped \in BOOLEAN /\ removed \in BOOLEAN
  /\ lps_level \in {"NORMAL", "LCLK"}
  /\ pwr_mode \in {"ACTIVE", "PS"} /\ inPS \in BOOLEAN
  /\ rpwm \in Levels /\ cpwm \in Levels
  /\ alives \in SUBSET Tasks
  /\ lock \in Procs \cup {NoOne}
  /\ resume \in Labels
  /\ cpwm_orig \in BOOLEAN
  /\ timer \in BOOLEAN /\ wiQueued \in BOOLEAN
  /\ pc \in [Procs -> Labels]
  /\ jobs \in [Tasks -> Seq(JobKinds)]
  /\ sema \in [Tasks -> Nat]
  /\ timeouts \in Nat
  /\ hrpwm \in [k32 : BOOLEAN, ack : BOOLEAN]
  /\ fwPend \in BOOLEAN /\ fwClk \in {"40M", "32K"} /\ hcpwm \in BOOLEAN

(***************************************************************************)
(* rtw_init_pwrctrl_priv, with both threads waiting on their semaphores.   *)
(***************************************************************************)
Init ==
  /\ stopped = FALSE /\ removed = FALSE
  /\ lps_level = "LCLK"
  /\ pwr_mode = "ACTIVE" /\ inPS = FALSE
  /\ rpwm = 0 /\ cpwm = S4
  /\ alives = {}
  /\ lock = NoOne /\ resume = "idle" /\ cpwm_orig = FALSE
  /\ timer = FALSE /\ wiQueued = FALSE
  /\ pc = [p \in Procs |-> IF p \in Tasks THEN "wait" ELSE "idle"]
  /\ jobs = [t \in Tasks |-> <<>>]
  /\ sema = [t \in Tasks |-> 0]
  /\ timeouts = 0
  /\ hrpwm = [k32 |-> FALSE, ack |-> FALSE]
  /\ fwPend = FALSE /\ fwClk = "40M" /\ hcpwm = FALSE

CannotRun == removed \/ stopped

At(p, label) == pc[p] = label
Goto(p, label) == pc' = [pc EXCEPT ![p] = label]

Up(t) == IF sema[t] < MaxSema THEN sema[t] + 1 ELSE sema[t]

(***************************************************************************)
(* Leaving rtw_set_rpwm: the caller goes on at `then', and gives the lock  *)
(* back unless it still has H2C work to do under it.                       *)
(***************************************************************************)
LockAfter(p, then) == IF then = "h2c" THEN p ELSE NoOne

Return(p, then) ==
  /\ Goto(p, then)
  /\ lock' = LockAfter(p, then)
  /\ UNCHANGED <<resume, cpwm_orig>>

(***************************************************************************)
(* SetHwReg8723BS(HW_VAR_SET_RPWM): the register takes the request's clock *)
(* bit (BIT0, set by S0 only) and its ack bit.  The toggle bit marks every *)
(* write as new, which is what fwPend says.                                *)
(***************************************************************************)
HrpwmWord(lv, ack) == [k32 |-> lv % 2 = 1, ack |-> ack]

NeedAck(lv) == cpwm < S2 /\ lv >= S2

(***************************************************************************)
(* rtw_set_rpwm(pslv), called with the lock held.  `force' is              *)
(* brpwmtimeout.                                                           *)
(***************************************************************************)
RpwmUnneeded(lv, force) ==
  ~force /\ (rpwm = lv \/ (rpwm >= S2 /\ lv >= S2) \/ lps_level = "NORMAL")

RpwmRefused(lv) == stopped /\ lv < S2

rtw_set_rpwm(p, lv, force, then) ==
  \/ /\ RpwmUnneeded(lv, force) \/ (~removed /\ RpwmRefused(lv))
     /\ UNCHANGED <<rpwm, cpwm, hrpwm, fwPend>>
     /\ Return(p, then)
  \/ /\ ~RpwmUnneeded(lv, force) /\ removed
     /\ cpwm' = S4
     /\ UNCHANGED <<rpwm, hrpwm, fwPend>>
     /\ Return(p, then)
  \/ /\ ~RpwmUnneeded(lv, force) /\ ~removed /\ ~RpwmRefused(lv)
     /\ rpwm' = lv
     /\ hrpwm' = HrpwmWord(lv, NeedAck(lv))
     /\ fwPend' = TRUE
     /\ \/ /\ NeedAck(lv)
           /\ Goto(p, "poll")
           /\ lock' = p /\ resume' = then /\ cpwm_orig' = hcpwm
           /\ UNCHANGED cpwm
        \/ /\ ~NeedAck(lv)
           /\ cpwm' = lv
           /\ Return(p, then)

(***************************************************************************)
(* A critical section that makes no request.                               *)
(***************************************************************************)
NoRequest(p, then) ==
  /\ UNCHANGED <<rpwm, cpwm, hrpwm, fwPend>>
  /\ Return(p, then)

(***************************************************************************)
(* rtw_cpwm_polling: the holder of the lock reads HCPWM every millisecond  *)
(* until its toggle differs from cpwm_orig, or gives up after              *)
(* LPS_RPWM_WAIT_MS and arms the timer that will retry the request.        *)
(***************************************************************************)
PollEnd(p) ==
  /\ Goto(p, resume)
  /\ lock' = LockAfter(p, resume)
  /\ resume' = "idle" /\ cpwm_orig' = FALSE

\* Deliberate fault: the polling succeeds on any read.
Bug_PollIgnoresToggle(p) ==
  /\ At(p, "poll")
  /\ cpwm' = S4
  /\ PollEnd(p)
  /\ UNCHANGED <<drvVars, lps_level, lpsVars, rpwm, alives, wiVars, thrVars,
                 timeouts, hrpwm, fwPend, fwClk, hcpwm>>

PollOK(p) ==
  /\ At(p, "poll")
  /\ hcpwm # cpwm_orig
  /\ cpwm' = S4
  /\ PollEnd(p)
  /\ UNCHANGED <<drvVars, lps_level, lpsVars, rpwm, alives, wiVars, thrVars,
                 timeouts, hrpwm, fwPend, fwClk, hcpwm>>

\* Deliberate fault: the timeout arms no timer.
Bug_NoRetryTimer(p) ==
  /\ At(p, "poll")
  /\ hcpwm = cpwm_orig
  /\ timeouts < MaxTimeouts \/ removed
  /\ UNCHANGED timer
  /\ timeouts' = IF removed THEN timeouts ELSE timeouts + 1
  /\ PollEnd(p)
  /\ UNCHANGED <<drvVars, lps_level, lpsVars, rpwm, cpwm, alives, wiQueued,
                 thrVars, hrpwm, fwPend, fwClk, hcpwm>>

PollTimeout(p) ==
  /\ At(p, "poll")
  /\ hcpwm = cpwm_orig
  /\ timeouts < MaxTimeouts \/ removed
  /\ timer' = TRUE
  /\ timeouts' = IF removed THEN timeouts ELSE timeouts + 1
  /\ PollEnd(p)
  /\ UNCHANGED <<drvVars, lps_level, lpsVars, rpwm, cpwm, alives, wiQueued,
                 thrVars, hrpwm, fwPend, fwClk, hcpwm>>

(***************************************************************************)
(* The firmware (external): it reads the latest request, switches its      *)
(* clock and, if asked to, acknowledges by flipping HCPWM's toggle.        *)
(***************************************************************************)
FwHandleRpwm ==
  /\ fwPend /\ ~removed
  /\ fwPend' = FALSE
  /\ fwClk' = IF hrpwm.k32 THEN "32K" ELSE "40M"
  /\ hcpwm' = IF hrpwm.ack THEN ~hcpwm ELSE hcpwm
  /\ UNCHANGED <<drvVars, lps_level, lpsVars, rpwm, cpwm, alives, lock,
                 resume, cpwm_orig, wiVars, pc, thrVars, timeouts, hrpwm>>

(***************************************************************************)
(* A command or a transmit buffer is queued and the thread's semaphore is  *)
(* upped (rtw_enqueue_cmd, enqueue_pending_xmitbuf).  rtw_cmd_filter       *)
(* refuses commands once the command thread is gone.                       *)
(***************************************************************************)
Enqueue(t, kind) ==
  /\ t = "cmd" => ~At("cmd", "exit")
  /\ Len(jobs[t]) < MaxJobs /\ sema[t] < MaxSema
  /\ t = "xmit" => kind = "io"
  /\ jobs' = [jobs EXCEPT ![t] = Append(@, kind)]
  /\ sema' = [sema EXCEPT ![t] = @ + 1]
  /\ UNCHANGED <<drvVars, lps_level, lpsVars, hskVars, alives, wiVars, pc,
                 timeouts, fwClk, hcpwm>>

(***************************************************************************)
(* The top of both thread loops: down the semaphore, leave when the driver *)
(* cannot run, go back to wait when the queue is empty.  The command       *)
(* thread unregisters on its way out, the transmit thread does not.        *)
(***************************************************************************)
Wake(t) ==
  /\ At(t, "wait") /\ sema[t] > 0
  /\ sema' = [sema EXCEPT ![t] = @ - 1]
  /\ Goto(t, IF CannotRun THEN (IF t = "cmd" THEN "quit" ELSE "exit")
             ELSE IF jobs[t] = <<>> THEN "wait" ELSE "next")
  /\ UNCHANGED <<drvVars, lps_level, lpsVars, hskVars, alives, wiVars, jobs,
                 timeouts, fwClk, hcpwm>>

(***************************************************************************)
(* rtw_register_tx_alive, rtw_register_cmd_alive: the critical section.    *)
(* With DETECT_CPWM_BY_POLLING a refused caller reads cpwm once more after *)
(* it released the lock ("recheck").                                       *)
(***************************************************************************)
register_alive(t) ==
  /\ lock = NoOne
  /\ alives' = alives \cup {t}
  /\ \/ /\ inPS /\ cpwm < S2 /\ rpwm < S2
        /\ rtw_set_rpwm(t, S2, FALSE, "recheck")
     \/ /\ inPS /\ cpwm < S2 /\ rpwm >= S2
        /\ NoRequest(t, "recheck")
     \/ /\ ~inPS \/ cpwm >= S2
        /\ NoRequest(t, "run")

\* Deliberate fault: the last one out is not looked for.
Bug_UnregisterIgnoresOthers(t, pslv, then) ==
  /\ lock = NoOne
  /\ alives' = alives \ {t}
  /\ \/ /\ pwr_mode # "ACTIVE" /\ inPS /\ cpwm > pslv
        /\ rtw_set_rpwm(t, pslv, FALSE, then)
     \/ /\ ~(/\ pwr_mode # "ACTIVE" /\ inPS /\ cpwm > pslv)
        /\ NoRequest(t, then)

(***************************************************************************)
(* rtw_unregister_tx_alive, rtw_unregister_cmd_alive.  pslv is S2 while BT *)
(* coexistence (or P2P power save) wants the clock kept, S0 otherwise.     *)
(***************************************************************************)
unregister_alive(t, pslv, then) ==
  /\ lock = NoOne
  /\ alives' = alives \ {t}
  /\ \/ /\ pwr_mode # "ACTIVE" /\ inPS /\ cpwm > pslv
        /\ pslv >= S2 \/ alives' = {}
        /\ rtw_set_rpwm(t, pslv, FALSE, then)
     \/ /\ ~(/\ pwr_mode # "ACTIVE" /\ inPS /\ cpwm > pslv
             /\ pslv >= S2 \/ alives' = {})
        /\ NoRequest(t, then)

(***************************************************************************)
(* The command thread at _next: stop, unregister on an empty queue,        *)
(* unregister for a command that does no I/O, register for one that does.  *)
(* A refused command goes back to the head of the queue, so jobs keeps it. *)
(***************************************************************************)
CmdStop ==
  /\ At("cmd", "next") /\ CannotRun
  /\ Goto("cmd", "quit")
  /\ UNCHANGED <<drvVars, lps_level, lpsVars, hskVars, alives, wiVars,
                 thrVars, timeouts, fwClk, hcpwm>>

CmdEmpty(pslv) ==
  /\ At("cmd", "next") /\ ~CannotRun /\ jobs["cmd"] = <<>>
  /\ unregister_alive("cmd", pslv, "wait")
  /\ UNCHANGED <<drvVars, lps_level, lpsVars, wiVars, thrVars, timeouts,
                 fwClk, hcpwm>>

CmdNoIo(pslv) ==
  /\ At("cmd", "next") /\ ~CannotRun
  /\ jobs["cmd"] # <<>> /\ Head(jobs["cmd"]) = "no_io"
  /\ unregister_alive("cmd", pslv, "run")
  /\ UNCHANGED <<drvVars, lps_level, lpsVars, wiVars, thrVars, timeouts,
                 fwClk, hcpwm>>

CmdRegister ==
  /\ At("cmd", "next") /\ ~CannotRun
  /\ jobs["cmd"] # <<>> /\ Head(jobs["cmd"]) = "io"
  /\ register_alive("cmd")
  /\ UNCHANGED <<drvVars, lps_level, lpsVars, wiVars, thrVars, timeouts,
                 fwClk, hcpwm>>

XmitRegister ==
  /\ At("xmit", "next")
  /\ register_alive("xmit")
  /\ UNCHANGED <<drvVars, lps_level, lpsVars, wiVars, thrVars, timeouts,
                 fwClk, hcpwm>>

\* Deliberate fault: cpwm is not read again after the polling.
Bug_NoRecheck(t) ==
  /\ At(t, "recheck")
  /\ Goto(t, "wait")
  /\ UNCHANGED <<drvVars, lps_level, lpsVars, hskVars, alives, wiVars,
                 thrVars, timeouts, fwClk, hcpwm>>

Recheck(t) ==
  /\ At(t, "recheck")
  /\ Goto(t, IF cpwm >= S2 THEN "run" ELSE "wait")
  /\ UNCHANGED <<drvVars, lps_level, lpsVars, hskVars, alives, wiVars,
                 thrVars, timeouts, fwClk, hcpwm>>

(***************************************************************************)
(* The I/O itself: the command handler runs, or the head transmit buffer   *)
(* is written.  The transmit thread stays until its queue is empty, the    *)
(* command thread goes back to _next.                                      *)
(***************************************************************************)
RunJob(t) ==
  /\ At(t, "run") /\ jobs[t] # <<>>
  /\ jobs' = [jobs EXCEPT ![t] = Tail(@)]
  /\ Goto(t, IF t = "cmd" THEN "next"
             ELSE IF Len(jobs[t]) = 1 THEN "unreg" ELSE "run")
  /\ UNCHANGED <<drvVars, lps_level, lpsVars, hskVars, alives, wiVars, sema,
                 timeouts, fwClk, hcpwm>>

XmitDone(pslv) ==
  /\ At("xmit", "unreg")
  /\ unregister_alive("xmit", pslv, "wait")
  /\ UNCHANGED <<drvVars, lps_level, lpsVars, wiVars, thrVars, timeouts,
                 fwClk, hcpwm>>

CmdExit(pslv) ==
  /\ At("cmd", "quit")
  /\ unregister_alive("cmd", pslv, "exit")
  /\ UNCHANGED <<drvVars, lps_level, lpsVars, wiVars, thrVars, timeouts,
                 fwClk, hcpwm>>

(***************************************************************************)
(* LPS_Enter and LPS_Leave test pwr_mode before they take the lock.        *)
(* Whether the station is idle, associated and allowed to sleep            *)
(* (PS_RDY_CHECK, LpsIdleCount, BT coexistence) is an input: a context     *)
(* that is not allowed simply does not begin.  rtw_btcoex_LPS_Enter makes  *)
(* no test at all and may enter LPS a second time; rtw_btcoex_LPS_Leave    *)
(* tests what LPS_Leave does.                                              *)
(***************************************************************************)
LPS_Enter(c) ==
  /\ At(c, "idle") /\ pwr_mode = "ACTIVE"
  /\ Goto(c, "enter")
  /\ UNCHANGED <<drvVars, lps_level, lpsVars, hskVars, alives, wiVars,
                 thrVars, timeouts, fwClk, hcpwm>>

rtw_btcoex_LPS_Enter(c) ==
  /\ At(c, "idle")
  /\ Goto(c, "enter")
  /\ UNCHANGED <<drvVars, lps_level, lpsVars, hskVars, alives, wiVars,
                 thrVars, timeouts, fwClk, hcpwm>>

LPS_Leave(c) ==
  /\ At(c, "idle") /\ pwr_mode # "ACTIVE"
  /\ Goto(c, "leave")
  /\ UNCHANGED <<drvVars, lps_level, lpsVars, hskVars, alives, wiVars,
                 thrVars, timeouts, fwClk, hcpwm>>

(***************************************************************************)
(* rtw_set_ps_mode may return without doing anything: the mode is already  *)
(* the wanted one, the station is not ready (PS_RDY_CHECK again), or BT    *)
(* coexistence has taken control of LPS.                                   *)
(***************************************************************************)
set_ps_mode_return(c) ==
  /\ At(c, "enter") \/ At(c, "leave")
  /\ Goto(c, "idle")
  /\ UNCHANGED <<drvVars, lps_level, lpsVars, hskVars, alives, wiVars,
                 thrVars, timeouts, fwClk, hcpwm>>

\* Deliberate fault: alives is not looked at.
Bug_EnterIgnoresAlives(c, btClk) ==
  /\ At(c, "enter") /\ lock = NoOne
  /\ inPS' = TRUE /\ pwr_mode' = "PS"
  /\ rtw_set_rpwm(c, IF ~btClk THEN S0 ELSE S2, FALSE, "idle")
  /\ UNCHANGED <<drvVars, lps_level, alives, wiVars, thrVars, timeouts,
                 fwClk, hcpwm>>

(***************************************************************************)
(* rtw_set_ps_mode towards a power save mode: the level is S2 while a      *)
(* thread is alive or BT wants the clock (btClk), S0 otherwise.            *)
(***************************************************************************)
set_ps_mode_enter(c, btClk) ==
  /\ At(c, "enter") /\ lock = NoOne
  /\ inPS' = TRUE /\ pwr_mode' = "PS"
  /\ rtw_set_rpwm(c, IF alives = {} /\ ~btClk THEN S0 ELSE S2, FALSE, "idle")
  /\ UNCHANGED <<drvVars, lps_level, alives, wiVars, thrVars, timeouts,
                 fwClk, hcpwm>>

(***************************************************************************)
(* rtw_set_ps_mode towards PS_MODE_ACTIVE: the request first, then, still  *)
(* under the lock and whatever the polling returned, the H2C command and   *)
(* bFwCurrentInPSMode.                                                     *)
(***************************************************************************)
set_ps_mode_leave(c) ==
  /\ At(c, "leave") /\ lock = NoOne
  /\ pwr_mode' = "ACTIVE"
  /\ rtw_set_rpwm(c, S4, FALSE, "h2c")
  /\ UNCHANGED <<drvVars, lps_level, inPS, alives, wiVars, thrVars, timeouts,
                 fwClk, hcpwm>>

set_ps_mode_h2c(c) ==
  /\ At(c, "h2c")
  /\ inPS' = FALSE
  /\ lock' = NoOne
  /\ Goto(c, "idle")
  /\ UNCHANGED <<drvVars, lps_level, pwr_mode, rpwm, cpwm, alives, resume,
                 cpwm_orig, wiVars, thrVars, timeouts, hrpwm, fwPend, fwClk,
                 hcpwm>>

(***************************************************************************)
(* pwr_rpwm_timeout_handler reads rpwm and cpwm without the lock and       *)
(* queues the work item unless the handshake completed meanwhile.          *)
(***************************************************************************)
CpwmSettled == rpwm = cpwm \/ cpwm >= S2

pwr_rpwm_timeout_handler ==
  /\ timer
  /\ timer' = FALSE
  /\ wiQueued' = (wiQueued \/ (~CannotRun /\ ~CpwmSettled))
  /\ UNCHANGED <<drvVars, lps_level, lpsVars, hskVars, alives, pc, thrVars,
                 timeouts, fwClk, hcpwm>>

(***************************************************************************)
(* rpwmtimeout_workitem_callback: test under the lock, unlock, read REG_CR *)
(* (0xEA while the firmware is in 32 kHz), then either report the wake-up  *)
(* through cpwm_int_hdl or lock, test again and repeat the request.        *)
(***************************************************************************)
WiStart ==
  /\ At(WorkItem, "idle") /\ wiQueued
  /\ CannotRun \/ lock = NoOne
  /\ wiQueued' = FALSE
  /\ Goto(WorkItem, IF CannotRun \/ CpwmSettled THEN "idle" ELSE "read")
  /\ UNCHANGED <<drvVars, lps_level, lpsVars, hskVars, alives, timer,
                 thrVars, timeouts, fwClk, hcpwm>>

WiReadCR ==
  /\ At(WorkItem, "read")
  /\ Goto(WorkItem, IF fwClk = "32K" THEN "retry" ELSE "int")
  /\ UNCHANGED <<drvVars, lps_level, lpsVars, hskVars, alives, wiVars,
                 thrVars, timeouts, fwClk, hcpwm>>

cpwm_int_hdl ==
  /\ At(WorkItem, "int")
  /\ CannotRun \/ lock = NoOne
  /\ Goto(WorkItem, "idle")
  /\ \/ /\ CannotRun \/ rpwm < S2
        /\ UNCHANGED <<cpwm, sema>>
     \/ /\ ~CannotRun /\ rpwm >= S2
        /\ cpwm' = S2
        /\ sema' = [t \in Tasks |-> IF t \in alives THEN Up(t) ELSE sema[t]]
  /\ UNCHANGED <<drvVars, lps_level, lpsVars, rpwm, alives, lock, resume,
                 cpwm_orig, wiVars, jobs, timeouts, hrpwm, fwPend, fwClk,
                 hcpwm>>

WiRetry ==
  /\ At(WorkItem, "retry") /\ lock = NoOne
  /\ \/ CpwmSettled /\ NoRequest(WorkItem, "idle")
     \/ ~CpwmSettled /\ rtw_set_rpwm(WorkItem, rpwm, TRUE, "idle")
  /\ UNCHANGED <<drvVars, lps_level, lpsVars, alives, wiVars, thrVars,
                 timeouts, fwClk, hcpwm>>

(***************************************************************************)
(* rtw_pm_set_lps_level: the ioctl writes lps_level and nothing else.      *)
(***************************************************************************)
rtw_pm_set_lps_level(level) ==
  /\ LevelIoctl
  /\ lps_level' = level
  /\ UNCHANGED <<drvVars, lpsVars, hskVars, alives, wiVars, pc, thrVars,
                 timeouts, fwClk, hcpwm>>

(***************************************************************************)
(* rtw_dev_unload stops the driver and ups both semaphores so that the     *)
(* threads see it; the card may also vanish at any time.                   *)
(***************************************************************************)
StopDriver ==
  /\ MayStop /\ ~stopped
  /\ stopped' = TRUE
  /\ sema' = [t \in Tasks |-> Up(t)]
  /\ UNCHANGED <<removed, lps_level, lpsVars, hskVars, alives, wiVars, pc,
                 jobs, timeouts, fwClk, hcpwm>>

SurpriseRemove ==
  /\ MayStop /\ ~removed
  /\ removed' = TRUE
  /\ UNCHANGED <<stopped, lps_level, lpsVars, hskVars, alives, wiVars, pc,
                 thrVars, timeouts, fwClk, hcpwm>>

ThreadStep(t) ==
  Wake(t) \/ Recheck(t) \/ RunJob(t)

CmdStep ==
  \/ CmdStop \/ CmdRegister
  \/ \E pslv \in {S0, S2} : CmdEmpty(pslv) \/ CmdNoIo(pslv) \/ CmdExit(pslv)

XmitStep ==
  \/ XmitRegister
  \/ \E pslv \in {S0, S2} : XmitDone(pslv)

LpsStep(c) ==
  \/ LPS_Enter(c) \/ LPS_Leave(c) \/ rtw_btcoex_LPS_Enter(c)
  \/ \E btClk \in BOOLEAN : set_ps_mode_enter(c, btClk)
  \/ set_ps_mode_return(c) \/ set_ps_mode_leave(c) \/ set_ps_mode_h2c(c)

WiStep == WiStart \/ WiReadCR \/ cpwm_int_hdl \/ WiRetry

EnvStep ==
  \/ \E t \in Tasks, kind \in JobKinds : Enqueue(t, kind)
  \/ \E level \in {"NORMAL", "LCLK"} : rtw_pm_set_lps_level(level)
  \/ StopDriver \/ SurpriseRemove

Next ==
  \/ \E t \in Tasks : ThreadStep(t)
  \/ CmdStep \/ XmitStep
  \/ \E c \in Ctrls : LpsStep(c)
  \/ \E p \in Procs : PollOK(p) \/ PollTimeout(p)
  \/ pwr_rpwm_timeout_handler \/ WiStep
  \/ FwHandleRpwm
  \/ EnvStep

Spec == Init /\ [][Next]_vars

(***************************************************************************)
(* Fairness.  Threads, timers and work items are scheduled; the firmware   *)
(* reads its registers; the kernel semaphore behind pwrctrl->lock serves   *)
(* its waiters in order, so a context that keeps asking for it gets it     *)
(* (strong fairness on the steps that take it).                            *)
(***************************************************************************)
LpsUnderWay(c) ==
  \/ \E btClk \in BOOLEAN : set_ps_mode_enter(c, btClk)
  \/ set_ps_mode_leave(c) \/ set_ps_mode_return(c)

Fairness ==
  /\ \A t \in Tasks : WF_vars(ThreadStep(t))
  /\ SF_vars(CmdStep) /\ SF_vars(XmitStep) /\ SF_vars(WiStep)
  /\ \A c \in Ctrls : WF_vars(set_ps_mode_h2c(c)) /\ SF_vars(LpsUnderWay(c))
  /\ \A p \in Procs : WF_vars(PollOK(p))
  /\ WF_vars(FwHandleRpwm) /\ WF_vars(pwr_rpwm_timeout_handler)

FairSpec == Spec /\ Fairness

------------------------------------------------------------------------------
DoingIO(t) == At(t, "run") /\ jobs[t] # <<>> /\ Head(jobs[t]) = "io"

(***************************************************************************)
(* Safety: as long as a thread is registered in alives, or the driver      *)
(* believes the firmware is out of power save, the last word the driver    *)
(* wrote to HRPWM does not ask for the 32 kHz clock.  Enter, leave,        *)
(* register, unregister and the retry of a timed out request all write it, *)
(* each deciding on a different part of the state (rtw_set_ps_mode,        *)
(* rtw_unregister_cmd_alive, rpwmtimeout_workitem_callback).               *)
(***************************************************************************)
AwakeWhileAlive ==
  ~removed => ((alives # {} \/ ~inPS) => ~hrpwm.k32)

(***************************************************************************)
(* Safety: a thread that does I/O is registered, so that nobody else may   *)
(* lower the clock under it (rtw_cmd_thread, rtl8723bs_xmit_buf_handler).  *)
(***************************************************************************)
IOIsRegistered ==
  \A t \in Tasks : DoingIO(t) => t \in alives

(***************************************************************************)
(* Safety: a thread that does I/O finds the firmware on its fast clock:    *)
(* what "_SUCCESS hardware is ready for I/O" promises                      *)
(* (rtw_register_task_alive and its two copies).                           *)
(***************************************************************************)
IOFindsFwAwake ==
  \A t \in Tasks : DoingIO(t) /\ ~removed => fwClk = "40M"

(***************************************************************************)
(* Action property: while a thread is registered the firmware never        *)
(* changes to the 32 kHz clock, although it reads the request register     *)
(* long after the driver wrote it (FwHandleRpwm reads the latest word).    *)
(***************************************************************************)
NoSleepUnderThreads ==
  [][alives # {} /\ alives' # {} /\ fwClk = "40M" => fwClk' = "40M"]_vars

(***************************************************************************)
(* Liveness: a request for the fast clock made for a registered thread is  *)
(* acknowledged in the end, however often the polling times out first: the *)
(* timer, the work item and the repeated request see to it, also when the  *)
(* lps_level ioctl comes in between.                                       *)
(***************************************************************************)
HandshakeCompletes ==
  (alives # {} /\ inPS /\ rpwm >= S2 /\ cpwm < S2)
    ~> (alives = {} \/ ~inPS \/ cpwm >= S2 \/ CannotRun)

(***************************************************************************)
(* Liveness: a queued command or transmit buffer is served in the end      *)
(* (rtl8723bs_xmit_buf_handler: "Transmit xmitbuf to hardware tx fifo").   *)
(***************************************************************************)
JobsServed ==
  \A t \in Tasks : jobs[t] # <<>> ~> (At(t, "run") \/ CannotRun)

------------------------------------------------------------------------------
(***************************************************************************)
(* The inductive invariant behind AwakeWhileAlive and IOIsRegistered, for  *)
(* a driver whose lps_level is left alone.                                 *)
(*                                                                         *)
(* LockInv: the lock is held exactly by the context that polls or still    *)
(* owes its H2C command, and a polling thread goes on to "recheck".        *)
(***************************************************************************)
LockInv ==
  /\ \A p \in Procs : pc[p] \in {"poll", "h2c"} <=> lock = p
  /\ \A t \in Tasks : pc[t] = "poll" => resume = "recheck"
  /\ resume # "poll"

(***************************************************************************)
(* RequestInv: the clock bit in HRPWM is the one rpwm stands for; 32 kHz   *)
(* is requested only in power save with nobody registered and no handshake *)
(* under way, and the driver then knows it (cpwm).                         *)
(***************************************************************************)
RequestInv ==
  ~removed =>
    /\ hrpwm.k32 = (rpwm = S0)
    /\ rpwm = S0 => inPS /\ alives = {} /\ cpwm = S0 /\ lock = NoOne

(***************************************************************************)
(* ThreadInv: a thread that was refused, waits for an acknowledgement or   *)
(* does I/O is registered and has the job it asked for.                    *)
(***************************************************************************)
ThreadInv ==
  \A t \in Tasks :
    /\ pc[t] \in {"recheck", "poll"} => t \in alives /\ jobs[t] # <<>>
    /\ pc[t] = "run" => /\ jobs[t] # <<>>
                        /\ t = "xmit" \/ Head(jobs[t]) = "io" => t \in alives
    /\ t = "xmit" /\ pc[t] = "next" => jobs[t] # <<>>

IInv ==
  TypeOK /\ lps_level = "LCLK" /\ LockInv /\ RequestInv /\ ThreadInv
==============================================================================
