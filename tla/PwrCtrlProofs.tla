---------------------------- MODULE PwrCtrlProofs ----------------------------
(***************************************************************************)
(* Proofs about PwrCtrl, for every set of LPS contexts and every bound.    *)
(***************************************************************************)
EXTENDS PwrCtrl, SequenceTheorems, TLAPS

(***************************************************************************)
(* What a call of rtw_set_rpwm leaves behind, as far as types go.          *)
(***************************************************************************)
LEMMA SetRpwmType ==
  ASSUME TypeOK, NEW p \in Procs, NEW lv \in Levels, NEW force \in BOOLEAN,
         NEW then \in Labels, rtw_set_rpwm(p, lv, force, then)
  PROVE  /\ rpwm' \in Levels /\ cpwm' \in Levels
         /\ lock' \in Procs \cup {NoOne} /\ resume' \in Labels
         /\ cpwm_orig' \in BOOLEAN /\ pc' \in [Procs -> Labels]
         /\ hrpwm' \in [k32 : BOOLEAN, ack : BOOLEAN] /\ fwPend' \in BOOLEAN
<1>1. "poll" \in Labels /\ S4 \in Levels
  BY DEF Labels, Levels
<1>2. \A l : LockAfter(p, l) \in Procs \cup {NoOne}
  BY DEF LockAfter
<1>3. \A l \in Labels : [pc EXCEPT ![p] = l] \in [Procs -> Labels]
  BY DEF TypeOK
<1>4. HrpwmWord(lv, NeedAck(lv)) \in [k32 : BOOLEAN, ack : BOOLEAN]
  BY DEF HrpwmWord, NeedAck
<1> QED
  BY <1>1, <1>2, <1>3, <1>4 DEF TypeOK, rtw_set_rpwm, Return, Goto

\* A critical section without a request keeps the types.
LEMMA NoRequestType ==
  ASSUME TypeOK, NEW p \in Procs, NEW then \in Labels, NoRequest(p, then)
  PROVE  /\ rpwm' \in Levels /\ cpwm' \in Levels
         /\ lock' \in Procs \cup {NoOne} /\ resume' \in Labels
         /\ cpwm_orig' \in BOOLEAN /\ pc' \in [Procs -> Labels]
         /\ hrpwm' \in [k32 : BOOLEAN, ack : BOOLEAN] /\ fwPend' \in BOOLEAN
  BY DEF TypeOK, NoRequest, Return, Goto, LockAfter

\* rtw_register_tx_alive and rtw_register_cmd_alive keep the types.
LEMMA RegisterType ==
  ASSUME TypeOK, NEW t \in Tasks, register_alive(t)
  PROVE  /\ rpwm' \in Levels /\ cpwm' \in Levels
         /\ lock' \in Procs \cup {NoOne} /\ resume' \in Labels
         /\ cpwm_orig' \in BOOLEAN /\ pc' \in [Procs -> Labels]
         /\ hrpwm' \in [k32 : BOOLEAN, ack : BOOLEAN] /\ fwPend' \in BOOLEAN
         /\ alives' \in SUBSET Tasks
<1>1. t \in Procs /\ S2 \in Levels /\ "recheck" \in Labels /\ "run" \in Labels
  BY DEF Procs, Levels, Labels
<1>2. alives' \in SUBSET Tasks
  BY DEF TypeOK, register_alive
<1>3. CASE rtw_set_rpwm(t, S2, FALSE, "recheck")
  BY <1>1, <1>2, <1>3, SetRpwmType
<1>4. CASE NoRequest(t, "recheck")
  BY <1>1, <1>2, <1>4, NoRequestType
<1>5. CASE NoRequest(t, "run")
  BY <1>1, <1>2, <1>5, NoRequestType
<1> QED
  BY <1>3, <1>4, <1>5 DEF register_alive

\* rtw_unregister_tx_alive and rtw_unregister_cmd_alive keep the types.
LEMMA UnregisterType ==
  ASSUME TypeOK, NEW t \in Tasks, NEW pslv \in {S0, S2}, NEW then \in Labels,
         unregister_alive(t, pslv, then)
  PROVE  /\ rpwm' \in Levels /\ cpwm' \in Levels
         /\ lock' \in Procs \cup {NoOne} /\ resume' \in Labels
         /\ cpwm_orig' \in BOOLEAN /\ pc' \in [Procs -> Labels]
         /\ hrpwm' \in [k32 : BOOLEAN, ack : BOOLEAN] /\ fwPend' \in BOOLEAN
         /\ alives' \in SUBSET Tasks
<1>1. t \in Procs /\ pslv \in Levels
  BY DEF Procs, Levels
<1>2. alives' \in SUBSET Tasks
  BY DEF TypeOK, unregister_alive
<1>3. CASE rtw_set_rpwm(t, pslv, FALSE, then)
  BY <1>1, <1>2, <1>3, SetRpwmType
<1>4. CASE NoRequest(t, then)
  BY <1>1, <1>2, <1>4, NoRequestType
<1> QED
  BY <1>3, <1>4 DEF unregister_alive

(***************************************************************************)
(* TypeOK is inductive.                                                    *)
(***************************************************************************)
LEMMA TypeNext == TypeOK /\ [Next]_vars => TypeOK'
<1> SUFFICES ASSUME TypeOK, [Next]_vars PROVE TypeOK'
  OBVIOUS
<1> USE DEF drvVars, lpsVars, hskVars, thrVars, wiVars
<1>l. /\ {"idle", "wait", "next", "unreg", "recheck", "run", "quit", "exit",
          "enter", "leave", "h2c", "read", "int", "retry"} \subseteq Labels
      /\ {S0, S2, S4} \subseteq Levels
      /\ Tasks \subseteq Procs /\ Ctrls \subseteq Procs /\ WorkItem \in Procs
      /\ "cmd" \in Tasks /\ "xmit" \in Tasks
  BY DEF Labels, Levels, Procs, Tasks
<1>1. ASSUME NEW t \in Tasks, Wake(t) PROVE TypeOK'
  <2>1. sema' \in [Tasks -> Nat]
    BY <1>1 DEF Wake, TypeOK
  <2>2. pc' \in [Procs -> Labels]
    BY <1>1, <1>l DEF Wake, Goto, TypeOK
  <2> QED
    BY <1>1, <2>1, <2>2 DEF Wake, TypeOK
<1>2. ASSUME NEW t \in Tasks, Recheck(t) PROVE TypeOK'
  <2>1. pc' \in [Procs -> Labels]
    BY <1>2, <1>l DEF Recheck, Goto, TypeOK
  <2> QED
    BY <1>2, <2>1 DEF Recheck, TypeOK
<1>3. ASSUME NEW t \in Tasks, RunJob(t) PROVE TypeOK'
  <2>1. pc' \in [Procs -> Labels]
    BY <1>3, <1>l DEF RunJob, Goto, TypeOK
  <2>2. Tail(jobs[t]) \in Seq(JobKinds)
    BY <1>3 DEF RunJob, TypeOK
  <2>3. jobs' \in [Tasks -> Seq(JobKinds)]
    BY <1>3, <2>2 DEF RunJob, TypeOK
  <2> QED
    BY <1>3, <2>1, <2>3 DEF RunJob, TypeOK

<1>4. ASSUME NEW pslv \in {S0, S2}, CmdEmpty(pslv) PROVE TypeOK'
  BY <1>4, <1>l, UnregisterType DEF CmdEmpty, TypeOK
<1>5. ASSUME NEW pslv \in {S0, S2}, CmdNoIo(pslv) PROVE TypeOK'
  BY <1>5, <1>l, UnregisterType DEF CmdNoIo, TypeOK
<1>6. ASSUME NEW pslv \in {S0, S2}, CmdExit(pslv) PROVE TypeOK'
  BY <1>6, <1>l, UnregisterType DEF CmdExit, TypeOK
<1>7. ASSUME NEW pslv \in {S0, S2}, XmitDone(pslv) PROVE TypeOK'
  BY <1>7, <1>l, UnregisterType DEF XmitDone, TypeOK
<1>8. ASSUME CmdRegister PROVE TypeOK'
  BY <1>8, <1>l, RegisterType DEF CmdRegister, TypeOK
<1>9. ASSUME XmitRegister PROVE TypeOK'
  BY <1>9, <1>l, RegisterType DEF XmitRegister, TypeOK
<1>10. ASSUME CmdStop PROVE TypeOK'
  <2>1. pc' \in [Procs -> Labels]
    BY <1>10, <1>l DEF CmdStop, Goto, TypeOK
  <2> QED
    BY <1>10, <2>1 DEF CmdStop, TypeOK
<1>11. ASSUME NEW c \in Ctrls, LPS_Enter(c) PROVE TypeOK'
  <2>1. pc' \in [Procs -> Labels]
    BY <1>11, <1>l DEF LPS_Enter, Goto, TypeOK
  <2> QED
    BY <1>11, <2>1 DEF LPS_Enter, TypeOK
<1>12. ASSUME NEW c \in Ctrls, rtw_btcoex_LPS_Enter(c) PROVE TypeOK'
  <2>1. pc' \in [Procs -> Labels]
    BY <1>12, <1>l DEF rtw_btcoex_LPS_Enter, Goto, TypeOK
  <2> QED
    BY <1>12, <2>1 DEF rtw_btcoex_LPS_Enter, TypeOK
<1>13. ASSUME NEW c \in Ctrls, LPS_Leave(c) PROVE TypeOK'
  <2>1. pc' \in [Procs -> Labels]
    BY <1>13, <1>l DEF LPS_Leave, Goto, TypeOK
  <2> QED
    BY <1>13, <2>1 DEF LPS_Leave, TypeOK
<1>14. ASSUME NEW c \in Ctrls, set_ps_mode_return(c) PROVE TypeOK'
  <2>1. pc' \in [Procs -> Labels]
    BY <1>14, <1>l DEF set_ps_mode_return, Goto, TypeOK
  <2> QED
    BY <1>14, <2>1 DEF set_ps_mode_return, TypeOK
<1>15. ASSUME NEW c \in Ctrls, set_ps_mode_h2c(c) PROVE TypeOK'
  <2>1. pc' \in [Procs -> Labels]
    BY <1>15, <1>l DEF set_ps_mode_h2c, Goto, TypeOK
  <2> QED
    BY <1>15, <2>1 DEF set_ps_mode_h2c, TypeOK
<1>16. ASSUME WiStart PROVE TypeOK'
  <2>1. pc' \in [Procs -> Labels]
    BY <1>16, <1>l DEF WiStart, Goto, TypeOK
  <2>2. /\ wiQueued' \in BOOLEAN
        /\ UNCHANGED <<drvVars, lps_level, lpsVars, hskVars, alives, timer,
                       thrVars, timeouts, fwClk, hcpwm>>
    BY <1>16 DEF WiStart
  <2> QED
    BY <2>1, <2>2 DEF TypeOK
<1>17. ASSUME WiReadCR PROVE TypeOK'
  <2>1. pc' \in [Procs -> Labels]
    BY <1>17, <1>l DEF WiReadCR, Goto, TypeOK
  <2> QED
    BY <1>17, <2>1 DEF WiReadCR, TypeOK
<1>18. ASSUME NEW c \in Ctrls, NEW btClk \in BOOLEAN, set_ps_mode_enter(c, btClk)
      PROVE  TypeOK'
  <2>1. PICK lv \in {S0, S2} : rtw_set_rpwm(c, lv, FALSE, "idle")
    BY <1>18 DEF set_ps_mode_enter
  <2> QED
    BY <1>18, <1>l, <2>1, SetRpwmType DEF set_ps_mode_enter, TypeOK
<1>19. ASSUME NEW c \in Ctrls, set_ps_mode_leave(c) PROVE TypeOK'
  BY <1>19, <1>l, SetRpwmType DEF set_ps_mode_leave, TypeOK
<1>20. ASSUME NEW p \in Procs, PollOK(p) PROVE TypeOK'
  <2>1. pc' \in [Procs -> Labels] /\ lock' \in Procs \cup {NoOne}
    BY <1>20 DEF PollOK, PollEnd, Goto, LockAfter, TypeOK
  <2> QED
    BY <1>20, <1>l, <2>1 DEF PollOK, PollEnd, TypeOK
<1>21. ASSUME NEW p \in Procs, PollTimeout(p) PROVE TypeOK'
  <2>1. pc' \in [Procs -> Labels] /\ lock' \in Procs \cup {NoOne}
    BY <1>21 DEF PollTimeout, PollEnd, Goto, LockAfter, TypeOK
  <2>2. timeouts' \in Nat
    BY <1>21 DEF PollTimeout, TypeOK
  <2> QED
    BY <1>21, <1>l, <2>1, <2>2 DEF PollTimeout, PollEnd, TypeOK
<1>22. CASE pwr_rpwm_timeout_handler
  <2>1. wiQueued' \in BOOLEAN
    BY <1>22 DEF pwr_rpwm_timeout_handler, CannotRun, CpwmSettled, TypeOK
  <2> QED
    BY <1>22, <2>1 DEF pwr_rpwm_timeout_handler, TypeOK
<1>23. CASE cpwm_int_hdl
  <2>1. pc' \in [Procs -> Labels]
    BY <1>23, <1>l DEF cpwm_int_hdl, Goto, TypeOK
  <2>2. sema' \in [Tasks -> Nat]
    BY <1>23 DEF cpwm_int_hdl, Up, TypeOK
  <2> QED
    BY <1>23, <1>l, <2>1, <2>2 DEF cpwm_int_hdl, TypeOK
<1>24. CASE WiRetry
  <2>1. CASE NoRequest(WorkItem, "idle")
    BY <1>24, <1>l, <2>1, NoRequestType DEF WiRetry, TypeOK
  <2>2. CASE rtw_set_rpwm(WorkItem, rpwm, TRUE, "idle")
    BY <1>24, <1>l, <2>2, SetRpwmType DEF WiRetry, TypeOK
  <2> QED
    BY <1>24, <2>1, <2>2 DEF WiRetry
<1>25. CASE FwHandleRpwm
  BY <1>25 DEF FwHandleRpwm, TypeOK
<1>26. ASSUME NEW t \in Tasks, NEW kind \in JobKinds, Enqueue(t, kind) PROVE TypeOK'
  <2>1. jobs' \in [Tasks -> Seq(JobKinds)]
    BY <1>26 DEF Enqueue, TypeOK
  <2>2. sema' \in [Tasks -> Nat]
    BY <1>26 DEF Enqueue, TypeOK
  <2> QED
    BY <1>26, <2>1, <2>2 DEF Enqueue, TypeOK
<1>27. ASSUME NEW level \in {"NORMAL", "LCLK"}, rtw_pm_set_lps_level(level)
      PROVE  TypeOK'
  BY <1>27 DEF rtw_pm_set_lps_level, TypeOK
<1>28. CASE StopDriver
  <2>1. sema' \in [Tasks -> Nat]
    BY <1>28 DEF StopDriver, Up, TypeOK
  <2> QED
    BY <1>28, <2>1 DEF StopDriver, TypeOK
<1>29. CASE SurpriseRemove
  BY <1>29 DEF SurpriseRemove, TypeOK
<1>30. CASE UNCHANGED vars
  BY <1>30 DEF vars, TypeOK
<1> QED
  BY <1>1, <1>2, <1>3, <1>4, <1>5, <1>6, <1>7, <1>8, <1>9, <1>10, <1>11,
     <1>12, <1>13, <1>14, <1>15, <1>16, <1>17, <1>18, <1>19, <1>20, <1>21,
     <1>22, <1>23, <1>24, <1>25, <1>26, <1>27, <1>28, <1>29, <1>30
  DEF Next, ThreadStep, CmdStep, XmitStep, LpsStep, WiStep, EnvStep

\* rtw_init_pwrctrl_priv establishes the types.
LEMMA TypeInit == Init => TypeOK
<1> SUFFICES ASSUME Init PROVE TypeOK
  OBVIOUS
<1>1. pc \in [Procs -> Labels]
  BY DEF Init, Labels
<1>2. jobs \in [Tasks -> Seq(JobKinds)] /\ sema \in [Tasks -> Nat]
  BY DEF Init
<1>3. rpwm \in Levels /\ cpwm \in Levels /\ resume \in Labels
  BY DEF Init, Levels, Labels
<1> QED
  BY <1>1, <1>2, <1>3 DEF Init, TypeOK

(***************************************************************************)
(* Type correctness of the handshake, whatever the LPS contexts, the       *)
(* firmware and the ioctls do.                                             *)
(***************************************************************************)
THEOREM TypeCorrect == Spec => []TypeOK
  BY TypeInit, TypeNext, PTL DEF Spec

(***************************************************************************)
(* The lock after a call of rtw_set_rpwm: held by the caller exactly when  *)
(* it polls or goes on to its H2C command.                                 *)
(***************************************************************************)
LEMMA SetRpwmLock ==
  ASSUME IInv, lock = NoOne, NEW p \in Procs, NEW lv \in Levels,
         NEW force \in BOOLEAN, NEW then \in Labels \ {"poll"},
         p \in Tasks => then # "h2c" /\ (NeedAck(lv) => then = "recheck"),
         rtw_set_rpwm(p, lv, force, then)
  PROVE  LockInv'
<1>1. NoOne \notin Procs
  BY ProcsAssumption DEF Procs
<1>2. pc \in [Procs -> Labels] /\ resume # "poll"
  BY DEF IInv, TypeOK, LockInv
<1>3. \A q \in Procs : pc[q] \notin {"poll", "h2c"}
  BY <1>1 DEF IInv, LockInv
<1>4. CASE NeedAck(lv) /\ pc' = [pc EXCEPT ![p] = "poll"] /\ lock' = p
           /\ resume' = then
  <2>1. \A q \in Procs : pc'[q] \in {"poll", "h2c"} <=> q = p
    BY <1>2, <1>3, <1>4
  <2> QED
    BY <1>3, <1>4, <2>1 DEF LockInv, Tasks, Procs
<1>5. CASE Return(p, then)
  <2>1. \A q \in Procs : pc'[q] = IF q = p THEN then ELSE pc[q]
    BY <1>2, <1>5 DEF Return, Goto
  <2>2. lock' = (IF then = "h2c" THEN p ELSE NoOne) /\ resume' = resume
    BY <1>5 DEF Return, LockAfter
  <2>3. \A q \in Procs : pc'[q] \in {"poll", "h2c"} <=> lock' = q
    BY <1>1, <1>3, <2>1, <2>2
  <2>4. \A t \in Tasks : pc'[t] # "poll"
    BY <1>3, <2>1 DEF Procs
  <2> QED
    BY <1>2, <2>2, <2>3, <2>4 DEF LockInv
<1> QED
  BY <1>4, <1>5 DEF rtw_set_rpwm, Goto

\* A critical section without a request gives the lock back.
LEMMA NoRequestLock ==
  ASSUME IInv, lock = NoOne, NEW p \in Procs,
         NEW then \in Labels \ {"poll", "h2c"}, NoRequest(p, then)
  PROVE  LockInv' /\ lock' = NoOne
<1>1. NoOne \notin Procs
  BY ProcsAssumption DEF Procs
<1>2. pc \in [Procs -> Labels] /\ resume # "poll"
  BY DEF IInv, TypeOK, LockInv
<1>3. \A q \in Procs : pc[q] \notin {"poll", "h2c"}
  BY <1>1 DEF IInv, LockInv
<1>4. \A q \in Procs : pc'[q] = IF q = p THEN then ELSE pc[q]
  BY <1>2 DEF NoRequest, Return, Goto
<1>5. lock' = NoOne /\ resume' = resume
  BY DEF NoRequest, Return, LockAfter
<1> QED
  BY <1>1, <1>2, <1>3, <1>4, <1>5 DEF LockInv, Procs

(***************************************************************************)
(* The request after a call of rtw_set_rpwm: HRPWM's clock bit follows     *)
(* rpwm, 32 kHz stands only if it stood before or was asked for, and a     *)
(* call for S2 or S4 always leaves the fast clock requested.               *)
(***************************************************************************)
LEMMA SetRpwmRequest ==
  ASSUME IInv, ~removed, lock = NoOne, NEW p \in Procs, NEW lv \in Levels,
         NEW force \in BOOLEAN, NEW then \in Labels,
         then = "h2c" => lv >= S2, rtw_set_rpwm(p, lv, force, then)
  PROVE  /\ hrpwm'.k32 = (rpwm' = S0)
         /\ rpwm' = S0 => /\ rpwm = S0 \/ lv = S0
                          /\ cpwm' = S0 /\ lock' = NoOne
         /\ lv >= S2 => rpwm' # S0
<1> USE DEF S0, S2, S4
<1>1. rpwm \in Levels /\ cpwm \in Levels /\ lps_level = "LCLK"
  BY DEF IInv, TypeOK
<1>2. hrpwm.k32 = (rpwm = S0) /\ (rpwm = S0 => cpwm = S0)
  BY DEF IInv, RequestInv
<1>3. CASE UNCHANGED <<rpwm, cpwm, hrpwm>> /\ Return(p, then)
           /\ (RpwmUnneeded(lv, force) \/ RpwmRefused(lv))
  <2>1. lv >= S2 => rpwm # S0
    BY <1>1, <1>3 DEF RpwmUnneeded, RpwmRefused, Levels
  <2>2. rpwm = S0 => lock' = NoOne
    BY <1>3, <2>1 DEF Return, LockAfter
  <2> QED
    BY <1>2, <1>3, <2>1, <2>2
<1>4. CASE rpwm' = lv /\ hrpwm' = HrpwmWord(lv, NeedAck(lv)) /\ NeedAck(lv)
  <2>1. lv >= S2 /\ lv # S0
    BY <1>4 DEF NeedAck, Levels
  <2>2. hrpwm'.k32 = (lv = S0)
    BY <1>4 DEF HrpwmWord, Levels
  <2> QED
    BY <1>4, <2>1, <2>2
<1>5. CASE rpwm' = lv /\ hrpwm' = HrpwmWord(lv, NeedAck(lv)) /\ cpwm' = lv
           /\ Return(p, then)
  <2>1. hrpwm'.k32 = (lv = S0)
    BY <1>5 DEF HrpwmWord, Levels
  <2>2. lv = S0 => lock' = NoOne
    BY <1>5 DEF Return, LockAfter
  <2>3. lv >= S2 => lv # S0
    BY DEF Levels
  <2> QED
    BY <1>5, <2>1, <2>2, <2>3
<1> QED
  BY <1>3, <1>4, <1>5 DEF rtw_set_rpwm

(***************************************************************************)
(* Steps that move one context p without touching the handshake.           *)
(***************************************************************************)
LEMMA QuietStep ==
  ASSUME IInv, NEW p \in Procs, NEW l \in Labels, l \notin {"poll", "h2c"},
         pc[p] \notin {"poll", "h2c"}, Goto(p, l),
         UNCHANGED <<removed, lps_level, inPS, rpwm, cpwm, alives, lock,
                     resume, hrpwm>>
  PROVE  LockInv' /\ RequestInv' /\ lps_level' = "LCLK"
<1>1. \A q \in Procs : pc'[q] = IF q = p THEN l ELSE pc[q]
  BY DEF IInv, TypeOK, Goto
<1>2. LockInv'
  BY <1>1 DEF IInv, LockInv, Procs
<1>3. RequestInv'
  BY DEF IInv, RequestInv
<1> QED
  BY <1>2, <1>3 DEF IInv

\* The other contexts stay where they are.
LEMMA OtherStep ==
  ASSUME IInv, NEW p \in Procs \ Tasks, NEW l, Goto(p, l),
         UNCHANGED <<alives, jobs>>
  PROVE  ThreadInv'
<1>1. \A t \in Tasks : pc'[t] = pc[t]
  BY DEF IInv, TypeOK, Goto, Procs
<1> QED
  BY <1>1 DEF IInv, ThreadInv

(***************************************************************************)
(* A call of rtw_set_rpwm, or none, only moves its caller.                 *)
(***************************************************************************)
LEMMA CallMoves ==
  ASSUME IInv, NEW p \in Procs, NEW lv, NEW force, NEW then,
         rtw_set_rpwm(p, lv, force, then) \/ NoRequest(p, then)
  PROVE  /\ \A q \in Procs \ {p} : pc'[q] = pc[q]
         /\ pc'[p] = then \/ (pc'[p] = "poll" /\ NeedAck(lv))
<1>1. \A l : Goto(p, l) => /\ pc'[p] = l
                          /\ \A q \in Procs \ {p} : pc'[q] = pc[q]
  BY DEF IInv, TypeOK, Goto
<1> QED
  BY <1>1 DEF rtw_set_rpwm, NoRequest, Return

(***************************************************************************)
(* Registering and unregistering keep the handshake's invariants; a        *)
(* registering thread that does not poll goes to "recheck" or "run", an    *)
(* unregistering one never polls.                                          *)
(***************************************************************************)
LEMMA RegisterKeeps ==
  ASSUME IInv, NEW t \in Tasks, register_alive(t),
         UNCHANGED <<removed, lps_level, inPS>>
  PROVE  /\ LockInv' /\ RequestInv' /\ alives' = alives \cup {t}
         /\ pc'[t] \in {"recheck", "run", "poll"}
         /\ \A q \in Procs \ {t} : pc'[q] = pc[q]
<1>1. t \in Procs /\ S2 \in Levels /\ S2 >= S2 /\ S2 # S0
      /\ "recheck" \in Labels /\ "run" \in Labels
  BY DEF Procs, Levels, Labels, S0, S2
<1>2. lock = NoOne /\ alives' = alives \cup {t} /\ alives' # {}
  BY DEF register_alive
<1>3. CASE rtw_set_rpwm(t, S2, FALSE, "recheck")
  <2>1. LockInv'
    BY <1>1, <1>2, <1>3, SetRpwmLock
  <2>2. ~removed => rpwm' # S0 /\ hrpwm'.k32 = (rpwm' = S0)
    BY <1>1, <1>2, <1>3, SetRpwmRequest
  <2>3. RequestInv'
    BY <2>2 DEF RequestInv
  <2> QED
    BY <1>1, <1>2, <1>3, <2>1, <2>3, CallMoves
<1>4. ASSUME NEW l \in {"recheck", "run"}, NoRequest(t, l), ~removed => rpwm # S0
      PROVE  LockInv' /\ RequestInv' /\ pc'[t] = l
             /\ \A q \in Procs \ {t} : pc'[q] = pc[q]
  <2>1. LockInv'
    BY <1>1, <1>2, <1>4, NoRequestLock
  <2>2. RequestInv'
    BY <1>4 DEF NoRequest, RequestInv, IInv
  <2>3. pc'[t] = l /\ \A q \in Procs \ {t} : pc'[q] = pc[q]
    BY <1>1, <1>4 DEF NoRequest, Return, Goto, IInv, TypeOK
  <2> QED
    BY <2>1, <2>2, <2>3
<1>5. CASE inPS /\ cpwm < S2 /\ rpwm >= S2 /\ NoRequest(t, "recheck")
  <2>1. rpwm # S0
    BY <1>5 DEF S0, S2
  <2> QED
    BY <1>2, <1>4, <1>5, <2>1
<1>6. CASE (~inPS \/ cpwm >= S2) /\ NoRequest(t, "run")
  <2>1. ~removed => rpwm # S0
    BY <1>6 DEF IInv, RequestInv, S0, S2
  <2> QED
    BY <1>2, <1>4, <1>6, <2>1
<1> QED
  BY <1>3, <1>5, <1>6 DEF register_alive

\* Unregistering the last thread may request 32 kHz, and only then.
LEMMA UnregisterKeeps ==
  ASSUME IInv, NEW t \in Tasks, NEW pslv \in {S0, S2},
         NEW then \in {"wait", "run", "exit"}, unregister_alive(t, pslv, then),
         UNCHANGED <<removed, lps_level, inPS>>
  PROVE  /\ LockInv' /\ RequestInv' /\ alives' = alives \ {t}
         /\ pc'[t] = then
         /\ \A q \in Procs \ {t} : pc'[q] = pc[q]
<1>1. t \in Procs /\ pslv \in Levels /\ then \in Labels
      /\ then \notin {"poll", "h2c"}
  BY DEF Procs, Levels, Labels
<1>2. lock = NoOne /\ alives' = alives \ {t}
  BY DEF unregister_alive
<1>3. CASE /\ inPS /\ cpwm > pslv
           /\ pslv >= S2 \/ alives' = {}
           /\ rtw_set_rpwm(t, pslv, FALSE, then)
  <2>1. cpwm \in Levels /\ cpwm > pslv
    BY <1>3 DEF IInv, TypeOK
  <2>2. ~NeedAck(pslv)
    BY <2>1 DEF NeedAck, Levels, S0, S2
  <2>3. LockInv'
    BY <1>1, <1>2, <1>3, <2>2, SetRpwmLock
  <2>4. ~removed => /\ hrpwm'.k32 = (rpwm' = S0)
                    /\ rpwm' = S0 => /\ rpwm = S0 \/ pslv = S0
                                     /\ cpwm' = S0 /\ lock' = NoOne
    BY <1>1, <1>2, <1>3, SetRpwmRequest
  <2>5. ~removed => rpwm # S0
    BY <2>1 DEF IInv, RequestInv, S0, S2
  <2>6. pslv = S0 => alives' = {}
    BY <1>3 DEF S0, S2
  <2>7. RequestInv'
    BY <1>3, <2>4, <2>5, <2>6 DEF RequestInv
  <2> QED
    BY <1>1, <1>2, <1>3, <2>2, <2>3, <2>7, CallMoves
<1>4. CASE NoRequest(t, then)
  <2>1. LockInv'
    BY <1>1, <1>2, <1>4, NoRequestLock
  <2>2. RequestInv'
    BY <1>1, <1>2, <1>4, NoRequestLock DEF NoRequest, RequestInv, IInv
  <2>3. pc'[t] = then /\ \A q \in Procs \ {t} : pc'[q] = pc[q]
    BY <1>1, <1>4 DEF NoRequest, Return, Goto, IInv, TypeOK
  <2> QED
    BY <1>2, <2>1, <2>2, <2>3
<1> QED
  BY <1>3, <1>4 DEF unregister_alive

(***************************************************************************)
(* IInv is inductive when nobody changes lps_level.                        *)
(***************************************************************************)
LEMMA IInvNext ==
  ASSUME LevelIoctl = FALSE, IInv, [Next]_vars
  PROVE  IInv'
<1> USE DEF drvVars, lpsVars, hskVars, thrVars, wiVars
<1>t. TypeOK'
  BY TypeNext DEF IInv
<1>p. /\ {"idle", "wait", "next", "unreg", "recheck", "run", "quit", "exit",
          "enter", "leave", "read", "int", "retry"} \subseteq Labels \ {"poll", "h2c"}
      /\ "h2c" \in Labels \ {"poll"} /\ {S0, S2, S4} \subseteq Levels
      /\ Tasks \subseteq Procs /\ Ctrls \subseteq Procs \ Tasks
      /\ WorkItem \in Procs \ Tasks /\ Procs = Tasks \cup Ctrls \cup {WorkItem}
      /\ "cmd" \in Tasks /\ "xmit" \in Tasks /\ NoOne \notin Procs
  BY ProcsAssumption DEF Labels, Levels, Procs, Tasks
<1>j. \A t \in Tasks : jobs[t] \in Seq(JobKinds)
  BY DEF IInv, TypeOK
<1>1. ASSUME NEW t \in Tasks, Wake(t) PROVE IInv'
  <2>1. PICK l \in {"quit", "exit", "wait", "next"} :
           Goto(t, l) /\ (l = "next" => jobs[t] # <<>>)
    BY <1>1 DEF Wake
  <2>2. LockInv' /\ RequestInv' /\ lps_level' = "LCLK"
    BY <1>1, <1>p, <2>1, QuietStep DEF Wake, At
  <2>3. \A u \in Tasks : pc'[u] = IF u = t THEN l ELSE pc[u]
    BY <1>p, <2>1 DEF Goto, IInv, TypeOK
  <2>4. ThreadInv'
    BY <1>1, <2>1, <2>3 DEF Wake, ThreadInv, IInv
  <2> QED
    BY <1>t, <2>2, <2>4 DEF IInv
<1>2. ASSUME NEW t \in Tasks, Recheck(t) PROVE IInv'
  <2>1. PICK l \in {"run", "wait"} : Goto(t, l)
    BY <1>2 DEF Recheck
  <2>2. LockInv' /\ RequestInv' /\ lps_level' = "LCLK"
    BY <1>2, <1>p, <2>1, QuietStep DEF Recheck, At
  <2>3. \A u \in Tasks : pc'[u] = IF u = t THEN l ELSE pc[u]
    BY <1>p, <2>1 DEF Goto, IInv, TypeOK
  <2>4. ThreadInv'
    BY <1>2, <2>1, <2>3 DEF Recheck, At, ThreadInv, IInv
  <2> QED
    BY <1>t, <2>2, <2>4 DEF IInv
<1>3. ASSUME NEW t \in Tasks, RunJob(t) PROVE IInv'
  <2>1. PICK l \in {"next", "unreg", "run"} :
           /\ Goto(t, l)
           /\ l = "next" => t = "cmd"
           /\ l = "run" => t = "xmit" /\ Len(jobs[t]) # 1
    BY <1>3 DEF RunJob, Tasks
  <2>2. LockInv' /\ RequestInv' /\ lps_level' = "LCLK"
    BY <1>3, <1>p, <2>1, QuietStep DEF RunJob, At
  <2>3. \A u \in Tasks : pc'[u] = IF u = t THEN l ELSE pc[u]
    BY <1>p, <2>1 DEF Goto, IInv, TypeOK
  <2>4. \A u \in Tasks : jobs'[u] = IF u = t THEN Tail(jobs[t]) ELSE jobs[u]
    BY <1>3 DEF RunJob, IInv, TypeOK
  <2>5. l = "run" => Tail(jobs[t]) # <<>> /\ t \in alives
    <3>1. Len(jobs[t]) # 1 => Tail(jobs[t]) # <<>>
      <4>1. jobs[t] \in Seq(JobKinds) /\ jobs[t] # <<>>
        BY <1>3, <1>j DEF RunJob
      <4>2. Len(jobs[t]) \in Nat /\ Len(Tail(jobs[t])) = Len(jobs[t]) - 1
        BY <4>1, HeadTailProperties
      <4>3. Tail(jobs[t]) = <<>> => Len(Tail(jobs[t])) = 0
        BY EmptySeq
      <4>4. Len(jobs[t]) # 1 => Len(Tail(jobs[t])) # 0
        BY <4>2
      <4> QED
        BY <4>3, <4>4
    <3> QED
      BY <1>3, <2>1, <3>1 DEF RunJob, At, ThreadInv, IInv
  <2>6. ThreadInv'
    BY <1>3, <2>1, <2>3, <2>4, <2>5 DEF RunJob, At, ThreadInv, IInv
  <2> QED
    BY <1>t, <2>2, <2>6 DEF IInv
<1>4. ASSUME NEW pslv \in {S0, S2}, CmdEmpty(pslv) PROVE IInv'
  <2>1. /\ LockInv' /\ RequestInv' /\ alives' = alives \ {"cmd"}
        /\ pc'["cmd"] = "wait" /\ \A q \in Procs \ {"cmd"} : pc'[q] = pc[q]
    BY <1>4, <1>p, UnregisterKeeps DEF CmdEmpty
  <2>2. ThreadInv'
    BY <1>4, <1>p, <2>1 DEF CmdEmpty, ThreadInv, IInv
  <2> QED
    BY <1>4, <1>t, <2>1, <2>2 DEF CmdEmpty, IInv
<1>5. ASSUME NEW pslv \in {S0, S2}, CmdNoIo(pslv) PROVE IInv'
  <2>1. /\ LockInv' /\ RequestInv' /\ alives' = alives \ {"cmd"}
        /\ pc'["cmd"] = "run" /\ \A q \in Procs \ {"cmd"} : pc'[q] = pc[q]
    BY <1>5, <1>p, UnregisterKeeps DEF CmdNoIo
  <2>2. ThreadInv'
    BY <1>5, <1>p, <2>1 DEF CmdNoIo, ThreadInv, IInv
  <2> QED
    BY <1>5, <1>t, <2>1, <2>2 DEF CmdNoIo, IInv
<1>6. ASSUME NEW pslv \in {S0, S2}, CmdExit(pslv) PROVE IInv'
  <2>1. /\ LockInv' /\ RequestInv' /\ alives' = alives \ {"cmd"}
        /\ pc'["cmd"] = "exit" /\ \A q \in Procs \ {"cmd"} : pc'[q] = pc[q]
    BY <1>6, <1>p, UnregisterKeeps DEF CmdExit
  <2>2. ThreadInv'
    BY <1>6, <1>p, <2>1 DEF CmdExit, ThreadInv, IInv
  <2> QED
    BY <1>6, <1>t, <2>1, <2>2 DEF CmdExit, IInv
<1>7. ASSUME NEW pslv \in {S0, S2}, XmitDone(pslv) PROVE IInv'
  <2>1. /\ LockInv' /\ RequestInv' /\ alives' = alives \ {"xmit"}
        /\ pc'["xmit"] = "wait" /\ \A q \in Procs \ {"xmit"} : pc'[q] = pc[q]
    BY <1>7, <1>p, UnregisterKeeps DEF XmitDone
  <2>2. ThreadInv'
    BY <1>7, <1>p, <2>1 DEF XmitDone, ThreadInv, IInv
  <2> QED
    BY <1>7, <1>t, <2>1, <2>2 DEF XmitDone, IInv
<1>8. CASE CmdRegister
  <2>1. /\ LockInv' /\ RequestInv' /\ alives' = alives \cup {"cmd"}
        /\ pc'["cmd"] \in {"recheck", "run", "poll"}
        /\ \A q \in Procs \ {"cmd"} : pc'[q] = pc[q]
    BY <1>8, <1>p, RegisterKeeps DEF CmdRegister
  <2>2. jobs["cmd"] # <<>>
    BY <1>8, <1>p DEF CmdRegister, At, ThreadInv, IInv
  <2>3. ThreadInv'
    BY <1>8, <1>p, <2>1, <2>2 DEF CmdRegister, ThreadInv, IInv
  <2> QED
    BY <1>8, <1>t, <2>1, <2>3 DEF CmdRegister, IInv
<1>9. CASE XmitRegister
  <2>1. /\ LockInv' /\ RequestInv' /\ alives' = alives \cup {"xmit"}
        /\ pc'["xmit"] \in {"recheck", "run", "poll"}
        /\ \A q \in Procs \ {"xmit"} : pc'[q] = pc[q]
    BY <1>9, <1>p, RegisterKeeps DEF XmitRegister
  <2>2. jobs["xmit"] # <<>>
    BY <1>9, <1>p DEF XmitRegister, At, ThreadInv, IInv
  <2>3. ThreadInv'
    BY <1>9, <1>p, <2>1, <2>2 DEF XmitRegister, ThreadInv, IInv
  <2> QED
    BY <1>9, <1>t, <2>1, <2>3 DEF XmitRegister, IInv
<1>10. CASE CmdStop
  <2>1. LockInv' /\ RequestInv' /\ lps_level' = "LCLK"
    BY <1>10, <1>p, QuietStep DEF CmdStop, At
  <2>2. \A u \in Tasks : pc'[u] = IF u = "cmd" THEN "quit" ELSE pc[u]
    BY <1>10, <1>p DEF CmdStop, Goto, IInv, TypeOK
  <2>3. ThreadInv'
    BY <1>10, <2>2 DEF CmdStop, ThreadInv, IInv
  <2> QED
    BY <1>t, <2>1, <2>3 DEF IInv
<1>11. ASSUME NEW c \in Ctrls, LPS_Enter(c) PROVE IInv'
  <2>1. LockInv' /\ RequestInv' /\ lps_level' = "LCLK"
    BY <1>11, <1>p, QuietStep DEF LPS_Enter, At
  <2>2. ThreadInv'
    BY <1>11, <1>p, OtherStep DEF LPS_Enter
  <2> QED
    BY <1>t, <2>1, <2>2 DEF IInv
<1>12. ASSUME NEW c \in Ctrls, rtw_btcoex_LPS_Enter(c) PROVE IInv'
  <2>1. LockInv' /\ RequestInv' /\ lps_level' = "LCLK"
    BY <1>12, <1>p, QuietStep DEF rtw_btcoex_LPS_Enter, At
  <2>2. ThreadInv'
    BY <1>12, <1>p, OtherStep DEF rtw_btcoex_LPS_Enter
  <2> QED
    BY <1>t, <2>1, <2>2 DEF IInv
<1>13. ASSUME NEW c \in Ctrls, LPS_Leave(c) PROVE IInv'
  <2>1. LockInv' /\ RequestInv' /\ lps_level' = "LCLK"
    BY <1>13, <1>p, QuietStep DEF LPS_Leave, At
  <2>2. ThreadInv'
    BY <1>13, <1>p, OtherStep DEF LPS_Leave
  <2> QED
    BY <1>t, <2>1, <2>2 DEF IInv
<1>14. ASSUME NEW c \in Ctrls, set_ps_mode_return(c) PROVE IInv'
  <2>1. LockInv' /\ RequestInv' /\ lps_level' = "LCLK"
    BY <1>14, <1>p, QuietStep DEF set_ps_mode_return, At
  <2>2. ThreadInv'
    BY <1>14, <1>p, OtherStep DEF set_ps_mode_return
  <2> QED
    BY <1>t, <2>1, <2>2 DEF IInv
<1>15. ASSUME NEW c \in Ctrls, set_ps_mode_h2c(c) PROVE IInv'
  <2>1. lock = c /\ \A q \in Procs : pc'[q] = IF q = c THEN "idle" ELSE pc[q]
    BY <1>15, <1>p DEF set_ps_mode_h2c, At, Goto, LockInv, IInv, TypeOK
  <2>2. LockInv'
    BY <1>15, <1>p, <2>1 DEF set_ps_mode_h2c, LockInv, IInv
  <2>3. RequestInv'
    BY <1>15, <1>p, <2>1 DEF set_ps_mode_h2c, RequestInv, IInv
  <2>4. ThreadInv'
    BY <1>15, <1>p, OtherStep DEF set_ps_mode_h2c
  <2> QED
    BY <1>15, <1>t, <2>2, <2>3, <2>4 DEF set_ps_mode_h2c, IInv
<1>16. ASSUME NEW c \in Ctrls, NEW btClk \in BOOLEAN, set_ps_mode_enter(c, btClk)
      PROVE  IInv'
  <2>1. PICK lv \in {S0, S2} : /\ rtw_set_rpwm(c, lv, FALSE, "idle")
                               /\ lv = S0 => alives = {}
    <3>1. CASE alives = {} /\ ~btClk
      BY <1>16, <3>1 DEF set_ps_mode_enter
    <3>2. CASE ~(alives = {} /\ ~btClk)
      <4>1. S2 # S0
        BY DEF S0, S2
      <4> QED
        BY <1>16, <3>2, <4>1 DEF set_ps_mode_enter
    <3> QED
      BY <3>1, <3>2
  <2>2. LockInv'
    BY <1>16, <1>p, <2>1, SetRpwmLock DEF set_ps_mode_enter
  <2>3. ~removed => /\ hrpwm'.k32 = (rpwm' = S0)
                    /\ rpwm' = S0 => /\ rpwm = S0 \/ lv = S0
                                     /\ cpwm' = S0 /\ lock' = NoOne
    <3>1. lock = NoOne
      BY <1>16 DEF set_ps_mode_enter
    <3>2. lv \in Levels /\ c \in Procs /\ "idle" \in Labels
      BY <1>p, <2>1
    <3> QED
      BY <2>1, <3>1, <3>2, SetRpwmRequest
  <2>4. RequestInv'
    BY <1>16, <2>1, <2>3 DEF set_ps_mode_enter, RequestInv, IInv
  <2>5. \A t \in Tasks : pc'[t] = pc[t]
    BY <1>p, <2>1, CallMoves
  <2>6. ThreadInv'
    BY <1>16, <2>5 DEF set_ps_mode_enter, ThreadInv, IInv
  <2> QED
    BY <1>16, <1>t, <2>2, <2>4, <2>6 DEF set_ps_mode_enter, IInv
<1>17. ASSUME NEW c \in Ctrls, set_ps_mode_leave(c) PROVE IInv'
  <2>1. lock = NoOne /\ rtw_set_rpwm(c, S4, FALSE, "h2c") /\ S4 >= S2
    <3>1. S4 >= S2
      BY DEF S2, S4
    <3> QED
      BY <1>17, <3>1 DEF set_ps_mode_leave
  <2>2. LockInv'
    BY <1>p, <2>1, SetRpwmLock
  <2>3. ~removed => rpwm' # S0 /\ hrpwm'.k32 = (rpwm' = S0)
    BY <1>p, <2>1, SetRpwmRequest
  <2>4. RequestInv'
    BY <1>17, <2>3 DEF set_ps_mode_leave, RequestInv
  <2>5. \A t \in Tasks : pc'[t] = pc[t]
    BY <1>p, <2>1, CallMoves
  <2>6. ThreadInv'
    BY <1>17, <2>5 DEF set_ps_mode_leave, ThreadInv, IInv
  <2> QED
    BY <1>17, <1>t, <2>2, <2>4, <2>6 DEF set_ps_mode_leave, IInv
<1>18. ASSUME NEW p \in Procs, PollOK(p) PROVE IInv'
  <2>1. /\ lock = p /\ lock # NoOne
        /\ \A q \in Procs : pc'[q] = IF q = p THEN resume ELSE pc[q]
    BY <1>18, <1>p DEF PollOK, PollEnd, At, Goto, LockInv, IInv, TypeOK
  <2>2. /\ lock' = IF resume = "h2c" THEN p ELSE NoOne
        /\ resume' = "idle" /\ resume # "poll"
        /\ p \in Tasks => resume = "recheck"
    BY <1>18 DEF PollOK, PollEnd, LockAfter, At, LockInv, IInv
  <2>3. LockInv'
    BY <1>p, <2>1, <2>2 DEF LockInv, IInv
  <2>4. RequestInv'
    BY <1>18, <2>1 DEF PollOK, RequestInv, IInv
  <2>5. ThreadInv'
    BY <1>18, <1>p, <2>1, <2>2 DEF PollOK, At, ThreadInv, IInv
  <2> QED
    BY <1>18, <1>t, <2>3, <2>4, <2>5 DEF PollOK, IInv
<1>19. ASSUME NEW p \in Procs, PollTimeout(p) PROVE IInv'
  <2>1. /\ lock = p /\ lock # NoOne
        /\ \A q \in Procs : pc'[q] = IF q = p THEN resume ELSE pc[q]
    BY <1>19, <1>p DEF PollTimeout, PollEnd, At, Goto, LockInv, IInv, TypeOK
  <2>2. /\ lock' = IF resume = "h2c" THEN p ELSE NoOne
        /\ resume' = "idle" /\ resume # "poll"
        /\ p \in Tasks => resume = "recheck"
    BY <1>19 DEF PollTimeout, PollEnd, LockAfter, At, LockInv, IInv
  <2>3. LockInv'
    BY <1>p, <2>1, <2>2 DEF LockInv, IInv
  <2>4. RequestInv'
    BY <1>19, <2>1 DEF PollTimeout, RequestInv, IInv
  <2>5. ThreadInv'
    BY <1>19, <1>p, <2>1, <2>2 DEF PollTimeout, At, ThreadInv, IInv
  <2> QED
    BY <1>19, <1>t, <2>3, <2>4, <2>5 DEF PollTimeout, IInv
<1>20. CASE pwr_rpwm_timeout_handler
  BY <1>20, <1>t DEF pwr_rpwm_timeout_handler, LockInv, RequestInv, ThreadInv, IInv
<1>21. CASE WiStart
  <2>1. PICK l \in {"idle", "read", "retry", "int"} : Goto(WorkItem, l)
    BY <1>21 DEF WiStart
  <2>2. LockInv' /\ RequestInv' /\ lps_level' = "LCLK"
    BY <1>21, <1>p, <2>1, QuietStep DEF WiStart, At
  <2>3. ThreadInv'
    BY <1>21, <1>p, <2>1, OtherStep DEF WiStart
  <2> QED
    BY <1>t, <2>2, <2>3 DEF IInv
<1>22. CASE WiReadCR
  <2>1. PICK l \in {"idle", "read", "retry", "int"} : Goto(WorkItem, l)
    BY <1>22 DEF WiReadCR
  <2>2. LockInv' /\ RequestInv' /\ lps_level' = "LCLK"
    BY <1>22, <1>p, <2>1, QuietStep DEF WiReadCR, At
  <2>3. ThreadInv'
    BY <1>22, <1>p, <2>1, OtherStep DEF WiReadCR
  <2> QED
    BY <1>t, <2>2, <2>3 DEF IInv
<1>23. CASE cpwm_int_hdl
  <2>1. \A q \in Procs : pc'[q] = IF q = WorkItem THEN "idle" ELSE pc[q]
    BY <1>23, <1>p DEF cpwm_int_hdl, Goto, IInv, TypeOK
  <2>2. LockInv'
    BY <1>23, <1>p, <2>1 DEF cpwm_int_hdl, At, LockInv, IInv
  <2>3. RequestInv'
    BY <1>23 DEF cpwm_int_hdl, RequestInv, IInv, S0, S2
  <2>4. ThreadInv'
    BY <1>23, <1>p, OtherStep DEF cpwm_int_hdl
  <2> QED
    BY <1>23, <1>t, <2>2, <2>3, <2>4 DEF cpwm_int_hdl, IInv
<1>24. CASE WiRetry
  <2>1. CASE NoRequest(WorkItem, "idle")
    <3>1. LockInv' /\ lock' = NoOne
      BY <1>24, <1>p, <2>1, NoRequestLock DEF WiRetry
    <3>2. RequestInv'
      BY <1>24, <2>1, <3>1 DEF WiRetry, NoRequest, RequestInv, IInv
    <3>3. ThreadInv'
      BY <1>24, <1>p, <2>1, OtherStep DEF WiRetry, NoRequest, Return
    <3> QED
      BY <1>24, <1>t, <3>1, <3>2, <3>3 DEF WiRetry, IInv
  <2>2. CASE rtw_set_rpwm(WorkItem, rpwm, TRUE, "idle")
    <3>1. LockInv'
      BY <1>24, <1>p, <2>2, SetRpwmLock DEF WiRetry, IInv, TypeOK
    <3>2. ~removed => /\ hrpwm'.k32 = (rpwm' = S0)
                      /\ rpwm' = S0 => rpwm = S0 /\ cpwm' = S0 /\ lock' = NoOne
      BY <1>24, <1>p, <2>2, SetRpwmRequest DEF WiRetry, IInv, TypeOK
    <3>3. RequestInv'
      BY <1>24, <3>2 DEF WiRetry, RequestInv, IInv
    <3>4. \A t \in Tasks : pc'[t] = pc[t]
      BY <1>p, <2>2, CallMoves
    <3>5. ThreadInv'
      BY <1>24, <3>4 DEF WiRetry, ThreadInv, IInv
    <3> QED
      BY <1>24, <1>t, <3>1, <3>3, <3>5 DEF WiRetry, IInv
  <2> QED
    BY <1>24, <2>1, <2>2 DEF WiRetry
<1>25. CASE FwHandleRpwm
  BY <1>25, <1>t DEF FwHandleRpwm, LockInv, RequestInv, ThreadInv, IInv
<1>26. ASSUME NEW t \in Tasks, NEW kind \in JobKinds, Enqueue(t, kind) PROVE IInv'
  <2>1. \A u \in Tasks : jobs'[u] = IF u = t THEN Append(jobs[u], kind) ELSE jobs[u]
    BY <1>26 DEF Enqueue, IInv, TypeOK
  <2>2. \A u \in Tasks : /\ jobs[u] # <<>> => /\ jobs'[u] # <<>>
                                            /\ Head(jobs'[u]) = Head(jobs[u])
    <3>1. \A s \in Seq(JobKinds) : s # <<>> =>
             Append(s, kind) # <<>> /\ Head(Append(s, kind)) = Head(s)
      <4> SUFFICES ASSUME NEW s \in Seq(JobKinds), s # <<>>
                   PROVE  Append(s, kind) # <<>> /\ Head(Append(s, kind)) = Head(s)
        OBVIOUS
      <4>1. Len(s) \in Nat /\ Len(s) # 0
        BY EmptySeq
      <4>2. Len(Append(s, kind)) = Len(s) + 1 /\ Append(s, kind)[1] = s[1]
        BY <1>26, <4>1, AppendProperties
      <4>3. Append(s, kind) # <<>>
        BY <4>1, <4>2
      <4> QED
        BY <1>26, <4>2, <4>3
    <3> QED
      BY <1>j, <2>1, <3>1
  <2>3. ThreadInv'
    BY <1>26, <2>2 DEF Enqueue, ThreadInv, IInv
  <2> QED
    BY <1>26, <1>t, <2>3 DEF Enqueue, LockInv, RequestInv, IInv
<1>27. ASSUME NEW level \in {"NORMAL", "LCLK"}, rtw_pm_set_lps_level(level)
      PROVE  IInv'
  BY <1>27 DEF rtw_pm_set_lps_level
<1>28. CASE StopDriver
  BY <1>28, <1>t DEF StopDriver, LockInv, RequestInv, ThreadInv, IInv
<1>29. CASE SurpriseRemove
  BY <1>29, <1>t DEF SurpriseRemove, LockInv, RequestInv, ThreadInv, IInv
<1>30. CASE UNCHANGED vars
  BY <1>30, <1>t DEF vars, LockInv, RequestInv, ThreadInv, IInv
<1> QED
  BY <1>1, <1>2, <1>3, <1>4, <1>5, <1>6, <1>7, <1>8, <1>9, <1>10, <1>11,
     <1>12, <1>13, <1>14, <1>15, <1>16, <1>17, <1>18, <1>19, <1>20, <1>21,
     <1>22, <1>23, <1>24, <1>25, <1>26, <1>27, <1>28, <1>29, <1>30
  DEF Next, ThreadStep, CmdStep, XmitStep, LpsStep, WiStep, EnvStep

\* rtw_init_pwrctrl_priv establishes the invariant.
LEMMA IInvInit == Init => IInv
<1> SUFFICES ASSUME Init PROVE IInv
  OBVIOUS
<1>1. TypeOK
  BY TypeInit
<1>2. LockInv
  BY ProcsAssumption DEF Init, LockInv, Procs, Tasks
<1>3. RequestInv
  <2>1. hrpwm.k32 = FALSE /\ rpwm # S0
    BY DEF Init, S0
  <2> QED
    BY <2>1 DEF RequestInv
<1>4. ThreadInv
  BY DEF Init, ThreadInv, Procs
<1> QED
  BY <1>1, <1>2, <1>3, <1>4 DEF Init, IInv

(***************************************************************************)
(* The inductive invariant holds throughout when lps_level is left alone.  *)
(***************************************************************************)
THEOREM HandshakeInvariant == ASSUME LevelIoctl = FALSE PROVE Spec => []IInv
<1>1. IInv /\ [Next]_vars => IInv'
  BY IInvNext
<1> QED
  BY <1>1, IInvInit, PTL DEF Spec

(***************************************************************************)
(* The driver never has a 32 kHz request standing while a thread is        *)
(* registered or it believes power save is off: for any number of LPS      *)
(* contexts and polling timeouts, any order of steps, with the driver      *)
(* stopped or not.                                                         *)
(***************************************************************************)
THEOREM NeverAsksForSleep ==
  ASSUME LevelIoctl = FALSE PROVE Spec => []AwakeWhileAlive
<1>1. IInv => AwakeWhileAlive
  BY DEF IInv, RequestInv, AwakeWhileAlive
<1> QED
  BY <1>1, HandshakeInvariant, PTL

(***************************************************************************)
(* A thread in the middle of its I/O is registered.                        *)
(***************************************************************************)
THEOREM IOOnlyWhenRegistered ==
  ASSUME LevelIoctl = FALSE PROVE Spec => []IOIsRegistered
<1>1. IInv => IOIsRegistered
  BY DEF IInv, ThreadInv, IOIsRegistered, DoingIO, At
<1> QED
  BY <1>1, HandshakeInvariant, PTL

(***************************************************************************)
(* The firmware, which reads the request register on its own time, never   *)
(* drops to 32 kHz while a thread stays registered.                        *)
(***************************************************************************)
THEOREM FirmwareStaysAwake ==
  ASSUME LevelIoctl = FALSE PROVE Spec => NoSleepUnderThreads
<1> DEFINE A == alives # {} /\ alives' # {} /\ fwClk = "40M" => fwClk' = "40M"
<1>1. IInv /\ [Next]_vars => [A]_vars
  <2> SUFFICES ASSUME IInv, Next PROVE A
    BY DEF vars
  <2>1. CASE FwHandleRpwm
    <3>1. alives # {} => ~hrpwm.k32
      BY <2>1 DEF FwHandleRpwm, IInv, RequestInv
    <3> QED
      BY <2>1, <3>1 DEF FwHandleRpwm
  <2>2. CASE ~FwHandleRpwm
    <3>1. UNCHANGED fwClk
      BY <2>2 DEF Next, ThreadStep, Wake, Recheck, RunJob, CmdStep, CmdStop,
         CmdRegister, CmdEmpty, CmdNoIo, CmdExit, XmitStep, XmitRegister,
         XmitDone, LpsStep, LPS_Enter, LPS_Leave, rtw_btcoex_LPS_Enter,
         set_ps_mode_enter, set_ps_mode_return, set_ps_mode_leave,
         set_ps_mode_h2c, PollOK, PollTimeout, pwr_rpwm_timeout_handler,
         WiStep, WiStart, WiReadCR, cpwm_int_hdl, WiRetry, EnvStep, Enqueue,
         rtw_pm_set_lps_level, StopDriver, SurpriseRemove
    <3> QED
      BY <3>1
  <2> QED
    BY <2>1, <2>2
<1>2. Spec => [][A]_vars
  BY <1>1, HandshakeInvariant, PTL DEF Spec
<1> QED
  BY <1>2 DEF NoSleepUnderThreads

(***************************************************************************)
(* Without polling timeouts the driver's cpwm can be trusted.              *)
(*                                                                         *)
(* WakeInv: as long as the card is there, no retry is under way; a level   *)
(* of S2 or more in cpwm means the fast clock; S2 or more requested and    *)
(* not yet confirmed means that somebody polls; the fast clock is known    *)
(* wherever it is taken for granted: out of power save, under an H2C       *)
(* command and by a registered thread that runs; and the toggle a polling  *)
(* context waits for flips only once the firmware has changed its clock.   *)
(***************************************************************************)
WakeInv ==
  ~removed =>
    /\ ~timer /\ ~wiQueued /\ pc[WorkItem] = "idle"
    /\ cpwm >= S2 => fwClk = "40M"
    /\ rpwm >= S2 /\ cpwm < S2 => lock # NoOne
    /\ ~inPS => cpwm >= S2
    /\ \A p \in Procs :
         /\ pc[p] = "h2c" => cpwm >= S2
         /\ pc[p] = "poll" => /\ rpwm >= S2 /\ cpwm < S2
                              /\ hcpwm # cpwm_orig => fwClk = "40M"
    /\ \A t \in Tasks : pc[t] = "run" /\ t \in alives => cpwm >= S2

(***************************************************************************)
(* A request, made with no retry under way: one for S2 or more ends in     *)
(* polling or finds the firmware awake, one for S0 is made in power save   *)
(* with nobody registered.                                                 *)
(***************************************************************************)
LEMMA SetRpwmWakes ==
  ASSUME IInv, WakeInv, ~removed, lock = NoOne, NEW p \in Procs \ {WorkItem},
         NEW lv \in {S0, S2, S4}, NEW then \in Labels \ {"poll"},
         rtw_set_rpwm(p, lv, FALSE, then),
         then = "h2c" => lv >= S2,
         UNCHANGED <<removed, timer, wiQueued, fwClk, hcpwm>>,
         lv = S0 => inPS' /\ alives' = {},
         ~inPS' => ~inPS,
         p \in Tasks => then # "run" \/ p \notin alives',
         \A t \in Tasks \ {p} : t \in alives' => t \in alives
  PROVE  WakeInv'
<1> USE DEF S0, S2, S4
<1>t. /\ rpwm \in {0, S0, S2, S4} /\ cpwm \in {0, S0, S2, S4}
      /\ lps_level = "LCLK" /\ pc \in [Procs -> Labels] /\ WorkItem \in Procs
      /\ Tasks \subseteq Procs \ {WorkItem} /\ NoOne \notin Procs
  BY ProcsAssumption DEF IInv, TypeOK, Levels, Procs
<1>w. /\ ~timer /\ ~wiQueued /\ pc[WorkItem] = "idle"
      /\ cpwm >= S2 => fwClk = "40M"
      /\ ~(rpwm >= S2 /\ cpwm < S2)
      /\ ~inPS => cpwm >= S2
      /\ \A t \in Tasks : pc[t] = "run" /\ t \in alives => cpwm >= S2
  BY DEF WakeInv
<1>n. \A q \in Procs : pc[q] \notin {"poll", "h2c"}
  BY <1>t DEF IInv, LockInv
<1>r. rpwm = S0 => inPS /\ alives = {} /\ cpwm = S0
  BY DEF IInv, RequestInv
<1>k. timer' = timer /\ wiQueued' = wiQueued
  OBVIOUS
<1>1. CASE UNCHANGED <<rpwm, cpwm>> /\ Return(p, then)
           /\ (RpwmUnneeded(lv, FALSE) \/ RpwmRefused(lv))
  <2>1. \A q \in Procs : pc'[q] = IF q = p THEN then ELSE pc[q]
    BY <1>1, <1>t DEF Return, Goto
  <2>2. then = "h2c" => cpwm >= S2
    BY <1>1, <1>t, <1>w DEF RpwmUnneeded, RpwmRefused
  <2>3. ~inPS' => cpwm >= S2
    BY <1>1, <1>t, <1>w DEF RpwmUnneeded, RpwmRefused
  <2>4. \A q \in Procs : /\ pc'[q] = "h2c" => cpwm >= S2
                         /\ pc'[q] # "poll"
    BY <1>n, <2>1, <2>2
  <2>5. \A t \in Tasks : pc'[t] = "run" /\ t \in alives' => cpwm >= S2
    BY <1>t, <1>w, <2>1
  <2> QED
    BY <1>1, <1>t, <1>w, <1>k, <2>1, <2>3, <2>4, <2>5 DEF WakeInv
<1>2. CASE /\ rpwm' = lv /\ NeedAck(lv) /\ pc' = [pc EXCEPT ![p] = "poll"]
           /\ lock' = p /\ cpwm_orig' = hcpwm /\ cpwm' = cpwm
  <2>1. \A q \in Procs : pc'[q] = IF q = p THEN "poll" ELSE pc[q]
    BY <1>2, <1>t
  <2>2. lv >= S2 /\ cpwm < S2 /\ inPS'
    BY <1>2, <1>w, <1>t DEF NeedAck
  <2>3. \A q \in Procs : pc'[q] # "h2c" /\ (pc'[q] = "poll" => q = p)
    BY <1>n, <2>1
  <2>4. hcpwm' = cpwm_orig' /\ lock' # NoOne /\ fwClk' = fwClk
    BY <1>2, <1>t
  <2>5. \A t \in Tasks : pc'[t] = "run" /\ t \in alives' => cpwm >= S2
    BY <1>t, <1>w, <2>1
  <2> QED
    BY <1>2, <1>t, <1>w, <1>k, <2>1, <2>2, <2>3, <2>4, <2>5 DEF WakeInv
<1>3. CASE /\ rpwm' = lv /\ ~NeedAck(lv) /\ cpwm' = lv /\ Return(p, then)
  <2>1. \A q \in Procs : pc'[q] = IF q = p THEN then ELSE pc[q]
    BY <1>3, <1>t DEF Return, Goto
  <2>2. lv >= S2 => fwClk' = "40M"
    BY <1>3, <1>t, <1>w DEF NeedAck
  <2>3. \A q \in Procs : /\ pc'[q] = "h2c" => lv >= S2
                         /\ pc'[q] # "poll"
    BY <1>n, <2>1
  <2>4. (~inPS' => lv >= S2) /\ \A t \in Tasks : t \in alives' => lv >= S2
    OBVIOUS
  <2> QED
    BY <1>3, <1>t, <1>w, <1>k, <2>1, <2>2, <2>3, <2>4 DEF WakeInv
<1> QED
  BY <1>1, <1>2, <1>3 DEF rtw_set_rpwm, Goto

\* A critical section without a request, and any step of one context that
\* leaves the handshake alone.
LEMMA QuietWakes ==
  ASSUME IInv, WakeInv, NEW p \in Procs \ {WorkItem},
         NEW l \in Labels \ {"poll", "h2c"}, Goto(p, l),
         p \in Tasks /\ l = "run" => p \notin alives' \/ (~removed => cpwm >= S2),
         \A t \in Tasks \ {p} : t \in alives' => t \in alives,
         UNCHANGED <<removed, timer, wiQueued, fwClk, hcpwm, rpwm, cpwm, inPS,
                     lock, cpwm_orig>>
  PROVE  WakeInv'
<1>t. /\ pc \in [Procs -> Labels] /\ WorkItem \in Procs
      /\ Tasks \subseteq Procs \ {WorkItem}
  BY ProcsAssumption DEF IInv, TypeOK, Procs
<1>1. \A q \in Procs : pc'[q] = IF q = p THEN l ELSE pc[q]
  BY <1>t DEF Goto
<1>2. ~removed => \A t \in Tasks : pc'[t] = "run" /\ t \in alives' => cpwm >= S2
  BY <1>t, <1>1 DEF WakeInv
<1>3. ~removed => \A q \in Procs :
         /\ pc'[q] = "h2c" => cpwm >= S2
         /\ pc'[q] = "poll" => /\ rpwm >= S2 /\ cpwm < S2
                               /\ hcpwm # cpwm_orig => fwClk = "40M"
  BY <1>1 DEF WakeInv
<1>4. ~removed => /\ ~timer' /\ ~wiQueued' /\ pc'[WorkItem] = "idle"
                  /\ cpwm' >= S2 => fwClk' = "40M"
                  /\ rpwm' >= S2 /\ cpwm' < S2 => lock' # NoOne
                  /\ ~inPS' => cpwm' >= S2
  BY <1>t, <1>1 DEF WakeInv
<1>5. UNCHANGED <<removed, hcpwm, cpwm_orig, cpwm, rpwm, fwClk>>
  OBVIOUS
<1> QED
  BY <1>2, <1>3, <1>4, <1>5 DEF WakeInv

\* Unregistering requests 32 kHz for nobody else.
LEMMA UnregisterWakes ==
  ASSUME IInv, WakeInv, ~removed, NEW t \in Tasks, NEW pslv \in {S0, S2},
         NEW then \in {"wait", "run", "exit"}, unregister_alive(t, pslv, then),
         UNCHANGED <<removed, inPS, timer, wiQueued, fwClk, hcpwm>>
  PROVE  WakeInv'
<1>p. /\ t \in Procs \ {WorkItem} /\ then \in Labels \ {"poll", "h2c"}
      /\ S0 # S2
  BY ProcsAssumption DEF Procs, Labels, S0, S2
<1>1. lock = NoOne /\ alives' = alives \ {t}
  BY DEF unregister_alive
<1>2. CASE /\ inPS
           /\ pslv >= S2 \/ alives' = {}
           /\ rtw_set_rpwm(t, pslv, FALSE, then)
  <2>1. pslv = S0 => inPS' /\ alives' = {}
    BY <1>2 DEF S0, S2
  <2> QED
    BY <1>p, <1>1, <1>2, <2>1, SetRpwmWakes
<1>3. CASE NoRequest(t, then)
  <2>1. lock' = lock
    BY <1>p, <1>1, <1>3 DEF NoRequest, Return, LockAfter
  <2> QED
    BY <1>p, <1>1, <1>3, <2>1, QuietWakes DEF NoRequest, Return
<1> QED
  BY <1>2, <1>3 DEF unregister_alive

\* Registering finds the firmware awake, polls, or is refused.
LEMMA RegisterWakes ==
  ASSUME IInv, WakeInv, ~removed, NEW t \in Tasks, register_alive(t),
         UNCHANGED <<removed, inPS, timer, wiQueued, fwClk, hcpwm>>
  PROVE  WakeInv'
<1>p. /\ t \in Procs \ {WorkItem} /\ S0 # S2
      /\ {"recheck", "run"} \subseteq Labels \ {"poll", "h2c"}
  BY ProcsAssumption DEF Procs, Labels, S0, S2
<1>1. lock = NoOne /\ alives' = alives \cup {t}
  BY DEF register_alive
<1>2. CASE rtw_set_rpwm(t, S2, FALSE, "recheck")
  BY <1>p, <1>1, <1>2, SetRpwmWakes
<1>3. ASSUME NEW l \in {"recheck", "run"}, NoRequest(t, l), l = "run" => cpwm >= S2
      PROVE  WakeInv'
  <2>1. lock' = lock
    BY <1>p, <1>1, <1>3 DEF NoRequest, Return, LockAfter
  <2> QED
    BY <1>p, <1>1, <1>3, <2>1, QuietWakes DEF NoRequest, Return
<1>4. ~inPS => cpwm >= S2
  BY DEF WakeInv
<1> QED
  BY <1>2, <1>3, <1>4 DEF register_alive

(***************************************************************************)
(* WakeInv is inductive, next to IInv, when no polling times out.          *)
(***************************************************************************)
LEMMA WakeNext ==
  ASSUME LevelIoctl = FALSE, MaxTimeouts = 0, IInv, WakeInv, [Next]_vars
  PROVE  WakeInv'
<1> USE DEF drvVars, lpsVars, hskVars, thrVars, wiVars
<1>p. /\ {"idle", "wait", "next", "unreg", "recheck", "run", "quit", "exit",
          "enter", "leave"} \subseteq Labels \ {"poll", "h2c"}
      /\ "idle" \in Labels \ {"poll"} /\ "h2c" \in Labels \ {"poll"}
      /\ Tasks \subseteq Procs \ {WorkItem} /\ Ctrls \subseteq Procs \ {WorkItem}
      /\ Ctrls \cap Tasks = {} /\ WorkItem \in Procs
      /\ "cmd" \in Tasks /\ "xmit" \in Tasks /\ NoOne \notin Procs
  BY ProcsAssumption DEF Labels, Procs, Tasks
<1>w. CASE removed
  <2>1. removed' = TRUE \/ UNCHANGED removed
    BY DEF Next, ThreadStep, Wake, Recheck, RunJob, CmdStep, CmdStop,
       CmdRegister, CmdEmpty, CmdNoIo, CmdExit, XmitStep, XmitRegister,
       XmitDone, LpsStep, LPS_Enter, LPS_Leave, rtw_btcoex_LPS_Enter,
       set_ps_mode_enter, set_ps_mode_return, set_ps_mode_leave,
       set_ps_mode_h2c, PollOK, PollTimeout, pwr_rpwm_timeout_handler,
       WiStep, WiStart, WiReadCR, cpwm_int_hdl, WiRetry, EnvStep, Enqueue,
       rtw_pm_set_lps_level, StopDriver, SurpriseRemove, FwHandleRpwm, vars
  <2> QED
    BY <1>w, <2>1 DEF WakeInv
<1>s. SUFFICES ASSUME ~removed PROVE WakeInv'
  BY <1>w
<1>1. ASSUME NEW t \in Tasks, Wake(t) PROVE WakeInv'
  <2>1. PICK l \in {"quit", "exit", "wait", "next"} : Goto(t, l)
    BY <1>1 DEF Wake
  <2> QED
    BY <1>1, <1>p, <2>1, QuietWakes DEF Wake
<1>2. ASSUME NEW t \in Tasks, Recheck(t) PROVE WakeInv'
  <2>1. PICK l \in {"run", "wait"} : Goto(t, l) /\ (l = "run" => cpwm >= S2)
    BY <1>2 DEF Recheck
  <2> QED
    BY <1>2, <1>p, <2>1, QuietWakes DEF Recheck
<1>3. ASSUME NEW t \in Tasks, RunJob(t) PROVE WakeInv'
  <2>1. PICK l \in {"next", "unreg", "run"} : Goto(t, l)
    BY <1>3 DEF RunJob
  <2>2. t \in alives => cpwm >= S2
    BY <1>3, <1>s DEF RunJob, At, WakeInv
  <2> QED
    BY <1>3, <1>p, <2>1, <2>2, QuietWakes DEF RunJob
<1>4. ASSUME NEW pslv \in {S0, S2}, CmdEmpty(pslv) PROVE WakeInv'
  BY <1>4, <1>p, <1>s, UnregisterWakes DEF CmdEmpty
<1>5. ASSUME NEW pslv \in {S0, S2}, CmdNoIo(pslv) PROVE WakeInv'
  BY <1>5, <1>p, <1>s, UnregisterWakes DEF CmdNoIo
<1>6. ASSUME NEW pslv \in {S0, S2}, CmdExit(pslv) PROVE WakeInv'
  BY <1>6, <1>p, <1>s, UnregisterWakes DEF CmdExit
<1>7. ASSUME NEW pslv \in {S0, S2}, XmitDone(pslv) PROVE WakeInv'
  BY <1>7, <1>p, <1>s, UnregisterWakes DEF XmitDone
<1>8. CASE CmdRegister
  BY <1>8, <1>p, <1>s, RegisterWakes DEF CmdRegister
<1>9. CASE XmitRegister
  BY <1>9, <1>p, <1>s, RegisterWakes DEF XmitRegister
<1>10. CASE CmdStop
  BY <1>10, <1>p, QuietWakes DEF CmdStop
<1>11. ASSUME NEW c \in Ctrls, LPS_Enter(c) PROVE WakeInv'
  BY <1>11, <1>p, QuietWakes DEF LPS_Enter
<1>12. ASSUME NEW c \in Ctrls, rtw_btcoex_LPS_Enter(c) PROVE WakeInv'
  BY <1>12, <1>p, QuietWakes DEF rtw_btcoex_LPS_Enter
<1>13. ASSUME NEW c \in Ctrls, LPS_Leave(c) PROVE WakeInv'
  BY <1>13, <1>p, QuietWakes DEF LPS_Leave
<1>14. ASSUME NEW c \in Ctrls, set_ps_mode_return(c) PROVE WakeInv'
  BY <1>14, <1>p, QuietWakes DEF set_ps_mode_return
<1>15. ASSUME NEW c \in Ctrls, set_ps_mode_h2c(c) PROVE WakeInv'
  <2>1. lock = c /\ \A q \in Procs : pc'[q] = IF q = c THEN "idle" ELSE pc[q]
    BY <1>15, <1>p DEF set_ps_mode_h2c, At, Goto, LockInv, IInv, TypeOK
  <2>2. cpwm >= S2
    BY <1>15, <1>p, <1>s DEF set_ps_mode_h2c, At, WakeInv
  <2>3. \A q \in Procs : pc'[q] \notin {"poll", "h2c"}
    BY <1>p, <2>1 DEF IInv, LockInv
  <2>4. cpwm \in Levels
    BY DEF IInv, TypeOK
  <2> QED
    BY <1>15, <1>p, <1>s, <2>1, <2>2, <2>3, <2>4
    DEF set_ps_mode_h2c, WakeInv, Levels, S0, S2, S4
<1>16. ASSUME NEW c \in Ctrls, NEW btClk \in BOOLEAN, set_ps_mode_enter(c, btClk)
       PROVE  WakeInv'
  <2>1. PICK lv \in {S0, S2} : /\ rtw_set_rpwm(c, lv, FALSE, "idle")
                               /\ lv = S0 => alives = {}
    <3>1. CASE alives = {} /\ ~btClk
      BY <1>16, <3>1 DEF set_ps_mode_enter
    <3>2. CASE ~(alives = {} /\ ~btClk)
      <4>1. S2 # S0
        BY DEF S0, S2
      <4> QED
        BY <1>16, <3>2, <4>1 DEF set_ps_mode_enter
    <3> QED
      BY <3>1, <3>2
  <2>2. inPS' = TRUE /\ lock = NoOne /\ alives' = alives
        /\ UNCHANGED <<removed, timer, wiQueued, fwClk, hcpwm>>
    BY <1>16 DEF set_ps_mode_enter
  <2>3. c \in Procs \ {WorkItem} /\ c \notin Tasks /\ lv \in {S0, S2, S4}
        /\ "idle" # "h2c"
    BY <1>p, <2>1
  <2> QED
    BY <1>p, <1>s, <2>1, <2>2, <2>3, SetRpwmWakes
<1>17. ASSUME NEW c \in Ctrls, set_ps_mode_leave(c) PROVE WakeInv'
  <2>1. /\ lock = NoOne /\ rtw_set_rpwm(c, S4, FALSE, "h2c")
        /\ UNCHANGED <<removed, inPS, alives, timer, wiQueued, fwClk, hcpwm>>
    BY <1>17 DEF set_ps_mode_leave
  <2>2. S4 >= S2 /\ S4 # S0
    BY DEF S0, S2, S4
  <2>3. c \in Procs \ {WorkItem} /\ c \notin Tasks
    BY <1>p
  <2> QED
    BY <1>p, <1>s, <2>1, <2>2, <2>3, SetRpwmWakes
<1>18. ASSUME NEW q \in Procs, PollOK(q) PROVE WakeInv'
  <2>1. /\ lock = q /\ pc[q] = "poll"
        /\ \A r \in Procs : pc'[r] = IF r = q THEN resume ELSE pc[r]
    BY <1>18, <1>p DEF PollOK, PollEnd, At, Goto, LockInv, IInv, TypeOK
  <2>2. \A r \in Procs : pc'[r] # "poll"
    BY <1>p, <2>1 DEF IInv, LockInv
  <2>3. fwClk = "40M" /\ rpwm \in Levels /\ q # WorkItem
    BY <1>18, <1>s, <2>1 DEF PollOK, WakeInv, IInv, TypeOK
  <2>4. /\ cpwm' = S4 /\ S4 >= S2
        /\ UNCHANGED <<removed, timer, wiQueued, fwClk, rpwm>>
    BY <1>18 DEF PollOK, S2, S4
  <2>5. S4 < S2 <=> FALSE
    BY DEF S2, S4
  <2> QED
    BY <1>p, <1>s, <2>1, <2>2, <2>3, <2>4, <2>5 DEF WakeInv
<1>19. ASSUME NEW q \in Procs, PollTimeout(q) PROVE WakeInv'
  BY <1>19, <1>s DEF PollTimeout, IInv, TypeOK
<1>20. CASE pwr_rpwm_timeout_handler
  BY <1>20, <1>s DEF pwr_rpwm_timeout_handler, WakeInv
<1>21. CASE WiStart
  BY <1>21, <1>s DEF WiStart, WakeInv
<1>22. CASE WiReadCR
  BY <1>22, <1>s DEF WiReadCR, At, WakeInv
<1>23. CASE cpwm_int_hdl
  BY <1>23, <1>s DEF cpwm_int_hdl, At, WakeInv
<1>24. CASE WiRetry
  BY <1>24, <1>s DEF WiRetry, At, WakeInv
<1>25. CASE FwHandleRpwm
  <2>1. rpwm >= S2 \/ cpwm >= S2 => ~hrpwm.k32
    BY <1>s DEF IInv, TypeOK, RequestInv, Levels, S0, S2, S4
  <2>2. ~hrpwm.k32 => fwClk' = "40M"
    BY <1>25 DEF FwHandleRpwm
  <2> QED
    BY <1>25, <1>s, <2>1, <2>2 DEF FwHandleRpwm, WakeInv
<1>26. ASSUME NEW t \in Tasks, NEW kind \in JobKinds, Enqueue(t, kind)
       PROVE  WakeInv'
  BY <1>26 DEF Enqueue, WakeInv
<1>27. ASSUME NEW level \in {"NORMAL", "LCLK"}, rtw_pm_set_lps_level(level)
       PROVE  WakeInv'
  BY <1>27 DEF rtw_pm_set_lps_level
<1>28. CASE StopDriver
  BY <1>28 DEF StopDriver, WakeInv
<1>29. CASE SurpriseRemove
  BY <1>29 DEF SurpriseRemove, WakeInv
<1>30. CASE UNCHANGED vars
  BY <1>30 DEF vars, WakeInv
<1> QED
  BY <1>1, <1>2, <1>3, <1>4, <1>5, <1>6, <1>7, <1>8, <1>9, <1>10, <1>11,
     <1>12, <1>13, <1>14, <1>15, <1>16, <1>17, <1>18, <1>19, <1>20, <1>21,
     <1>22, <1>23, <1>24, <1>25, <1>26, <1>27, <1>28, <1>29, <1>30
  DEF Next, ThreadStep, CmdStep, XmitStep, LpsStep, WiStep, EnvStep

(***************************************************************************)
(* I/O finds the firmware on its fast clock, for any number of LPS         *)
(* contexts and jobs, the driver stopped or not, as long as no polling     *)
(* runs into its time limit.  With a timeout it fails: rtw_set_ps_mode     *)
(* clears bFwCurrentInPSMode whatever the polling returned.                *)
(***************************************************************************)
THEOREM IOIsAwake ==
  ASSUME LevelIoctl = FALSE, MaxTimeouts = 0
  PROVE  Spec => []IOFindsFwAwake
<1>1. Init => WakeInv
  BY ProcsAssumption DEF Init, WakeInv, Procs, S0, S2, S4
<1>2. IInv /\ WakeInv /\ [Next]_vars => WakeInv'
  BY WakeNext
<1>3. IInv /\ WakeInv => IOFindsFwAwake
  <2> SUFFICES ASSUME IInv, WakeInv, NEW t \in Tasks, DoingIO(t), ~removed
               PROVE  fwClk = "40M"
    BY DEF IOFindsFwAwake
  <2>1. t \in alives
    BY DEF IInv, ThreadInv, DoingIO, At
  <2> QED
    BY <2>1 DEF WakeInv, DoingIO, At
<1> QED
  BY <1>1, <1>2, <1>3, HandshakeInvariant, PTL DEF Spec
==============================================================================
