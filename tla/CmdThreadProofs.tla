--------------------------- MODULE CmdThreadProofs ---------------------------
(***************************************************************************)
(* Proofs about CmdThread: the memory shared between the command thread and *)
(* its callers is never used after its owner gave it up, for any set of    *)
(* commands, any bounds, and any order of timeouts, refusals and closings, *)
(* provided no signal interrupts a caller that waits for sctx_mutex.       *)
(***************************************************************************)
EXTENDS CmdThread, SequenceTheorems, TLAPS

(***************************************************************************)
(* Type correctness.                                                       *)
(***************************************************************************)
LEMMA TypeInit == Init => TypeOK
<1> SUFFICES ASSUME Init PROVE TypeOK
  OBVIOUS
<1>1. queue \in Seq(Cmds)
  BY EmptySeq DEF Init
<1>2. /\ cpc \in [Cmds -> CallerLabels]
      /\ obj \in [Cmds -> {"none", "alloc", "freed"}]
      /\ status \in [Cmds -> {"none", "SUBMITTED", "SUCCESS", "ERROR", "DROP"}]
  BY DEF Init, CallerLabels
<1>3. objSctx \in [Cmds -> BOOLEAN] /\ done \in [Cmds -> BOOLEAN]
  BY DEF Init
<1>4. /\ tpc \in ThreadLabels /\ cur \in Cmds \cup {None} /\ res = "SUCCESS"
      /\ ifpc = "down" /\ sema = 0 /\ sessions = 0 /\ refusals = 0
  BY DEF Init, ThreadLabels
<1>5. /\ cannotRun \in BOOLEAN /\ hwInit \in BOOLEAN /\ running \in BOOLEAN
      /\ mutex \in BOOLEAN /\ waking \in BOOLEAN /\ lost \in BOOLEAN
  BY DEF Init
<1> QED
  BY <1>1, <1>2, <1>3, <1>4, <1>5 DEF TypeOK

\* Every step keeps the types; the thread only handles a command it has.
LEMMA TypeNext == TypeOK /\ LifeInv /\ [Next]_vars => TypeOK'
<1> SUFFICES ASSUME TypeOK, LifeInv, [Next]_vars PROVE TypeOK'
  OBVIOUS
<1> USE DEF TypeOK, ThreadLabels, CallerLabels, thVars, ifVars, regVars, ctxVars,
            CallerGoto
<1>q. queue # <<>> => Head(queue) \in Cmds /\ Tail(queue) \in Seq(Cmds)
  BY HeadTailProperties
<1>1. ASSUME NEW c \in Cmds, Submit(c) PROVE TypeOK'
  <2>1. objSctx' \in [Cmds -> BOOLEAN]
    <3>1. (c \in WaitCmds) \in BOOLEAN
      OBVIOUS
    <3> QED
      BY <1>1, <3>1 DEF Submit
  <2>2. /\ cpc' \in [Cmds -> CallerLabels]
        /\ obj' \in [Cmds -> {"none", "alloc", "freed"}]
    BY <1>1 DEF Submit
  <2>3. status' \in [Cmds -> {"none", "SUBMITTED", "SUCCESS", "ERROR", "DROP"}]
    BY <1>1 DEF Submit
  <2> QED
    BY <1>1, <2>1, <2>2, <2>3 DEF Submit
<1>2. ASSUME NEW c \in Cmds, Insert(c) PROVE TypeOK'
  <2>1. Append(queue, c) \in Seq(Cmds)
    BY <1>2, AppendProperties
  <2> QED
    BY <1>2, <2>1 DEF Insert
<1>3. ASSUME NEW c \in Cmds, UpSema(c) PROVE TypeOK'
  BY <1>3 DEF UpSema, AfterQueued
<1>4. ASSUME NEW c \in Cmds, SctxDone(c) PROVE TypeOK'
  BY <1>4 DEF SctxDone
<1>5. ASSUME NEW c \in Cmds, SctxTimeout(c) PROVE TypeOK'
  BY <1>5 DEF SctxTimeout
<1>6. ASSUME NEW c \in Cmds, Detach(c) PROVE TypeOK'
  BY <1>6 DEF Detach
<1>7. CASE ThreadStart
  BY <1>7 DEF ThreadStart
<1>8. CASE Down
  <2>1. lost' \in BOOLEAN
    BY <1>8 DEF Down
  <2> QED
    BY <1>8, <2>1 DEF Down
<1>9. CASE DownInterrupted
  BY <1>9 DEF DownInterrupted
<1>10. CASE Dequeue
  BY <1>10, <1>q DEF Dequeue
<1>11. CASE FilterDrop
  BY <1>11 DEF FilterDrop
<1>12. CASE RegisterRefused
  <2>1. cur \in Cmds
    BY <1>12 DEF RegisterRefused, LifeInv, Handling
  <2>2. <<cur>> \o queue \in Seq(Cmds)
    BY <2>1, ConcatProperties
  <2>3. waking' \in BOOLEAN
    BY <1>12 DEF RegisterRefused
  <2> QED
    BY <1>12, <2>2, <2>3 DEF RegisterRefused, Requeued
<1>13. ASSUME NEW r \in {"SUCCESS", "ERROR"}, Execute(r) PROVE TypeOK'
  BY <1>13 DEF Execute
<1>14. CASE cpwm_int_hdl \/ RpwmPolled
  <2>1. waking' \in BOOLEAN /\ lost' \in BOOLEAN
    BY <1>14 DEF cpwm_int_hdl, RpwmPolled
  <2>2. sema' \in Nat
    BY <1>14 DEF cpwm_int_hdl, RpwmPolled
  <2>3. UNCHANGED <<running, queue, thVars, ifVars, refusals, cpc, obj,
                    ctxVars>>
    BY <1>14 DEF cpwm_int_hdl, RpwmPolled
  <2> QED
    BY <2>1, <2>2, <2>3
<1>15. CASE PostLock
  BY <1>15 DEF PostLock
<1>16. CASE SctxStatus
  BY <1>16 DEF SctxStatus
<1>17. CASE SctxComplete
  BY <1>17 DEF SctxComplete
<1>18. CASE SctxNull
  BY <1>18 DEF SctxNull
<1>19. CASE FreeCmd
  BY <1>19 DEF FreeCmd
<1>20. CASE ThreadQuit
  BY <1>20 DEF ThreadQuit
<1>21. CASE Drain
  <2>1. CASE queue = <<>>
    BY <1>21, <2>1 DEF Drain
  <2>2. CASE queue # <<>>
    BY <1>21, <1>q, <2>2 DEF Drain
  <2> QED
    BY <2>1, <2>2
<1>22. CASE NetdevOpen
  <2>1. sessions' \in Nat
    BY <1>22 DEF NetdevOpen
  <2>2. cannotRun' \in BOOLEAN /\ hwInit' \in BOOLEAN
    BY <1>22 DEF NetdevOpen
  <2> QED
    BY <1>22, <2>1, <2>2 DEF NetdevOpen
<1>23. CASE IpsSwitch
  BY <1>23 DEF IpsSwitch
<1>24. CASE DevUnload
  BY <1>24 DEF DevUnload
<1>25. CASE StopCmdThread
  BY <1>25 DEF StopCmdThread
<1>26. CASE ThreadStopped
  BY <1>26 DEF ThreadStopped
<1>27. CASE UNCHANGED vars
  BY <1>27 DEF vars
<1>28. ASSUME NEW c \in Cmds, LockInterrupted(c) PROVE TypeOK'
  BY <1>28 DEF LockInterrupted
<1>29. ASSUME NEW c \in Cmds, DetachTest(c) PROVE TypeOK'
  <2>1. mutex' \in BOOLEAN
    BY <1>29 DEF DetachTest
  <2>2. cpc' \in [Cmds -> CallerLabels]
    BY <1>29 DEF DetachTest
  <2>3. UNCHANGED <<running, queue, sema, tpc, cur, res, ifVars, regVars, obj,
                    ctxVars>>
    BY <1>29 DEF DetachTest
  <2> QED
    BY <2>1, <2>2, <2>3
<1>30. ASSUME NEW c \in Cmds, DetachWrite(c) PROVE TypeOK'
  <2>1. objSctx' \in [Cmds -> BOOLEAN]
    BY <1>30 DEF DetachWrite
  <2>2. mutex' \in BOOLEAN
    BY <1>30 DEF DetachWrite
  <2>4. cpc' \in [Cmds -> CallerLabels]
    BY <1>30 DEF DetachWrite
  <2>3. UNCHANGED <<running, queue, sema, tpc, cur, res, ifVars, regVars, obj,
                    status, done>>
    BY <1>30 DEF DetachWrite
  <2> QED
    BY <2>1, <2>2, <2>3, <2>4
<1>31. ASSUME NEW c \in Cmds, CallerStep(c) PROVE TypeOK'
  BY <1>1, <1>2, <1>3, <1>4, <1>5, <1>6, <1>28, <1>29, <1>30, <1>31
  DEF CallerStep
<1>32. CASE ThreadStep
  BY <1>7, <1>8, <1>9, <1>10, <1>11, <1>12, <1>13, <1>15, <1>16, <1>17,
     <1>18, <1>19, <1>20, <1>21, <1>32
  DEF ThreadStep
<1> HIDE DEF TypeOK
<1> QED
  BY <1>14, <1>22, <1>23, <1>24, <1>25, <1>26, <1>27, <1>31, <1>32
  DEF Next, StopStep

(***************************************************************************)
(* Without signals nobody detaches a sctx without the mutex.               *)
(***************************************************************************)
LEMMA MutexNext ==
  ASSUME Signals = FALSE, IInv, [Next]_vars
  PROVE  MutexInv'
<1> USE DEF thVars, ifVars, regVars, ctxVars, CallerGoto
<1>l. TypeOK /\ MutexInv
  BY DEF IInv
<1>1. ASSUME NEW c \in Cmds, CallerStep(c) PROVE MutexInv'
  <2>1. cpc'[c] \notin {"nomutex", "tested"} /\ \A d \in Cmds \ {c} : cpc'[d] = cpc[d]
    <3>1. CASE Submit(c) \/ Insert(c)
      BY <1>l, <3>1 DEF Submit, Insert, TypeOK
    <3>2. CASE UpSema(c)
      BY <1>l, <3>2 DEF UpSema, AfterQueued, TypeOK
    <3>3. CASE SctxDone(c) \/ SctxTimeout(c)
      BY <1>l, <3>3 DEF SctxDone, SctxTimeout, TypeOK
    <3>4. CASE Detach(c)
      BY <1>l, <3>4 DEF Detach, TypeOK
    <3>5. ~(LockInterrupted(c) \/ DetachTest(c) \/ DetachWrite(c))
      BY <1>l DEF LockInterrupted, DetachTest, DetachWrite, MutexInv
    <3> QED
      BY <1>1, <3>1, <3>2, <3>3, <3>4, <3>5 DEF CallerStep
  <2> QED
    BY <1>l, <2>1 DEF MutexInv
<1>2. CASE ThreadStep
  <2>1. UNCHANGED cpc
    BY <1>2 DEF ThreadStep, ThreadStart, Down, DownInterrupted, Dequeue,
      FilterDrop, RegisterRefused, Execute, PostLock, SctxStatus, SctxComplete,
      SctxNull, FreeCmd, ThreadQuit, Drain
  <2> QED
    BY <1>l, <2>1 DEF MutexInv
<1>3. CASE cpwm_int_hdl \/ RpwmPolled \/ NetdevOpen \/ IpsSwitch \/ DevUnload \/ StopStep
  BY <1>3, <1>l DEF cpwm_int_hdl, RpwmPolled, NetdevOpen, IpsSwitch, DevUnload, StopStep,
    StopCmdThread, ThreadStopped, MutexInv
<1>4. CASE UNCHANGED vars
  BY <1>4, <1>l DEF vars, MutexInv
<1> QED
  BY <1>1, <1>2, <1>3, <1>4 DEF Next

(***************************************************************************)
(* The thread, its command and its mutex.                                  *)
(***************************************************************************)
LEMMA LifeNext ==
  ASSUME Signals = FALSE, IInv, [Next]_vars
  PROVE  LifeInv'
<1> USE DEF thVars, ifVars, regVars, ctxVars, CallerGoto
<1>l. TypeOK /\ LifeInv
  BY DEF IInv
<1>1. ASSUME NEW c \in Cmds, Submit(c) PROVE LifeInv'
  BY <1>1, <1>l DEF Submit, LifeInv, Handling
<1>2. ASSUME NEW c \in Cmds, Insert(c) PROVE LifeInv'
  BY <1>2, <1>l DEF Insert, LifeInv, Handling
<1>3. ASSUME NEW c \in Cmds, UpSema(c) PROVE LifeInv'
  BY <1>3, <1>l DEF UpSema, LifeInv, Handling
<1>4. ASSUME NEW c \in Cmds, SctxDone(c) PROVE LifeInv'
  BY <1>4, <1>l DEF SctxDone, LifeInv, Handling
<1>5. ASSUME NEW c \in Cmds, SctxTimeout(c) PROVE LifeInv'
  BY <1>5, <1>l DEF SctxTimeout, LifeInv, Handling
<1>6. ASSUME NEW c \in Cmds, Detach(c) PROVE LifeInv'
  BY <1>6, <1>l DEF Detach, LifeInv, Handling
<1>7. CASE ThreadStart
  BY <1>7, <1>l DEF ThreadStart, LifeInv, Handling
<1>8. CASE Down
  BY <1>8, <1>l DEF Down, LifeInv, Handling
<1>9. CASE DownInterrupted
  BY <1>9, <1>l DEF DownInterrupted, LifeInv, Handling
<1>10. CASE Dequeue
  <2>1. queue # <<>> => Head(queue) \in Cmds
    BY <1>l, HeadTailProperties DEF TypeOK
  <2> QED
    BY <1>10, <1>l, <2>1, CmdsAssumption DEF Dequeue, LifeInv, Handling
<1>11. CASE FilterDrop
  BY <1>11, <1>l DEF FilterDrop, LifeInv, Handling
<1>12. CASE RegisterRefused
  BY <1>12, <1>l DEF RegisterRefused, LifeInv, Handling
<1>13. ASSUME NEW r \in {"SUCCESS", "ERROR"}, Execute(r) PROVE LifeInv'
  BY <1>13, <1>l DEF Execute, LifeInv, Handling
<1>14. CASE cpwm_int_hdl \/ RpwmPolled
  BY <1>14, <1>l DEF cpwm_int_hdl, RpwmPolled, LifeInv, Handling
<1>15. CASE PostLock
  BY <1>15, <1>l DEF PostLock, LifeInv, Handling
<1>16. CASE SctxStatus
  BY <1>16, <1>l DEF SctxStatus, LifeInv, Handling
<1>17. CASE SctxComplete
  BY <1>17, <1>l DEF SctxComplete, LifeInv, Handling
<1>18. CASE SctxNull
  BY <1>18, <1>l DEF SctxNull, LifeInv, Handling
<1>19. CASE FreeCmd
  BY <1>19, <1>l DEF FreeCmd, LifeInv, Handling
<1>20. CASE ThreadQuit
  BY <1>20, <1>l DEF ThreadQuit, LifeInv, Handling
<1>21. CASE Drain
  <2>1. CASE queue # <<>>
    <3>1. Head(queue) \in Cmds /\ Head(queue) # None
      BY <1>l, <2>1, HeadTailProperties, CmdsAssumption DEF TypeOK
    <3>2. cur' # None /\ tpc' = "post" /\ ~mutex'
      BY <1>21, <1>l, <2>1, <3>1 DEF Drain, LifeInv
    <3> QED
      BY <1>21, <1>l, <3>2 DEF Drain, LifeInv, Handling
  <2>2. CASE queue = <<>>
    <3>1. ~running
      BY <1>21, <1>l DEF Drain, LifeInv
    <3> QED
      BY <1>21, <1>l, <2>2, <3>1 DEF Drain, LifeInv, Handling
  <2> QED
    BY <2>1, <2>2
<1>22. CASE NetdevOpen
  BY <1>22, <1>l DEF NetdevOpen, LifeInv, Handling
<1>23. CASE IpsSwitch
  BY <1>23, <1>l DEF IpsSwitch, LifeInv, Handling
<1>24. CASE DevUnload
  BY <1>24, <1>l DEF DevUnload, LifeInv, Handling
<1>25. CASE StopCmdThread
  BY <1>25, <1>l DEF StopCmdThread, LifeInv, Handling
<1>26. CASE ThreadStopped
  BY <1>26, <1>l DEF ThreadStopped, LifeInv, Handling
<1>27. CASE UNCHANGED vars
  BY <1>27 DEF vars, IInv, LifeInv, OwnedOnce
<1>28. ASSUME NEW c \in Cmds, LockInterrupted(c) \/ DetachTest(c) \/ DetachWrite(c) PROVE LifeInv'
  BY <1>28 DEF LockInterrupted, DetachTest, DetachWrite, IInv, MutexInv
<1> QED
  BY <1>1, <1>2, <1>3, <1>4, <1>5, <1>6, <1>7, <1>8, <1>9, <1>10, <1>11,
     <1>12, <1>13, <1>14, <1>15, <1>16, <1>17, <1>18, <1>19, <1>20, <1>21,
     <1>22, <1>23, <1>24, <1>25, <1>26, <1>27, <1>28
  DEF Next, CallerStep, ThreadStep, StopStep

(***************************************************************************)
(* The pointers between a command and the sctx of its caller.              *)
(***************************************************************************)
LEMMA CtxNext ==
  ASSUME Signals = FALSE, IInv, [Next]_vars
  PROVE  CtxInv'
<1> USE DEF thVars, ifVars, regVars, ctxVars, CallerGoto
<1>l. TypeOK /\ LifeInv /\ CtxInv /\ OwnInv
  BY DEF IInv
<1>1. ASSUME NEW c \in Cmds, Submit(c) PROVE CtxInv'
  <2>1. cpc[c] = "idle" /\ ~objSctx[c]
    BY <1>1, <1>l DEF Submit, CtxInv, TypeOK
  <2>2. \A d \in Cmds \ {c} : /\ cpc'[d] = cpc[d] /\ obj'[d] = obj[d]
                            /\ objSctx'[d] = objSctx[d] /\ status'[d] = status[d]
    BY <1>1, <1>l DEF Submit, TypeOK
  <2>3. /\ cpc'[c] = "filtered" => obj'[c] = "alloc" /\ objSctx'[c] = (c \in WaitCmds)
        /\ cpc'[c] \in {"filtered", "returned"}
        /\ cpc'[c] = "returned" => ~objSctx'[c]
        /\ status'[c] = "SUBMITTED" <=> c \in WaitCmds
    BY <1>1, <1>l, <2>1 DEF Submit, TypeOK, CtxInv
  <2>4. cur # c
    BY <1>1, <1>l, CmdsAssumption DEF Submit, OwnInv, CtxInv
  <2>5. tpc' = tpc /\ cur' = cur
    BY <1>1 DEF Submit
  <2>6. tpc \in {"status", "complete", "null", "free"} => cur \in Cmds \ {c}
    BY <1>l, <2>4 DEF TypeOK, LifeInv, Handling
  <2> QED
    BY <1>l, <2>2, <2>3, <2>5, <2>6 DEF CtxInv
<1>2. ASSUME NEW c \in Cmds, Insert(c) PROVE CtxInv'
  <2>1. /\ cpc[c] \notin {"idle", "returned"} /\ cpc'[c] # "idle"
        /\ cpc'[c] = "returned" => c \notin WaitCmds
        /\ \A d \in Cmds \ {c} : cpc'[d] = cpc[d]
    BY <1>2, <1>l DEF Insert, TypeOK
  <2> QED
    BY <1>2, <1>l, <2>1 DEF Insert, CtxInv
<1>3. ASSUME NEW c \in Cmds, UpSema(c) PROVE CtxInv'
  <2>1. /\ cpc[c] \notin {"idle", "returned"} /\ cpc'[c] # "idle"
        /\ cpc'[c] = "returned" => c \notin WaitCmds
        /\ \A d \in Cmds \ {c} : cpc'[d] = cpc[d]
    BY <1>3, <1>l DEF UpSema, TypeOK, AfterQueued
  <2> QED
    BY <1>3, <1>l, <2>1 DEF UpSema, CtxInv
<1>4. ASSUME NEW c \in Cmds, SctxDone(c) PROVE CtxInv'
  <2>1. /\ cpc[c] \notin {"idle", "returned"} /\ cpc'[c] # "idle"
        /\ cpc'[c] = "returned" => c \notin WaitCmds
        /\ \A d \in Cmds \ {c} : cpc'[d] = cpc[d]
    BY <1>4, <1>l DEF SctxDone, TypeOK
  <2> QED
    BY <1>4, <1>l, <2>1 DEF SctxDone, CtxInv
<1>5. ASSUME NEW c \in Cmds, SctxTimeout(c) PROVE CtxInv'
  <2>1. /\ cpc[c] \notin {"idle", "returned"} /\ cpc'[c] # "idle"
        /\ cpc'[c] = "returned" => c \notin WaitCmds
        /\ \A d \in Cmds \ {c} : cpc'[d] = cpc[d]
    BY <1>5, <1>l DEF SctxTimeout, TypeOK
  <2> QED
    BY <1>5, <1>l, <2>1 DEF SctxTimeout, CtxInv
<1>6. ASSUME NEW c \in Cmds, Detach(c) PROVE CtxInv'
  <2>1. tpc \notin {"status", "complete", "null"}
    BY <1>6, <1>l DEF Detach, LifeInv
  <2>2. /\ \A d \in Cmds \ {c} : cpc'[d] = cpc[d] /\ objSctx'[d] = objSctx[d]
        /\ cpc'[c] = "returned"
        /\ objSctx'[c] = (objSctx[c] /\ status[c] # "SUBMITTED")
    BY <1>6, <1>l DEF Detach, TypeOK
  <2>3. objSctx'[c] = FALSE
    BY <1>l, <2>1, <2>2 DEF CtxInv
  <2>4. tpc = "free" => cur \in Cmds
    BY <1>l DEF LifeInv, Handling, TypeOK
  <2> QED
    BY <1>6, <1>l, <2>1, <2>2, <2>3, <2>4 DEF Detach, CtxInv
<1>7. CASE ThreadStart
  BY <1>7, <1>l DEF ThreadStart, CtxInv, TypeOK, LifeInv, Handling
<1>8. CASE Down
  BY <1>8, <1>l DEF Down, CtxInv, TypeOK, LifeInv, Handling
<1>9. CASE DownInterrupted
  BY <1>9, <1>l DEF DownInterrupted, CtxInv, TypeOK, LifeInv, Handling
<1>10. CASE Dequeue
  BY <1>10, <1>l DEF Dequeue, CtxInv, TypeOK, LifeInv, Handling
<1>11. CASE FilterDrop
  BY <1>11, <1>l DEF FilterDrop, CtxInv, TypeOK, LifeInv, Handling
<1>12. CASE RegisterRefused
  BY <1>12, <1>l DEF RegisterRefused, CtxInv, TypeOK, LifeInv, Handling
<1>13. ASSUME NEW r \in {"SUCCESS", "ERROR"}, Execute(r) PROVE CtxInv'
  BY <1>13, <1>l DEF Execute, CtxInv, TypeOK, LifeInv, Handling
<1>14. CASE cpwm_int_hdl \/ RpwmPolled
  BY <1>14, <1>l DEF cpwm_int_hdl, RpwmPolled, CtxInv, TypeOK, LifeInv, Handling
<1>15. CASE PostLock
  BY <1>15, <1>l DEF PostLock, CtxInv, TypeOK, LifeInv, Handling
<1>16. CASE SctxStatus
  BY <1>16, <1>l DEF SctxStatus, CtxInv, TypeOK, LifeInv, Handling
<1>17. CASE SctxComplete
  BY <1>17, <1>l DEF SctxComplete, CtxInv, TypeOK, LifeInv, Handling
<1>18. CASE SctxNull
  BY <1>18, <1>l DEF SctxNull, CtxInv, TypeOK, LifeInv, Handling
<1>19. CASE FreeCmd
  BY <1>19, <1>l DEF FreeCmd, CtxInv, TypeOK, LifeInv, Handling
<1>20. CASE ThreadQuit
  BY <1>20, <1>l DEF ThreadQuit, CtxInv, TypeOK, LifeInv, Handling
<1>21. CASE Drain
  BY <1>21, <1>l DEF Drain, CtxInv, TypeOK, LifeInv, Handling
<1>22. CASE NetdevOpen
  BY <1>22, <1>l DEF NetdevOpen, CtxInv, TypeOK, LifeInv, Handling
<1>23. CASE IpsSwitch
  BY <1>23, <1>l DEF IpsSwitch, CtxInv, TypeOK, LifeInv, Handling
<1>24. CASE DevUnload
  BY <1>24, <1>l DEF DevUnload, CtxInv, TypeOK, LifeInv, Handling
<1>25. CASE StopCmdThread
  BY <1>25, <1>l DEF StopCmdThread, CtxInv, TypeOK, LifeInv, Handling
<1>26. CASE ThreadStopped
  BY <1>26, <1>l DEF ThreadStopped, CtxInv, TypeOK, LifeInv, Handling
<1>27. CASE UNCHANGED vars
  BY <1>27 DEF vars, IInv, CtxInv, OwnedOnce
<1>28. ASSUME NEW c \in Cmds, LockInterrupted(c) \/ DetachTest(c) \/ DetachWrite(c) PROVE CtxInv'
  BY <1>28 DEF LockInterrupted, DetachTest, DetachWrite, IInv, MutexInv
<1> QED
  BY <1>1, <1>2, <1>3, <1>4, <1>5, <1>6, <1>7, <1>8, <1>9, <1>10, <1>11,
     <1>12, <1>13, <1>14, <1>15, <1>16, <1>17, <1>18, <1>19, <1>20, <1>21,
     <1>22, <1>23, <1>24, <1>25, <1>26, <1>27, <1>28
  DEF Next, CallerStep, ThreadStep, StopStep

(***************************************************************************)
(* Who owns a command: its caller until it is queued, the queue, the thread. *)
(***************************************************************************)
LEMMA OwnNext ==
  ASSUME Signals = FALSE, IInv, [Next]_vars
  PROVE  OwnInv'
<1> USE DEF thVars, ifVars, regVars, ctxVars, CallerGoto
<1>l. TypeOK /\ LifeInv /\ CtxInv /\ OwnInv
  BY DEF IInv
<1>d. (\A i \in DOMAIN queue : queue[i] \in Cmds) /\ cur \in Cmds \cup {None}
  BY <1>l DEF TypeOK
<1>1. ASSUME NEW c \in Cmds, Submit(c) PROVE OwnInv'
  <2>1. c # cur /\ \A i \in DOMAIN queue : queue[i] # c
    BY <1>1, <1>l, CmdsAssumption DEF Submit, OwnInv
  <2>2. \A d \in Cmds \ {c} : cpc'[d] = cpc[d] /\ obj'[d] = obj[d]
    BY <1>1, <1>l DEF Submit, TypeOK
  <2>3. cpc'[c] = "filtered" => obj'[c] = "alloc"
    BY <1>1, <1>l DEF Submit, TypeOK
  <2>4. UNCHANGED <<queue, cur>>
    BY <1>1 DEF Submit
  <2> QED
    BY <1>l, <1>d, <2>1, <2>2, <2>3, <2>4 DEF OwnInv, OwnedOnce
<1>2. ASSUME NEW c \in Cmds, Insert(c) PROVE OwnInv'
  <2>1. c # cur /\ obj[c] = "alloc" /\ \A i \in DOMAIN queue : queue[i] # c
    BY <1>2, <1>l, CmdsAssumption DEF Insert, OwnInv
  <2>2. /\ DOMAIN queue' = DOMAIN queue \cup {Len(queue) + 1}
        /\ \A i \in DOMAIN queue : queue'[i] = queue[i]
        /\ queue'[Len(queue) + 1] = c
    BY <1>2, <1>l, AppendProperties DEF Insert, TypeOK
  <2>3. cpc'[c] = "inserted" /\ \A d \in Cmds \ {c} : cpc'[d] = cpc[d]
    BY <1>2, <1>l DEF Insert, TypeOK
  <2>4. UNCHANGED <<obj, cur>>
    BY <1>2 DEF Insert
  <2> QED
    BY <1>l, <1>d, <2>1, <2>2, <2>3, <2>4 DEF OwnInv, OwnedOnce
<1>3. ASSUME NEW c \in Cmds, UpSema(c) PROVE OwnInv'
  <2>1. cpc'[c] \notin {"idle", "filtered"} /\ \A d \in Cmds \ {c} : cpc'[d] = cpc[d]
    BY <1>3, <1>l DEF UpSema, TypeOK, AfterQueued
  <2>2. UNCHANGED <<queue, cur, obj>>
    BY <1>3 DEF UpSema
  <2> QED
    BY <1>l, <1>d, <2>1, <2>2 DEF OwnInv, OwnedOnce
<1>4. ASSUME NEW c \in Cmds, SctxDone(c) PROVE OwnInv'
  <2>1. cpc'[c] \notin {"idle", "filtered"} /\ \A d \in Cmds \ {c} : cpc'[d] = cpc[d]
    BY <1>4, <1>l DEF SctxDone, TypeOK
  <2>2. UNCHANGED <<queue, cur, obj>>
    BY <1>4 DEF SctxDone
  <2> QED
    BY <1>l, <1>d, <2>1, <2>2 DEF OwnInv, OwnedOnce
<1>5. ASSUME NEW c \in Cmds, SctxTimeout(c) PROVE OwnInv'
  <2>1. cpc'[c] \notin {"idle", "filtered"} /\ \A d \in Cmds \ {c} : cpc'[d] = cpc[d]
    BY <1>5, <1>l DEF SctxTimeout, TypeOK
  <2>2. UNCHANGED <<queue, cur, obj>>
    BY <1>5 DEF SctxTimeout
  <2> QED
    BY <1>l, <1>d, <2>1, <2>2 DEF OwnInv, OwnedOnce
<1>6. ASSUME NEW c \in Cmds, Detach(c) PROVE OwnInv'
  <2>1. cpc'[c] \notin {"idle", "filtered"} /\ \A d \in Cmds \ {c} : cpc'[d] = cpc[d]
    BY <1>6, <1>l DEF Detach, TypeOK
  <2>2. UNCHANGED <<queue, cur, obj>>
    BY <1>6 DEF Detach
  <2> QED
    BY <1>l, <1>d, <2>1, <2>2 DEF OwnInv, OwnedOnce
<1>7. CASE ThreadStart
  BY <1>7, <1>l DEF ThreadStart, OwnInv, OwnedOnce
<1>8. CASE Down
  BY <1>8, <1>l DEF Down, OwnInv, OwnedOnce
<1>9. CASE DownInterrupted
  BY <1>9, <1>l DEF DownInterrupted, OwnInv, OwnedOnce
<1>10. CASE Dequeue
  <2>1. CASE UNCHANGED <<queue, cur>>
    BY <1>10, <1>l, <2>1 DEF Dequeue, OwnInv, OwnedOnce
  <2>2. CASE queue # <<>> /\ cur' = Head(queue) /\ queue' = Tail(queue)
    <3>1. /\ 1 \in DOMAIN queue /\ cur' = queue[1]
          /\ DOMAIN queue' = 1 .. Len(queue) - 1
          /\ DOMAIN queue = 1 .. Len(queue) /\ Len(queue) \in Nat
      BY <1>l, <2>2, HeadTailProperties DEF TypeOK
    <3>2. \A i \in DOMAIN queue' : i + 1 \in DOMAIN queue /\ queue'[i] = queue[i + 1]
      BY <1>l, <2>2, <3>1, HeadTailProperties DEF TypeOK
    <3>3. \A i \in DOMAIN queue' : queue'[i] # cur'
      BY <1>l, <3>1, <3>2 DEF OwnInv, OwnedOnce
    <3>4. \A i, j \in DOMAIN queue' : queue'[i] = queue'[j] => i = j
      BY <1>l, <3>1, <3>2 DEF OwnInv, OwnedOnce
    <3>5. UNCHANGED <<obj, cpc>>
      BY <1>10 DEF Dequeue
    <3> QED
      BY <1>l, <3>1, <3>2, <3>3, <3>4, <3>5 DEF OwnInv, OwnedOnce
  <2> QED
    BY <1>10, <2>1, <2>2 DEF Dequeue
<1>11. CASE FilterDrop
  BY <1>11, <1>l DEF FilterDrop, OwnInv, OwnedOnce
<1>12. CASE RegisterRefused
  <2>1. cur \in Cmds /\ cur # None /\ cur' = None
    BY <1>12, <1>l DEF RegisterRefused, LifeInv, Handling, TypeOK
  <2>2. /\ DOMAIN queue = 1 .. Len(queue) /\ Len(queue) \in Nat
        /\ DOMAIN queue' = 1 .. Len(queue) + 1 /\ queue'[1] = cur
        /\ \A i \in DOMAIN queue' : i # 1 => i - 1 \in DOMAIN queue /\ queue'[i] = queue[i - 1]
    BY <1>12, <1>l, <2>1 DEF RegisterRefused, Requeued, TypeOK
  <2>3. \A i \in DOMAIN queue' :
           obj[queue'[i]] = "alloc" /\ cpc[queue'[i]] \notin {"idle", "filtered"}
    BY <1>l, <2>1, <2>2 DEF OwnInv, OwnedOnce
  <2>4. \A i \in DOMAIN queue' : queue'[i] \in Cmds
    BY <1>l, <1>d, <2>1, <2>2
  <2>5. \A i, j \in DOMAIN queue' : queue'[i] = queue'[j] => i = j
    BY <1>l, <2>1, <2>2 DEF OwnInv, OwnedOnce
  <2>6. UNCHANGED <<obj, cpc>>
    BY <1>12 DEF RegisterRefused
  <2> QED
    BY <1>l, <2>1, <2>3, <2>4, <2>5, <2>6, CmdsAssumption DEF OwnInv, OwnedOnce
<1>13. ASSUME NEW r \in {"SUCCESS", "ERROR"}, Execute(r) PROVE OwnInv'
  BY <1>13, <1>l DEF Execute, OwnInv, OwnedOnce
<1>14. CASE cpwm_int_hdl \/ RpwmPolled
  BY <1>14, <1>l DEF cpwm_int_hdl, RpwmPolled, OwnInv, OwnedOnce
<1>15. CASE PostLock
  BY <1>15, <1>l DEF PostLock, OwnInv, OwnedOnce
<1>16. CASE SctxStatus
  BY <1>16, <1>l DEF SctxStatus, OwnInv, OwnedOnce
<1>17. CASE SctxComplete
  BY <1>17, <1>l DEF SctxComplete, OwnInv, OwnedOnce
<1>18. CASE SctxNull
  BY <1>18, <1>l DEF SctxNull, OwnInv, OwnedOnce
<1>19. CASE FreeCmd
  <2>1. cur \in Cmds /\ cur # None /\ cur' = None
    BY <1>19, <1>l DEF FreeCmd, LifeInv, Handling, TypeOK
  <2>2. \A d \in Cmds \ {cur} : obj'[d] = obj[d]
    BY <1>19, <1>l DEF FreeCmd, TypeOK
  <2>3. UNCHANGED <<queue, cpc>>
    BY <1>19 DEF FreeCmd
  <2> QED
    BY <1>l, <1>d, <2>1, <2>2, <2>3, CmdsAssumption DEF OwnInv, OwnedOnce
<1>20. CASE ThreadQuit
  BY <1>20, <1>l DEF ThreadQuit, OwnInv, OwnedOnce
<1>21. CASE Drain
  <2>1. CASE UNCHANGED <<queue, cur>>
    BY <1>21, <1>l, <2>1 DEF Drain, OwnInv, OwnedOnce
  <2>2. CASE queue # <<>> /\ cur' = Head(queue) /\ queue' = Tail(queue)
    <3>1. /\ 1 \in DOMAIN queue /\ cur' = queue[1]
          /\ DOMAIN queue' = 1 .. Len(queue) - 1
          /\ DOMAIN queue = 1 .. Len(queue) /\ Len(queue) \in Nat
      BY <1>l, <2>2, HeadTailProperties DEF TypeOK
    <3>2. \A i \in DOMAIN queue' : i + 1 \in DOMAIN queue /\ queue'[i] = queue[i + 1]
      BY <1>l, <2>2, <3>1, HeadTailProperties DEF TypeOK
    <3>3. \A i \in DOMAIN queue' : queue'[i] # cur'
      BY <1>l, <3>1, <3>2 DEF OwnInv, OwnedOnce
    <3>4. \A i, j \in DOMAIN queue' : queue'[i] = queue'[j] => i = j
      BY <1>l, <3>1, <3>2 DEF OwnInv, OwnedOnce
    <3>5. UNCHANGED <<obj, cpc>>
      BY <1>21 DEF Drain
    <3> QED
      BY <1>l, <3>1, <3>2, <3>3, <3>4, <3>5 DEF OwnInv, OwnedOnce
  <2> QED
    BY <1>21, <2>1, <2>2 DEF Drain
<1>22. CASE NetdevOpen
  BY <1>22, <1>l DEF NetdevOpen, OwnInv, OwnedOnce
<1>23. CASE IpsSwitch
  BY <1>23, <1>l DEF IpsSwitch, OwnInv, OwnedOnce
<1>24. CASE DevUnload
  BY <1>24, <1>l DEF DevUnload, OwnInv, OwnedOnce
<1>25. CASE StopCmdThread
  BY <1>25, <1>l DEF StopCmdThread, OwnInv, OwnedOnce
<1>26. CASE ThreadStopped
  BY <1>26, <1>l DEF ThreadStopped, OwnInv, OwnedOnce
<1>27. CASE UNCHANGED vars
  BY <1>27 DEF vars, IInv, OwnInv, OwnedOnce
<1>28. ASSUME NEW c \in Cmds, LockInterrupted(c) \/ DetachTest(c) \/ DetachWrite(c) PROVE OwnInv'
  BY <1>28 DEF LockInterrupted, DetachTest, DetachWrite, IInv, MutexInv
<1> QED
  BY <1>1, <1>2, <1>3, <1>4, <1>5, <1>6, <1>7, <1>8, <1>9, <1>10, <1>11,
     <1>12, <1>13, <1>14, <1>15, <1>16, <1>17, <1>18, <1>19, <1>20, <1>21,
     <1>22, <1>23, <1>24, <1>25, <1>26, <1>27, <1>28
  DEF Next, CallerStep, ThreadStep, StopStep

(***************************************************************************)
(* The callers' view.                                                      *)
(***************************************************************************)
LEMMA CallNext ==
  ASSUME Signals = FALSE, IInv, [Next]_vars
  PROVE  CallInv'
<1> USE DEF thVars, ifVars, regVars, ctxVars, CallerGoto
<1>l. /\ TypeOK /\ CallInv /\ CtxInv /\ OwnInv /\ LifeInv /\ MutexInv
  BY DEF IInv
<1>1. ASSUME NEW c \in Cmds, Submit(c) PROVE CallInv'
  <2>1. UNCHANGED done /\ ~done[c] /\ cpc'[c] # "idle"
    BY <1>1, <1>l DEF Submit, CallInv, TypeOK
  <2>2. c \in WaitCmds => status'[c] = "SUBMITTED"
    BY <1>1, <1>l DEF Submit, TypeOK
  <2>3. \A d \in Cmds \ {c} : cpc'[d] = cpc[d] /\ obj'[d] = obj[d]
                               /\ status'[d] = status[d]
    BY <1>1, <1>l DEF Submit, TypeOK
  <2> QED
    BY <2>1, <2>2, <2>3, <1>l DEF CallInv
<1>2. ASSUME NEW c \in Cmds, CallerStep(c), ~Submit(c) PROVE CallInv'
  <2>1. UNCHANGED <<obj, done, status>>
    BY <1>2 DEF CallerStep, Insert, UpSema, SctxDone, SctxTimeout, Detach,
      LockInterrupted, DetachTest, DetachWrite
  <2>2. cpc[c] # "idle" /\ cpc'[c] # "idle"
        /\ \A d \in Cmds \ {c} : cpc'[d] = cpc[d]
    BY <1>2, <1>l DEF CallerStep, Insert, UpSema, SctxDone, SctxTimeout, Detach,
      LockInterrupted, DetachTest, DetachWrite, AfterQueued, TypeOK
  <2> QED
    BY <2>1, <2>2, <1>l DEF CallInv
<1>3. CASE SctxStatus
  <2>1. cur \in Cmds /\ res \in Results /\ res # "none"
    BY <1>3, <1>l DEF SctxStatus, TypeOK, LifeInv, Handling, Results
  <2>2. status' = [status EXCEPT ![cur] = res] /\ UNCHANGED <<cpc, obj, done>>
    BY <1>3 DEF SctxStatus
  <2> QED
    BY <2>1, <2>2, <1>l DEF CallInv, TypeOK
<1>4. CASE SctxComplete
  <2>1. cur \in Cmds /\ cpc[cur] # "idle" /\ cur \in WaitCmds
        /\ status[cur] # "SUBMITTED"
    BY <1>4, <1>l DEF SctxComplete, TypeOK, LifeInv, Handling, CtxInv
  <2>2. status[cur] \in Results
    BY <2>1, <1>l DEF CallInv, TypeOK, Results
  <2>3. done' = [done EXCEPT ![cur] = TRUE] /\ UNCHANGED <<cpc, obj, status>>
    BY <1>4 DEF SctxComplete
  <2> QED
    BY <2>1, <2>2, <2>3, <1>l DEF CallInv, TypeOK
<1>5. CASE FreeCmd
  <2>1. cur \in Cmds /\ cpc[cur] # "idle"
    BY <1>5, <1>l DEF FreeCmd, TypeOK, LifeInv, Handling, OwnInv
  <2>2. obj' = [obj EXCEPT ![cur] = "freed"] /\ UNCHANGED <<cpc, done, status>>
    BY <1>5 DEF FreeCmd
  <2> QED
    BY <2>1, <2>2, <1>l DEF CallInv, TypeOK
<1>6. CASE ThreadStep /\ ~SctxStatus /\ ~SctxComplete /\ ~FreeCmd
  <2>1. UNCHANGED <<cpc, obj, done, status>>
    BY <1>6 DEF ThreadStep, ThreadStart, Down, DownInterrupted, Dequeue,
      FilterDrop, RegisterRefused, Execute, PostLock, SctxNull, ThreadQuit, Drain
  <2> QED
    BY <2>1, <1>l DEF CallInv
<1>7. CASE cpwm_int_hdl \/ RpwmPolled \/ NetdevOpen \/ IpsSwitch \/ DevUnload \/ StopStep
  BY <1>7, <1>l DEF cpwm_int_hdl, RpwmPolled, NetdevOpen, IpsSwitch, DevUnload, StopStep,
    StopCmdThread, ThreadStopped, CallInv
<1>8. CASE UNCHANGED vars
  BY <1>8, <1>l DEF vars, CallInv
<1> QED
  BY <1>1, <1>2, <1>3, <1>4, <1>5, <1>6, <1>7, <1>8 DEF Next

\* rtw_init_cmd_priv establishes the invariant.
LEMMA IInvInit == Init => IInv
<1> SUFFICES ASSUME Init PROVE IInv
  OBVIOUS
<1>1. TypeOK
  BY TypeInit
<1>2. LifeInv
  BY DEF Init, LifeInv, Handling
<1>3. CtxInv
  BY DEF Init, CtxInv
<1>4. OwnInv
  BY DEF Init, OwnInv, OwnedOnce
<1>5. MutexInv
  BY DEF Init, MutexInv
<1>6. CallInv
  BY DEF Init, CallInv
<1> QED
  BY <1>1, <1>2, <1>3, <1>4, <1>5, <1>6 DEF IInv

(***************************************************************************)
(* The inductive invariant holds throughout.                               *)
(***************************************************************************)
THEOREM CommandInvariant == ASSUME Signals = FALSE PROVE Spec => []IInv
<1>1. IInv /\ [Next]_vars => IInv'
  BY TypeNext, MutexNext, LifeNext, CtxNext, OwnNext, CallNext DEF IInv
<1> QED
  BY <1>1, IInvInit, PTL DEF Spec

(***************************************************************************)
(* The thread never writes the status or the completion of a caller that has *)
(* returned, however its timeout falls.                                    *)
(***************************************************************************)
THEOREM ThreadNeverWritesDeadSctx ==
  ASSUME Signals = FALSE PROVE Spec => []NoDanglingSctx
<1>1. IInv => NoDanglingSctx
  BY CmdsAssumption DEF IInv, NoDanglingSctx, CtxInv, LifeInv, Handling, TypeOK
<1> QED
  BY <1>1, CommandInvariant, PTL

(***************************************************************************)
(* A caller that gives up never writes to a cmd_obj the thread has freed.  *)
(***************************************************************************)
THEOREM CallerNeverWritesFreedCmd ==
  ASSUME Signals = FALSE PROVE Spec => []NoFreedCmdWrite
<1>1. IInv => NoFreedCmdWrite
  BY CmdsAssumption DEF IInv, NoFreedCmdWrite, CtxInv, MutexInv
<1> QED
  BY <1>1, CommandInvariant, PTL

(***************************************************************************)
(* Every pending cmd_obj is allocated and pending once: no double free.    *)
(***************************************************************************)
THEOREM CommandsOwnedOnce ==
  ASSUME Signals = FALSE PROVE Spec => []OwnedOnce
<1>1. IInv => OwnedOnce
  BY CmdsAssumption DEF IInv, OwnInv
<1> QED
  BY <1>1, CommandInvariant, PTL

(***************************************************************************)
(* The warning "cmd_thread not stop !!" of rtw_dev_unload is never reached. *)
(***************************************************************************)
THEOREM UnloadFindsThreadStopped ==
  ASSUME Signals = FALSE PROVE Spec => []StoppedNotRunning
<1>1. IInv => StoppedNotRunning
  BY CmdsAssumption DEF IInv, StoppedNotRunning, LifeInv
<1> QED
  BY <1>1, CommandInvariant, PTL

(***************************************************************************)
(* The types hold throughout.                                              *)
(***************************************************************************)
THEOREM TypeCorrect == ASSUME Signals = FALSE PROVE Spec => []TypeOK
<1>1. IInv => TypeOK
  BY CmdsAssumption DEF IInv
<1> QED
  BY <1>1, CommandInvariant, PTL

(***************************************************************************)
(* A caller that is woken by the completion finds the result.              *)
(***************************************************************************)
THEOREM CompletionCarriesResult ==
  ASSUME Signals = FALSE PROVE Spec => []CompletedHasResult
<1>1. IInv => CompletedHasResult
  BY CmdsAssumption DEF IInv, CallInv, CompletedHasResult, Results
<1> QED
  BY <1>1, CommandInvariant, PTL


------------------------------------------------------------------------------
(***************************************************************************)
(* The command thread implements CmdService, for any set of commands and   *)
(* any number of sessions, refusals and timeouts, as long as no signal     *)
(* interrupts a caller that waits for sctx_mutex.                          *)
(*                                                                         *)
(* Four kinds of step show to the caller of the service: a command enters  *)
(* the queue or is refused, its caller is told, it is freed, its caller    *)
(* returns.  Taking a command into the hand, putting it back and draining  *)
(* leave the service's queue as it is.                                     *)
(***************************************************************************)

(***************************************************************************)
(* Putting a command before a queue: it is the head of what comes out, and *)
(* appending at the other end does not see it.                             *)
(***************************************************************************)
LEMMA FrontProperties ==
  ASSUME NEW S, NEW c \in S, NEW q \in Seq(S)
  PROVE  /\ <<c>> \o q \in Seq(S) /\ <<c>> \o q # <<>>
         /\ Head(<<c>> \o q) = c /\ Tail(<<c>> \o q) = q
<1>1. <<c>> \in Seq(S) /\ Len(<<c>>) = 1 /\ <<c>>[1] = c
  OBVIOUS
<1>2. /\ <<c>> \o q \in Seq(S) /\ Len(<<c>> \o q) = 1 + Len(q)
      /\ \A i \in 1 .. 1 + Len(q) :
           (<<c>> \o q)[i] = IF i <= 1 THEN <<c>>[i] ELSE q[i - 1]
  BY <1>1, ConcatProperties
<1>3. Len(q) \in Nat
  BY LenProperties
<1>4. <<c>> \o q # <<>>
  BY <1>2, <1>3, EmptySeq
<1>5. Head(<<c>> \o q) = c
  BY <1>1, <1>2, <1>3, <1>4, HeadTailProperties
<1>6. /\ Tail(<<c>> \o q) \in Seq(S) /\ Len(Tail(<<c>> \o q)) = Len(q)
      /\ \A i \in 1 .. Len(q) : Tail(<<c>> \o q)[i] = (<<c>> \o q)[i + 1]
  BY <1>2, <1>3, <1>4, HeadTailProperties
<1>7. \A i \in 1 .. Len(q) : Tail(<<c>> \o q)[i] = q[i]
  BY <1>2, <1>3, <1>6
<1>8. Tail(<<c>> \o q) = q
  BY <1>6, <1>7, SeqEqual
<1> QED
  BY <1>2, <1>4, <1>5, <1>8

\* A command at the end of the queue is behind the one in hand.
LEMMA FrontAppend ==
  ASSUME NEW S, NEW c \in S, NEW d \in S, NEW q \in Seq(S)
  PROVE  <<c>> \o Append(q, d) = Append(<<c>> \o q, d)
<1>1. <<c>> \in Seq(S) /\ <<d>> \in Seq(S) /\ <<c>> \o q \in Seq(S)
  BY ConcatProperties
<1>2. Append(q, d) = q \o <<d>> /\ Append(<<c>> \o q, d) = (<<c>> \o q) \o <<d>>
  BY <1>1, AppendIsConcat
<1>3. <<c>> \o (q \o <<d>>) = (<<c>> \o q) \o <<d>>
  BY <1>1, ConcatAssociative
<1> QED
  BY <1>2, <1>3

\* Putting the command in hand back at the head restores the queue.
LEMMA FrontBack ==
  ASSUME NEW S, NEW q \in Seq(S), q # <<>>
  PROVE  <<Head(q)>> \o Tail(q) = q
<1>1. /\ Head(q) \in S /\ Tail(q) \in Seq(S) /\ Len(Tail(q)) = Len(q) - 1
      /\ \A i \in 1 .. Len(Tail(q)) : Tail(q)[i] = q[i + 1]
      /\ Head(q) = q[1]
  BY HeadTailProperties
<1>2. Len(q) \in Nat /\ Len(q) # 0
  BY LenProperties, EmptySeq
<1>3. <<Head(q)>> \in Seq(S) /\ Len(<<Head(q)>>) = 1 /\ <<Head(q)>>[1] = Head(q)
  BY <1>1
<1>4. /\ <<Head(q)>> \o Tail(q) \in Seq(S)
      /\ Len(<<Head(q)>> \o Tail(q)) = 1 + Len(Tail(q))
      /\ \A i \in 1 .. 1 + Len(Tail(q)) :
           (<<Head(q)>> \o Tail(q))[i]
             = IF i <= 1 THEN <<Head(q)>>[i] ELSE Tail(q)[i - 1]
  BY <1>1, <1>3, ConcatProperties
<1>5. \A i \in 1 .. Len(q) : (<<Head(q)>> \o Tail(q))[i] = q[i]
  BY <1>1, <1>2, <1>3, <1>4
<1> QED
  BY <1>1, <1>2, <1>4, <1>5, SeqEqual

(***************************************************************************)
(* A step that leaves the callers' places, the memory and the results      *)
(* alone, and the service's queue too, is invisible.                       *)
(***************************************************************************)
LEMMA Invisible ==
  ASSUME UNCHANGED <<cpc, obj, status>>, Todo' = Todo
  PROVE  UNCHANGED Service!svars
BY DEF Service!svars, Fate, Answer, Returned

(***************************************************************************)
(* What the callers do, as the service sees it.                            *)
(***************************************************************************)
LEMMA CallerImplements ==
  ASSUME Signals = FALSE, IInv, NEW c \in Cmds, CallerStep(c)
  PROVE  Service!Next \/ UNCHANGED Service!svars
<1> USE DEF CallerGoto, thVars, Todo
<1>i. TypeOK /\ CallInv /\ CtxInv /\ OwnInv /\ LifeInv /\ MutexInv
  BY DEF IInv
<1>t. cpc \in [Cmds -> CallerLabels]
      /\ obj \in [Cmds -> {"none", "alloc", "freed"}]
      /\ status \in [Cmds -> {"none", "SUBMITTED", "SUCCESS", "ERROR", "DROP"}]
      /\ queue \in Seq(Cmds) /\ cur \in Cmds \cup {None}
  BY <1>i DEF TypeOK
<1>1. CASE Submit(c) /\ rtw_cmd_filter(c)
  <2>1. cpc[c] = "idle" /\ obj[c] = "none" /\ status[c] = "none"
    BY <1>1, <1>i DEF Submit, CallInv, CtxInv
  <2>2. Todo' = Todo
    BY <1>1 DEF Submit
  <2>3. Fate' = Fate
    BY <1>1, <1>t, <2>1 DEF Submit, Fate
  <2>4. Answer' = Answer
    BY <1>1, <1>t, <2>1 DEF Submit, Answer, Results
  <2>5. Returned' = Returned
    BY <1>1, <1>t, <2>1 DEF Submit, Returned
  <2> QED
    BY <2>2, <2>3, <2>4, <2>5 DEF Service!svars
<1>2. CASE Submit(c) /\ ~rtw_cmd_filter(c)
  <2>1. cpc[c] = "idle" /\ obj[c] = "none" /\ status[c] = "none"
    BY <1>2, <1>i DEF Submit, CallInv, CtxInv
  <2>2. Todo' = Todo
    BY <1>2 DEF Submit
  <2>3. Fate[c] = "new" /\ Fate' = [Fate EXCEPT ![c] = "gone"]
    BY <1>2, <1>t, <2>1 DEF Submit, Fate
  <2>4. Answer' = Answer
    BY <1>2, <1>t, <2>1 DEF Submit, Answer, Results
  <2>5. Returned' = [Returned EXCEPT ![c] = TRUE]
    BY <1>2, <1>t, <2>1 DEF Submit, Returned
  <2>6. Service!Refuse(c)
    BY <2>2, <2>3, <2>4, <2>5 DEF Service!Refuse
  <2> QED
    BY <2>6 DEF Service!Next
<1>3. CASE Insert(c)
  <2>1. cpc[c] = "filtered" /\ obj[c] = "alloc"
    BY <1>3, <1>i DEF Insert, OwnInv
  <2>2. Todo' = Append(Todo, c)
    <3>1. CASE cur = None
      BY <1>3, <3>1 DEF Insert
    <3>2. CASE cur # None
      <4>1. Todo' = <<cur>> \o Append(queue, c)
        BY <1>3, <3>2 DEF Insert
      <4>2. cur \in Cmds
        BY <1>t, <3>2
      <4> QED
        BY <1>t, <3>2, <4>1, <4>2, FrontAppend
    <3> QED
      BY <3>1, <3>2
  <2>3. Fate[c] = "new" /\ Fate' = [Fate EXCEPT ![c] = "accepted"]
    BY <1>3, <1>t, <2>1 DEF Insert, Fate, ctxVars
  <2>4. Answer' = Answer /\ Returned' = Returned
    BY <1>3, <1>t, <2>1 DEF Insert, Answer, Returned, ctxVars
  <2>5. Service!Accept(c)
    BY <2>2, <2>3, <2>4 DEF Service!Accept
  <2> QED
    BY <2>5 DEF Service!Next
<1>4. ASSUME cpc[c] \in {"inserted", "waiting", "woken"}, cpc'[c] = "returned",
             cpc' = [cpc EXCEPT ![c] = "returned"],
             UNCHANGED <<queue, cur, obj, status>>
      PROVE  Service!Next
  <2>1. Todo' = Todo
    BY <1>4
  <2>2. Fate[c] # "new" /\ Fate' = Fate
    BY <1>4, <1>t DEF Fate
  <2>3. Answer' = Answer
    BY <1>4 DEF Answer
  <2>4. ~Returned[c] /\ Returned' = [Returned EXCEPT ![c] = TRUE]
    BY <1>4, <1>t DEF Returned
  <2>5. Service!Return(c)
    BY <2>1, <2>2, <2>3, <2>4 DEF Service!Return
  <2> QED
    BY <2>5 DEF Service!Next
<1>5. ASSUME NEW l \in {"waiting", "woken"},
             cpc[c] \in {"inserted", "waiting"},
             cpc' = [cpc EXCEPT ![c] = l],
             UNCHANGED <<queue, cur, obj, status>>
      PROVE  UNCHANGED Service!svars
  <2>1. Todo' = Todo
    BY <1>5
  <2>2. Fate' = Fate
    BY <1>5, <1>t DEF Fate
  <2>3. Answer' = Answer
    BY <1>5 DEF Answer
  <2>4. Returned' = Returned
    BY <1>5, <1>t DEF Returned
  <2> QED
    BY <2>1, <2>2, <2>3, <2>4 DEF Service!svars
<1>6. CASE UpSema(c)
  <2>1. CASE c \in WaitCmds
    BY <1>5, <1>6, <2>1 DEF UpSema, AfterQueued, ctxVars
  <2>2. CASE c \notin WaitCmds
    BY <1>4, <1>6, <1>t, <2>2 DEF UpSema, AfterQueued, ctxVars
  <2> QED
    BY <2>1, <2>2
<1>7. CASE SctxDone(c) \/ SctxTimeout(c)
  BY <1>5, <1>7 DEF SctxDone, SctxTimeout, ctxVars
<1>8. CASE Detach(c)
  BY <1>4, <1>8, <1>t DEF Detach
<1>9. CASE LockInterrupted(c) \/ DetachTest(c) \/ DetachWrite(c)
  BY <1>9, <1>i DEF LockInterrupted, DetachTest, DetachWrite, MutexInv
<1> QED
  BY <1>1, <1>2, <1>3, <1>6, <1>7, <1>8, <1>9 DEF CallerStep

(***************************************************************************)
(* What the thread does, as the service sees it.                           *)
(***************************************************************************)
LEMMA ThreadImplements ==
  ASSUME IInv, ThreadStep
  PROVE  Service!Next \/ UNCHANGED Service!svars
<1> USE DEF thVars, ctxVars
<1>i. TypeOK /\ CallInv /\ CtxInv /\ OwnInv /\ LifeInv
  BY DEF IInv
<1>t. /\ cpc \in [Cmds -> CallerLabels]
      /\ obj \in [Cmds -> {"none", "alloc", "freed"}]
      /\ status \in [Cmds -> {"none", "SUBMITTED", "SUCCESS", "ERROR", "DROP"}]
      /\ queue \in Seq(Cmds) /\ cur \in Cmds \cup {None}
      /\ res \in {"SUCCESS", "ERROR", "DROP"}
  BY <1>i DEF TypeOK
<1>n. None \notin Cmds
  BY CmdsAssumption
<1>h. ASSUME cur = None, queue # <<>>,
             cur' = Head(queue), queue' = Tail(queue)
      PROVE  Todo' = Todo
  <2>1. Head(queue) \in Cmds
    BY <1>h, <1>t, HeadTailProperties
  <2>2. Todo = queue /\ Todo' = <<Head(queue)>> \o Tail(queue)
    BY <1>h, <1>n, <2>1 DEF Todo
  <2> QED
    BY <1>h, <1>t, <2>2, FrontBack
<1>1. CASE Dequeue
  <2>1. cur = None
    BY <1>1, <1>i DEF Dequeue, LifeInv, Handling
  <2>2. Todo' = Todo
    <3>1. CASE queue' = queue /\ cur' = cur
      BY <3>1 DEF Todo
    <3>2. CASE ~(queue' = queue /\ cur' = cur)
      BY <1>1, <1>h, <2>1, <3>2 DEF Dequeue
    <3> QED
      BY <3>1, <3>2
  <2> QED
    BY <1>1, <2>2, Invisible DEF Dequeue
<1>2. CASE Drain
  <2>1. cur = None
    BY <1>2, <1>i DEF Drain, LifeInv, Handling
  <2>2. Todo' = Todo
    <3>1. CASE queue' = queue /\ cur' = cur
      BY <3>1 DEF Todo
    <3>2. CASE ~(queue' = queue /\ cur' = cur)
      BY <1>2, <1>h, <2>1, <3>2 DEF Drain
    <3> QED
      BY <3>1, <3>2
  <2> QED
    BY <1>2, <2>2, Invisible DEF Drain
<1>3. CASE RegisterRefused
  <2>1. cur # None
    BY <1>3, <1>i DEF RegisterRefused, LifeInv, Handling
  <2>2. Todo' = Todo
    BY <1>3, <2>1 DEF RegisterRefused, Requeued, Todo
  <2> QED
    BY <1>3, <2>2, Invisible DEF RegisterRefused
<1>4. CASE SctxStatus
  <2>1. cur \in Cmds /\ cur # None
    BY <1>4, <1>i, <1>t DEF SctxStatus, LifeInv, Handling
  <2>2. /\ cur \in WaitCmds /\ cpc[cur] # "returned"
        /\ status[cur] = "SUBMITTED"
    BY <1>4, <1>i, <2>1 DEF SctxStatus, CtxInv
  <2>3. Todo' = Todo /\ Todo # <<>> /\ Head(Todo) = cur
    BY <1>4, <1>t, <2>1, FrontProperties DEF SctxStatus, Todo
  <2>4. Fate' = Fate /\ Returned' = Returned /\ ~Returned[cur]
    BY <1>4, <2>1, <2>2 DEF SctxStatus, Fate, Returned
  <2>5. Answer[cur] = "none" /\ Answer' = [Answer EXCEPT ![cur] = res]
    BY <1>4, <1>t, <2>1, <2>2 DEF SctxStatus, Answer, Results
  <2>6. Service!Tell(cur, res)
    BY <2>2, <2>3, <2>4, <2>5 DEF Service!Tell
  <2> QED
    BY <1>t, <2>1, <2>6 DEF Service!Next
<1>5. CASE FreeCmd
  <2>1. cur \in Cmds /\ cur # None /\ cpc[cur] # "idle"
    BY <1>5, <1>i, <1>t DEF FreeCmd, LifeInv, Handling, OwnInv
  <2>2. Todo # <<>> /\ Head(Todo) = cur /\ Tail(Todo) = queue
    BY <1>t, <2>1, FrontProperties DEF Todo
  <2>3. Todo' = Tail(Todo)
    BY <1>5, <2>2 DEF FreeCmd, Todo
  <2>4. Fate' = [Fate EXCEPT ![cur] = "gone"]
    BY <1>5, <1>t, <2>1 DEF FreeCmd, Fate
  <2>5. Answer' = Answer /\ Returned' = Returned
    BY <1>5 DEF FreeCmd, Answer, Returned
  <2>6. cur \in WaitCmds => Returned[cur] \/ Answer[cur] # "none"
    <3>1. ~objSctx[cur]
      BY <1>5, <1>i DEF FreeCmd, CtxInv
    <3>2. cur \in WaitCmds /\ cpc[cur] # "returned" => status[cur] \in Results
      BY <1>i, <1>t, <2>1, <3>1 DEF CtxInv, CallInv, Results
    <3> QED
      BY <2>1, <3>2 DEF Returned, Answer, Results
  <2>7. Service!Finish(cur)
    BY <2>2, <2>3, <2>4, <2>5, <2>6 DEF Service!Finish
  <2> QED
    BY <2>1, <2>7 DEF Service!Next
<1>6. CASE \/ ThreadStart \/ Down \/ DownInterrupted \/ FilterDrop \/ PostLock
           \/ SctxComplete \/ SctxNull \/ ThreadQuit
           \/ \E r \in {"SUCCESS", "ERROR"} : Execute(r)
  <2>1. UNCHANGED <<cpc, obj, status, queue, cur>>
    BY <1>6 DEF ThreadStart, Down, DownInterrupted, FilterDrop, PostLock,
      SctxComplete, SctxNull, ThreadQuit, Execute
  <2> QED
    BY <2>1, Invisible DEF Todo
<1> QED
  BY <1>1, <1>2, <1>3, <1>4, <1>5, <1>6 DEF ThreadStep

(***************************************************************************)
(* The queue a caller sees: commands are finished in the order they were   *)
(* accepted, each is answered at most once and before its caller returns,  *)
(* and none is freed while its caller still waits.                         *)
(***************************************************************************)
THEOREM ThreadImplementsService ==
  ASSUME Signals = FALSE PROVE Spec => ImplementsService
<1>1. Init => Service!Init
  BY DEF Init, Service!Init, Todo, Fate, Answer, Returned, Results
<1>2. IInv /\ [Next]_vars => [Service!Next]_Service!svars
  <2> SUFFICES ASSUME IInv, [Next]_vars
               PROVE  Service!Next \/ UNCHANGED Service!svars
    OBVIOUS
  <2>1. ASSUME NEW c \in Cmds, CallerStep(c)
        PROVE  Service!Next \/ UNCHANGED Service!svars
    BY <2>1, CallerImplements
  <2>2. CASE ThreadStep
    BY <2>2, ThreadImplements
  <2>3. CASE \/ cpwm_int_hdl \/ RpwmPolled \/ NetdevOpen \/ IpsSwitch \/ DevUnload
             \/ StopStep \/ UNCHANGED vars
    <3>1. UNCHANGED <<cpc, obj, status, queue, cur>>
      BY <2>3 DEF cpwm_int_hdl, RpwmPolled, NetdevOpen, IpsSwitch, DevUnload, StopStep,
        StopCmdThread, ThreadStopped, vars, thVars, ctxVars
    <3> QED
      BY <3>1, Invisible DEF Todo
  <2> QED
    BY <2>1, <2>2, <2>3 DEF Next
<1> QED
  BY <1>1, <1>2, CommandInvariant, PTL DEF Spec, ImplementsService, Service!Spec

==============================================================================
