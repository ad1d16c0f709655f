------------------------------ MODULE CmdThread ------------------------------
(***************************************************************************)
(* The command queue of the driver (core/rtw_cmd.c) and the command thread *)
(* that serves it: rtw_enqueue_cmd and rtw_cmd_filter on the callers'      *)
(* side, rtw_cmd_thread with its post-processing and its final drain, and  *)
(* the submit context (sctx, core/rtw_xmit.c) by which a caller waits for  *)
(* the result of its command with a timeout.                               *)
(*                                                                         *)
(* A cmd_obj is heap memory that the thread frees; a submit_ctx lives on   *)
(* its caller's stack and dies when the caller returns.  Each side keeps a *)
(* pointer to the other's memory, and sctx_mutex is all that keeps them    *)
(* apart.  The interface may be closed (rtw_dev_unload) and opened again   *)
(* while callers are under way.                                            *)
(***************************************************************************)
EXTENDS Integers, Sequences, FiniteSets

CONSTANTS
  Cmds,         \* the commands submitted, each with its own caller
  WaitCmds,     \* those submitted with RTW_CMDF_WAIT_ACK
  NoIoCmds,     \* those with no_io (or _SetChannelPlan) set
  None,         \* the thread has no command in hand
  MaxRefusals,  \* bound: commands put back because the chip is asleep
  MaxSessions,  \* bound: times the interface is opened
  Signals       \* whether signals may reach the thread and the callers

ASSUME CmdsAssumption ==
  WaitCmds \subseteq Cmds /\ NoIoCmds \subseteq Cmds /\ None \notin Cmds

ASSUME CmdBoundsAssumption ==
  MaxRefusals \in Nat /\ MaxSessions \in Nat /\ Signals \in BOOLEAN

VARIABLES
  cannotRun,  \* RTW_CANNOT_RUN
  hwInit,     \* rtw_is_hw_init_completed
  running,    \* cmdthd_running
  queue,      \* cmd_queue
  sema,       \* cmd_queue_sema
  tpc,        \* where the command thread is
  cur,        \* pcmd, the command in its hand
  res,        \* pcmd->res
  mutex,      \* sctx_mutex is held by the thread
  ifpc,       \* where opening or closing the interface is
  sessions,   \* times the interface was opened
  refusals,   \* commands put back so far
  waking,     \* the handshake a refused registration began is not over
  lost,       \* auxiliary: the chip woke up and left the thread asleep
  cpc,        \* where each command's caller is
  obj,        \* the cmd_obj: "none", "alloc" or "freed"
  objSctx,    \* cmd_obj->sctx is not NULL
  status,     \* the caller's sctx.status
  done        \* the caller's sctx.done has been completed

thVars  == <<tpc, cur, res, mutex>>
ifVars  == <<cannotRun, hwInit, ifpc, sessions>>
regVars == <<refusals, waking, lost>>
ctxVars == <<objSctx, status, done>>
vars == <<cannotRun, hwInit, running, queue, sema, tpc, cur, res, mutex,
          ifpc, sessions, refusals, waking, lost, cpc, obj, objSctx, status,
          done>>

ThreadLabels == {"none", "start", "down", "next", "filter", "post", "status",
                 "complete", "null", "free", "quit", "drain", "parked"}
CallerLabels == {"idle", "filtered", "inserted", "waiting", "woken",
                 "nomutex", "tested", "returned"}

TypeOK ==
  /\ cannotRun \in BOOLEAN /\ hwInit \in BOOLEAN /\ running \in BOOLEAN
  /\ queue \in Seq(Cmds)
  /\ sema \in Nat /\ sessions \in Nat /\ refusals \in Nat
  /\ waking \in BOOLEAN /\ lost \in BOOLEAN
  /\ tpc \in ThreadLabels /\ cur \in Cmds \cup {None}
  /\ res \in {"SUCCESS", "ERROR", "DROP"}
  /\ mutex \in BOOLEAN
  /\ ifpc \in {"down", "starting", "up", "stopping", "joining"}
  /\ cpc \in [Cmds -> CallerLabels]
  /\ obj \in [Cmds -> {"none", "alloc", "freed"}]
  /\ objSctx \in [Cmds -> BOOLEAN]
  /\ status \in [Cmds -> {"none", "SUBMITTED", "SUCCESS", "ERROR", "DROP"}]
  /\ done \in [Cmds -> BOOLEAN]

(***************************************************************************)
(* After rtw_init_cmd_priv, before the first netdev_open.                  *)
(***************************************************************************)
Init ==
  /\ cannotRun = TRUE /\ hwInit = FALSE /\ running = FALSE
  /\ queue = <<>> /\ sema = 0
  /\ tpc = "none" /\ cur = None /\ res = "SUCCESS" /\ mutex = FALSE
  /\ ifpc = "down" /\ sessions = 0 /\ refusals = 0
  /\ waking = FALSE /\ lost = FALSE
  /\ cpc = [c \in Cmds |-> "idle"]
  /\ obj = [c \in Cmds |-> "none"]
  /\ objSctx = [c \in Cmds |-> FALSE]
  /\ status = [c \in Cmds |-> "none"]
  /\ done = [c \in Cmds |-> FALSE]

CallerGoto(c, label) == cpc' = [cpc EXCEPT ![c] = label]
AfterQueued(c) == IF c \in WaitCmds THEN "waiting" ELSE "returned"

rtw_cmd_filter(c) == running /\ (hwInit \/ c \in NoIoCmds)

(***************************************************************************)
(* A caller allocates a command, points it at its sctx, and is filtered: a *)
(* refused command is freed at once and the caller does not wait.          *)
(***************************************************************************)
Submit(c) ==
  /\ cpc[c] = "idle"
  /\ \/ /\ rtw_cmd_filter(c)
        /\ CallerGoto(c, "filtered")
        /\ obj' = [obj EXCEPT ![c] = "alloc"]
        /\ objSctx' = [objSctx EXCEPT ![c] = c \in WaitCmds]
     \/ /\ ~rtw_cmd_filter(c)
        /\ CallerGoto(c, "returned")
        /\ obj' = [obj EXCEPT ![c] = "freed"]
        /\ UNCHANGED objSctx
  /\ status' = [status EXCEPT ![c] = IF c \in WaitCmds THEN "SUBMITTED" ELSE @]
  /\ UNCHANGED <<running, queue, sema, thVars, ifVars, regVars, done>>

(***************************************************************************)
(* _rtw_enqueue_cmd, then _rtw_up_sema: the filter was an earlier step.    *)
(***************************************************************************)
Insert(c) ==
  /\ cpc[c] = "filtered"
  /\ queue' = Append(queue, c)
  /\ CallerGoto(c, "inserted")
  /\ UNCHANGED <<running, sema, thVars, ifVars, regVars, obj, ctxVars>>

UpSema(c) ==
  /\ cpc[c] = "inserted"
  /\ sema' = sema + 1
  /\ CallerGoto(c, AfterQueued(c))
  /\ UNCHANGED <<running, queue, thVars, ifVars, regVars, obj, ctxVars>>

(***************************************************************************)
(* rtw_sctx_wait returns on completion, or on a timeout at any time.       *)
(***************************************************************************)
SctxDone(c) ==
  /\ cpc[c] = "waiting" /\ done[c]
  /\ CallerGoto(c, "woken")
  /\ UNCHANGED <<running, queue, sema, thVars, ifVars, regVars, obj, ctxVars>>

SctxTimeout(c) ==
  /\ cpc[c] = "waiting" /\ ~done[c]
  /\ CallerGoto(c, "woken")
  /\ UNCHANGED <<running, queue, sema, thVars, ifVars, regVars, obj, ctxVars>>

\* Deliberate fault: the sctx is detached without sctx_mutex.
Bug_DetachUnlocked(c) ==
  /\ cpc[c] = "woken"
  /\ objSctx' = [objSctx EXCEPT ![c] = @ /\ status[c] # "SUBMITTED"]
  /\ CallerGoto(c, "returned")
  /\ UNCHANGED <<running, queue, sema, thVars, ifVars, regVars, obj,
                 status, done>>

(***************************************************************************)
(* The caller detaches its sctx from a command that is still outstanding   *)
(* and returns; its sctx is gone after that.                               *)
(***************************************************************************)
Detach(c) ==
  /\ cpc[c] = "woken" /\ ~mutex
  /\ objSctx' = [objSctx EXCEPT ![c] = @ /\ status[c] # "SUBMITTED"]
  /\ CallerGoto(c, "returned")
  /\ UNCHANGED <<running, queue, sema, thVars, ifVars, regVars, obj,
                 status, done>>

(***************************************************************************)
(* sctx_mutex is taken with mutex_lock_interruptible and the result is     *)
(* ignored: a caller that gets a signal while it waits for the mutex goes  *)
(* on without it, and unlocks it all the same.  Its test of the status and *)
(* its write to the command are then two steps.                            *)
(***************************************************************************)
LockInterrupted(c) ==
  /\ Signals /\ mutex /\ cpc[c] = "woken"
  /\ CallerGoto(c, "nomutex")
  /\ UNCHANGED <<running, queue, sema, thVars, ifVars, regVars, obj, ctxVars>>

DetachTest(c) ==
  /\ cpc[c] = "nomutex"
  /\ \/ /\ status[c] = "SUBMITTED"
        /\ CallerGoto(c, "tested")
        /\ UNCHANGED mutex
     \/ /\ status[c] # "SUBMITTED"
        /\ CallerGoto(c, "returned")
        /\ mutex' = FALSE
  /\ UNCHANGED <<running, queue, sema, tpc, cur, res, ifVars, regVars, obj,
                 ctxVars>>

DetachWrite(c) ==
  /\ cpc[c] = "tested"
  /\ objSctx' = [objSctx EXCEPT ![c] = FALSE]
  /\ CallerGoto(c, "returned")
  /\ mutex' = FALSE
  /\ UNCHANGED <<running, queue, sema, tpc, cur, res, ifVars, regVars, obj,
                 status, done>>

(***************************************************************************)
(* rtw_cmd_thread: announce itself, then the top of the loop.  The thread  *)
(* leaves the loop when the driver cannot run or a signal interrupts its   *)
(* wait.                                                                   *)
(***************************************************************************)
ThreadStart ==
  /\ tpc = "start"
  /\ running' = TRUE /\ tpc' = "down" /\ ifpc' = "up"
  /\ UNCHANGED <<queue, sema, cur, res, mutex, cannotRun, hwInit, sessions,
                 regVars, cpc, obj, ctxVars>>

Down ==
  /\ tpc = "down" /\ sema > 0
  /\ sema' = sema - 1
  /\ tpc' = IF cannotRun THEN "quit"
            ELSE IF queue = <<>> THEN "down" ELSE "next"
  /\ lost' = FALSE
  /\ UNCHANGED <<running, queue, cur, res, mutex, ifVars, refusals, waking,
                 cpc, obj, ctxVars>>

DownInterrupted ==
  /\ tpc = "down" /\ sema = 0 /\ Signals
  /\ tpc' = "quit"
  /\ UNCHANGED <<running, queue, sema, cur, res, mutex, ifVars, regVars, cpc,
                 obj, ctxVars>>

Dequeue ==
  /\ tpc = "next"
  /\ \/ /\ cannotRun
        /\ tpc' = "quit" /\ UNCHANGED <<queue, cur>>
     \/ /\ ~cannotRun /\ queue = <<>>
        /\ tpc' = "down" /\ UNCHANGED <<queue, cur>>
     \/ /\ ~cannotRun /\ queue # <<>>
        /\ tpc' = "filter" /\ cur' = Head(queue) /\ queue' = Tail(queue)
  /\ UNCHANGED <<running, sema, res, mutex, ifVars, regVars, cpc, obj,
                 ctxVars>>

\* Deliberate fault: a refused command goes to the end of the queue.
Bug_RequeuedAtTail == Append(queue, cur)

(***************************************************************************)
(* The thread filters once more; then a command that does I/O has to wait  *)
(* for the chip to wake up (rtw_register_cmd_alive).  A refused command    *)
(* goes back to the head of the queue.  Whatever is not H2C_SUCCESS is     *)
(* reported to the caller as RTW_SCTX_DONE_CMD_ERROR; only the final drain *)
(* reports RTW_SCTX_DONE_CMD_DROP.                                         *)
(***************************************************************************)
Requeued == <<cur>> \o queue

FilterDrop ==
  /\ tpc = "filter" /\ ~rtw_cmd_filter(cur)
  /\ tpc' = "post" /\ res' = "ERROR"
  /\ UNCHANGED <<running, queue, sema, cur, mutex, ifVars, regVars, cpc, obj,
                 ctxVars>>

\* Deliberate fault: a refused command is queued and handled as well.
Bug_RefusedGoesOn ==
  /\ tpc = "filter" /\ rtw_cmd_filter(cur)
  /\ cur \notin NoIoCmds /\ refusals < MaxRefusals
  /\ queue' = Requeued
  /\ tpc' = "post" /\ UNCHANGED cur
  /\ refusals' = refusals + 1 /\ waking' = TRUE
  /\ UNCHANGED <<running, sema, res, mutex, ifVars, lost, cpc, obj, ctxVars>>

RegisterRefused ==
  /\ tpc = "filter" /\ rtw_cmd_filter(cur)
  /\ cur \notin NoIoCmds /\ refusals < MaxRefusals
  /\ queue' = Requeued
  /\ tpc' = "down" /\ cur' = None
  /\ refusals' = refusals + 1 /\ waking' = TRUE
  /\ UNCHANGED <<running, sema, res, mutex, ifVars, lost, cpc, obj, ctxVars>>

Execute(r) ==
  /\ tpc = "filter" /\ rtw_cmd_filter(cur)
  /\ tpc' = "post" /\ res' = r
  /\ UNCHANGED <<running, queue, sema, cur, mutex, ifVars, regVars, cpc, obj,
                 ctxVars>>

\* Deliberate fault: the handler wakes nobody.
Bug_cpwm_int_hdl ==
  /\ waking /\ waking' = FALSE
  /\ UNCHANGED <<running, queue, sema, thVars, ifVars, refusals, lost, cpc,
                 obj, ctxVars>>

(***************************************************************************)
(* The handshake that wakes the chip ends in one of two ways.  Either the  *)
(* work item of the polling timeout finds the firmware awake and calls     *)
(* cpwm_int_hdl, which wakes the registered thread unless the driver       *)
(* cannot run.  Or the repeated rtw_set_rpwm finds the acknowledgement by  *)
(* polling (or need not ask, the hardware being off): it sets cpwm and     *)
(* wakes nobody, and the interrupt that would is masked in this build.     *)
(***************************************************************************)
cpwm_int_hdl ==
  /\ waking /\ waking' = FALSE
  /\ sema' = IF cannotRun THEN sema ELSE sema + 1
  /\ UNCHANGED <<running, queue, thVars, ifVars, refusals, lost, cpc, obj,
                 ctxVars>>

RpwmPolled ==
  /\ waking /\ waking' = FALSE
  /\ lost' = (lost \/ (tpc = "down" /\ sema = 0))
  /\ UNCHANGED <<running, queue, sema, thVars, ifVars, refusals, cpc, obj,
                 ctxVars>>

(***************************************************************************)
(* post_process, and the same lines of the final drain: under sctx_mutex,  *)
(* if somebody waits, rtw_sctx_done_err writes the status, completes and   *)
(* clears the pointer.  Then the command is freed.                         *)
(***************************************************************************)
PostLock ==
  /\ tpc = "post" /\ ~mutex
  /\ \/ objSctx[cur] /\ mutex' = TRUE /\ tpc' = "status"
     \/ ~objSctx[cur] /\ UNCHANGED mutex /\ tpc' = "free"
  /\ UNCHANGED <<running, queue, sema, cur, res, ifVars, regVars, cpc, obj,
                 ctxVars>>

\* Deliberate fault: the status is not written.
Bug_NoStatus ==
  /\ tpc = "status"
  /\ tpc' = "complete"
  /\ UNCHANGED status
  /\ UNCHANGED <<running, queue, sema, cur, res, mutex, ifVars, regVars, cpc,
                 obj, objSctx, done>>

SctxStatus ==
  /\ tpc = "status"
  /\ tpc' = "complete"
  /\ status' = [status EXCEPT ![cur] = res]
  /\ UNCHANGED <<running, queue, sema, cur, res, mutex, ifVars, regVars, cpc,
                 obj, objSctx, done>>

SctxComplete ==
  /\ tpc = "complete"
  /\ tpc' = "null"
  /\ done' = [done EXCEPT ![cur] = TRUE]
  /\ UNCHANGED <<running, queue, sema, cur, res, mutex, ifVars, regVars, cpc,
                 obj, objSctx, status>>

\* Deliberate fault: sctx_mutex is kept.
Bug_NoUnlock ==
  /\ tpc = "null"
  /\ tpc' = "free"
  /\ objSctx' = [objSctx EXCEPT ![cur] = FALSE]
  /\ UNCHANGED mutex
  /\ UNCHANGED <<running, queue, sema, cur, res, ifVars, regVars, cpc, obj,
                 status, done>>

SctxNull ==
  /\ tpc = "null"
  /\ tpc' = "free"
  /\ objSctx' = [objSctx EXCEPT ![cur] = FALSE]
  /\ mutex' = FALSE
  /\ UNCHANGED <<running, queue, sema, cur, res, ifVars, regVars, cpc, obj,
                 status, done>>

FreeCmd ==
  /\ tpc = "free"
  /\ obj' = [obj EXCEPT ![cur] = "freed"]
  /\ cur' = None
  /\ tpc' = IF running THEN "next" ELSE "drain"
  /\ UNCHANGED <<running, queue, sema, res, mutex, ifVars, regVars, cpc,
                 ctxVars>>

(***************************************************************************)
(* The end of rtw_cmd_thread: clear cmdthd_running, drop what is queued,   *)
(* wait to be stopped.                                                     *)
(***************************************************************************)
ThreadQuit ==
  /\ tpc = "quit"
  /\ running' = FALSE /\ tpc' = "drain"
  /\ UNCHANGED <<queue, sema, cur, res, mutex, ifVars, regVars, cpc, obj,
                 ctxVars>>

Drain ==
  /\ tpc = "drain"
  /\ \/ /\ queue = <<>>
        /\ tpc' = "parked" /\ UNCHANGED <<queue, cur, res>>
     \/ /\ queue # <<>>
        /\ tpc' = "post" /\ res' = "DROP"
        /\ cur' = Head(queue) /\ queue' = Tail(queue)
  /\ UNCHANGED <<running, sema, mutex, ifVars, regVars, cpc, obj, ctxVars>>

(***************************************************************************)
(* netdev_open: hal_init, then kthread_run, then wait for ThreadStart.     *)
(***************************************************************************)
NetdevOpen ==
  /\ ifpc = "down" /\ sessions < MaxSessions
  /\ sessions' = sessions + 1
  /\ cannotRun' = FALSE /\ hwInit' = TRUE
  /\ ifpc' = "starting" /\ tpc' = "start"
  /\ UNCHANGED <<running, queue, sema, cur, res, mutex, regVars, cpc, obj,
                 ctxVars>>

(***************************************************************************)
(* Inactive power save switches the hardware off and on again.             *)
(***************************************************************************)
IpsSwitch ==
  /\ ifpc = "up"
  /\ hwInit' = ~hwInit
  /\ UNCHANGED <<running, queue, sema, thVars, cannotRun, ifpc, sessions,
                 regVars, cpc, obj, ctxVars>>

(***************************************************************************)
(* rtw_dev_unload: set bDriverStopped, rtw_stop_cmd_thread ups the         *)
(* semaphore and waits for the thread, rtw_hal_deinit.                     *)
(***************************************************************************)
DevUnload ==
  /\ ifpc = "up"
  /\ cannotRun' = TRUE /\ ifpc' = "stopping"
  /\ UNCHANGED <<running, queue, sema, thVars, hwInit, sessions, regVars,
                 cpc, obj, ctxVars>>

StopCmdThread ==
  /\ ifpc = "stopping"
  /\ sema' = sema + 1 /\ ifpc' = "joining"
  /\ UNCHANGED <<running, queue, thVars, cannotRun, hwInit, sessions,
                 regVars, cpc, obj, ctxVars>>

ThreadStopped ==
  /\ ifpc = "joining" /\ tpc = "parked"
  /\ tpc' = "none" /\ ifpc' = "down" /\ hwInit' = FALSE
  /\ UNCHANGED <<running, queue, sema, cur, res, mutex, cannotRun, sessions,
                 regVars, cpc, obj, ctxVars>>

CallerStep(c) ==
  \/ Submit(c) \/ Insert(c) \/ UpSema(c) \/ SctxDone(c) \/ SctxTimeout(c)
  \/ Detach(c) \/ LockInterrupted(c) \/ DetachTest(c) \/ DetachWrite(c)

ThreadStep ==
  \/ ThreadStart \/ Down \/ DownInterrupted \/ Dequeue
  \/ FilterDrop \/ RegisterRefused
  \/ \E r \in {"SUCCESS", "ERROR"} : Execute(r)
  \/ PostLock \/ SctxStatus \/ SctxComplete \/ SctxNull \/ FreeCmd
  \/ ThreadQuit \/ Drain

StopStep == StopCmdThread \/ ThreadStopped

Next ==
  \/ \E c \in Cmds : CallerStep(c)
  \/ ThreadStep \/ cpwm_int_hdl \/ RpwmPolled
  \/ NetdevOpen \/ IpsSwitch \/ DevUnload \/ StopStep

Spec == Init /\ [][Next]_vars

(***************************************************************************)
(* Fairness: the thread and the callers that have begun are scheduled, the *)
(* wake-up handshake ends in one way or the other (HandshakeCompletes in   *)
(* PwrCtrl), closing goes on.  Nothing promises that the handshake's end   *)
(* wakes the thread.  The mutex hands itself to a waiter that keeps        *)
(* asking.                                                                 *)
(***************************************************************************)
Fairness ==
  /\ WF_vars(ThreadStep) /\ SF_vars(PostLock)
  /\ WF_vars(cpwm_int_hdl \/ RpwmPolled) /\ WF_vars(StopStep)
  /\ \A c \in Cmds : /\ WF_vars(Insert(c)) /\ WF_vars(UpSema(c))
                     /\ WF_vars(SctxDone(c) \/ SctxTimeout(c))
                     /\ SF_vars(Detach(c))
                     /\ WF_vars(DetachTest(c) \/ DetachWrite(c))

FairSpec == Spec /\ Fairness
------------------------------------------------------------------------------
(***************************************************************************)
(* Safety: the thread writes through pcmd->sctx only while the caller that *)
(* owns the sctx has not returned (rtw_sctx_done_err against the timeout   *)
(* of rtw_sctx_wait).                                                      *)
(***************************************************************************)
NoDanglingSctx ==
  tpc \in {"status", "complete"} => cpc[cur] # "returned"

(***************************************************************************)
(* Safety: a caller writes cmdobj->sctx only while the cmd_obj has not     *)
(* been freed by the thread (the lines after every rtw_sctx_wait).         *)
(***************************************************************************)
NoFreedCmdWrite ==
  \A c \in Cmds :
    (cpc[c] = "woken" /\ status[c] = "SUBMITTED") \/ cpc[c] = "tested"
      => obj[c] = "alloc"

(***************************************************************************)
(* Safety: every queued command, and the one in the thread's hand, is      *)
(* allocated and is there once, so no cmd_obj is freed twice or leaked to  *)
(* two owners, also across a refusal, a drain and a second session.        *)
(***************************************************************************)
OwnedOnce ==
  /\ \A i \in DOMAIN queue : obj[queue[i]] = "alloc" /\ queue[i] # cur
  /\ \A i, j \in DOMAIN queue : queue[i] = queue[j] => i = j
  /\ cur # None => obj[cur] = "alloc"

(***************************************************************************)
(* Safety: a caller that is woken by the completion, not by its timeout,   *)
(* finds the result of its command, never SUBMITTED (rtw_sctx_done_err     *)
(* writes the status before it completes).                                 *)
(***************************************************************************)
CompletedHasResult ==
  \A c \in Cmds : done[c] => status[c] \in {"SUCCESS", "ERROR", "DROP"}

(***************************************************************************)
(* Safety: what rtw_dev_unload asserts ("cmd_thread not stop !!"): once    *)
(* the thread was stopped, no thread counts as running.                    *)
(***************************************************************************)
StoppedNotRunning == ifpc \in {"down", "starting"} => ~running

(***************************************************************************)
(* Liveness: a caller that waits for its command returns, whatever happens *)
(* to the command, the thread and the interface.                           *)
(***************************************************************************)
WaiterReturns ==
  \A c \in Cmds : cpc[c] = "waiting" ~> cpc[c] = "returned"

(***************************************************************************)
(* Liveness: a command that was accepted is handled and freed in the end,  *)
(* unless the interface is closed, or until the thread is Unwoken: it      *)
(* sleeps with commands queued because the handshake that ended silently   *)
(* found it on an empty semaphore.  No other wake-up is lost between the   *)
(* insertion, the semaphore, the refusals and cpwm_int_hdl, and the next   *)
(* command that raises the semaphore ends that state as well.              *)
(***************************************************************************)
Unwoken == lost /\ tpc = "down" /\ sema = 0 /\ queue # <<>>

AcceptedIsFreed ==
  \A c \in Cmds :
    obj[c] = "alloc" ~> obj[c] = "freed" \/ cannotRun \/ Unwoken

------------------------------------------------------------------------------
(***************************************************************************)
(* What a caller sees of the queue, the thread and the sctx: CmdService.   *)
(* A command belongs to the service from its insertion until it is freed,  *)
(* in the queue or in the thread's hand, so that a command which the power *)
(* save handshake sends back to the queue (H2C_ENQ_HEAD) never left it.    *)
(***************************************************************************)
Results == {"SUCCESS", "ERROR", "DROP"}

Todo == IF cur = None THEN queue ELSE <<cur>> \o queue

Fate == [c \in Cmds |->
           IF obj[c] = "freed" THEN "gone"
           ELSE IF cpc[c] \in {"idle", "filtered"} THEN "new" ELSE "accepted"]

Answer == [c \in Cmds |-> IF status[c] \in Results THEN status[c] ELSE "none"]

Returned == [c \in Cmds |-> cpc[c] = "returned"]

Service == INSTANCE CmdService
             WITH todo <- Todo, fate <- Fate, answer <- Answer,
                  returned <- Returned

(***************************************************************************)
(* Refinement: the command thread implements CmdService.  Commands leave   *)
(* in the order they came and once, whatever is refused, requeued or       *)
(* drained; each caller is answered at most once, before it returns; and a *)
(* command is freed only when nobody waits for its answer any more.        *)
(***************************************************************************)
ImplementsService == Service!Spec

------------------------------------------------------------------------------
(***************************************************************************)
(* The inductive invariant behind the safety properties, for a driver      *)
(* whose callers are not interrupted by signals.                           *)
(*                                                                         *)
(* LifeInv: the thread exists between open and close only, has a command   *)
(* in hand exactly while it handles one, and holds sctx_mutex exactly      *)
(* while it completes a sctx.                                              *)
(***************************************************************************)
Handling == {"filter", "post", "status", "complete", "null", "free"}

LifeInv ==
  /\ tpc \in {"none", "start", "drain", "parked"} => ~running
  /\ ifpc = "down" <=> tpc = "none"
  /\ ifpc = "starting" <=> tpc = "start"
  /\ cur # None <=> tpc \in Handling
  /\ mutex <=> tpc \in {"status", "complete", "null"}

(***************************************************************************)
(* CtxInv: a command points at a sctx only while both exist; a caller that *)
(* still reads SUBMITTED is still pointed at, so its command is not freed. *)
(***************************************************************************)
CtxInv ==
  /\ \A c \in Cmds :
       /\ objSctx[c] => /\ cpc[c] \notin {"idle", "returned"}
                        /\ c \in WaitCmds /\ obj[c] = "alloc"
                        /\ \/ status[c] = "SUBMITTED"
                           \/ cur = c /\ tpc \in {"complete", "null"}
       /\ status[c] = "SUBMITTED" /\ cpc[c] # "returned" => objSctx[c]
       /\ cpc[c] = "idle" => status[c] = "none"
  /\ tpc \in {"status", "complete", "null"} => objSctx[cur]
  /\ tpc \in {"complete", "null"} => status[cur] # "SUBMITTED"
  /\ tpc = "free" => ~objSctx[cur]

(***************************************************************************)
(* OwnInv: callers own a command until they have queued it.                *)
(***************************************************************************)
OwnInv ==
  /\ OwnedOnce
  /\ \A c \in Cmds : cpc[c] = "filtered" => obj[c] = "alloc"
  /\ \A i \in DOMAIN queue : cpc[queue[i]] \notin {"idle", "filtered"}
  /\ cur # None => cpc[cur] \notin {"idle", "filtered"}

\* MutexInv: nobody detaches without the mutex.
MutexInv == \A c \in Cmds : cpc[c] \notin {"nomutex", "tested"}

(***************************************************************************)
(* CallInv: what a caller finds.  A command is allocated and a sctx set up *)
(* only by its submission, and a sctx is completed only with a result.     *)
(***************************************************************************)
CallInv ==
  \A c \in Cmds :
    /\ cpc[c] = "idle" => obj[c] = "none" /\ ~done[c]
    /\ c \in WaitCmds /\ cpc[c] # "idle" => status[c] # "none"
    /\ done[c] => status[c] \in Results

IInv == TypeOK /\ MutexInv /\ LifeInv /\ CtxInv /\ OwnInv /\ CallInv
==============================================================================
