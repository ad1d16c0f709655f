# A TLA+ development for the RTL8723BS driver

This directory holds TLA+ models of the Linux driver for the RTL8723BS wireless
chip (SDIO), TLC configurations that check them on small instances, and TLAPS
proofs of what matters most. The models follow the build the Makefile selects
(`CONFIG_PLATFORM_ARM_PC`, SDIO, one interface) with the options of
`include/autoconf.h`: `CONFIG_LPS_LCLK`, `CONFIG_DETECT_CPWM_BY_POLLING`,
`CONFIG_LPS_RPWM_TIMER`, `CONFIG_BT_COEXIST`, `CONFIG_XMIT_ACK`,
`CONFIG_LAYER2_ROAMING`, `CONFIG_AP_MODE`,
`CONFIG_TX_AGGREGATION`; without
`CONFIG_SDIO_TX_ENABLE_AVAL_INT`, `CONFIG_CONCURRENT_MODE`, `CONFIG_RTW_80211R`,
`CONFIG_LAYER2_ROAMING_ACTIVE` and `CONFIG_TDLS`.

## Inventory of the system

| Component | State | Operations | Interacts through | What is hard |
|---|---|---|---|---|
| Leisure power save (`core/rtw_pwrctrl.c`) | `rpwm`, `cpwm`, `alives`, `bFwCurrentInPSMode`, `pwr_mode`, the HRPWM/HCPWM registers, a timer and a work item | enter and leave LPS, register and unregister a thread, poll, time out, retry | `pwrctrl->lock`; the semaphores of the command and transmit threads; the firmware | threads, LPS contexts, timer, work item, interrupt and firmware interleave; answers come late |
| Command queue (`core/rtw_cmd.c`) | `cmd_queue`, `cmd_queue_sema`, `cmdthd_running`, `cmd_obj`, `submit_ctx` | enqueue, execute, put back, complete, time out, drain | registration with power save; `rtw_sctx_*`; `rtw_dev_unload` | pointers into another context's stack and heap, timeouts, closing while callers are under way |
| Receive reordering (`core/rtw_recv.c`) | `indicate_seq`, `enable`, `pending_recvframe_queue`, `bReorderWaiting`, a timer | receive, insert, indicate, forced indication, ADDBA, DELBA, release | block ack handlers (`core/rtw_mlme_ext.c`), `rtw_free_stainfo` | arithmetic modulo 4096, lost and repeated frames, three contexts, unlocked writes |
| SDIO transmit (`os_dep/xmit_linux.c`, `core/rtw_xmit.c`, `hal/rtl8723b/sdio/rtl8723bs_xmit.c`) | pools of frames and buffers, per-AC queues, `pending_xmitbuf_queue`, free pages, stopped subqueues | allocate, queue, aggregate, write, free, stop and wake a subqueue | power save, two semaphores, the netdev queues, site surveys | pools at their limit, waits without a limit, counts that are stale when used |
| Transmit acknowledgement (`ack_tx`) | one `submit_ctx` used again for every frame | send and wait, report | C2H events | a report that comes after its timeout |
| MLME (`core/rtw_mlme.c`, `core/rtw_mlme_ext.c`, `os_dep/ioctl_cfg80211.c`) | `fw_state`, `to_join`, `to_roam`, four timers; `mlmext_info.state`, the survey state machine | scan, connect, disconnect, join, roam, lose the link, time out | commands, events, timers, cfg80211 | timers against events; operations that overlap; two layers that must agree |
| Station table (`core/rtw_sta_mgt.c`) | hash table, free list, per-station queues and timers | allocate, find, release | receive and transmit paths hold pointers without a count | release while in use |
| Access point (`core/rtw_ap.c`, `core/rtw_xmit.c`, `core/rtw_recv.c`) | sleep queues and their counts, `sta_dz_bitmap`, `tim_bitmap`, the beacon | sleep, wake, PS-Poll, trigger, group frames after a beacon, alive check | transmit path, receive path, command thread | three contexts, some sections without the lock |
| Receive buffers and interrupts | receive buffer pool, tasklet | interrupt, tasklet, recycle | SDIO, receive path | pool at its limit |
| H2C mailbox (`hal/rtl8723b/rtl8723b_cmd.c`) | a ring of four boxes | write, wait | firmware | full ring, chip asleep |
| IPS, suspend, silent reset | `rf_pwrstate`, `ps_processing`, `bInSuspend` | enter, leave, suspend, resume, reset | everything above | long sequences under running threads |
| Security, PHY, BT coexistence, MP mode, ioctl, generated tables | - | - | - | computation, tuning and formatting: left out |

`PROJECT.json` lists the components with their status and the hazards with
their lines.

## Modules

Every definition that models code is mapped to its lines in `PROJECT.json`.
Definitions keep the source's names where TLA+ allows it. A definition called
`Bug_...` is a deliberately faulty variant of the one that follows it; no
specification uses it. It serves to show that a property is sensitive to the
code: with the variant in place of the original the property fails.

### PwrCtrl

The handshake by which the driver lets the firmware fall to its 32 kHz clock and
wakes it again. The driver writes the wanted level to HRPWM (`hrpwm`), the
firmware reads it some time later (`FwHandleRpwm`, external) and acknowledges a
wake-up by flipping the toggle bit of HCPWM (`hcpwm`).

* Contexts: the command and the transmit thread (`Tasks`), callers of
  `LPS_Enter`/`LPS_Leave` (`Ctrls`), the work item, the timer, the interrupt.
  `pc` says where each is; `lock` is `pwrctrl->lock`.
* A critical section is one step, except where the code polls HCPWM with the
  lock held: that is a step into `"poll"`, then `PollOK` or `PollTimeout`
  (`rtw_cpwm_polling`), then the rest of the caller (`resume`).
* `register_alive`, `unregister_alive` model `rtw_register_cmd_alive` and
  `rtw_unregister_cmd_alive`, and their transmit counterparts; `Recheck` is the
  second look at `cpwm` after the lock is given back.
* `jobs` are the commands or buffers waiting, kept as "does I/O" or not, which
  is all the handshake depends on.
* After a timeout the timer (`pwr_rpwm_timeout_handler`) queues the work item,
  which reads `REG_CR` (`WiReadCR`, either answer) and writes the request again
  or handles the missed acknowledgement (`cpwm_int_hdl`).

### CmdThread

The command queue, the thread, and a caller per command.

* A `cmd_obj` is `"none"`, `"alloc"` or `"freed"`; `objSctx` says whether it
  points at its caller's `submit_ctx`, which exists until the caller is
  `"returned"`. These are the two pointers that could dangle.
* The caller: filter, insert, raise the semaphore, wait, wake by completion or
  timeout, detach under `sctx_mutex`. The gap between filter and insertion is
  modelled as the code has it.
* The thread: every command is filtered again, may be refused by power save and
  put back at the head, executed, its context completed in three steps (status,
  completion, pointer) under the mutex, freed. At the end `cmdthd_running` is
  cleared and what is queued is drained.
* The interface is opened and closed up to `MaxSessions` times; inactive power
  save switches `hw_init_completed` in between.
* Power save is abstracted to "the registration may be refused, and then a
  handshake is under way" (`RegisterRefused`, `waking`). It ends in one of two ways:
  `cpwm_int_hdl` raises the semaphore, or `RpwmPolled`, a repeated request whose
  polling succeeds, wakes nobody. The auxiliary variable `lost`, which no guard
  reads, records that the second way left the thread asleep. `PwrCtrl` has the
  detail of the handshake.
* With `Signals` the interruptible wait of the thread and the interruptible mutex
  (whose result is ignored) may fail. A caller that was interrupted while the
  mutex was held tests the status and writes to the command in two steps, without
  the mutex, and then unlocks it (`LockInterrupted`, `DetachTest`, `DetachWrite`).

`CmdService` is what this promises a caller: a queue in which each command stands
once and whose head is worked on, at most one answer per caller, and no command
finished while its caller still waits for an answer. `CmdThread` instantiates it
(`Service`): the service's queue is the command in the thread's hand followed by
`cmd_queue`, so that a command put back at the head never left it, and a command
is "accepted" from its insertion on. `ImplementsService` is checked by a run and
proved in `CmdThreadProofs`.

### RecvReorder

The reordering buffer of one traffic stream.

* Frames have absolute numbers; the code sees them modulo 4096 (`SN`).
* The peer (external) sends the frames of its window in any order, repeats and
  gives up frames; it aggregates between ADDBA and DELBA.
* `Receive` looks the station up, `recv_indicatepkt_reorder` is the section under
  the queue's lock, the direct path without a session is two steps because
  `indicate_seq` is written twice without a lock; `CancelTimer` comes after the
  lock is released and waits for a running handler.
* `check_indicate_seq`, `Inserted` (`enqueue_reorder_recvframe`) and
  `Ready`/`StartAfter` (`recv_indicatepkts_in_order`) are the algorithm.
* The history variables `session`, `clean`, `skipped` and `top` serve the
  properties only: no guard reads them.

### Mlme

Scanning, joining, roaming and disconnecting as a station. Two layers keep a state
each: `mlmepriv` (the record `m`: the flags of `fw_state`, `to_join`, `to_roam`,
`assoc_timer`, `scan_to_timer`, with the command queue and what cfg80211 was told)
and `mlmeext` (`ext`: the state of the exchange with the access point, its
retries and `link_timer`; `scan`: the survey state machine and its timer).

* Contexts: the command thread (`cmd`), the receive tasklet (`rx`), `link_timer_hdl`
  (`link`), the handlers of `assoc_timer` and `scan_to_timer`, and one cfg80211
  operation at a time (`user`; rtnl allows one).
* What a function does to `mlmepriv` is an operator from the record before to the
  record after (`rtw_indicate_disconnect(p)`, `rtw_do_join(p)`, `rtw_roaming(p)`,
  ...), so that calls compose as in the code. A section under `pmlmepriv->lock` is
  one step. Where a function gives the lock back in the middle
  (`rtw_surveydone_event_callback`, `rtw_scan_timeout_handler`, the cfg80211
  operations) it is several.
* `join_cmd_hdl` has two ways out without a report: information elements that are too
  long, and capabilities that make `start_clnt_join` return. The state `REFUSED`
  stands for the `WIFI_FW_NULL_STATE` they leave behind, after the old network was
  left. `AnswerDue` says that a join's answer will come without `assoc_timer`; the
  timer's expiry then counts as a fault of the bounded number of faults.
* The access point (`OnBeacon`, `OnAuthClient`, `OnAssocRsp`, `OnDeAuth`) may
  answer, reject or be silent.
* `Stuck` is the one state from which the code cannot go on:
  `rtw_joinbss_event_prehandle` waits for the end of `rtw_join_timeout_handler`
  with the lock held (`rtw_mlme.c:2076`), and the handler waits for the lock. TLC
  reaches it; the liveness properties exempt it and hold everywhere else.
* Updates of `fw_state` are atomic in the model. The join result event that the
  command thread handles later only programs the hardware and is left out, as are
  ad-hoc mode, active roaming and 802.11r.

### ApSleep

An access point with one station that sleeps, and the group addressed frames.

* `s` holds what `pxmitpriv->lock` protects: whether the station sleeps, the two
  bitmaps, the sleep queues with their counts, the queues of the hardware, the
  beacon as it was last written, and the commands that download it. Sections under
  the lock are operators on it (`enqueue_for_sleeping_sta`, `stop_sta_xmit`,
  `wakeup_sta_to_xmit`, `deliver`, `release`).
* Three sections do without the lock, and are several steps: the transmit path
  between its test of the station's state and `rtw_hal_xmit` (`tx`), a PS-Poll that
  finds nothing (`PollEmpty`, `PollClear`), the alive check (`AliveCheck`,
  `AliveWrite`). `late` and `races` record that another context came in between:
  the code then really loses count, and the properties say what holds otherwise.
* `air` is the TIM element of the beacon on the air, which follows `s.bcn` when
  `tx_beacon_hdl` downloads it; group frames are released after that
  (`chk_bmc_sleepq_hdl`). A download may fail.
* Counts are modulo `LenMod`, as unsigned integers are.
* A station may have U-APSD on none, one or both of two access categories.
  Updates of `psta->state` are taken as atomic.

### Xmit

The transmit path from the network stack to the chip, as a station.

* The network stack has one context per subqueue (`entry`), which is the access
  category. It reads the number of free frames, stops its subqueue, takes a frame
  or drops the packet, and queues the frame.
* The first thread (`xpc`) packs the frames of one category after the other into
  transmit buffers; the first frame of a buffer stays allocated until the buffer
  is passed on (`FlushBuf`), the others are freed at once. It holds
  `pxmitpriv->lock` while it packs a category and gives it back before the next one
  (`XCategory`), so that frames are queued in between.
* The second thread (`bpc`) selects a buffer (management frames first; during a
  site survey only probe requests and null frames), compares it with the pages and
  the output queue entries it believes free, reads the counts again when they do
  not suffice, puts the buffer back or waits, and writes.
* The chip (external) has the real counts (`hwPage`, `hwOqt`) and sends in the end.
* Lengths are abstracted to "one page per frame" and to a free choice of when a
  buffer is full, up to the limit of `MaxOqt - 1` frames. The return of
  `xmit_xmitframes` under heavy traffic is a free choice as well, where its
  conditions on queue lengths allow it.
* There is one peer, so that the destination never changes within a buffer, and
  `registrypriv.wifi_spec` is 0. `PwrCtrl` has the power save handshake around the
  second thread.

## What the runs check

| Run | Shows | Bounds |
|---|---|---|
| `pwr_safety` | the inductive invariant; neither the driver's requests nor the firmware lower the clock under a registered thread; with stop and card removal | 1 LPS context, 1 job per thread, 1 polling timeout |
| `pwr_served` | I/O finds the firmware awake, and queued work is served, as long as no polling times out | 2 LPS contexts, 1 job per thread |
| `pwr_v_served` | violated: a refused thread is not served after one polling timeout | 1 LPS context, 1 job per thread, 1 timeout |
| `pwr_handshake` | a request that timed out completes; with `lps_level` changed at any time | 1 LPS context, 1 timeout |
| `cmd_main` | the inductive invariant with the types, no dangling pointer in either direction; every waiting caller returns, every accepted command is handled unless the interface closes or the chip woke up in silence; the queue implements `CmdService` | 2 commands, both waited for, 2 sessions, 2 refusals |
| `cmd_signals` | single ownership, also with signals | 2 commands, 2 sessions, 1 refusal |
| `reorder_safety` | types, order, no repetition, no gap unless a frame was given up, fresh frames are taken | window 4, 8 frames across the wrap (4093 to 4100), 2 ADDBA |
| `reorder_live` | buffered frames have a timer in every interleaving, and leave the buffer without help from the peer | window 4, 5 frames, 2 ADDBA, stop and release |
| `mlme` | every join and scan ends, both layers agree on the link, roaming goes on or the loss is reported, every request is answered | 1 channel, 1 retransmission, 2 roaming attempts, 2 requests, 1 loss, 1 fault |
| `ap_sleep` | counts and TIM are right, order within a category, what is buffered is announced, fetched and sent; every choice of U-APSD categories | 4 events (frames, sleeps, alive checks, failed downloads), flush beyond 1 frame |
| `xmit_safety` | a stopped subqueue has a packet that wakes it, pools are conserved, the chip has room, order | 2 categories, 2 frames, 2 + 1 buffers, 1 + 1 pages, 4 events |
| `xmit_live` | queued packets are written, the threads end | 1 category, 2 frames, 1 + 1 buffers, 2 + 2 pages, 4 events |

The bounds are the smallest at which the interesting cases occur. One LPS context
and two threads already give every pair of parties in the handshake; a second
context adds two that race each other. Two sessions let a caller of the first
meet the thread of the second. A window of four holds two frames with a gap
between them, so that a forced indication leaves one behind; with numbers from
4093 the window shift takes the branch below zero. The frames of `reorder_safety`
are handled while no `add_ba_rsp_hdl` is under way (`Concurrent = FALSE`): the race
with it is described below; `reorder_live` has it.

In `mlme` two requests give every pair of overlapping operations, a loss during
each, and two roaming attempts let the first one fail. In `ap_sleep` four events
are enough for two buffered frames of different categories and a sleep, or one
frame, a sleep, an alive check and a wake-up. In `xmit_safety` two frames and a
stop level of one stop a subqueue at the second packet, two buffers let one
overtake the other, and the chip starts full or empty; three entries in the output
queue let a buffer carry two frames.

Deadlock is checked for `PwrCtrl`. The other systems may come to rest: all callers
have returned, all frames are sent, the bound on events is reached, or the driver
is unloaded.

### Disagreements between the code and what it says

`pwr_v_served` shows behaviour that contradicts what a comment says of the code;
`PROJECT.json` quotes it under `findings`. After a polling timeout, the retry that
succeeds by polling wakes no thread (`rtw_pwrctrl.c:1516`); the refused thread
sleeps with its buffer queued until something else is queued. The command thread is
exposed to the same loss: `AcceptedIsFreed` exempts a command that waits behind an
empty semaphore because of it (`Unwoken`), and no other.

The models show further behaviour that a reader of the code may not expect. Some
properties hold only under the constants or the exceptions they name, and fail
without them:

* `IOFindsFwAwake` fails with `MaxTimeouts = 1`: leaving LPS clears
  `bFwCurrentInPSMode` although the polling timed out (`rtw_pwrctrl.c:906`), and
  a thread then registers with success while the firmware is on 32 kHz, where
  `rtw_register_cmd_alive` promises that commands can be issued
  (`rtw_pwrctrl.c:1724`).
* `AwakeWhileAlive` fails with `LevelIoctl = TRUE`:
  `rtw_set_rpwm` returns early once `lps_level` is normal (`rtw_pwrctrl.c:549`),
  also when the firmware sleeps.
* `NoDanglingSctx` and `NoFreedCmdWrite` fail with `Signals = TRUE`: an interrupted
  `_enter_critical_mutex` is not noticed (`osdep_service_linux.h:259`).
* A command may be queued after the final drain: `cmdthd_running` is tested before
  the queue's lock is taken (`rtw_cmd.c:450`). It is handled in the next session.
* `FreshIsTaken` fails with `Concurrent = TRUE`: `add_ba_rsp_hdl` writes
  `indicate_seq` without the lock (`rtw_mlme_ext.c:14625`), the direct path turns
  the value into 0, and the new session drops fresh frames as old.
* The tasklet may arm the reordering timer of a station after `rtw_free_stainfo`
  cancelled it (`rtw_sta_mgt.c:652`).
* `InOrder` of `RecvReorder` speaks of sessions that begin with an empty buffer: a
  DELBA leaves frames buffered, and newer ones overtake them on the direct path
  (`rtw_recv.c:3148`) until the timer releases them.
* `Mlme`: `Stuck` is reachable, see above. A scan that runs into its timer strands
  a join or a roaming attempt that waits for it (`rtw_mlme.c:2780`);
  `not_indic_disco` stays set on an error path (`ioctl_cfg80211.c:3264`). A second
  connect operation's join command that returns without a report
  (`rtw_mlme_ext.c:13136`) just after the first one's join succeeded leaves
  `_FW_LINKED` set with no network behind it; `LinkedIsAssociated` names this state.
* `ApSleep`: PS-Polls are refused when `be` has U-APSD and another category does
  not (`rtw_recv.c:1618`), so that legacy frames wait until the station wakes; the
  unlocked sections lose counts and bits when interfered with (`rtw_recv.c:1683`,
  `rtw_ap.c:499`); a failed download of the beacon strands group frames
  (`rtw_mlme_ext.c:14850`).
* `Xmit`: when coalescing fails on the second frame of a buffer, the frame is not
  freed (`rtl8723bs_xmit.c:397`); `lost` counts these, and with them a subqueue may
  stay stopped.

### Fairness

* `PwrCtrl`: the threads, the work item and the timer are scheduled; a context
  that has begun a change of LPS goes on; the firmware reads a request in the end,
  and a polling that can see the toggle sees it. The lock is a semaphore that
  serves its waiters in order, hence strong fairness on the steps that take it.
  Nobody is obliged to enter or leave LPS, to queue work, or to time out.
* `CmdThread`: the thread and callers that have begun are scheduled, the kernel
  mutex is handed to its waiters (strong fairness), a wait ends by completion or
  timeout, a handshake ends one way or the other, closing goes on once begun. That
  a refused thread is woken is not assumed.
* `RecvReorder`: an armed timer expires and its handler gets the lock. Nothing is
  asked of the peer.
* `Mlme`: contexts that have something to do run and armed timers expire, except
  `scan_to_timer`, which is set so late that the scan normally ends before it.
  Neither the access point nor the user is obliged to anything.
* `ApSleep`: the threads and the receive context run; the station fetches frames as
  long as beacons keep announcing them (strong fairness: it may be interrupted by
  its own going to sleep and waking), but need not wake.
* `Xmit`: both threads run, calls that were begun end, surveys end, and the chip
  sends what it has as long as the driver runs. Nothing is asked of the chip once
  the driver is being stopped.

## What is proved

TLAPS checks the following for every value of the constants, in particular for
any number of contexts, commands, frames, sessions and any window size.

`PwrCtrlProofs`: `TypeCorrect` needs no assumption beyond those on the constants.
The others assume `LevelIoctl = FALSE`, that is, nobody changes `lps_level` while
the driver runs: with it they fail, as said above. `AwakeWhileAlive` is not inductive: what
a step writes to HRPWM depends on `rpwm`, on `cpwm`, and on who holds the lock.
The strengthening `IInv` adds that the lock is held exactly by the context that
polls or owes an H2C command (`LockInv`), that the clock bit of HRPWM is the one
`rpwm` stands for and that level S0 stands only in power save with nobody
registered and no handshake under way (`RequestInv`), and that a thread which was
refused, polls or does I/O is registered (`ThreadInv`). From it follow
`NeverAsksForSleep`, `IOOnlyWhenRegistered`, and the action property
`FirmwareStaysAwake`, by the fact that the firmware acts on the latest word only.
`IOIsAwake` (`IOFindsFwAwake`) assumes besides that no polling times out
(`MaxTimeouts = 0`), because with a timeout it fails. Its invariant `WakeInv` says
when `cpwm` can be trusted: S2 or more means the fast clock, S2 or more requested and
not confirmed means that somebody holds the lock, and the toggle a context polls for
flips only once the firmware has changed its clock. The lemmas `SetRpwmWakes`,
`RegisterWakes` and `UnregisterWakes` follow the calls of `rtw_set_rpwm`.

`CmdThreadProofs`: all theorems assume `Signals = FALSE`; with signals the mutex is
passed without being held and the pointers may dangle. `IInv` says which contexts
exist when (`LifeInv`), that nobody detaches without the mutex (`MutexInv`), that a command points at a context only while both exist
and that a caller which still reads SUBMITTED is still pointed at (`CtxInv`), and
that a command has one owner (`OwnInv`). It yields `TypeCorrect`,
`ThreadNeverWritesDeadSctx`, `CallerNeverWritesFreedCmd`, `CommandsOwnedOnce`,
`UnloadFindsThreadStopped` and `CompletionCarriesResult`.

`ThreadImplementsService`, in the same module and under the same assumption, is the
refinement `Spec => Service!Spec`. Each step of a caller (`CallerImplements`) and
of the thread (`ThreadImplements`) is one step of `CmdService` or leaves its
variables alone (`Invisible`). It needs `IInv` in three places: a status is
written only while the caller still waits, so that no caller is told twice or
after it returned; the command in hand is in no other place, so that it is the head
of the service's queue; and a command that is freed is no longer pointed at, or was
answered. The lemmas on sequences (`FrontProperties`, `FrontAppend`, `FrontBack`)
say that taking a command into the hand and putting it back at the head cancel.

`RecvReorderProofs`: `NoFrameWithoutTimer`, from the invariant `TimerInv`: when the
tasklet is about to cancel the timer after it released the lock, nothing is
buffered and `bReorderWaiting` is clear. No assumption on concurrency is needed:
the proof covers frames handled while block ack handlers run.

`ReorderTypeCorrect` (`TypeOK`) needs no assumption either. `SessionInOrder`
(`InOrder`) and `SessionWithoutGap` (`NoGap`) hold with the block ack handlers racing
the tasklet, for every window size, across the wrap of the number, provided
`MaxFrames + WSize <= 4096`: without that bound the peer could send the whole number
space while one frame is buffered, and a number would stand for two frames. The
model names a frame by its unwrapped number. `PeerInv` says that the frame in the
tasklet's hand is less than a window behind the highest one taken. `SessionInv`
says that in a session that began with nothing left over there is an unwrapped
start `a` with `indicate_seq = SN(a)` (`Window`): what was indicated lies below it,
what is buffered above it and within one window, and both ascend. What
`recv_indicatepkts_in_order` does is a recursive function of the buffer; the
lemmas on it go by the least number of frames for which they would fail, and end in
`Passed`: the start moves past frames that follow each other and no others. The
lemmas on `SN_LESS` relate the circular comparison to the order of the unwrapped
numbers when these are less than 2048 apart (`Near`); `InsideWindow` and
`BackToStart` treat the first frame of a session, which may find any start.

`FreshTaken` (`FreshIsTaken`) assumes `~Concurrent`, without which it fails, and
`MaxFrames + WSize <= 2048`, as `SN_LESS` cannot tell more apart. Its invariant
`StartInv` says that the start is not set or at most one beyond the highest
frame taken (`StartKnown`), and that no frame is in hand between the two unlocked
writes of `add_ba_rsp_hdl`.

`MlmeProofs`: `TypeCorrect`, `LinkedOrSettling` (`LinkedIsAssociated`) and
`RoamingFollowedUp` (`RoamGoesOn`), with no assumption but that the bounds are
natural numbers. None is inductive. `LinkInv` adds that a linked station has no
roaming attempts left, without which `rtw_join_timeout_handler` would only retry and
leave `_FW_LINKED` set; that every disassociation command in the queue has a join
behind it or the user waiting for it (`Followed`), since its handler
takes the association away and reports nothing; and what must hold between the
two halves of a handler: an accepted or rejected answer or a lost beacon whose event
is not queued yet. `RoamInv` adds that while `_FW_UNDER_LINKING` is set the
association timer or its handler is there. `Queued` and the `...Facts` lemmas say
what each function does to mlmepriv and the queue, so that the step lemmas
(`FrameInv`, ...) need not expand them.

`XmitProofs`: `StoppedQueuesAreHeld` from `PackInv`, which adds to `StopIsUndone`
that the thread holds a buffer only while it packs, so that the packets in it
belong to the category it serves. `RoomForEveryWrite` from `RoomInv`: page by page
the driver's count is at most the chip's. The step that could break it is a write
that takes from both pools, where the driver may believe that fewer of the
category's own pages are free than there are: it then takes more public ones off
its count than the chip does (`TakeKeepsBelow`). Neither needs an assumption on the
sizes of the pools.

`XmitOrderProofs`: `WrittenInOrder` (`InOrder`) from `LineInv`: the packets of a
category stand in one increasing line, from the last one written through the second
thread's buffer, `pendq`, the buffer being packed and the category's queue to the
one the network stack carries (`Bound`). The property speaks of a write only; the
invariant has to relate every two places a packet can be in, because a buffer put
back goes to the head of `pendq` (`LinePutBack`) and a management frame is taken from
the middle (`LineSelected`: a data buffer is selected only when it is the first).

`XmitPoolProofs`: `FramesAndBuffersConserved` (`PoolsConserved`) and
`XmitTypeCorrect` (`TypeOK`). The frames are spread over the categories; `Chain` holds the
partial sums, one per category, so that a step that moves a frame changes the sums
from its category on and the last one is what is in use (`FrameInv`). `BufInv`
counts every buffer of the two pools: free, being packed, pending, or in the second
thread's hand. `CountInv` bounds what the network stack carries by the packets it
was given. All three build on the invariants of the other two modules.

`ApSleepProofs`: `SleepTypeCorrect` (`TypeOK`), `QueuesAreCounted` (`CountedQueues`),
`BufferedFramesAnnounced` (`BufferedIsAnnounced`) and `CategoriesInOrder` (`InOrder`),
for any number of frames, any `AgeLen` and any width of the counters that the
frames do not overflow (`BoundsAssumption`), with no other assumption.
All four come from one invariant, `SleepInv`, because each needs the others. The order of what was sent says
nothing about what is still queued: `Line` adds that the frames of a category stand
in line - sent, then its transmit queue, then the sleep queue of the receiver - and
`Older` that all of them are older than the one between the test of the sleep state
and `rtw_hal_xmit`. The counters wrap, so that they are exact only as long as the frames
under way are no more than were handed over (`Total`). A PS-Poll or a trigger clears
the bit in `tim_bitmap` when a counter says that nothing is left, so that the bitmap
depends on the counters; and the sleep queue is empty while the station is awake
(`Dozes`), so that a doze finds no frame that was not announced. The history flags `late` and
`races` switch off exactly the part each spoils: `GroupFramesCounted` says that
the count of the group addressed frames, and `sleepq_ac_len` when all categories have
U-APSD, stay exact whatever the unlocked sections do.
The sections under the lock are loops, modelled as folds over a queue. `ReleaseFold`,
`ReleaseAcFold`, `DeliverFold` and `EnqueueFold` say that what each turn of a loop
carries from place `i - 1` to place `i` holds at the end (the prover cannot
instantiate a lemma over operators, hence one for each loop body); they go by the
least place that fails, from a solution of the fold's recursion (`FoldSolution`).
With them `ReleaseStep`, `DeliverStep` and `EnqueueSound`, about a single frame, carry
over to `wakeup_sta_to_xmit`, `xmit_delivery_enabled_frames` and `stop_sta_xmit`.

Only model-checked: liveness, that is every property stated with `~>` (fairness and
ENABLED are out of the prover's reach). Every safety invariant that a run checks is
stated by a theorem as well.

## Not modelled

Ciphers, PHY tuning, coexistence algorithms, firmware download, register
sequences, efuse and the test mode: computation or hardware whose behaviour the
source does not describe. They, generated tables and the firmware image make up
most of the repository's lines. Ioctl handlers and the other cfg80211 operations:
parsing around operations of other components. Interfaces beyond the first:
switched off in this build. The contents of frames and commands are abstracted
throughout. Still open, see the plan: the transmit acknowledgement, the H2C
mailbox, inactive power save with suspend and silent reset, receive buffers, the
station table.

## Plan

1. `PwrCtrl`, `CmdThread`, `RecvReorder` with their proofs - done.
2. `CmdService` and the proof that `CmdThread` implements it - done.
3. `Mlme`, `ApSleep`, `Xmit` - modelled, checked, their invariants proved - done.
4. `AckTx`: the transmit acknowledgement; a late report must not answer for the
   next frame. `H2cBox`: the mailbox ring.
5. `Ips`: inactive power save, `ps_processing`, `ps_deny`, suspend and resume,
   silent reset. `RecvBuf`: receive buffers and interrupts. `StaMgt`: the station
   table.
6. An abstract in-order delivery specification that `RecvReorder` implements.
