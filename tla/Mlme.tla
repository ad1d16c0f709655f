-------------------------------- MODULE Mlme --------------------------------
(***************************************************************************)
(* Scanning, joining, roaming and disconnecting in station mode:           *)
(* core/rtw_mlme.c, core/rtw_mlme_ext.c and the cfg80211 operations that    *)
(* drive them, built with CONFIG_LAYER2_ROAMING (on expiration only).      *)
(*                                                                         *)
(* Two layers keep a state each.  mlmepriv (here `m') has the flags of     *)
(* fw_state, the wish to join after a scan, the roaming attempts left and  *)
(* the timers assoc_timer and scan_to_timer.  mlmeext (here `ext', `scan') *)
(* exchanges frames with the access point and visits the channels.  They   *)
(* talk through the command queue and through report_join_res, which the   *)
(* receive tasklet, the link timer and the command thread call.            *)
(*                                                                         *)
(* A section under pmlmepriv->lock is one step.  The one place where the   *)
(* lock is held across a wait is the end of rtw_joinbss_event_prehandle,   *)
(* which cancels assoc_timer synchronously: rx = "cancel" until            *)
(* CancelAssocTimer.  What a function does to mlmepriv is an operator from *)
(* its value before to its value after, so that the calls compose as they  *)
(* do in the code.                                                         *)
(***************************************************************************)
EXTENDS Integers, Sequences, SequencesExt

CONSTANTS
  NumCh,       \* channels a scan visits
  RetryLimit,  \* REAUTH_LIMIT and REASSOC_LIMIT
  MaxRoam,     \* registrypriv.max_roaming_times
  MaxReqs,     \* bound: requests of the user
  MaxLosses,   \* bound: deauthentications and expirations
  MaxFaults    \* bound: waits that run into their limit, failed allocations

ASSUME BoundsAssumption ==
  /\ NumCh \in Nat \ {0} /\ RetryLimit \in Nat /\ MaxRoam \in Nat \ {0}
  /\ MaxReqs \in Nat /\ MaxLosses \in Nat /\ MaxFaults \in Nat

VARIABLES
  m,            \* mlmepriv, the command queue, and what cfg80211 was told
  ext,          \* mlmext_info: state, retries so far, link_timer
  scan,         \* sitesurvey_res: state, channels left, abort, survey timer
  scan_request, \* wdev_priv.scan_request is set
  assocHdl,     \* rtw_join_timeout_handler has started and wants the lock
  scanHdl,      \* rtw_scan_timeout_handler is past its locked section
  cmd,          \* where the command thread is
  rx,           \* where the receive tasklet is
  link,         \* where link_timer_hdl is
  user,         \* where the cfg80211 operation is (rtnl allows one)
  reqs, losses, faults \* counters for the bounds

vars == <<m, ext, scan, scan_request, assocHdl, scanHdl, cmd, rx, link,
          user, reqs, losses, faults>>

LINKED  == "_FW_LINKED"
LINKING == "_FW_UNDER_LINKING"
SURVEY  == "_FW_UNDER_SURVEY"

CmdCodes == {"survey", "join", "disassoc", "disassoc_wait", "surveydone",
             "stadel", "stadel_expired"}

(***************************************************************************)
(* Of m, quiet is not_indic_disco; told, hushed and awaited are history:   *)
(* what cfg80211 was told last, that the last report of a disconnection    *)
(* was suppressed, and that a connect operation has no answer yet.         *)
(***************************************************************************)
Privs ==
  [fw : SUBSET {LINKED, LINKING, SURVEY},
   to_join : BOOLEAN, to_roam : 0..MaxRoam,
   assoc_timer : BOOLEAN, scan_to_timer : BOOLEAN,
   q : Seq(CmdCodes),
   quiet : BOOLEAN, awaited : BOOLEAN,
   told : {"up", "down"}, hushed : BOOLEAN]

Exts ==
  [state : {"NULL", "REFUSED", "AUTH_NULL", "AUTH", "ASSOC", "ASSOC_SUCCESS"},
   retry : 0..RetryLimit, link_timer : BOOLEAN]

Scans ==
  [state : {"DISABLE", "PS_ANNC_WAIT", "PROCESS"},
   left : 0..NumCh, abort : BOOLEAN, timer : BOOLEAN]

TypeOK ==
  /\ m \in Privs /\ ext \in Exts /\ scan \in Scans
  /\ scan_request \in BOOLEAN
  /\ assocHdl \in BOOLEAN /\ scanHdl \in BOOLEAN
  /\ cmd \in {"idle", "sd_cancel", "sd_join", "sd_done", "lost", "stadel",
              "stadel_expired"}
  /\ rx \in {"idle", "ok", "cancel", "reject", "lost"}
  /\ link \in {"idle", "report"}
  /\ user \in {"idle", "scan", "conn_abort", "conn_join", "conn_save",
               "disc_abort", "disc_wait", "disc_indicate"}
  /\ reqs \in 0..MaxReqs /\ losses \in 0..MaxLosses /\ faults \in 0..MaxFaults

Init ==
  /\ m = [fw |-> {}, to_join |-> FALSE, to_roam |-> 0,
          assoc_timer |-> FALSE, scan_to_timer |-> FALSE, q |-> <<>>,
          quiet |-> FALSE, awaited |-> FALSE, told |-> "down",
          hushed |-> FALSE]
  /\ ext = [state |-> "NULL", retry |-> 0, link_timer |-> FALSE]
  /\ scan = [state |-> "DISABLE", left |-> 0, abort |-> FALSE, timer |-> FALSE]
  /\ scan_request = FALSE
  /\ assocHdl = FALSE /\ scanHdl = FALSE
  /\ cmd = "idle" /\ rx = "idle" /\ link = "idle" /\ user = "idle"
  /\ reqs = 0 /\ losses = 0 /\ faults = 0

-----------------------------------------------------------------------------
(* What the functions do to mlmepriv.                                      *)

rtw_enqueue_cmd(p, c) == [p EXCEPT !.q = Append(@, c)]

(***************************************************************************)
(* The connection is reported as lost, or the pending request as failed,   *)
(* unless a connect or disconnect operation is under way                   *)
(* (not_indic_disco).  The request is dropped in both cases.               *)
(***************************************************************************)
cfg80211_indicate_disconnect(p) ==
  [p EXCEPT !.told = IF p.quiet THEN @ ELSE "down",
            !.hushed = p.quiet, !.awaited = p.quiet /\ @]

\* Deliberate fault: _FW_UNDER_LINKING is left set.
Bug_indicate_disconnect(p) ==
  IF p.to_roam > 0
  THEN [p EXCEPT !.fw = @ \ {LINKED}]
  ELSE cfg80211_indicate_disconnect([p EXCEPT !.fw = @ \ {LINKED}])

(***************************************************************************)
(* While roaming the disconnection is not reported.                        *)
(***************************************************************************)
rtw_indicate_disconnect(p) ==
  IF p.to_roam > 0
  THEN [p EXCEPT !.fw = @ \ {LINKING, LINKED}]
  ELSE cfg80211_indicate_disconnect([p EXCEPT !.fw = @ \ {LINKING, LINKED}])

rtw_set_to_roam(p, n) ==
  [p EXCEPT !.to_roam = n, !.to_join = IF n = 0 THEN FALSE ELSE @]

rtw_sitesurvey_cmd(p) ==
  rtw_enqueue_cmd([p EXCEPT !.fw = @ \cup {SURVEY}, !.scan_to_timer = TRUE],
                  "survey")

(***************************************************************************)
(* A candidate was found: leave the present network, start joining.        *)
(***************************************************************************)
select_and_join(p) ==
  LET left == IF LINKED \in p.fw
              THEN rtw_indicate_disconnect(rtw_enqueue_cmd(p, "disassoc"))
              ELSE p
  IN rtw_enqueue_cmd([left EXCEPT !.fw = @ \cup {LINKING}], "join")

(***************************************************************************)
(* Joins a network of the last scan ("join"), scans first ("survey"), or   *)
(* can do neither ("fail": too much traffic, no memory).                   *)
(***************************************************************************)
rtw_do_join(p, outcome) ==
  CASE outcome = "join" -> [select_and_join(p) EXCEPT !.to_join = FALSE,
                                                      !.assoc_timer = TRUE]
    [] outcome = "survey" ->
         rtw_sitesurvey_cmd([p EXCEPT !.fw = @ \ {LINKING}, !.to_join = TRUE])
    [] outcome = "fail" -> [p EXCEPT !.fw = @ \ {LINKING}, !.to_join = FALSE]

\* Deliberate fault: giving up is not reported.
Bug_roaming(p) ==
  IF p.to_roam = 0 THEN {p}
  ELSE {rtw_do_join([p EXCEPT !.to_roam = n], o) :
          n \in 1..p.to_roam, o \in {"join", "survey"}}
       \cup {rtw_do_join([p EXCEPT !.to_roam = 0], "fail")}

(***************************************************************************)
(* The possible results of _rtw_roaming: attempts that fail use up         *)
(* to_roam, until one is under way or none is left.                        *)
(***************************************************************************)
rtw_roaming(p) ==
  IF p.to_roam = 0 THEN {p}
  ELSE {rtw_do_join([p EXCEPT !.to_roam = n], o) :
          n \in 1..p.to_roam, o \in {"join", "survey"}}
       \cup {rtw_indicate_disconnect(
               rtw_do_join([p EXCEPT !.to_roam = 0], "fail"))}

\* Deliberate fault: the failure is not reported.
Bug_join_timeout(p) ==
  IF p.to_roam = 0
  THEN {[p EXCEPT !.fw = @ \ {LINKING, LINKED}]}
  ELSE {rtw_do_join([p EXCEPT !.to_roam = n], o) :
          n \in 1..(p.to_roam - 1), o \in {"join", "survey"}}
       \cup {[p EXCEPT !.to_roam = 0]}

(***************************************************************************)
(* The possible results of the locked section of rtw_join_timeout_handler. *)
(***************************************************************************)
join_timeout(p) ==
  IF p.to_roam = 0
  THEN {cfg80211_indicate_disconnect(rtw_indicate_disconnect(p))}
  ELSE {rtw_do_join([p EXCEPT !.to_roam = n], o) :
          n \in 1..(p.to_roam - 1), o \in {"join", "survey"}}
       \cup {rtw_indicate_disconnect(
               [(IF p.to_roam = 1 THEN p ELSE rtw_do_join(p, "fail"))
                  EXCEPT !.to_roam = 0])}

\* Deliberate fault: the last failure leaves to_roam, others do not scan again.
Bug_survey_join(p) ==
  IF ~p.to_join THEN {p}
  ELSE LET trying == [p EXCEPT !.to_join = FALSE, !.fw = @ \cup {LINKING}]
       IN {[select_and_join(trying) EXCEPT !.assoc_timer = TRUE],
           rtw_indicate_disconnect(trying)}

(***************************************************************************)
(* The possible results of the second locked section of                    *)
(* rtw_surveydone_event_callback.                                          *)
(***************************************************************************)
survey_join(p) ==
  IF ~p.to_join THEN {p}
  ELSE LET trying == [p EXCEPT !.to_join = FALSE, !.fw = @ \cup {LINKING}]
           gaveUp == rtw_indicate_disconnect(rtw_set_to_roam(trying, 0))
           again  == [rtw_sitesurvey_cmd([trying EXCEPT !.to_roam = @ - 1])
                        EXCEPT !.to_join = TRUE, !.fw = @ \ {LINKING}]
       IN {[select_and_join(trying) EXCEPT !.assoc_timer = TRUE], gaveUp}
          \cup IF p.to_roam > 1 THEN {again} ELSE {}

(***************************************************************************)
(* rtw_joinbss_event_prehandle for a failure: assoc_timer does the rest.   *)
(***************************************************************************)
join_failed(p) == [p EXCEPT !.assoc_timer = TRUE, !.fw = @ \ {LINKING}]

(***************************************************************************)
(* rtw_joinbss_update_network sets fw_state anew, rtw_indicate_connect     *)
(* adds _FW_LINKED and reports the connection.                             *)
(***************************************************************************)
rtw_indicate_connect(p) ==
  [rtw_set_to_roam(p, 0) EXCEPT !.fw = {LINKED}, !.told = "up",
                                !.hushed = FALSE, !.awaited = FALSE]

(***************************************************************************)
(* pmlmepriv->lock can be taken.                                           *)
(***************************************************************************)
Unlocked == rx # "cancel"

-----------------------------------------------------------------------------
(* Frames of the access point, in the receive tasklet.                     *)

Disassociated == [ext EXCEPT !.state = "NULL", !.link_timer = FALSE]

(***************************************************************************)
(* During a scan a beacon is a scan result only.  start_clnt_auth,         *)
(* start_clnt_assoc and OnAssocRsp cancel link_timer and so wait for its   *)
(* handler.                                                                *)
(***************************************************************************)
OnBeacon ==
  /\ rx = "idle" /\ link = "idle"
  /\ ext.state = "AUTH_NULL" /\ scan.state # "PROCESS"
  /\ ext' = [state |-> "AUTH", retry |-> 0, link_timer |-> TRUE]
  /\ UNCHANGED <<m, scan, scan_request, assocHdl, scanHdl, cmd, rx, link,
                 user, reqs, losses, faults>>

OnAuthClient ==
  /\ rx = "idle" /\ link = "idle"
  /\ ext.state = "AUTH"
  /\ ext' = [state |-> "ASSOC", retry |-> 0, link_timer |-> TRUE]
  /\ UNCHANGED <<m, scan, scan_request, assocHdl, scanHdl, cmd, rx, link,
                 user, reqs, losses, faults>>

OnAssocRsp ==
  /\ rx = "idle" /\ link = "idle"
  /\ ext.state = "ASSOC"
  /\ \/ /\ ext' = [ext EXCEPT !.state = "ASSOC_SUCCESS", !.link_timer = FALSE]
        /\ rx' = "ok"
     \/ /\ ext' = Disassociated
        /\ rx' = "reject"
  /\ UNCHANGED <<m, scan, scan_request, assocHdl, scanHdl, cmd, link,
                 user, reqs, losses, faults>>

\* Deliberate fault: _FW_UNDER_LINKING is not tested.
Bug_JoinSucceeded ==
  /\ rx = "ok"
  /\ m' = rtw_indicate_connect(m) /\ rx' = "cancel"
  /\ UNCHANGED <<ext, scan, scan_request, assocHdl, scanHdl, cmd, link, user,
                 reqs, losses, faults>>

(***************************************************************************)
(* rtw_joinbss_event_prehandle with join_res > 0.  Without                 *)
(* _FW_UNDER_LINKING, or when the target is no longer among the scan       *)
(* results, the answer is ignored; when no sta_info can be had, fw_state   *)
(* has already been set anew.  The joinbss event that report_join_res      *)
(* queues afterwards only programs the hardware.                           *)
(***************************************************************************)
JoinSucceeded ==
  /\ rx = "ok"
  /\ \/ LINKING \in m.fw /\ m' = rtw_indicate_connect(m) /\ rx' = "cancel"
     \/ LINKING \in m.fw /\ m' = [m EXCEPT !.fw = {}] /\ rx' = "idle"
     \/ m' = m /\ rx' = "idle"
  /\ UNCHANGED <<ext, scan, scan_request, assocHdl, scanHdl, cmd, link, user,
                 reqs, losses, faults>>

(***************************************************************************)
(* "s5": del_timer_sync waits for a handler that is running.               *)
(***************************************************************************)
CancelAssocTimer ==
  /\ rx = "cancel" /\ ~assocHdl
  /\ m' = [m EXCEPT !.assoc_timer = FALSE]
  /\ rx' = "idle"
  /\ UNCHANGED <<ext, scan, scan_request, assocHdl, scanHdl, cmd, link,
                 user, reqs, losses, faults>>

JoinRejected ==
  /\ rx = "reject"
  /\ rx' = "idle"
  /\ m' = join_failed(m)
  /\ UNCHANGED <<ext, scan, scan_request, assocHdl, scanHdl, cmd, link,
                 user, reqs, losses, faults>>

(***************************************************************************)
(* OnDeAuth and OnDisassoc: receive_disconnect reports first and resets    *)
(* the state afterwards (RxLost).                                          *)
(***************************************************************************)
OnDeAuth ==
  /\ rx = "idle" /\ losses < MaxLosses
  /\ \/ ext.state = "ASSOC_SUCCESS" /\ m' = rtw_enqueue_cmd(m, "stadel")
     \/ /\ ext.state \in {"AUTH_NULL", "AUTH", "ASSOC"}
        /\ m' = join_failed(m)
  /\ rx' = "lost"
  /\ losses' = losses + 1
  /\ UNCHANGED <<ext, scan, scan_request, assocHdl, scanHdl, cmd, link,
                 user, reqs, faults>>

RxLost ==
  /\ rx = "lost"
  /\ rx' = "idle"
  /\ ext' = [ext EXCEPT !.state = "NULL"]
  /\ UNCHANGED <<m, scan, scan_request, assocHdl, scanHdl, cmd, link,
                 user, reqs, losses, faults>>

-----------------------------------------------------------------------------
(* Timers.                                                                 *)

\* Deliberate fault: one attempt too many.
Bug_link_timer_hdl ==
  /\ ext.link_timer /\ link = "idle"
  /\ LET waiting == ext.state \in {"AUTH", "ASSOC"}
         again == waiting /\ ext.retry <= RetryLimit
         over  == ext.state = "AUTH_NULL" \/ (waiting /\ ~again)
     IN /\ ext' = [state |-> IF over THEN "NULL" ELSE ext.state,
                   retry |-> IF again THEN ext.retry + 1 ELSE ext.retry,
                   link_timer |-> again]
        /\ link' = IF over THEN "report" ELSE "idle"
  /\ UNCHANGED <<m, scan, scan_request, assocHdl, scanHdl, cmd, rx,
                 user, reqs, losses, faults>>

link_timer_hdl ==
  /\ ext.link_timer /\ link = "idle"
  /\ LET waiting == ext.state \in {"AUTH", "ASSOC"}
         again == waiting /\ ext.retry < RetryLimit
         over  == ext.state = "AUTH_NULL" \/ (waiting /\ ~again)
     IN /\ ext' = [state |-> IF over THEN "NULL" ELSE ext.state,
                   retry |-> IF again THEN ext.retry + 1 ELSE ext.retry,
                   link_timer |-> again]
        /\ link' = IF over THEN "report" ELSE "idle"
  /\ UNCHANGED <<m, scan, scan_request, assocHdl, scanHdl, cmd, rx,
                 user, reqs, losses, faults>>

LinkTimeoutReported ==
  /\ link = "report" /\ Unlocked
  /\ link' = "idle"
  /\ m' = join_failed(m)
  /\ UNCHANGED <<ext, scan, scan_request, assocHdl, scanHdl, cmd, rx,
                 user, reqs, losses, faults>>

\* Deliberate fault: only a scan past its announcement goes on.
Bug_survey_timer_hdl ==
  /\ scan.timer
  /\ scan' = [scan EXCEPT !.timer = FALSE]
  /\ m' = IF scan.state # "PROCESS" THEN m ELSE rtw_enqueue_cmd(m, "survey")
  /\ UNCHANGED <<ext, scan_request, assocHdl, scanHdl, cmd, rx, link,
                 user, reqs, losses, faults>>

survey_timer_hdl ==
  /\ scan.timer
  /\ scan' = [scan EXCEPT !.timer = FALSE]
  /\ m' = IF scan.state = "DISABLE" THEN m ELSE rtw_enqueue_cmd(m, "survey")
  /\ UNCHANGED <<ext, scan_request, assocHdl, scanHdl, cmd, rx, link,
                 user, reqs, losses, faults>>

(***************************************************************************)
(* The join that assoc_timer limits is under way (Attempting: in mlmeext), *)
(* or its answer is due without that timer.  A wait that ends before an    *)
(* answer that is due counts as a fault.                                   *)
(***************************************************************************)
Attempting == ext.state \in {"AUTH_NULL", "AUTH", "ASSOC"}

AnswerDue ==
  \/ Contains(m.q, "join") \/ (Attempting /\ ext.link_timer)
  \/ rx \in {"ok", "reject"} \/ link = "report"

JoinUnderWay == Attempting \/ AnswerDue

AssocTimerExpires ==
  /\ m.assoc_timer /\ ~assocHdl
  /\ \/ ~AnswerDue /\ UNCHANGED faults
     \/ AnswerDue /\ faults < MaxFaults /\ faults' = faults + 1
  /\ m' = [m EXCEPT !.assoc_timer = FALSE]
  /\ assocHdl' = TRUE
  /\ UNCHANGED <<ext, scan, scan_request, scanHdl, cmd, rx, link, user,
                 reqs, losses>>

rtw_join_timeout_handler ==
  /\ assocHdl /\ Unlocked
  /\ assocHdl' = FALSE
  /\ m' \in join_timeout(m)
  /\ UNCHANGED <<ext, scan, scan_request, scanHdl, cmd, rx, link, user,
                 reqs, losses, faults>>

(***************************************************************************)
(* rtw_scan_timeout_handler: the locked section, then rtw_indicate_scan_done.*)
(***************************************************************************)
rtw_scan_timeout_handler ==
  /\ m.scan_to_timer /\ ~scanHdl /\ Unlocked /\ faults < MaxFaults
  /\ m' = [m EXCEPT !.fw = @ \ {SURVEY}, !.scan_to_timer = FALSE]
  /\ scanHdl' = TRUE
  /\ faults' = faults + 1
  /\ UNCHANGED <<ext, scan, scan_request, assocHdl, cmd, rx, link, user,
                 reqs, losses>>

ScanTimeoutIndicated ==
  /\ scanHdl
  /\ scanHdl' = FALSE
  /\ scan_request' = FALSE
  /\ UNCHANGED <<m, ext, scan, assocHdl, cmd, rx, link, user, reqs,
                 losses, faults>>

-----------------------------------------------------------------------------
(* The command thread.                                                     *)

Exec(code) == cmd = "idle" /\ m.q # <<>> /\ Head(m.q) = code

Popped == [m EXCEPT !.q = Tail(@)]

(***************************************************************************)
(* One call of sitesurvey_cmd_hdl.  It announces power save first when     *)
(* associated, visits one channel per call, and completes when none is     *)
(* left or the scan is aborted.                                            *)
(***************************************************************************)
sitesurvey_cmd_hdl ==
  /\ Exec("survey")
  /\ LET left == CASE scan.state = "DISABLE" -> NumCh
                   [] scan.state = "PS_ANNC_WAIT" -> scan.left
                   [] scan.state = "PROCESS" -> scan.left - 1
         announce == scan.state = "DISABLE" /\ ext.state = "ASSOC_SUCCESS"
         complete == ~announce /\ (left = 0 \/ scan.abort)
     IN /\ scan' = [state |-> IF announce THEN "PS_ANNC_WAIT"
                              ELSE IF complete THEN "DISABLE" ELSE "PROCESS",
                    left |-> IF complete THEN 0 ELSE left,
                    abort |-> IF announce THEN scan.abort ELSE FALSE,
                    timer |-> IF complete THEN scan.timer ELSE TRUE]
        /\ m' = IF complete THEN rtw_enqueue_cmd(Popped, "surveydone")
                            ELSE Popped
  /\ UNCHANGED <<ext, scan_request, assocHdl, scanHdl, cmd, rx, link,
                 user, reqs, losses, faults>>

(***************************************************************************)
(* join_cmd_hdl leaves the old network and starts the join, which arms     *)
(* both timers, or refuses the network and reports -4.  Information        *)
(* elements that are too long make it return an error, after which         *)
(* rtw_joinbss_cmd_callback lets assoc_timer end the join; capabilities    *)
(* that are neither ESS nor IBSS make start_clnt_join return, with         *)
(* link_timer cancelled and nothing armed or reported.  REFUSED stands for *)
(* the WIFI_FW_NULL_STATE that these two ways out leave behind.            *)
(***************************************************************************)
Left == IF ext.state = "ASSOC_SUCCESS" THEN Disassociated ELSE ext

Refused == [Left EXCEPT !.state = IF @ = "NULL" THEN "REFUSED" ELSE @]

join_cmd_hdl ==
  /\ Exec("join")
  /\ link = "idle"
  /\ \/ /\ ext' = [ext EXCEPT !.state = "AUTH_NULL", !.link_timer = TRUE]
        /\ m' = [Popped EXCEPT !.assoc_timer = TRUE]
     \/ /\ Unlocked
        /\ ext' = Left
        /\ m' = join_failed(Popped)
     \/ /\ ext' = Refused
        /\ m' = [Popped EXCEPT !.assoc_timer = TRUE]
     \/ /\ ext' = [Refused EXCEPT !.link_timer = FALSE]
        /\ m' = Popped
  /\ UNCHANGED <<scan, scan_request, assocHdl, scanHdl, cmd, rx, link,
                 user, reqs, losses, faults>>

disconnect_hdl ==
  /\ Exec("disassoc") \/ Exec("disassoc_wait")
  /\ link = "idle"
  /\ ext' = Disassociated
  /\ m' = Popped
  /\ UNCHANGED <<scan, scan_request, assocHdl, scanHdl, cmd, rx, link,
                 user, reqs, losses, faults>>

(***************************************************************************)
(* rtw_surveydone_event_callback: it gives the lock back to cancel         *)
(* scan_to_timer, takes it again to join, and answers the scan request.    *)
(***************************************************************************)
SurveyDone ==
  /\ Exec("surveydone") /\ Unlocked
  /\ m' = [Popped EXCEPT !.fw = @ \ {SURVEY}]
  /\ cmd' = "sd_cancel"
  /\ UNCHANGED <<ext, scan, scan_request, assocHdl, scanHdl, rx, link,
                 user, reqs, losses, faults>>

SurveyDoneCancel ==
  /\ cmd = "sd_cancel" /\ ~scanHdl
  /\ m' = [m EXCEPT !.scan_to_timer = FALSE]
  /\ cmd' = "sd_join"
  /\ UNCHANGED <<ext, scan, scan_request, assocHdl, scanHdl, rx, link,
                 user, reqs, losses, faults>>

SurveyDoneJoin ==
  /\ cmd = "sd_join" /\ Unlocked
  /\ m' \in survey_join(m)
  /\ cmd' = "sd_done"
  /\ UNCHANGED <<ext, scan, scan_request, assocHdl, scanHdl, rx, link,
                 user, reqs, losses, faults>>

\* Deliberate fault: the scan request is not answered.
Bug_SurveyDoneIndicated ==
  /\ cmd = "sd_done"
  /\ cmd' = "idle"
  /\ UNCHANGED <<m, ext, scan, scan_request, assocHdl, scanHdl, rx, link,
                 user, reqs, losses, faults>>

SurveyDoneIndicated ==
  /\ cmd = "sd_done"
  /\ cmd' = "idle"
  /\ scan_request' = FALSE
  /\ UNCHANGED <<m, ext, scan, assocHdl, scanHdl, rx, link, user, reqs,
                 losses, faults>>

(***************************************************************************)
(* linked_status_chk: the access point has been silent for several of its  *)
(* periods of two seconds (WLAN_REASON_EXPIRATION_CHK), far longer than    *)
(* the tasklet takes over a frame.                                         *)
(***************************************************************************)
Expired ==
  /\ cmd = "idle" /\ rx = "idle" /\ losses < MaxLosses
  /\ ext.state = "ASSOC_SUCCESS"
  /\ m' = rtw_enqueue_cmd(m, "stadel_expired")
  /\ cmd' = "lost"
  /\ losses' = losses + 1
  /\ UNCHANGED <<ext, scan, scan_request, assocHdl, scanHdl, rx, link,
                 user, reqs, faults>>

CmdLost ==
  /\ cmd = "lost"
  /\ cmd' = "idle"
  /\ ext' = [ext EXCEPT !.state = "NULL"]
  /\ UNCHANGED <<m, scan, scan_request, assocHdl, scanHdl, rx, link,
                 user, reqs, losses, faults>>

(***************************************************************************)
(* rtw_stadel_event_callback: mlmeext_sta_del_event_callback, then the     *)
(* locked section, which roams when the access point had gone silent.      *)
(***************************************************************************)
mlmeext_sta_del_event_callback ==
  /\ Exec("stadel") \/ Exec("stadel_expired")
  /\ \/ /\ ext.state = "ASSOC_SUCCESS" /\ link = "idle"
        /\ ext' = Disassociated
     \/ ext.state # "ASSOC_SUCCESS" /\ UNCHANGED ext
  /\ cmd' = Head(m.q)
  /\ m' = Popped
  /\ UNCHANGED <<scan, scan_request, assocHdl, scanHdl, rx, link, user,
                 reqs, losses, faults>>

ToRoam(p, expired) ==
  CASE ~expired -> rtw_set_to_roam(p, 0)
    [] expired /\ p.to_roam > 0 -> [p EXCEPT !.to_roam = @ - 1]
    [] expired /\ p.to_roam = 0 -> rtw_set_to_roam(p, MaxRoam)

rtw_stadel_event_callback ==
  /\ cmd \in {"stadel", "stadel_expired"} /\ Unlocked
  /\ m' \in rtw_roaming(rtw_indicate_disconnect(
                          ToRoam(m, cmd = "stadel_expired")))
  /\ cmd' = "idle"
  /\ UNCHANGED <<ext, scan, scan_request, assocHdl, scanHdl, rx, link,
                 user, reqs, losses, faults>>

-----------------------------------------------------------------------------
(* The operations of cfg80211.                                             *)

Request(then) ==
  /\ user = "idle" /\ reqs < MaxReqs
  /\ user' = then
  /\ reqs' = reqs + 1

(***************************************************************************)
(* cfg80211_rtw_scan looks at fw_state without the lock; a scan that it    *)
(* answers at once changes nothing and is left out.                        *)
(***************************************************************************)
cfg80211_rtw_scan ==
  /\ Request("scan")
  /\ ~scan_request /\ m.fw \cap {SURVEY, LINKING} = {}
  /\ UNCHANGED <<m, ext, scan, scan_request, assocHdl, scanHdl, cmd, rx,
                 link, losses, faults>>

ScanStarted ==
  /\ user = "scan" /\ Unlocked
  /\ m' = rtw_sitesurvey_cmd(m)
  /\ scan_request' = TRUE
  /\ user' = "idle"
  /\ UNCHANGED <<ext, scan, assocHdl, scanHdl, cmd, rx, link, reqs,
                 losses, faults>>

cfg80211_rtw_connect ==
  /\ Request("conn_abort")
  /\ LINKING \notin m.fw
  /\ m' = [m EXCEPT !.quiet = TRUE, !.awaited = TRUE]
  /\ scan' = [scan EXCEPT !.abort = TRUE]
  /\ UNCHANGED <<ext, scan_request, assocHdl, scanHdl, cmd, rx, link,
                 losses, faults>>

(***************************************************************************)
(* _rtw_wait_scan_done with abort: the wait for the end of the scan is     *)
(* limited to 200 ms, after which the request is answered as aborted.      *)
(***************************************************************************)
ScanWaited ==
  /\ \/ SURVEY \notin m.fw /\ UNCHANGED <<scan_request, faults>>
     \/ /\ SURVEY \in m.fw /\ faults < MaxFaults
        /\ faults' = faults + 1 /\ scan_request' = FALSE
  /\ scan' = [scan EXCEPT !.abort = FALSE]

ConnectAborted ==
  /\ user = "conn_abort"
  /\ ScanWaited
  /\ user' = "conn_join"
  /\ UNCHANGED <<m, ext, assocHdl, scanHdl, cmd, rx, link, reqs, losses>>

(***************************************************************************)
(* rtw_set_802_11_connect.  A join that is under way is left alone; one    *)
(* that cannot start is reported by the return value.                      *)
(***************************************************************************)
rtw_set_802_11_connect ==
  /\ user = "conn_join" /\ Unlocked
  /\ \/ /\ SURVEY \in m.fw
        /\ m' = [m EXCEPT !.to_join = TRUE]
        /\ user' = "conn_save"
        /\ UNCHANGED faults
     \/ /\ SURVEY \notin m.fw /\ LINKING \in m.fw
        /\ user' = "conn_save"
        /\ UNCHANGED <<m, faults>>
     \/ /\ m.fw \cap {SURVEY, LINKING} = {}
        /\ \/ /\ \E o \in {"join", "survey"} : m' = rtw_do_join(m, o)
              /\ user' = "conn_save"
              /\ UNCHANGED faults
           \/ /\ m' = [rtw_do_join(m, "fail") EXCEPT !.quiet = FALSE,
                                                     !.awaited = FALSE]
              /\ user' = "idle"
              /\ \/ m.to_roam = 0 /\ UNCHANGED faults
                 \/ m.to_roam > 0 /\ faults < MaxFaults /\ faults' = faults + 1
  /\ UNCHANGED <<ext, scan, scan_request, assocHdl, scanHdl, cmd, rx,
                 link, reqs, losses>>

(***************************************************************************)
(* A group cipher that is not supported: the one error path that returns   *)
(* without clearing not_indic_disco.                                       *)
(***************************************************************************)
ConnectRefused ==
  /\ user = "conn_join" /\ faults < MaxFaults
  /\ m' = [m EXCEPT !.awaited = FALSE]
  /\ user' = "idle"
  /\ faults' = faults + 1
  /\ UNCHANGED <<ext, scan, scan_request, assocHdl, scanHdl, cmd, rx,
                 link, reqs, losses>>

ConnectSaved ==
  /\ user = "conn_save"
  /\ m' = [m EXCEPT !.quiet = FALSE]
  /\ user' = "idle"
  /\ UNCHANGED <<ext, scan, scan_request, assocHdl, scanHdl, cmd, rx,
                 link, reqs, losses, faults>>

cfg80211_rtw_disconnect ==
  /\ Request("disc_abort")
  /\ m' = [rtw_set_to_roam(m, 0) EXCEPT !.quiet = TRUE]
  /\ scan' = [scan EXCEPT !.abort = TRUE]
  /\ UNCHANGED <<ext, scan_request, assocHdl, scanHdl, cmd, rx, link,
                 losses, faults>>

DisconnectAborted ==
  /\ user = "disc_abort"
  /\ ScanWaited
  /\ m' = rtw_enqueue_cmd(m, "disassoc_wait")
  /\ user' = "disc_wait"
  /\ UNCHANGED <<ext, assocHdl, scanHdl, cmd, rx, link, reqs, losses>>

(***************************************************************************)
(* The wait for the disconnect command is limited to 2000 ms.              *)
(***************************************************************************)
DisconnectAcked ==
  /\ user = "disc_wait"
  /\ \/ ~Contains(m.q, "disassoc_wait") /\ UNCHANGED faults
     \/ /\ Contains(m.q, "disassoc_wait") /\ faults < MaxFaults
        /\ faults' = faults + 1
  /\ user' = "disc_indicate"
  /\ UNCHANGED <<m, ext, scan, scan_request, assocHdl, scanHdl, cmd, rx,
                 link, reqs, losses>>

(***************************************************************************)
(* rtw_indicate_disconnect is called without the lock here.  The user has  *)
(* asked for the disconnection and knows of it.                            *)
(***************************************************************************)
DisconnectIndicated ==
  /\ user = "disc_indicate"
  /\ m' = [rtw_indicate_disconnect(m) EXCEPT !.quiet = FALSE, !.hushed = FALSE,
                                             !.told = "down", !.awaited = FALSE]
  /\ user' = "idle"
  /\ UNCHANGED <<ext, scan, scan_request, assocHdl, scanHdl, cmd, rx,
                 link, reqs, losses, faults>>

-----------------------------------------------------------------------------
RxStep == JoinSucceeded \/ CancelAssocTimer \/ JoinRejected \/ RxLost

Frame == OnBeacon \/ OnAuthClient \/ OnAssocRsp \/ OnDeAuth

CmdStep ==
  \/ sitesurvey_cmd_hdl \/ join_cmd_hdl \/ disconnect_hdl
  \/ SurveyDone \/ SurveyDoneCancel \/ SurveyDoneJoin \/ SurveyDoneIndicated
  \/ CmdLost \/ mlmeext_sta_del_event_callback \/ rtw_stadel_event_callback

UserStep ==
  \/ ScanStarted
  \/ ConnectAborted \/ rtw_set_802_11_connect \/ ConnectRefused \/ ConnectSaved
  \/ DisconnectAborted \/ DisconnectAcked \/ DisconnectIndicated

Next ==
  \/ Frame \/ RxStep
  \/ link_timer_hdl \/ LinkTimeoutReported \/ survey_timer_hdl
  \/ AssocTimerExpires \/ rtw_join_timeout_handler
  \/ rtw_scan_timeout_handler \/ ScanTimeoutIndicated
  \/ CmdStep \/ Expired
  \/ cfg80211_rtw_scan \/ cfg80211_rtw_connect \/ cfg80211_rtw_disconnect
  \/ UserStep

Spec == Init /\ [][Next]_vars

(***************************************************************************)
(* Contexts that have something to do run, and armed timers expire; the    *)
(* access point and the user may be silent.                                *)
(***************************************************************************)
Fairness ==
  /\ WF_vars(RxStep) /\ WF_vars(CmdStep) /\ WF_vars(UserStep)
  /\ WF_vars(link_timer_hdl) /\ WF_vars(LinkTimeoutReported)
  /\ WF_vars(survey_timer_hdl)
  /\ WF_vars(AssocTimerExpires) /\ WF_vars(rtw_join_timeout_handler)
  /\ WF_vars(ScanTimeoutIndicated)

FairSpec == Spec /\ Fairness

-----------------------------------------------------------------------------
(***************************************************************************)
(* rtw_joinbss_event_prehandle waits, under pmlmepriv->lock, for the end   *)
(* of rtw_join_timeout_handler, which waits for that lock.                 *)
(***************************************************************************)
Stuck == rx = "cancel" /\ assocHdl

(***************************************************************************)
(* The two layers agree: mlmepriv believes to be linked only while mlmeext *)
(* is associated, or something that will make them agree is on its way: a  *)
(* deletion event, the rest of a disconnect operation, or a join.  Nothing *)
(* is on its way once a join command has left the old network and given up *)
(* without a report (REFUSED): a second connect operation's command, run   *)
(* when the first one has just succeeded.                                  *)
(***************************************************************************)
LinkedIsAssociated ==
  LINKED \in m.fw =>
    \/ ext.state \in {"ASSOC_SUCCESS", "REFUSED"}
    \/ Contains(m.q, "stadel") \/ Contains(m.q, "stadel_expired")
    \/ cmd \in {"stadel", "stadel_expired"}
    \/ user \in {"disc_wait", "disc_indicate"}
    \/ m.assoc_timer \/ assocHdl \/ JoinUnderWay

(***************************************************************************)
(* While roaming attempts are left the disconnection is not reported, so   *)
(* the next attempt must be on its way: a join limited by assoc_timer, or  *)
(* a scan after which to_join starts one.  A scan that runs into           *)
(* scan_to_timer strands it: the handler does not look at to_join.         *)
(***************************************************************************)
RoamGoesOn ==
  faults = 0 /\ m.to_roam > 0 =>
    \/ m.assoc_timer \/ assocHdl
    \/ m.to_join /\ (SURVEY \in m.fw \/ cmd \in {"sd_cancel", "sd_join"})

(***************************************************************************)
(* Every join ends, whatever the access point does and whichever of the    *)
(* answer, link_timer and assoc_timer comes first.                         *)
(***************************************************************************)
JoinEnds == LINKING \in m.fw ~> LINKING \notin m.fw \/ Stuck

(***************************************************************************)
(* Every scan ends, also when it is aborted, overtaken by a join, or       *)
(* started twice.                                                          *)
(***************************************************************************)
SurveyEnds == SURVEY \in m.fw ~> SURVEY \notin m.fw \/ Stuck

(***************************************************************************)
(* Every scan request that cfg80211_rtw_scan keeps is answered, by the     *)
(* scan, by its timer or by the operation that aborts it.                  *)
(***************************************************************************)
ScanAnswered == scan_request ~> ~scan_request \/ Stuck

(***************************************************************************)
(* A connection that was reported and is gone is reported as lost or is    *)
(* restored by roaming; unless a connect or disconnect operation silenced  *)
(* the report (not_indic_disco) or a wait ran into its limit.              *)
(***************************************************************************)
LossIsTold ==
  (m.told = "up" /\ LINKED \notin m.fw)
     ~> (m.told = "down" \/ LINKED \in m.fw \/ m.hushed \/ faults > 0 \/ Stuck)

(***************************************************************************)
(* A connect operation is answered: it returns an error, or the connection *)
(* or its failure is reported later; with the same exceptions.             *)
(***************************************************************************)
ConnectAnswered ==
  m.awaited ~> ~m.awaited \/ m.hushed \/ faults > 0 \/ Stuck

=============================================================================
