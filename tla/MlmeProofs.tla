----------------------------- MODULE MlmeProofs -----------------------------
(***************************************************************************)
(* Proofs about scanning, joining, roaming and disconnecting, for any      *)
(* number of channels, retries, requests, losses and faults: mlmepriv is   *)
(* linked only while mlmeext is or something will undo it, and roaming     *)
(* never stops half way.                                                   *)
(***************************************************************************)
EXTENDS Mlme, SequenceTheorems, TLAPS

Flags == scan_request \in BOOLEAN /\ assocHdl \in BOOLEAN /\ scanHdl \in BOOLEAN

(***************************************************************************)
(* The command queue.  A disassoc or disassoc_wait command is followed by  *)
(* a join command.                                                         *)
(***************************************************************************)
JoinAfter(q, i) == \E j \in DOMAIN q : i < j /\ q[j] = "join"

Followed(q, c) == \A i \in DOMAIN q : q[i] = c => JoinAfter(q, i)

\* A command added to the queue loses none and breaks no pair.
LEMMA QueueAppend ==
  ASSUME NEW q \in Seq(CmdCodes), NEW c \in CmdCodes
  PROVE  /\ Append(q, c) \in Seq(CmdCodes)
         /\ Contains(Append(q, c), c)
         /\ \A d : Contains(q, d) => Contains(Append(q, c), d)
         /\ \A d : c # d /\ Followed(q, d) => Followed(Append(q, c), d)
         /\ \A d : c = "join" /\ d # "join" => Followed(Append(q, c), d)
<1>1. /\ Append(q, c) \in Seq(CmdCodes) /\ Len(Append(q, c)) = Len(q) + 1
      /\ \A i \in 1 .. Len(q) : Append(q, c)[i] = q[i]
      /\ Append(q, c)[Len(q) + 1] = c
  BY AppendProperties
<1>2. /\ Len(q) \in Nat /\ DOMAIN q = 1 .. Len(q)
      /\ DOMAIN Append(q, c) = 1 .. Len(q) + 1
  BY <1>1, LenProperties
<1>3. \A i \in DOMAIN q : i \in DOMAIN Append(q, c) /\ Append(q, c)[i] = q[i]
  BY <1>1, <1>2
<1>4. /\ Len(q) + 1 \in DOMAIN Append(q, c)
      /\ \A i \in DOMAIN Append(q, c) : i \in DOMAIN q \/ i = Len(q) + 1
      /\ \A i \in DOMAIN q : i < Len(q) + 1
  BY <1>2
<1>5. Contains(Append(q, c), c) /\ \A d : Contains(q, d) => Contains(Append(q, c), d)
  BY <1>1, <1>2 DEF Contains
<1>6. \A d : c # d /\ Followed(q, d) => Followed(Append(q, c), d)
  BY <1>1, <1>3, <1>4 DEF Followed, JoinAfter
<1>7. \A d : c = "join" /\ d # "join" => Followed(Append(q, c), d)
  BY <1>1, <1>4 DEF Followed, JoinAfter
<1> QED
  BY <1>1, <1>5, <1>6, <1>7

\* The command thread takes the first command and no other.
LEMMA QueueTail ==
  ASSUME NEW q \in Seq(CmdCodes), q # <<>>
  PROVE  /\ Tail(q) \in Seq(CmdCodes)
         /\ \A d : Contains(q, d) /\ Head(q) # d => Contains(Tail(q), d)
         /\ \A d : Followed(q, d) => Followed(Tail(q), d)
         /\ Followed(q, Head(q)) => Contains(Tail(q), "join")
<1>1. /\ Tail(q) \in Seq(CmdCodes) /\ Len(Tail(q)) = Len(q) - 1
      /\ \A i \in 1 .. Len(Tail(q)) : Tail(q)[i] = q[i + 1]
  BY HeadTailProperties
<1>2. /\ Len(q) \in Nat \ {0} /\ DOMAIN q = 1 .. Len(q)
      /\ DOMAIN Tail(q) = 1 .. Len(Tail(q))
      /\ Head(q) = q[1]
  BY <1>1, LenProperties, EmptySeq
<1>3. \A i \in DOMAIN q : i > 1 => i - 1 \in DOMAIN Tail(q) /\ Tail(q)[i - 1] = q[i]
  BY <1>1, <1>2
<1>4. \A i \in DOMAIN q : i \in Nat /\ (i = 1 \/ i > 1)
  BY <1>2
<1>5. \A i \in DOMAIN Tail(q) : i \in Nat /\ i + 1 \in DOMAIN q /\ Tail(q)[i] = q[i + 1]
  BY <1>1, <1>2
<1>6. \A d : Contains(q, d) /\ Head(q) # d => Contains(Tail(q), d)
  BY <1>1, <1>2, <1>3, <1>4 DEF Contains
<1>7. \A i \in DOMAIN Tail(q) : JoinAfter(q, i + 1) => JoinAfter(Tail(q), i)
  BY <1>3, <1>4, <1>5 DEF JoinAfter
<1>8. \A d : Followed(q, d) => Followed(Tail(q), d)
  BY <1>5, <1>7 DEF Followed
<1>9. Followed(q, Head(q)) => Contains(Tail(q), "join")
  <2>1. 1 \in DOMAIN q
    BY <1>2
  <2> QED
    BY <1>1, <1>2, <1>3, <1>4, <2>1 DEF Followed, JoinAfter, Contains
<1> QED
  BY <1>1, <1>6, <1>8, <1>9

-----------------------------------------------------------------------------
(* What the functions do to mlmepriv.                                      *)

\* From p to r nothing is taken from the command queue, and what followed the
\* commands that are there still does.
Queued(p, r) ==
  /\ \A c : Contains(p.q, c) => Contains(r.q, c)
  /\ \A c \in {"disassoc", "disassoc_wait"} : Followed(p.q, c) => Followed(r.q, c)

\* rtw_enqueue_cmd changes the queue only, and adds its command.
LEMMA EnqueueFacts ==
  ASSUME NEW p \in Privs, NEW c \in CmdCodes
  PROVE  LET r == rtw_enqueue_cmd(p, c)
         IN /\ r \in Privs /\ r = [p EXCEPT !.q = r.q] /\ Contains(r.q, c)
            /\ c \notin {"disassoc", "disassoc_wait"} => Queued(p, r)
<1>1. p.q \in Seq(CmdCodes)
  BY DEF Privs
<1>2. /\ Append(p.q, c) \in Seq(CmdCodes) /\ Contains(Append(p.q, c), c)
      /\ \A d : Contains(p.q, d) => Contains(Append(p.q, c), d)
      /\ \A d : c # d /\ Followed(p.q, d) => Followed(Append(p.q, c), d)
  BY <1>1, QueueAppend
<1>3. rtw_enqueue_cmd(p, c) = [p EXCEPT !.q = Append(p.q, c)]
  BY DEF rtw_enqueue_cmd
<1>4. rtw_enqueue_cmd(p, c).q = Append(p.q, c)
  BY <1>3 DEF Privs
<1>5. rtw_enqueue_cmd(p, c) \in Privs
  BY <1>2, <1>3 DEF Privs
<1> QED
  BY <1>2, <1>3, <1>4, <1>5 DEF Queued

\* Telling cfg80211 changes nothing of the link, queue or roaming.
LEMMA CfgIndicateFacts ==
  ASSUME NEW p \in Privs
  PROVE  LET r == cfg80211_indicate_disconnect(p)
         IN /\ r \in Privs /\ r.fw = p.fw /\ r.q = p.q /\ r.to_roam = p.to_roam
            /\ r.to_join = p.to_join /\ r.assoc_timer = p.assoc_timer
BY DEF cfg80211_indicate_disconnect, Privs

\* rtw_indicate_disconnect clears the link bits and nothing else here.
LEMMA IndicateFacts ==
  ASSUME NEW p \in Privs
  PROVE  LET r == rtw_indicate_disconnect(p)
         IN /\ r \in Privs /\ r.fw = p.fw \ {LINKING, LINKED} /\ r.q = p.q
            /\ r.to_roam = p.to_roam /\ r.to_join = p.to_join
            /\ r.assoc_timer = p.assoc_timer
<1> DEFINE o == [p EXCEPT !.fw = @ \ {LINKING, LINKED}]
<1>1. /\ o \in Privs /\ o.fw = p.fw \ {LINKING, LINKED} /\ o.q = p.q
      /\ o.to_roam = p.to_roam /\ o.to_join = p.to_join
      /\ o.assoc_timer = p.assoc_timer
  BY DEF Privs
<1>2. rtw_indicate_disconnect(p) = IF p.to_roam > 0 THEN o
                                   ELSE cfg80211_indicate_disconnect(o)
  BY DEF rtw_indicate_disconnect
<1> HIDE DEF o
<1> DEFINE r == rtw_indicate_disconnect(p)
<1>3. /\ r \in Privs /\ r.fw = o.fw /\ r.q = o.q /\ r.to_roam = o.to_roam
      /\ r.to_join = o.to_join /\ r.assoc_timer = o.assoc_timer
  <2>1. CASE p.to_roam > 0
    BY <1>1, <1>2, <2>1
  <2>2. CASE ~(p.to_roam > 0)
    <3>1. r = cfg80211_indicate_disconnect(o)
      BY <1>2, <2>2
    <3> HIDE DEF r
    <3> QED
      BY <1>1, <3>1, CfgIndicateFacts
  <2> QED
    BY <2>1, <2>2
<1> QED
  BY <1>1, <1>3

\* rtw_set_to_roam sets the attempts that are left.
LEMMA SetRoamFacts ==
  ASSUME NEW p \in Privs, NEW n \in 0..MaxRoam
  PROVE  LET r == rtw_set_to_roam(p, n)
         IN /\ r \in Privs /\ r.fw = p.fw /\ r.q = p.q /\ r.to_roam = n
            /\ r.assoc_timer = p.assoc_timer
<1> DEFINE b == IF n = 0 THEN FALSE ELSE p.to_join
<1>1. p.to_join \in BOOLEAN
  BY DEF Privs
<1>2. b \in BOOLEAN
  BY <1>1, Zenon
<1>3. rtw_set_to_roam(p, n) = [p EXCEPT !.to_roam = n, !.to_join = b]
  BY Zenon DEF rtw_set_to_roam
<1> HIDE DEF b
<1> QED
  BY <1>2, <1>3 DEF Privs

\* rtw_sitesurvey_cmd starts a scan and queues its command.
LEMMA SurveyCmdFacts ==
  ASSUME NEW p \in Privs
  PROVE  LET r == rtw_sitesurvey_cmd(p)
         IN /\ r \in Privs /\ r.fw = p.fw \cup {SURVEY} /\ Queued(p, r)
            /\ r.to_roam = p.to_roam /\ r.to_join = p.to_join
            /\ r.assoc_timer = p.assoc_timer
<1> DEFINE o == [p EXCEPT !.fw = @ \cup {SURVEY}, !.scan_to_timer = TRUE]
<1>1. /\ o \in Privs /\ o.fw = p.fw \cup {SURVEY} /\ o.q = p.q
      /\ o.to_roam = p.to_roam /\ o.to_join = p.to_join
      /\ o.assoc_timer = p.assoc_timer
  BY DEF Privs
<1>2. rtw_sitesurvey_cmd(p) = rtw_enqueue_cmd(o, "survey")
  BY DEF rtw_sitesurvey_cmd
<1>3. "survey" \in CmdCodes
  BY DEF CmdCodes
<1> HIDE DEF o
<1> DEFINE r == rtw_enqueue_cmd(o, "survey")
<1>4. r \in Privs /\ r = [o EXCEPT !.q = r.q] /\ Queued(o, r)
  BY <1>1, <1>3, EnqueueFacts
<1> HIDE DEF r
<1>5. /\ r.fw = o.fw /\ r.to_roam = o.to_roam /\ r.to_join = o.to_join
      /\ r.assoc_timer = o.assoc_timer
  BY <1>1, <1>4 DEF Privs
<1>6. Queued(p, r)
  BY <1>1, <1>4 DEF Queued
<1> QED
  BY <1>1, <1>2, <1>4, <1>5, <1>6 DEF r

\* A join is under way from p to r: its command is queued behind all others.
Joining(p, r) ==
  /\ Contains(r.q, "join") /\ \A c : Contains(p.q, c) => Contains(r.q, c)
  /\ Followed(r.q, "disassoc") /\ Followed(r.q, "disassoc_wait")

\* rtw_select_and_join_from_scanned_queue leaves a join queued.
LEMMA SelectFacts ==
  ASSUME NEW p \in Privs
  PROVE  LET r == select_and_join(p)
         IN /\ r \in Privs /\ r.fw = (p.fw \ {LINKED}) \cup {LINKING}
            /\ Joining(p, r)
            /\ r.to_roam = p.to_roam /\ r.to_join = p.to_join
            /\ r.assoc_timer = p.assoc_timer
<1> DEFINE d == rtw_enqueue_cmd(p, "disassoc")
           left == IF LINKED \in p.fw THEN rtw_indicate_disconnect(d) ELSE p
           o == [left EXCEPT !.fw = @ \cup {LINKING}]
           r == rtw_enqueue_cmd(o, "join")
<1>1. {"disassoc", "join"} \subseteq CmdCodes
  BY DEF CmdCodes
<1>2. /\ d \in Privs /\ d = [p EXCEPT !.q = d.q]
      /\ \A c : Contains(p.q, c) => Contains(d.q, c)
  <2>1. p.q \in Seq(CmdCodes) /\ d.q = Append(p.q, "disassoc")
    BY DEF Privs, rtw_enqueue_cmd
  <2>2. d \in Privs /\ d = [p EXCEPT !.q = d.q]
    BY <1>1, EnqueueFacts
  <2>3. \A c : Contains(p.q, c) => Contains(Append(p.q, "disassoc"), c)
    BY <1>1, <2>1, QueueAppend
  <2> QED
    BY <2>1, <2>2, <2>3
<1> HIDE DEF d
<1>3. /\ d.fw = p.fw /\ d.to_roam = p.to_roam /\ d.to_join = p.to_join
      /\ d.assoc_timer = p.assoc_timer
  BY <1>2 DEF Privs
<1>4. /\ left \in Privs /\ left.to_roam = p.to_roam /\ left.to_join = p.to_join
      /\ left.assoc_timer = p.assoc_timer
      /\ left.fw \ {LINKING} = p.fw \ {LINKED, LINKING}
      /\ \A c : Contains(p.q, c) => Contains(left.q, c)
  BY <1>2, <1>3, IndicateFacts DEF Privs, LINKED, LINKING
<1> HIDE DEF left
<1>5. /\ o \in Privs /\ o.to_roam = p.to_roam /\ o.to_join = p.to_join
      /\ o.assoc_timer = p.assoc_timer
      /\ o.fw = (p.fw \ {LINKED}) \cup {LINKING} /\ o.q = left.q
  <2>1. o.fw = left.fw \cup {LINKING}
    BY <1>4 DEF Privs
  <2>2. left.fw \cup {LINKING} = (p.fw \ {LINKED}) \cup {LINKING}
    BY <1>4 DEF LINKED, LINKING
  <2> QED
    BY <1>4, <2>1, <2>2 DEF Privs
<1> HIDE DEF o
<1>6. /\ r \in Privs /\ r = [o EXCEPT !.q = r.q] /\ r.q = Append(o.q, "join")
      /\ o.q \in Seq(CmdCodes)
  <2>1. r.q = Append(o.q, "join") /\ o.q \in Seq(CmdCodes)
    BY <1>5 DEF Privs, rtw_enqueue_cmd
  <2> QED
    BY <1>1, <1>5, <2>1, EnqueueFacts
<1> HIDE DEF r
<1>7. /\ r.fw = o.fw /\ r.to_roam = o.to_roam /\ r.to_join = o.to_join
      /\ r.assoc_timer = o.assoc_timer
  BY <1>5, <1>6 DEF Privs
<1>8. Joining(p, r)
  BY <1>1, <1>4, <1>5, <1>6, QueueAppend DEF Joining
<1>9. select_and_join(p) = r
  BY DEF select_and_join, r, o, left, d
<1> QED
  BY <1>5, <1>6, <1>7, <1>8, <1>9

\* What each outcome of rtw_do_join leaves behind.
LEMMA DoJoinFacts ==
  ASSUME NEW p \in Privs
  PROVE  /\ LET r == rtw_do_join(p, "join")
            IN /\ r \in Privs /\ r.fw = (p.fw \ {LINKED}) \cup {LINKING}
               /\ Joining(p, r) /\ r.to_roam = p.to_roam /\ r.assoc_timer = TRUE
         /\ LET r == rtw_do_join(p, "survey")
            IN /\ r \in Privs /\ r.fw = (p.fw \ {LINKING}) \cup {SURVEY}
               /\ Queued(p, r) /\ r.to_roam = p.to_roam /\ r.to_join = TRUE
               /\ r.assoc_timer = p.assoc_timer
         /\ LET r == rtw_do_join(p, "fail")
            IN /\ r \in Privs /\ r.fw = p.fw \ {LINKING} /\ r.q = p.q
               /\ r.to_roam = p.to_roam /\ r.assoc_timer = p.assoc_timer
<1>1. LET r == rtw_do_join(p, "join")
      IN /\ r \in Privs /\ r.fw = (p.fw \ {LINKED}) \cup {LINKING}
         /\ Joining(p, r) /\ r.to_roam = p.to_roam /\ r.assoc_timer = TRUE
  <2> DEFINE o == select_and_join(p)
             r == [o EXCEPT !.to_join = FALSE, !.assoc_timer = TRUE]
  <2>1. /\ o \in Privs /\ o.fw = (p.fw \ {LINKED}) \cup {LINKING}
        /\ Joining(p, o) /\ o.to_roam = p.to_roam
    BY SelectFacts
  <2> HIDE DEF o
  <2>2. /\ r \in Privs /\ r.fw = o.fw /\ r.q = o.q /\ r.to_roam = o.to_roam
        /\ r.assoc_timer = TRUE
    BY <2>1 DEF Privs
  <2>3. rtw_do_join(p, "join") = r
    BY DEF rtw_do_join, o
  <2> QED
    BY <2>1, <2>2, <2>3 DEF Joining
<1>2. LET r == rtw_do_join(p, "survey")
      IN /\ r \in Privs /\ r.fw = (p.fw \ {LINKING}) \cup {SURVEY}
         /\ Queued(p, r) /\ r.to_roam = p.to_roam /\ r.to_join = TRUE
         /\ r.assoc_timer = p.assoc_timer
  <2> DEFINE o == [p EXCEPT !.fw = @ \ {LINKING}, !.to_join = TRUE]
  <2>1. /\ o \in Privs /\ o.fw = p.fw \ {LINKING} /\ o.q = p.q
        /\ o.to_roam = p.to_roam /\ o.to_join = TRUE
        /\ o.assoc_timer = p.assoc_timer
    BY DEF Privs
  <2>2. rtw_do_join(p, "survey") = rtw_sitesurvey_cmd(o)
    BY DEF rtw_do_join
  <2> HIDE DEF o
  <2> QED
    BY <2>1, <2>2, SurveyCmdFacts DEF Queued
<1>3. rtw_do_join(p, "fail") = [p EXCEPT !.fw = @ \ {LINKING}, !.to_join = FALSE]
  BY DEF rtw_do_join
<1> QED
  BY <1>1, <1>2, <1>3 DEF Privs

\* A join that failed clears _FW_UNDER_LINKING and sets the timer.
LEMMA JoinFailedFacts ==
  ASSUME NEW p \in Privs
  PROVE  LET r == join_failed(p)
         IN /\ r \in Privs /\ r.fw = p.fw \ {LINKING} /\ r.q = p.q
            /\ r.to_roam = p.to_roam /\ r.to_join = p.to_join
            /\ r.assoc_timer = TRUE
BY DEF join_failed, Privs

(***************************************************************************)
(* From p to r a join is tried again or given up: linked no longer, and    *)
(* what is tried again is on its way.                                      *)
(***************************************************************************)
Retried(p, r) ==
  /\ r \in Privs /\ LINKED \notin r.fw
  /\ p.assoc_timer => r.assoc_timer
  /\ LINKING \in r.fw => /\ r.assoc_timer /\ Contains(r.q, "join")
                         /\ Followed(r.q, "disassoc_wait")
  /\ r.to_roam > 0 => r.assoc_timer \/ (r.to_join /\ SURVEY \in r.fw)
  /\ \A c : Contains(p.q, c) => Contains(r.q, c)
  /\ Followed(p.q, "disassoc") => Followed(r.q, "disassoc")

\* A further attempt at roaming has a join or a scan to continue it.
LEMMA NextTry ==
  ASSUME NEW p \in Privs, NEW n \in 0..MaxRoam, NEW o \in {"join", "survey"},
         LINKED \notin p.fw
  PROVE  Retried(p, rtw_do_join([p EXCEPT !.to_roam = n], o))
<1> DEFINE s == [p EXCEPT !.to_roam = n]
<1>1. /\ s \in Privs /\ s.fw = p.fw /\ s.q = p.q
      /\ s.assoc_timer = p.assoc_timer
  BY DEF Privs
<1> HIDE DEF s
<1>2. CASE o = "join"
  <2> DEFINE r == rtw_do_join(s, "join")
  <2>1. /\ r \in Privs /\ r.fw = (s.fw \ {LINKED}) \cup {LINKING}
        /\ Joining(s, r) /\ r.assoc_timer = TRUE
    BY <1>1, DoJoinFacts
  <2> HIDE DEF r
  <2>2. Retried(p, r)
    BY <1>1, <2>1 DEF Retried, Joining, LINKED, LINKING
  <2> QED
    BY <1>2, <2>2 DEF r, s
<1>3. CASE o = "survey"
  <2> DEFINE r == rtw_do_join(s, "survey")
  <2>1. /\ r \in Privs /\ r.fw = (s.fw \ {LINKING}) \cup {SURVEY}
        /\ Queued(s, r) /\ r.to_join = TRUE /\ r.assoc_timer = s.assoc_timer
    BY <1>1, DoJoinFacts
  <2> HIDE DEF r
  <2>2. Retried(p, r)
    BY <1>1, <2>1 DEF Retried, Queued, LINKED, LINKING, SURVEY
  <2> QED
    BY <1>3, <2>2 DEF r, s
<1> QED
  BY <1>2, <1>3

\* Giving up leaves no attempt.
LEMMA GivenUp ==
  ASSUME NEW p \in Privs, NEW s \in Privs,
         s.q = p.q, s.assoc_timer = p.assoc_timer, s.to_roam = 0
  PROVE  Retried(p, rtw_indicate_disconnect(s))
<1> DEFINE r == rtw_indicate_disconnect(s)
<1>1. /\ r \in Privs /\ r.fw = s.fw \ {LINKING, LINKED} /\ r.q = s.q
      /\ r.to_roam = s.to_roam /\ r.assoc_timer = s.assoc_timer
  BY IndicateFacts
<1> HIDE DEF r
<1>2. Retried(p, r)
  BY <1>1 DEF Retried
<1> QED
  BY <1>2 DEF r

\* _rtw_roaming tries again or gives up.
LEMMA RoamingFacts ==
  ASSUME NEW p \in Privs, p.fw \cap {LINKED, LINKING} = {},
         NEW r \in rtw_roaming(p)
  PROVE  Retried(p, r)
<1>0. p.to_roam \in 0..MaxRoam /\ MaxRoam \in Nat
  BY BoundsAssumption DEF Privs
<1>1. CASE p.to_roam = 0
  BY <1>1 DEF rtw_roaming, Retried
<1>2. CASE p.to_roam # 0
  <2> DEFINE s == [p EXCEPT !.to_roam = 0]
             f == rtw_do_join(s, "fail")
  <2>1. \/ \E n \in 1..p.to_roam, o \in {"join", "survey"} :
             r = rtw_do_join([p EXCEPT !.to_roam = n], o)
        \/ r = rtw_indicate_disconnect(f)
    BY <1>2 DEF rtw_roaming
  <2>2. ASSUME NEW n \in 1..p.to_roam, NEW o \in {"join", "survey"},
               r = rtw_do_join([p EXCEPT !.to_roam = n], o)
        PROVE  Retried(p, r)
    <3>1. n \in 0..MaxRoam
      BY <1>0
    <3> QED
      BY <2>2, <3>1, NextTry
  <2>3. CASE r = rtw_indicate_disconnect(f)
    <3>1. /\ s \in Privs /\ s.q = p.q /\ s.to_roam = 0
          /\ s.assoc_timer = p.assoc_timer
      BY <1>0 DEF Privs
    <3> HIDE DEF s
    <3>2. /\ f \in Privs /\ f.q = s.q /\ f.to_roam = s.to_roam
          /\ f.assoc_timer = s.assoc_timer
      BY <3>1, DoJoinFacts
    <3> HIDE DEF f
    <3> QED
      BY <2>3, <3>1, <3>2, GivenUp
  <2> QED
    BY <2>1, <2>2, <2>3
<1> QED
  BY <1>1, <1>2

\* rtw_join_timeout_handler tries again or gives up.
LEMMA TimeoutFacts ==
  ASSUME NEW p \in Privs, LINKED \in p.fw => p.to_roam = 0,
         NEW r \in join_timeout(p)
  PROVE  Retried(p, r)
<1>0. p.to_roam \in 0..MaxRoam /\ MaxRoam \in Nat
  BY BoundsAssumption DEF Privs
<1>1. CASE p.to_roam = 0
  <2> DEFINE s == rtw_indicate_disconnect(p)
  <2>1. r = cfg80211_indicate_disconnect(s)
    BY <1>1 DEF join_timeout
  <2>2. /\ s \in Privs /\ s.fw = p.fw \ {LINKING, LINKED} /\ s.q = p.q
        /\ s.to_roam = p.to_roam /\ s.assoc_timer = p.assoc_timer
    BY IndicateFacts
  <2> HIDE DEF s
  <2>3. /\ r \in Privs /\ r.fw = s.fw /\ r.q = s.q
        /\ r.to_roam = s.to_roam /\ r.assoc_timer = s.assoc_timer
    BY <2>1, <2>2, CfgIndicateFacts
  <2> QED
    BY <1>1, <2>2, <2>3 DEF Retried
<1>2. CASE p.to_roam # 0
  <2> DEFINE f == IF p.to_roam = 1 THEN p ELSE rtw_do_join(p, "fail")
             s == [f EXCEPT !.to_roam = 0]
  <2>1. \/ \E n \in 1..(p.to_roam - 1), o \in {"join", "survey"} :
             r = rtw_do_join([p EXCEPT !.to_roam = n], o)
        \/ r = rtw_indicate_disconnect(s)
    BY <1>2 DEF join_timeout
  <2>2. ASSUME NEW n \in 1..(p.to_roam - 1), NEW o \in {"join", "survey"},
               r = rtw_do_join([p EXCEPT !.to_roam = n], o)
        PROVE  Retried(p, r)
    <3>1. n \in 0..MaxRoam
      BY <1>0
    <3> QED
      BY <1>2, <2>2, <3>1, NextTry
  <2>3. CASE r = rtw_indicate_disconnect(s)
    <3>1. f \in Privs /\ f.q = p.q /\ f.assoc_timer = p.assoc_timer
      BY DoJoinFacts
    <3> HIDE DEF f
    <3>2. /\ s \in Privs /\ s.q = f.q /\ s.to_roam = 0
          /\ s.assoc_timer = f.assoc_timer
      BY <1>0, <3>1 DEF Privs
    <3> HIDE DEF s
    <3> QED
      BY <2>3, <3>1, <3>2, GivenUp
  <2> QED
    BY <2>1, <2>2, <2>3
<1> QED
  BY <1>1, <1>2

\* The end of a scan that was to join does so, tries again or gives up.
LEMMA SurveyJoinFacts ==
  ASSUME NEW p \in Privs, LINKED \in p.fw => p.to_roam = 0,
         p.to_join, NEW r \in survey_join(p)
  PROVE  Retried(p, r)
<1>0. p.to_roam \in 0..MaxRoam /\ MaxRoam \in Nat /\ 0 \in 0..MaxRoam
  BY BoundsAssumption DEF Privs
<1> DEFINE trying == [p EXCEPT !.to_join = FALSE, !.fw = @ \cup {LINKING}]
           chosen == select_and_join(trying)
           unset  == rtw_set_to_roam(trying, 0)
           less   == [trying EXCEPT !.to_roam = @ - 1]
           more   == rtw_sitesurvey_cmd(less)
<1>1. \/ r = [chosen EXCEPT !.assoc_timer = TRUE]
      \/ r = rtw_indicate_disconnect(unset)
      \/ /\ p.to_roam > 1
         /\ r = [more EXCEPT !.to_join = TRUE, !.fw = @ \ {LINKING}]
  BY DEF survey_join
<1>2. /\ trying \in Privs /\ trying.fw = p.fw \cup {LINKING} /\ trying.q = p.q
      /\ trying.to_roam = p.to_roam /\ trying.assoc_timer = p.assoc_timer
  BY DEF Privs
<1> HIDE DEF trying
<1>3. CASE r = [chosen EXCEPT !.assoc_timer = TRUE]
  <2>1. /\ chosen \in Privs /\ Joining(trying, chosen)
        /\ chosen.fw = (trying.fw \ {LINKED}) \cup {LINKING}
    BY <1>2, SelectFacts
  <2> HIDE DEF chosen
  <2>2. /\ r \in Privs /\ r.fw = chosen.fw /\ r.q = chosen.q
        /\ r.assoc_timer = TRUE
    BY <1>3, <2>1 DEF Privs
  <2> QED
    BY <1>2, <2>1, <2>2 DEF Retried, Joining, LINKED, LINKING
<1>4. CASE r = rtw_indicate_disconnect(unset)
  <2>1. /\ unset \in Privs /\ unset.q = trying.q /\ unset.to_roam = 0
        /\ unset.assoc_timer = trying.assoc_timer
    BY <1>0, <1>2, SetRoamFacts
  <2> HIDE DEF unset
  <2> QED
    BY <1>2, <1>4, <2>1, GivenUp
<1>5. CASE /\ p.to_roam > 1
           /\ r = [more EXCEPT !.to_join = TRUE, !.fw = @ \ {LINKING}]
  <2>1. /\ less \in Privs /\ less.fw = trying.fw /\ less.q = trying.q
        /\ less.assoc_timer = trying.assoc_timer
    BY <1>0, <1>2, <1>5 DEF Privs
  <2> HIDE DEF less
  <2>2. /\ more \in Privs /\ more.fw = less.fw \cup {SURVEY} /\ Queued(less, more)
        /\ more.assoc_timer = less.assoc_timer
    BY <2>1, SurveyCmdFacts
  <2> HIDE DEF more
  <2>3. /\ r \in Privs /\ r.fw = more.fw \ {LINKING} /\ r.q = more.q
        /\ r.assoc_timer = more.assoc_timer /\ r.to_join = TRUE
    BY <1>5, <2>2 DEF Privs
  <2>4. LINKED \notin r.fw /\ LINKING \notin r.fw /\ SURVEY \in r.fw
    BY <1>0, <1>2, <1>5, <2>1, <2>2, <2>3 DEF LINKED, LINKING, SURVEY
  <2> QED
    BY <1>2, <2>1, <2>2, <2>3, <2>4 DEF Retried, Queued
<1> QED
  BY <1>1, <1>3, <1>4, <1>5

-----------------------------------------------------------------------------
(***************************************************************************)
(* The inductive invariant.  LinkedIsAssociated does not say enough: a     *)
(* disassoc command in the queue would take the association away, so one   *)
(* is always followed by a join or waited for by the user; an answer or a  *)
(* loss that the tasklet has not finished needs the same care; and         *)
(* rtw_join_timeout_handler clears _FW_LINKED only because a linked        *)
(* station has no roaming attempts left.                                   *)
(***************************************************************************)
TypeInv == TypeOK /\ (scan.state = "PROCESS" => scan.left > 0)

InTouch == ext.state # "NULL"

\* Something that ends with both layers agreeing is on its way: a deletion
\* event, the end of a disconnect operation, link_timer's report, or a join.
Correcting ==
  \/ Contains(m.q, "stadel") \/ Contains(m.q, "stadel_expired")
  \/ cmd \in {"stadel", "stadel_expired"}
  \/ user \in {"disc_wait", "disc_indicate"}
  \/ link = "report"

Settling == Correcting \/ Contains(m.q, "join")

Timed == m.assoc_timer \/ assocHdl

LinkInv ==
  /\ LINKED \in m.fw => m.to_roam = 0
  /\ LINKED \in m.fw => InTouch \/ Settling \/ Timed \/ rx = "reject"
  /\ rx = "lost" /\ LINKED \in m.fw => Correcting \/ Timed
  /\ rx = "ok" /\ LINKING \in m.fw => InTouch \/ Settling
  /\ rx = "cancel" /\ LINKED \in m.fw => InTouch \/ Settling
  /\ cmd = "lost" => Contains(m.q, "stadel_expired")
  /\ Followed(m.q, "disassoc")
  /\ \/ user \in {"disc_wait", "disc_indicate"}
     \/ LINKED \notin m.fw /\ LINKING \notin m.fw
     \/ Followed(m.q, "disassoc_wait")

RoamInv ==
  /\ RoamGoesOn
  /\ rx = "cancel" => m.to_roam = 0 /\ LINKING \notin m.fw
  /\ LINKING \in m.fw => Timed

Inv == TypeInv /\ LinkInv /\ RoamInv

\* The invariant holds initially.
LEMMA InitInv == Init => Inv
<1> SUFFICES ASSUME Init PROVE Inv
  OBVIOUS
<1>1. TypeInv
  <2>1. m \in Privs /\ ext \in Exts /\ scan \in Scans
    <3>1. <<>> \in Seq(CmdCodes)
      OBVIOUS
    <3>2. 0 \in 0..MaxRoam /\ 0 \in 0..RetryLimit /\ 0 \in 0..NumCh
      BY BoundsAssumption
    <3> QED
      BY <3>1, <3>2 DEF Init, Privs, Exts, Scans
  <2>2. Flags
    BY Zenon DEF Init, Flags
  <2>3. /\ cmd = "idle" /\ rx = "idle" /\ link = "idle" /\ user = "idle"
        /\ reqs \in 0..MaxReqs /\ losses \in 0..MaxLosses
        /\ faults \in 0..MaxFaults
        /\ scan.state = "DISABLE"
    BY BoundsAssumption DEF Init
  <2> QED
    BY <2>1, <2>2, <2>3 DEF TypeInv, TypeOK, Flags
<1>2. m.q = <<>> /\ m.fw = {} /\ m.to_roam = 0 /\ rx = "idle" /\ cmd = "idle"
  BY DEF Init
<1>3. Followed(m.q, "disassoc")
  BY <1>2 DEF Followed
<1> QED
  BY <1>1, <1>2, <1>3 DEF Inv, LinkInv, RoamInv, RoamGoesOn

\* A step that gives a join up or tries it again keeps the invariant.
LEMMA RetriedInv ==
  ASSUME Inv, Retried(m, m'), rx # "cancel",
         UNCHANGED <<rx, link, ext, faults>>, cmd' = "lost" => cmd = "lost"
  PROVE  LinkInv' /\ RoamInv'
<1>1. /\ m' \in Privs /\ LINKED \notin m'.fw
      /\ LINKING \in m'.fw => /\ m'.assoc_timer /\ Contains(m'.q, "join")
                              /\ Followed(m'.q, "disassoc_wait")
      /\ m'.to_roam > 0 => m'.assoc_timer \/ (m'.to_join /\ SURVEY \in m'.fw)
      /\ \A c : Contains(m.q, c) => Contains(m'.q, c)
      /\ Followed(m'.q, "disassoc")
  BY DEF Retried, Inv, LinkInv
<1>2. LinkInv'
  BY <1>1 DEF Inv, LinkInv, Settling, Correcting
<1>3. RoamInv'
  BY <1>1 DEF RoamInv, RoamGoesOn, Timed
<1> QED
  BY <1>2, <1>3

\* Received frames keep the invariant.
LEMMA FrameInv == Inv /\ Frame => Inv'
<1> SUFFICES ASSUME Inv, Frame PROVE Inv'
  OBVIOUS
<1> USE BoundsAssumption
<1>0. m \in Privs
  BY DEF Inv, TypeInv, TypeOK
<1>1. CASE OnBeacon
  <2>1. TypeInv'
    BY <1>1 DEF OnBeacon, Inv, TypeInv, TypeOK, Exts
  <2>2. LinkInv' /\ RoamInv'
    BY <1>1 DEF OnBeacon, Inv, LinkInv, RoamInv, RoamGoesOn, InTouch, Settling, Correcting, Timed
  <2> QED
    BY <2>1, <2>2 DEF Inv
<1>2. CASE OnAuthClient
  <2>1. TypeInv'
    BY <1>2 DEF OnAuthClient, Inv, TypeInv, TypeOK, Exts
  <2>2. LinkInv' /\ RoamInv'
    BY <1>2 DEF OnAuthClient, Inv, LinkInv, RoamInv, RoamGoesOn, InTouch, Settling, Correcting, Timed
  <2> QED
    BY <2>1, <2>2 DEF Inv
<1>3. CASE OnAssocRsp
  <2>0. ext' \in Exts
    BY <1>3 DEF OnAssocRsp, Inv, TypeInv, TypeOK, Disassociated, Exts
  <2>1. TypeInv'
    BY <1>3, <2>0 DEF OnAssocRsp, Inv, TypeInv, TypeOK, Exts
  <2>2. \/ ext'.state = "ASSOC_SUCCESS" /\ rx' = "ok"
        \/ rx' = "reject"
    BY <1>3 DEF OnAssocRsp, Inv, TypeInv, TypeOK, Exts
  <2>3. LinkInv' /\ RoamInv'
    BY <1>3, <2>2 DEF OnAssocRsp, Inv, LinkInv, RoamInv, RoamGoesOn, InTouch, Settling, Correcting, Timed
  <2> QED
    BY <2>1, <2>3 DEF Inv
<1>4. CASE OnDeAuth
  <2>0. rx = "idle" /\ rx' = "lost" /\ losses' = losses + 1 /\ losses < MaxLosses
        /\ UNCHANGED <<ext, scan, scan_request, assocHdl, scanHdl, cmd, link,
                       user, reqs, faults>>
    BY <1>4 DEF OnDeAuth
  <2>1. CASE m' = rtw_enqueue_cmd(m, "stadel")
    <3>1. /\ m' \in Privs /\ m' = [m EXCEPT !.q = m'.q] /\ Contains(m'.q, "stadel")
          /\ Queued(m, m')
      BY <1>0, <2>1, EnqueueFacts DEF CmdCodes
    <3>2. /\ m'.fw = m.fw /\ m'.to_roam = m.to_roam /\ m'.to_join = m.to_join
          /\ m'.assoc_timer = m.assoc_timer
      BY <1>0, <3>1 DEF Privs
    <3>3. TypeInv'
      BY <2>0, <3>1 DEF Inv, TypeInv, TypeOK
    <3>4. LinkInv' /\ RoamInv'
      BY <2>0, <3>1, <3>2 DEF Inv, LinkInv, RoamInv, RoamGoesOn, InTouch, Settling, Correcting, Timed, Queued
    <3> QED
      BY <3>3, <3>4 DEF Inv
  <2>2. CASE m' = join_failed(m)
    <3>1. /\ m' \in Privs /\ m'.fw = m.fw \ {LINKING} /\ m'.q = m.q
          /\ m'.to_roam = m.to_roam /\ m'.to_join = m.to_join
          /\ m'.assoc_timer = TRUE
      BY <1>0, <2>2, JoinFailedFacts
    <3>2. /\ LINKED \in m'.fw => LINKED \in m.fw
          /\ LINKING \notin m'.fw /\ (SURVEY \in m.fw => SURVEY \in m'.fw)
      BY <3>1 DEF LINKED, LINKING, SURVEY
    <3>3. TypeInv'
      BY <2>0, <3>1 DEF Inv, TypeInv, TypeOK
    <3>4. LinkInv' /\ RoamInv'
      BY <2>0, <3>1, <3>2 DEF Inv, LinkInv, RoamInv, RoamGoesOn, InTouch, Settling, Correcting, Timed
    <3> QED
      BY <3>3, <3>4 DEF Inv
  <2> QED
    BY <1>4, <2>1, <2>2 DEF OnDeAuth
<1> QED
  BY <1>1, <1>2, <1>3, <1>4 DEF Frame

\* The receive tasklet's steps keep the invariant.
LEMMA RxInv == Inv /\ RxStep => Inv'
<1> SUFFICES ASSUME Inv, RxStep PROVE Inv'
  OBVIOUS
<1> USE BoundsAssumption
<1>0. m \in Privs
  BY DEF Inv, TypeInv, TypeOK
<1>1. CASE JoinSucceeded
  <2>0. rx = "ok" /\ UNCHANGED <<ext, scan, scan_request, assocHdl, scanHdl, cmd,
                                 link, user, reqs, losses, faults>>
    BY <1>1 DEF JoinSucceeded
  <2>1. CASE LINKING \in m.fw /\ m' = rtw_indicate_connect(m) /\ rx' = "cancel"
    <3> DEFINE s == rtw_set_to_roam(m, 0)
    <3>1. /\ s \in Privs /\ s.q = m.q /\ s.to_roam = 0
          /\ s.assoc_timer = m.assoc_timer
      BY <1>0, SetRoamFacts
    <3>2. m' = [s EXCEPT !.fw = {LINKED}, !.told = "up",
                         !.hushed = FALSE, !.awaited = FALSE]
      BY <2>1 DEF rtw_indicate_connect
    <3> HIDE DEF s
    <3>3. /\ m' \in Privs /\ m'.fw = {LINKED} /\ m'.q = m.q /\ m'.to_roam = 0
          /\ m'.assoc_timer = m.assoc_timer
      BY <3>1, <3>2 DEF Privs
    <3>4. LINKING \notin m'.fw
      BY <3>3 DEF LINKED, LINKING
    <3>5. TypeInv'
      BY <2>0, <2>1, <3>3 DEF Inv, TypeInv, TypeOK
    <3>6. LinkInv' /\ RoamInv'
      BY <2>0, <2>1, <3>3, <3>4 DEF Inv, LinkInv, RoamInv, RoamGoesOn, InTouch, Settling, Correcting, Timed
    <3> QED
      BY <3>5, <3>6 DEF Inv
  <2>2. CASE LINKING \in m.fw /\ m' = [m EXCEPT !.fw = {}] /\ rx' = "idle"
    <3>3. /\ m' \in Privs /\ m'.fw = {} /\ m'.q = m.q /\ m'.to_roam = m.to_roam
          /\ m'.assoc_timer = m.assoc_timer
      BY <1>0, <2>2 DEF Privs
    <3>5. TypeInv'
      <4>1. rx' = "idle"
        BY <2>2
      <4> QED
        BY <2>0, <3>3, <4>1 DEF Inv, TypeInv, TypeOK
    <3>6. LinkInv' /\ RoamInv'
      BY <2>0, <2>2, <3>3 DEF Inv, LinkInv, RoamInv, RoamGoesOn, Timed
    <3> QED
      BY <3>5, <3>6 DEF Inv
  <2>3. CASE m' = m /\ rx' = "idle"
    <3>5. TypeInv'
      BY <2>0, <2>3 DEF Inv, TypeInv, TypeOK
    <3>6. LinkInv' /\ RoamInv'
      BY <2>0, <2>3 DEF Inv, LinkInv, RoamInv, RoamGoesOn, InTouch, Settling, Correcting, Timed
    <3> QED
      BY <3>5, <3>6 DEF Inv
  <2> QED
    BY <1>1, <2>1, <2>2, <2>3 DEF JoinSucceeded
<1>2. CASE CancelAssocTimer
  <2>1. /\ m' \in Privs /\ m'.fw = m.fw /\ m'.q = m.q /\ m'.to_roam = m.to_roam
        /\ m'.to_join = m.to_join
    BY <1>0, <1>2 DEF CancelAssocTimer, Privs
  <2>2. TypeInv'
    BY <1>2, <2>1 DEF CancelAssocTimer, Inv, TypeInv, TypeOK
  <2>3. LinkInv' /\ RoamInv'
    BY <1>2, <2>1 DEF CancelAssocTimer, Inv, LinkInv, RoamInv, RoamGoesOn, InTouch, Settling, Correcting
  <2> QED
    BY <2>2, <2>3 DEF Inv
<1>3. CASE JoinRejected
  <2>1. /\ m' \in Privs /\ m'.fw = m.fw \ {LINKING} /\ m'.q = m.q
        /\ m'.to_roam = m.to_roam /\ m'.to_join = m.to_join
        /\ m'.assoc_timer = TRUE
    BY <1>0, <1>3, JoinFailedFacts DEF JoinRejected
  <2>2. LINKED \in m'.fw => LINKED \in m.fw
    BY <2>1
  <2>3. TypeInv'
    BY <1>3, <2>1 DEF JoinRejected, Inv, TypeInv, TypeOK
  <2>4. LinkInv' /\ RoamInv'
    BY <1>3, <2>1, <2>2 DEF JoinRejected, Inv, LinkInv, RoamInv, RoamGoesOn, Timed, Settling, Correcting
  <2> QED
    BY <2>3, <2>4 DEF Inv
<1>4. CASE RxLost
  <2>1. TypeInv'
    BY <1>4 DEF RxLost, Inv, TypeInv, TypeOK, Exts
  <2>2. LinkInv' /\ RoamInv'
    BY <1>4 DEF RxLost, Inv, LinkInv, RoamInv, RoamGoesOn, Settling, Correcting, Timed
  <2> QED
    BY <2>1, <2>2 DEF Inv
<1> QED
  BY <1>1, <1>2, <1>3, <1>4 DEF RxStep

Timers ==
  \/ link_timer_hdl \/ LinkTimeoutReported \/ survey_timer_hdl
  \/ AssocTimerExpires \/ rtw_join_timeout_handler
  \/ rtw_scan_timeout_handler \/ ScanTimeoutIndicated

\* The timers and their handlers keep the invariant.
LEMMA TimersInv == Inv /\ Timers => Inv'
<1> SUFFICES ASSUME Inv, Timers PROVE Inv'
  OBVIOUS
<1> USE BoundsAssumption
<1>0. m \in Privs
  BY DEF Inv, TypeInv, TypeOK
<1>1. CASE link_timer_hdl
  <2>1. ext' \in Exts /\ link' \in {"idle", "report"}
    <3>1. /\ ext \in Exts /\ ext.retry \in 0..RetryLimit
          /\ (ext.retry < RetryLimit => ext.retry + 1 \in 0..RetryLimit)
      BY DEF Inv, TypeInv, TypeOK, Exts
    <3> QED
      BY <1>1, <3>1 DEF link_timer_hdl, Exts
  <2>2. ext'.state = "NULL" => ext.state = "NULL" \/ link' = "report"
    BY <1>1 DEF link_timer_hdl
  <2>3. link = "idle" /\ UNCHANGED <<m, scan, scan_request, assocHdl, scanHdl, cmd,
                                    rx, user, reqs, losses, faults>>
    BY <1>1 DEF link_timer_hdl
  <2>4. TypeInv'
    BY <2>1, <2>3 DEF Inv, TypeInv, TypeOK
  <2>5. LinkInv' /\ RoamInv'
    BY <2>2, <2>3 DEF Inv, LinkInv, RoamInv, RoamGoesOn, InTouch, Settling, Correcting, Timed
  <2> QED
    BY <2>4, <2>5 DEF Inv
<1>2. CASE LinkTimeoutReported
  <2>1. /\ m' \in Privs /\ m'.fw = m.fw \ {LINKING} /\ m'.q = m.q
        /\ m'.to_roam = m.to_roam /\ m'.to_join = m.to_join
        /\ m'.assoc_timer = TRUE
    BY <1>0, <1>2, JoinFailedFacts DEF LinkTimeoutReported
  <2>2. LINKED \in m'.fw => LINKED \in m.fw
    BY <2>1
  <2>3. TypeInv'
    BY <1>2, <2>1 DEF LinkTimeoutReported, Inv, TypeInv, TypeOK
  <2>4. LinkInv' /\ RoamInv'
    BY <1>2, <2>1, <2>2 DEF LinkTimeoutReported, Unlocked, Inv, LinkInv, RoamInv,
                            RoamGoesOn, Timed, Settling, Correcting
  <2> QED
    BY <2>3, <2>4 DEF Inv
<1>3. CASE survey_timer_hdl
  <2>1. /\ m' \in Privs /\ m'.fw = m.fw /\ Queued(m, m')
        /\ m'.to_roam = m.to_roam /\ m'.to_join = m.to_join
        /\ m'.assoc_timer = m.assoc_timer
    <3>1. CASE m' = m
      BY <1>0, <3>1 DEF Queued
    <3>2. CASE m' = rtw_enqueue_cmd(m, "survey")
      <4>1. m' \in Privs /\ m' = [m EXCEPT !.q = m'.q] /\ Queued(m, m')
        BY <1>0, <3>2, EnqueueFacts DEF CmdCodes
      <4> QED
        BY <1>0, <4>1 DEF Privs
    <3> QED
      BY <1>3, <3>1, <3>2 DEF survey_timer_hdl
  <2>2. TypeInv'
    <3>1. scan' \in Scans /\ scan'.state = scan.state /\ scan'.left = scan.left
      BY <1>3 DEF survey_timer_hdl, Inv, TypeInv, TypeOK, Scans
    <3> QED
      BY <1>3, <2>1, <3>1 DEF survey_timer_hdl, Inv, TypeInv, TypeOK
  <2>3. LinkInv' /\ RoamInv'
    BY <1>3, <2>1 DEF survey_timer_hdl, Inv, LinkInv, RoamInv, RoamGoesOn, InTouch,
                      Settling, Correcting, Timed, Queued
  <2> QED
    BY <2>2, <2>3 DEF Inv
<1>4. CASE AssocTimerExpires
  <2>0. faults \in 0..MaxFaults
    BY DEF Inv, TypeInv, TypeOK
  <2>1. /\ m' \in Privs /\ m'.fw = m.fw /\ m'.q = m.q /\ m'.to_roam = m.to_roam
        /\ m'.to_join = m.to_join
    BY <1>0, <1>4 DEF AssocTimerExpires, Privs
  <2>2. TypeInv'
    <3>1. faults' \in 0..MaxFaults
      BY <1>4, <2>0 DEF AssocTimerExpires
    <3>2. Flags'
      BY <1>4, Zenon DEF AssocTimerExpires, Inv, TypeInv, TypeOK, Flags
    <3>3. UNCHANGED <<ext, scan, cmd, rx, link, user, reqs, losses>>
      BY <1>4 DEF AssocTimerExpires
    <3> QED
      BY <2>1, <3>1, <3>2, <3>3 DEF Inv, TypeInv, TypeOK, Flags
  <2>3. LinkInv' /\ RoamInv'
    BY <1>4, <2>0, <2>1 DEF AssocTimerExpires, Inv, LinkInv, RoamInv, RoamGoesOn, InTouch,
                      Settling, Correcting, Timed
  <2> QED
    BY <2>2, <2>3 DEF Inv
<1>5. CASE rtw_join_timeout_handler
  <2>1. Retried(m, m')
    BY <1>0, <1>5, TimeoutFacts DEF rtw_join_timeout_handler, Inv, LinkInv
  <2>2. TypeInv'
    <3>1. Flags'
      BY <1>5, Zenon DEF rtw_join_timeout_handler, Inv, TypeInv, TypeOK, Flags
    <3>2. UNCHANGED <<ext, scan, cmd, rx, link, user, reqs, losses, faults>>
      BY <1>5 DEF rtw_join_timeout_handler
    <3> QED
      BY <2>1, <3>1, <3>2 DEF Inv, TypeInv, TypeOK, Retried, Privs, Flags
  <2>3. LinkInv' /\ RoamInv'
    BY <1>5, <2>1, RetriedInv DEF rtw_join_timeout_handler, Unlocked
  <2> QED
    BY <2>2, <2>3 DEF Inv
<1>6. CASE rtw_scan_timeout_handler
  <2>1. /\ m' \in Privs /\ m'.fw = m.fw \ {SURVEY} /\ m'.q = m.q
        /\ m'.to_roam = m.to_roam /\ m'.assoc_timer = m.assoc_timer
    BY <1>0, <1>6 DEF rtw_scan_timeout_handler, Privs
  <2>2. /\ LINKED \in m'.fw <=> LINKED \in m.fw
        /\ LINKING \in m'.fw <=> LINKING \in m.fw
    BY <2>1 DEF LINKED, LINKING, SURVEY
  <2>3. faults \in 0..MaxFaults
    BY DEF Inv, TypeInv, TypeOK
  <2>4. faults' \in 0..MaxFaults /\ faults' # 0
    BY <1>6, <2>3 DEF rtw_scan_timeout_handler
  <2>5. TypeInv'
    <3>1. Flags'
      BY <1>6, Zenon DEF rtw_scan_timeout_handler, Inv, TypeInv, TypeOK, Flags
    <3>2. UNCHANGED <<ext, scan, cmd, rx, link, user, reqs, losses>>
      BY <1>6 DEF rtw_scan_timeout_handler
    <3> QED
      BY <2>1, <2>4, <3>1, <3>2 DEF Inv, TypeInv, TypeOK, Flags
  <2>6. LinkInv' /\ RoamInv'
    BY <1>6, <2>1, <2>2, <2>4 DEF rtw_scan_timeout_handler, Inv, LinkInv, RoamInv, RoamGoesOn,
                            InTouch, Settling, Correcting, Timed
  <2> QED
    BY <2>5, <2>6 DEF Inv
<1>7. CASE ScanTimeoutIndicated
  <2>1. TypeInv'
    <3>1. Flags'
      BY <1>7, Zenon DEF ScanTimeoutIndicated, Inv, TypeInv, TypeOK, Flags
    <3>2. UNCHANGED <<m, ext, scan, cmd, rx, link, user, reqs, losses, faults>>
      BY <1>7 DEF ScanTimeoutIndicated
    <3> QED
      BY <3>1, <3>2 DEF Inv, TypeInv, TypeOK, Flags
  <2>2. LinkInv' /\ RoamInv'
    BY <1>7 DEF ScanTimeoutIndicated, Inv, LinkInv, RoamInv, RoamGoesOn, InTouch,
                Settling, Correcting, Timed
  <2> QED
    BY <2>1, <2>2 DEF Inv
<1> QED
  BY <1>1, <1>2, <1>3, <1>4, <1>5, <1>6, <1>7 DEF Timers

\* Taking a command off the queue leaves the link as it was.
LEMMA PoppedFacts ==
  ASSUME m \in Privs, m.q # <<>>
  PROVE  /\ Popped \in Privs /\ Popped.fw = m.fw /\ Popped.to_roam = m.to_roam
         /\ Popped.to_join = m.to_join /\ Popped.assoc_timer = m.assoc_timer
         /\ \A d : Contains(m.q, d) /\ Head(m.q) # d => Contains(Popped.q, d)
         /\ \A d : Followed(m.q, d) => Followed(Popped.q, d)
         /\ Followed(m.q, Head(m.q)) => Contains(Popped.q, "join")
<1>1. m.q \in Seq(CmdCodes)
  BY DEF Privs
<1>2. /\ Tail(m.q) \in Seq(CmdCodes)
      /\ \A d : Contains(m.q, d) /\ Head(m.q) # d => Contains(Tail(m.q), d)
      /\ \A d : Followed(m.q, d) => Followed(Tail(m.q), d)
      /\ Followed(m.q, Head(m.q)) => Contains(Tail(m.q), "join")
  BY <1>1, QueueTail
<1>3. Popped.q = Tail(m.q)
  BY DEF Popped, Privs
<1>4. /\ Popped \in Privs /\ Popped.fw = m.fw /\ Popped.to_roam = m.to_roam
      /\ Popped.to_join = m.to_join /\ Popped.assoc_timer = m.assoc_timer
  BY <1>2 DEF Popped, Privs
<1> QED
  BY <1>2, <1>3, <1>4

\* The survey command keeps the invariant.
LEMMA SurveyCmdInv == Inv /\ sitesurvey_cmd_hdl => Inv'
<1> SUFFICES ASSUME Inv, sitesurvey_cmd_hdl PROVE Inv'
  OBVIOUS
<1>0. /\ m \in Privs /\ cmd = "idle" /\ m.q # <<>> /\ Head(m.q) = "survey"
      /\ UNCHANGED <<ext, scan_request, assocHdl, scanHdl, cmd, rx, link,
                     user, reqs, losses, faults>>
  BY DEF sitesurvey_cmd_hdl, Exec, Inv, TypeInv, TypeOK
<1> DEFINE o == Popped
<1>1. /\ o \in Privs /\ o.fw = m.fw /\ o.to_roam = m.to_roam
      /\ o.to_join = m.to_join /\ o.assoc_timer = m.assoc_timer
      /\ \A d : Contains(m.q, d) /\ d # "survey" => Contains(o.q, d)
      /\ \A d : Followed(m.q, d) => Followed(o.q, d)
  BY <1>0, PoppedFacts
<1>2. m' = o \/ m' = rtw_enqueue_cmd(o, "surveydone")
  BY DEF sitesurvey_cmd_hdl
<1> HIDE DEF o
<1>3. /\ m' \in Privs /\ m'.fw = o.fw /\ m'.to_roam = o.to_roam
      /\ m'.to_join = o.to_join /\ m'.assoc_timer = o.assoc_timer
      /\ Queued(o, m')
  <2>1. CASE m' = o
    BY <1>1, <2>1 DEF Queued
  <2>2. CASE m' = rtw_enqueue_cmd(o, "surveydone")
    <3>1. m' \in Privs /\ m' = [o EXCEPT !.q = m'.q] /\ Queued(o, m')
      BY <1>1, <2>2, EnqueueFacts DEF CmdCodes
    <3> QED
      BY <1>1, <3>1 DEF Privs
  <2> QED
    BY <1>2, <2>1, <2>2
<1>4. TypeInv'
  <2>1. scan \in Scans /\ (scan.state = "PROCESS" => scan.left > 0)
    BY DEF Inv, TypeInv, TypeOK
  <2> DEFINE left == CASE scan.state = "DISABLE" -> NumCh
                       [] scan.state = "PS_ANNC_WAIT" -> scan.left
                       [] scan.state = "PROCESS" -> scan.left - 1
             announce == scan.state = "DISABLE" /\ ext.state = "ASSOC_SUCCESS"
             complete == ~announce /\ (left = 0 \/ scan.abort)
  <2>2. left \in 0..NumCh
    BY <2>1, BoundsAssumption DEF Scans
  <2>3. scan' = [state |-> IF announce THEN "PS_ANNC_WAIT"
                           ELSE IF complete THEN "DISABLE" ELSE "PROCESS",
                 left |-> IF complete THEN 0 ELSE left,
                 abort |-> IF announce THEN scan.abort ELSE FALSE,
                 timer |-> IF complete THEN scan.timer ELSE TRUE]
    BY DEF sitesurvey_cmd_hdl
  <2> HIDE DEF left
  <2>4. (IF announce THEN scan.abort ELSE FALSE) \in BOOLEAN
    <3>1. scan.abort \in BOOLEAN
      BY <2>1 DEF Scans
    <3> QED
      BY <3>1, Zenon
  <2>5. (IF complete THEN scan.timer ELSE TRUE) \in BOOLEAN
    <3>1. scan.timer \in BOOLEAN
      BY <2>1 DEF Scans
    <3> QED
      BY <3>1, Zenon
  <2>6. (IF complete THEN 0 ELSE left) \in 0..NumCh
    <3>1. 0 \in 0..NumCh
      BY BoundsAssumption
    <3> QED
      BY <2>2, <3>1, Zenon
  <2>7. (IF announce THEN "PS_ANNC_WAIT" ELSE IF complete THEN "DISABLE" ELSE "PROCESS")
          \in {"DISABLE", "PS_ANNC_WAIT", "PROCESS"}
    OBVIOUS
  <2>8. scan' \in Scans
    BY <2>3, <2>4, <2>5, <2>6, <2>7, Zenon DEF Scans
  <2>9. scan'.state = "PROCESS" => scan'.left > 0
    BY <2>2, <2>3
  <2> QED
    BY <1>0, <1>3, <2>8, <2>9 DEF Inv, TypeInv, TypeOK
<1>5. LinkInv' /\ RoamInv'
  BY <1>0, <1>1, <1>3 DEF Inv, LinkInv, RoamInv, RoamGoesOn, InTouch, Settling, Correcting,
                          Timed, Queued
<1> QED
  BY <1>4, <1>5 DEF Inv

\* The join command keeps the invariant.
LEMMA JoinCmdInv == Inv /\ join_cmd_hdl => Inv'
<1> SUFFICES ASSUME Inv, join_cmd_hdl PROVE Inv'
  OBVIOUS
<1>0. /\ m \in Privs /\ cmd = "idle" /\ m.q # <<>> /\ Head(m.q) = "join"
      /\ UNCHANGED <<scan, scan_request, assocHdl, scanHdl, cmd, rx, link,
                     user, reqs, losses, faults>>
  BY DEF join_cmd_hdl, Exec, Inv, TypeInv, TypeOK
<1> DEFINE o == Popped
<1>1. /\ o \in Privs /\ o.fw = m.fw /\ o.to_roam = m.to_roam
      /\ o.to_join = m.to_join
      /\ o.assoc_timer = m.assoc_timer
      /\ \A d : Contains(m.q, d) /\ d # "join" => Contains(o.q, d)
      /\ \A d : Followed(m.q, d) => Followed(o.q, d)
  BY <1>0, PoppedFacts
<1>2. CASE /\ ext' = [ext EXCEPT !.state = "AUTH_NULL", !.link_timer = TRUE]
           /\ m' = [o EXCEPT !.assoc_timer = TRUE]
  <2> HIDE DEF o
  <2>1. /\ m' \in Privs /\ m'.fw = m.fw /\ m'.to_roam = m.to_roam
        /\ m'.to_join = m.to_join /\ m'.q = o.q /\ m'.assoc_timer = TRUE
    BY <1>1, <1>2 DEF Privs
  <2>2. ext' \in Exts /\ ext'.state = "AUTH_NULL"
    BY <1>2 DEF Inv, TypeInv, TypeOK, Exts
  <2>3. TypeInv'
    BY <1>0, <2>1, <2>2 DEF Inv, TypeInv, TypeOK
  <2>4. LinkInv' /\ RoamInv'
    BY <1>0, <1>1, <2>1, <2>2 DEF Inv, LinkInv, RoamInv, RoamGoesOn, InTouch, Timed
  <2> QED
    BY <2>3, <2>4 DEF Inv
<1>3. CASE /\ Unlocked
           /\ ext' = Left
           /\ m' = join_failed(o)
  <2> HIDE DEF o
  <2>1. /\ m' \in Privs /\ m'.fw = o.fw \ {LINKING} /\ m'.q = o.q
        /\ m'.to_roam = o.to_roam /\ m'.to_join = o.to_join
        /\ m'.assoc_timer = TRUE
    BY <1>1, <1>3, JoinFailedFacts
  <2>2. LINKING \notin m'.fw /\ (LINKED \in m'.fw => LINKED \in m.fw)
    BY <1>1, <2>1
  <2>3. ext' \in Exts
    BY <1>3 DEF Left, Disassociated, Inv, TypeInv, TypeOK, Exts
  <2>4. TypeInv'
    BY <1>0, <2>1, <2>3 DEF Inv, TypeInv, TypeOK
  <2>5. LinkInv' /\ RoamInv'
    BY <1>0, <1>1, <1>3, <2>1, <2>2 DEF Inv, LinkInv, RoamInv, RoamGoesOn, Timed, Unlocked
  <2> QED
    BY <2>4, <2>5 DEF Inv
<1>4. CASE /\ \/ ext' = Refused
              \/ ext' = [Refused EXCEPT !.link_timer = FALSE]
           /\ m' = o \/ m' = [o EXCEPT !.assoc_timer = TRUE]
  <2> HIDE DEF o
  <2>1. /\ m' \in Privs /\ m'.fw = m.fw /\ m'.to_roam = m.to_roam
        /\ m'.to_join = m.to_join /\ m'.q = o.q
        /\ m.assoc_timer => m'.assoc_timer
    <3>1. CASE m' = o
      BY <1>1, <3>1
    <3>2. CASE m' = [o EXCEPT !.assoc_timer = TRUE]
      BY <1>1, <3>2 DEF Privs
    <3> QED
      BY <1>4, <3>1, <3>2
  <2>2. ext' \in Exts /\ ext'.state # "NULL"
    <3>1. ext \in Exts
      BY DEF Inv, TypeInv, TypeOK
    <3>2. Left \in Exts
      BY <3>1 DEF Left, Disassociated, Exts
    <3>3. Refused \in Exts /\ Refused.state # "NULL"
      BY <3>2 DEF Refused, Exts
    <3> QED
      BY <1>4, <3>3 DEF Exts
  <2>3. TypeInv'
    BY <1>0, <2>1, <2>2 DEF Inv, TypeInv, TypeOK
  <2>4. LinkInv'
    BY <1>0, <1>1, <2>1, <2>2 DEF Inv, LinkInv, InTouch, Timed, Correcting
  <2>5. RoamInv'
    BY <1>0, <1>1, <2>1 DEF Inv, RoamInv, RoamGoesOn, Timed
  <2> QED
    BY <2>3, <2>4, <2>5 DEF Inv
<1> QED
  BY <1>2, <1>3, <1>4 DEF join_cmd_hdl

\* The disassociation commands keep the invariant.
LEMMA DisconnectInv == Inv /\ disconnect_hdl => Inv'
<1> SUFFICES ASSUME Inv, disconnect_hdl PROVE Inv'
  OBVIOUS
<1>0. /\ m \in Privs /\ cmd = "idle" /\ m.q # <<>>
      /\ Head(m.q) \in {"disassoc", "disassoc_wait"}
      /\ UNCHANGED <<scan, scan_request, assocHdl, scanHdl, cmd, rx, link,
                     user, reqs, losses, faults>>
  BY DEF disconnect_hdl, Exec, Inv, TypeInv, TypeOK
<1>1. /\ m' \in Privs /\ m'.fw = m.fw /\ m'.to_roam = m.to_roam
      /\ m'.to_join = m.to_join /\ m'.assoc_timer = m.assoc_timer
      /\ \A d : Followed(m.q, d) => Followed(m'.q, d)
      /\ \A d : Contains(m.q, d) /\ d \notin {"disassoc", "disassoc_wait"}
               => Contains(m'.q, d)
      /\ Followed(m.q, Head(m.q)) => Contains(m'.q, "join")
  BY <1>0, PoppedFacts DEF disconnect_hdl
<1>2. ext' \in Exts
  BY DEF disconnect_hdl, Disassociated, Inv, TypeInv, TypeOK, Exts
<1>3. TypeInv'
  BY <1>0, <1>1, <1>2 DEF Inv, TypeInv, TypeOK
<1>4. \/ Contains(m'.q, "join") \/ user \in {"disc_wait", "disc_indicate"}
      \/ LINKED \notin m.fw /\ LINKING \notin m.fw
  BY <1>0, <1>1 DEF Inv, LinkInv
<1>5. LinkInv' /\ RoamInv'
  BY <1>0, <1>1, <1>4 DEF Inv, LinkInv, RoamInv, RoamGoesOn, Timed, Settling, Correcting
<1> QED
  BY <1>3, <1>5 DEF Inv

\* The parts of rtw_surveydone_event_callback keep the invariant.
LEMMA SurveyDoneInv ==
  Inv /\ (SurveyDone \/ SurveyDoneCancel \/ SurveyDoneJoin \/ SurveyDoneIndicated)
    => Inv'
<1> SUFFICES ASSUME Inv,
                    \/ SurveyDone \/ SurveyDoneCancel \/ SurveyDoneJoin
                    \/ SurveyDoneIndicated
             PROVE  Inv'
  OBVIOUS
<1>0. m \in Privs
  BY DEF Inv, TypeInv, TypeOK
<1>1. CASE SurveyDone
  <2>0. /\ cmd = "idle" /\ m.q # <<>> /\ Head(m.q) = "surveydone" /\ cmd' = "sd_cancel"
        /\ UNCHANGED <<ext, scan, scan_request, assocHdl, scanHdl, rx, link,
                       user, reqs, losses, faults>>
    BY <1>1 DEF SurveyDone, Exec
  <2> DEFINE o == Popped
  <2>1. /\ o \in Privs /\ o.fw = m.fw /\ o.to_roam = m.to_roam
        /\ o.to_join = m.to_join /\ o.assoc_timer = m.assoc_timer
        /\ \A d : Contains(m.q, d) /\ d # "surveydone" => Contains(o.q, d)
        /\ \A d : Followed(m.q, d) => Followed(o.q, d)
    BY <1>0, <2>0, PoppedFacts
  <2>2. m' = [o EXCEPT !.fw = @ \ {SURVEY}]
    BY <1>1 DEF SurveyDone
  <2> HIDE DEF o
  <2>3. /\ m' \in Privs /\ m'.fw = o.fw \ {SURVEY} /\ m'.to_roam = o.to_roam
        /\ m'.to_join = o.to_join /\ m'.assoc_timer = o.assoc_timer /\ m'.q = o.q
    BY <2>1, <2>2 DEF Privs
  <2>4. /\ LINKED \in m'.fw <=> LINKED \in m.fw
        /\ LINKING \in m'.fw <=> LINKING \in m.fw
    BY <2>1, <2>3 DEF LINKED, LINKING, SURVEY
  <2>5. TypeInv'
    BY <2>0, <2>3 DEF Inv, TypeInv, TypeOK
  <2>6. LinkInv' /\ RoamInv'
    BY <2>0, <2>1, <2>3, <2>4 DEF Inv, LinkInv, RoamInv, RoamGoesOn, InTouch,
                                  Settling, Correcting, Timed
  <2> QED
    BY <2>5, <2>6 DEF Inv
<1>2. CASE SurveyDoneCancel
  <2>0. /\ cmd = "sd_cancel" /\ cmd' = "sd_join"
        /\ UNCHANGED <<ext, scan, scan_request, assocHdl, scanHdl, rx, link,
                       user, reqs, losses, faults>>
    BY <1>2 DEF SurveyDoneCancel
  <2>1. /\ m' \in Privs /\ m'.fw = m.fw /\ m'.to_roam = m.to_roam
        /\ m'.to_join = m.to_join /\ m'.assoc_timer = m.assoc_timer /\ m'.q = m.q
    BY <1>0, <1>2 DEF SurveyDoneCancel, Privs
  <2>2. TypeInv'
    BY <2>0, <2>1 DEF Inv, TypeInv, TypeOK
  <2>3. LinkInv' /\ RoamInv'
    BY <2>0, <2>1 DEF Inv, LinkInv, RoamInv, RoamGoesOn, InTouch, Settling, Correcting, Timed
  <2> QED
    BY <2>2, <2>3 DEF Inv
<1>3. CASE SurveyDoneJoin
  <2>0. /\ cmd = "sd_join" /\ cmd' = "sd_done" /\ rx # "cancel" /\ m' \in survey_join(m)
        /\ UNCHANGED <<ext, scan, scan_request, assocHdl, scanHdl, rx, link,
                       user, reqs, losses, faults>>
    BY <1>3 DEF SurveyDoneJoin, Unlocked
  <2>1. CASE m.to_join
    <3>1. Retried(m, m')
      BY <1>0, <2>0, <2>1, SurveyJoinFacts DEF Inv, LinkInv
    <3>2. TypeInv'
      BY <2>0, <3>1 DEF Inv, TypeInv, TypeOK, Retried
    <3>3. LinkInv' /\ RoamInv'
      BY <2>0, <3>1, RetriedInv
    <3> QED
      BY <3>2, <3>3 DEF Inv
  <2>2. CASE ~m.to_join
    <3>1. m' = m
      BY <2>0, <2>2 DEF survey_join
    <3>2. TypeInv'
      BY <2>0, <3>1 DEF Inv, TypeInv, TypeOK
    <3>3. LinkInv' /\ RoamInv'
      BY <2>0, <2>2, <3>1 DEF Inv, LinkInv, RoamInv, RoamGoesOn, InTouch, Settling, Correcting, Timed
    <3> QED
      BY <3>2, <3>3 DEF Inv
  <2> QED
    BY <2>1, <2>2
<1>4. CASE SurveyDoneIndicated
  <2>0. /\ cmd = "sd_done" /\ cmd' = "idle"
        /\ UNCHANGED <<m, ext, scan, assocHdl, scanHdl, rx, link, user, reqs,
                       losses, faults>>
    BY <1>4 DEF SurveyDoneIndicated
  <2>1. Flags'
    BY <1>4, Zenon DEF SurveyDoneIndicated, Inv, TypeInv, TypeOK, Flags
  <2>2. TypeInv'
    BY <2>0, <2>1 DEF Inv, TypeInv, TypeOK, Flags
  <2>3. LinkInv' /\ RoamInv'
    BY <2>0 DEF Inv, LinkInv, RoamInv, RoamGoesOn, InTouch, Settling, Correcting, Timed
  <2> QED
    BY <2>2, <2>3 DEF Inv
<1> QED
  BY <1>1, <1>2, <1>3, <1>4

\* Losing the access point, and the deletion events, keep the invariant.
LEMMA LossInv ==
  Inv /\ (CmdLost \/ Expired \/ mlmeext_sta_del_event_callback
          \/ rtw_stadel_event_callback) => Inv'
<1> SUFFICES ASSUME Inv,
                    \/ CmdLost \/ Expired \/ mlmeext_sta_del_event_callback
                    \/ rtw_stadel_event_callback
             PROVE  Inv'
  OBVIOUS
<1>0. m \in Privs
  BY DEF Inv, TypeInv, TypeOK
<1>1. CASE CmdLost
  <2>1. ext' \in Exts
    BY <1>1 DEF CmdLost, Inv, TypeInv, TypeOK, Exts
  <2>2. TypeInv'
    BY <1>1, <2>1 DEF CmdLost, Inv, TypeInv, TypeOK
  <2>3. LinkInv' /\ RoamInv'
    BY <1>1 DEF CmdLost, Inv, LinkInv, RoamInv, RoamGoesOn, Settling, Correcting, Timed
  <2> QED
    BY <2>2, <2>3 DEF Inv
<1>2. CASE Expired
  <2>0. /\ cmd = "idle" /\ cmd' = "lost" /\ losses < MaxLosses /\ losses' = losses + 1
        /\ UNCHANGED <<ext, scan, scan_request, assocHdl, scanHdl, rx, link,
                       user, reqs, faults>>
    BY <1>2 DEF Expired
  <2>1. /\ m' \in Privs /\ m' = [m EXCEPT !.q = m'.q]
        /\ Contains(m'.q, "stadel_expired") /\ Queued(m, m')
    BY <1>0, <1>2, EnqueueFacts DEF Expired, CmdCodes
  <2>2. /\ m'.fw = m.fw /\ m'.to_roam = m.to_roam /\ m'.to_join = m.to_join
        /\ m'.assoc_timer = m.assoc_timer
    BY <1>0, <2>1 DEF Privs
  <2>3. TypeInv'
    BY <2>0, <2>1, BoundsAssumption DEF Inv, TypeInv, TypeOK
  <2>4. LinkInv' /\ RoamInv'
    BY <2>0, <2>1, <2>2 DEF Inv, LinkInv, RoamInv, RoamGoesOn, InTouch, Settling, Correcting,
                            Timed, Queued
  <2> QED
    BY <2>3, <2>4 DEF Inv
<1>3. CASE mlmeext_sta_del_event_callback
  <2>0. /\ cmd = "idle" /\ m.q # <<>> /\ Head(m.q) \in {"stadel", "stadel_expired"}
        /\ cmd' = Head(m.q)
        /\ UNCHANGED <<scan, scan_request, assocHdl, scanHdl, rx, link, user,
                       reqs, losses, faults>>
    BY <1>3 DEF mlmeext_sta_del_event_callback, Exec
  <2>1. /\ m' \in Privs /\ m'.fw = m.fw /\ m'.to_roam = m.to_roam
        /\ m'.to_join = m.to_join /\ m'.assoc_timer = m.assoc_timer
        /\ \A d : Followed(m.q, d) => Followed(m'.q, d)
    BY <1>0, <1>3, <2>0, PoppedFacts DEF mlmeext_sta_del_event_callback
  <2>2. ext' \in Exts
    BY <1>3 DEF mlmeext_sta_del_event_callback, Disassociated, Inv, TypeInv, TypeOK, Exts
  <2>3. TypeInv'
    BY <2>0, <2>1, <2>2 DEF Inv, TypeInv, TypeOK
  <2>4. LinkInv' /\ RoamInv'
    BY <2>0, <2>1 DEF Inv, LinkInv, RoamInv, RoamGoesOn, Settling, Correcting, Timed
  <2> QED
    BY <2>3, <2>4 DEF Inv
<1>4. CASE rtw_stadel_event_callback
  <2> DEFINE t == ToRoam(m, cmd = "stadel_expired")
             s == rtw_indicate_disconnect(t)
  <2>0. /\ cmd' = "idle" /\ rx # "cancel" /\ m' \in rtw_roaming(s)
        /\ UNCHANGED <<ext, scan, scan_request, assocHdl, scanHdl, rx, link,
                       user, reqs, losses, faults>>
    BY <1>4 DEF rtw_stadel_event_callback, Unlocked
  <2>1. t \in Privs /\ t.q = m.q /\ t.assoc_timer = m.assoc_timer
    <3>0. /\ m.to_roam \in 0..MaxRoam /\ 0 \in 0..MaxRoam /\ MaxRoam \in 0..MaxRoam
          /\ (m.to_roam > 0 => m.to_roam - 1 \in 0..MaxRoam)
          /\ (m.to_roam > 0 \/ m.to_roam = 0)
      BY <1>0, BoundsAssumption DEF Privs
    <3>1. CASE cmd # "stadel_expired"
      BY <1>0, <3>0, <3>1, SetRoamFacts DEF ToRoam
    <3>2. CASE cmd = "stadel_expired" /\ m.to_roam > 0
      <4>1. t = [m EXCEPT !.to_roam = @ - 1]
        BY <3>0, <3>2 DEF ToRoam
      <4> QED
        BY <1>0, <3>0, <3>2, <4>1 DEF Privs
    <3>3. CASE cmd = "stadel_expired" /\ m.to_roam = 0
      <4>1. t = rtw_set_to_roam(m, MaxRoam)
        BY <3>0, <3>3 DEF ToRoam
      <4> HIDE DEF t
      <4> QED
        BY <1>0, <3>0, <4>1, SetRoamFacts
    <3> QED
      BY <3>0, <3>1, <3>2, <3>3
  <2> HIDE DEF t
  <2>2. /\ s \in Privs /\ s.fw = t.fw \ {LINKING, LINKED} /\ s.q = t.q
        /\ s.assoc_timer = t.assoc_timer
    BY <2>1, IndicateFacts
  <2> HIDE DEF s
  <2>3. s.fw \cap {LINKED, LINKING} = {}
    BY <2>2
  <2>4. Retried(s, m')
    BY <2>0, <2>2, <2>3, RoamingFacts
  <2>5. Retried(m, m')
    BY <2>1, <2>2, <2>4 DEF Retried
  <2>6. TypeInv'
    BY <2>0, <2>5 DEF Inv, TypeInv, TypeOK, Retried
  <2>7. LinkInv' /\ RoamInv'
    BY <2>0, <2>5, RetriedInv
  <2> QED
    BY <2>6, <2>7 DEF Inv
<1> QED
  BY <1>1, <1>2, <1>3, <1>4

\* The requests of cfg80211 keep the invariant.
LEMMA RequestInv ==
  Inv /\ (cfg80211_rtw_scan \/ cfg80211_rtw_connect \/ cfg80211_rtw_disconnect)
    => Inv'
<1> SUFFICES ASSUME Inv,
                    \/ cfg80211_rtw_scan \/ cfg80211_rtw_connect
                    \/ cfg80211_rtw_disconnect
             PROVE  Inv'
  OBVIOUS
<1>0. /\ m \in Privs /\ scan \in Scans /\ reqs \in 0..MaxReqs /\ MaxReqs \in Nat
      /\ 0 \in 0..MaxRoam
  BY BoundsAssumption DEF Inv, TypeInv, TypeOK
<1>1. /\ user = "idle" /\ user' \in {"scan", "conn_abort", "disc_abort"}
      /\ reqs' \in 0..MaxReqs
      /\ UNCHANGED <<ext, scan_request, assocHdl, scanHdl, cmd, rx, link,
                     losses, faults>>
  BY <1>0 DEF cfg80211_rtw_scan, cfg80211_rtw_connect, cfg80211_rtw_disconnect, Request
<1>2. scan' \in Scans /\ scan'.state = scan.state /\ scan'.left = scan.left
  BY <1>0 DEF cfg80211_rtw_scan, cfg80211_rtw_connect, cfg80211_rtw_disconnect, Scans
<1>3. /\ m' \in Privs /\ m'.fw = m.fw /\ m'.q = m.q /\ m'.assoc_timer = m.assoc_timer
      /\ m'.to_roam = 0 \/ (m'.to_roam = m.to_roam /\ m'.to_join = m.to_join)
  <2>1. CASE cfg80211_rtw_scan
    BY <1>0, <2>1 DEF cfg80211_rtw_scan
  <2>2. CASE cfg80211_rtw_connect
    BY <1>0, <2>2 DEF cfg80211_rtw_connect, Privs
  <2>3. CASE cfg80211_rtw_disconnect
    <3> DEFINE s == rtw_set_to_roam(m, 0)
    <3>1. /\ s \in Privs /\ s.fw = m.fw /\ s.q = m.q /\ s.to_roam = 0
          /\ s.assoc_timer = m.assoc_timer
      BY <1>0, SetRoamFacts
    <3>2. m' = [s EXCEPT !.quiet = TRUE]
      BY <2>3 DEF cfg80211_rtw_disconnect
    <3> HIDE DEF s
    <3> QED
      BY <3>1, <3>2 DEF Privs
  <2> QED
    BY <2>1, <2>2, <2>3
<1>4. TypeInv'
  BY <1>1, <1>2, <1>3 DEF Inv, TypeInv, TypeOK
<1>5. LinkInv' /\ RoamInv'
  BY <1>1, <1>3 DEF Inv, LinkInv, RoamInv, RoamGoesOn, InTouch, Settling, Correcting, Timed
<1> QED
  BY <1>4, <1>5 DEF Inv

\* rtw_set_802_11_connect keeps the invariant.
LEMMA ConnectInv == Inv /\ rtw_set_802_11_connect => Inv'
<1> SUFFICES ASSUME Inv, rtw_set_802_11_connect PROVE Inv'
  OBVIOUS
<1>0. /\ m \in Privs /\ user = "conn_join" /\ rx # "cancel"
      /\ user' \in {"conn_save", "idle"}
      /\ UNCHANGED <<ext, scan, scan_request, assocHdl, scanHdl, cmd, rx,
                     link, reqs, losses>>
  BY DEF rtw_set_802_11_connect, Unlocked, Inv, TypeInv, TypeOK
<1>1. faults \in 0..MaxFaults /\ faults' \in 0..MaxFaults /\ (faults' = 0 => faults = 0)
  <2>1. faults \in 0..MaxFaults /\ MaxFaults \in Nat
    BY BoundsAssumption DEF Inv, TypeInv, TypeOK
  <2>2. faults' = faults \/ (faults < MaxFaults /\ faults' = faults + 1)
    BY DEF rtw_set_802_11_connect
  <2> QED
    BY <2>1, <2>2
<1>2. CASE m' = [m EXCEPT !.to_join = TRUE] /\ SURVEY \in m.fw
  <2>1. /\ m' \in Privs /\ m'.fw = m.fw /\ m'.q = m.q /\ m'.to_roam = m.to_roam
        /\ m'.assoc_timer = m.assoc_timer /\ m'.to_join = TRUE
    BY <1>0, <1>2 DEF Privs
  <2>2. TypeInv'
    BY <1>0, <1>1, <2>1 DEF Inv, TypeInv, TypeOK
  <2>3. LinkInv' /\ RoamInv'
    BY <1>0, <1>1, <1>2, <2>1 DEF Inv, LinkInv, RoamInv, RoamGoesOn, InTouch, Settling, Correcting, Timed
  <2> QED
    BY <2>2, <2>3 DEF Inv
<1>3. CASE m' = m
  <2>1. TypeInv'
    BY <1>0, <1>1, <1>3 DEF Inv, TypeInv, TypeOK
  <2>2. LinkInv' /\ RoamInv'
    BY <1>0, <1>1, <1>3 DEF Inv, LinkInv, RoamInv, RoamGoesOn, InTouch, Settling, Correcting, Timed
  <2> QED
    BY <2>1, <2>2 DEF Inv
<1>4. CASE m' = rtw_do_join(m, "join")
  <2>1. /\ m' \in Privs /\ m'.fw = (m.fw \ {LINKED}) \cup {LINKING}
        /\ Joining(m, m') /\ m'.assoc_timer = TRUE
    BY <1>0, <1>4, DoJoinFacts
  <2>2. LINKED \notin m'.fw
    BY <2>1 DEF LINKED, LINKING
  <2>3. TypeInv'
    BY <1>0, <1>1, <2>1 DEF Inv, TypeInv, TypeOK
  <2>4. LinkInv'
    BY <1>0, <2>1, <2>2 DEF Inv, LinkInv, Settling, Correcting, Joining
  <2>5. RoamInv'
    BY <1>0, <2>1 DEF RoamInv, RoamGoesOn, Timed
  <2> QED
    BY <2>3, <2>4, <2>5 DEF Inv
<1>5. CASE m' = rtw_do_join(m, "survey")
  <2>1. /\ m' \in Privs /\ m'.fw = (m.fw \ {LINKING}) \cup {SURVEY}
        /\ Queued(m, m') /\ m'.to_roam = m.to_roam /\ m'.to_join = TRUE
        /\ m'.assoc_timer = m.assoc_timer
    BY <1>0, <1>5, DoJoinFacts
  <2>2. /\ LINKED \in m'.fw <=> LINKED \in m.fw
        /\ LINKING \notin m'.fw /\ SURVEY \in m'.fw
    BY <2>1 DEF LINKED, LINKING, SURVEY
  <2>3. TypeInv'
    BY <1>0, <1>1, <2>1 DEF Inv, TypeInv, TypeOK
  <2>4. LinkInv' /\ RoamInv'
    BY <1>0, <1>1, <2>1, <2>2 DEF Inv, LinkInv, RoamInv, RoamGoesOn, InTouch,
                                  Settling, Correcting, Timed, Queued
  <2> QED
    BY <2>3, <2>4 DEF Inv
<1>6. CASE /\ m' = [rtw_do_join(m, "fail") EXCEPT !.quiet = FALSE, !.awaited = FALSE]
           /\ m.to_roam = 0 \/ (m.to_roam > 0 /\ faults' = faults + 1)
  <2> DEFINE f == rtw_do_join(m, "fail")
  <2>1. /\ f \in Privs /\ f.fw = m.fw \ {LINKING} /\ f.q = m.q
        /\ f.to_roam = m.to_roam /\ f.assoc_timer = m.assoc_timer
    BY <1>0, DoJoinFacts
  <2>2. m' = [f EXCEPT !.quiet = FALSE, !.awaited = FALSE]
    BY <1>6
  <2> HIDE DEF f
  <2>3. /\ m' \in Privs /\ m'.fw = f.fw /\ m'.q = m.q
        /\ m'.to_roam = m.to_roam /\ m'.assoc_timer = m.assoc_timer
    BY <2>1, <2>2 DEF Privs
  <2>4. LINKING \notin m'.fw /\ (LINKED \in m'.fw => LINKED \in m.fw)
    BY <2>1, <2>3
  <2>5. ~(faults' = 0 /\ m'.to_roam > 0)
    BY <1>1, <1>6, <2>3
  <2>6. TypeInv'
    BY <1>0, <1>1, <2>3 DEF Inv, TypeInv, TypeOK
  <2>7. LinkInv' /\ RoamInv'
    BY <1>0, <2>3, <2>4, <2>5 DEF Inv, LinkInv, RoamInv, RoamGoesOn, InTouch,
                                  Settling, Correcting, Timed
  <2> QED
    BY <2>6, <2>7 DEF Inv
<1> QED
  BY <1>2, <1>3, <1>4, <1>5, <1>6 DEF rtw_set_802_11_connect

\* The user's steps keep the invariant.
LEMMA UserInv == Inv /\ UserStep => Inv'
<1> SUFFICES ASSUME Inv, UserStep PROVE Inv'
  OBVIOUS
<1>0. /\ m \in Privs /\ scan \in Scans /\ faults \in 0..MaxFaults /\ MaxFaults \in Nat
      /\ scan_request \in BOOLEAN
  BY BoundsAssumption DEF Inv, TypeInv, TypeOK
<1>1. CASE ScanStarted
  <2>0. /\ user' = "idle" /\ user = "scan"
        /\ UNCHANGED <<ext, scan, assocHdl, scanHdl, cmd, rx, link, reqs,
                       losses, faults>>
    BY <1>1 DEF ScanStarted
  <2>1. /\ m' \in Privs /\ m'.fw = m.fw \cup {SURVEY} /\ Queued(m, m')
        /\ m'.to_roam = m.to_roam /\ m'.to_join = m.to_join
        /\ m'.assoc_timer = m.assoc_timer
    BY <1>0, <1>1, SurveyCmdFacts DEF ScanStarted
  <2>2. /\ LINKED \in m'.fw <=> LINKED \in m.fw
        /\ LINKING \in m'.fw <=> LINKING \in m.fw
        /\ SURVEY \in m'.fw
    BY <2>1 DEF LINKED, LINKING, SURVEY
  <2>3. Flags'
    BY <1>1, Zenon DEF ScanStarted, Inv, TypeInv, TypeOK, Flags
  <2>4. TypeInv'
    BY <2>0, <2>1, <2>3 DEF Inv, TypeInv, TypeOK, Flags
  <2>5. LinkInv' /\ RoamInv'
    BY <2>0, <2>1, <2>2 DEF Inv, LinkInv, RoamInv, RoamGoesOn, InTouch,
                            Settling, Correcting, Timed, Queued
  <2> QED
    BY <2>4, <2>5 DEF Inv
<1>2. ASSUME ScanWaited
      PROVE  /\ scan' \in Scans /\ scan'.state = scan.state /\ scan'.left = scan.left
             /\ faults' \in 0..MaxFaults /\ (faults' = 0 => faults = 0)
             /\ scan_request' \in BOOLEAN
  <2>1. scan' \in Scans /\ scan'.state = scan.state /\ scan'.left = scan.left
    BY <1>0, <1>2 DEF ScanWaited, Scans
  <2>2. faults' \in 0..MaxFaults /\ (faults' = 0 => faults = 0)
    BY <1>0, <1>2 DEF ScanWaited
  <2>3. scan_request' \in BOOLEAN
    BY <1>0, <1>2, Zenon DEF ScanWaited
  <2> QED
    BY <2>1, <2>2, <2>3
<1>3. CASE ConnectAborted
  <2>0. /\ user = "conn_abort" /\ ScanWaited /\ user' = "conn_join"
        /\ UNCHANGED <<m, ext, assocHdl, scanHdl, cmd, rx, link, reqs, losses>>
    BY <1>3 DEF ConnectAborted
  <2>1. TypeInv'
    BY <1>2, <2>0 DEF Inv, TypeInv, TypeOK
  <2>2. LinkInv' /\ RoamInv'
    BY <1>2, <2>0 DEF Inv, LinkInv, RoamInv, RoamGoesOn, InTouch, Settling, Correcting, Timed
  <2> QED
    BY <2>1, <2>2 DEF Inv
<1>4. CASE rtw_set_802_11_connect
  BY <1>4, ConnectInv
<1>5. CASE ConnectRefused \/ ConnectSaved
  <2>0. /\ user \in {"conn_join", "conn_save"} /\ user' = "idle"
        /\ faults' \in 0..MaxFaults /\ (faults' = 0 => faults = 0)
        /\ UNCHANGED <<ext, scan, scan_request, assocHdl, scanHdl, cmd, rx,
                       link, reqs, losses>>
    BY <1>0, <1>5 DEF ConnectRefused, ConnectSaved
  <2>1. /\ m' \in Privs /\ m'.fw = m.fw /\ m'.q = m.q /\ m'.to_roam = m.to_roam
        /\ m'.to_join = m.to_join /\ m'.assoc_timer = m.assoc_timer
    BY <1>0, <1>5 DEF ConnectRefused, ConnectSaved, Privs
  <2>2. TypeInv'
    BY <2>0, <2>1 DEF Inv, TypeInv, TypeOK
  <2>3. LinkInv' /\ RoamInv'
    BY <2>0, <2>1 DEF Inv, LinkInv, RoamInv, RoamGoesOn, InTouch, Settling, Correcting, Timed
  <2> QED
    BY <2>2, <2>3 DEF Inv
<1>6. CASE DisconnectAborted
  <2>0. /\ user = "disc_abort" /\ ScanWaited /\ user' = "disc_wait"
        /\ UNCHANGED <<ext, assocHdl, scanHdl, cmd, rx, link, reqs, losses>>
    BY <1>6 DEF DisconnectAborted
  <2>1. m' \in Privs /\ m' = [m EXCEPT !.q = m'.q]
    BY <1>0, <1>6, EnqueueFacts DEF DisconnectAborted, CmdCodes
  <2>2. /\ m'.fw = m.fw /\ m'.to_roam = m.to_roam /\ m'.to_join = m.to_join
        /\ m'.assoc_timer = m.assoc_timer
    BY <1>0, <2>1 DEF Privs
  <2>3. /\ \A c : Contains(m.q, c) => Contains(m'.q, c)
        /\ Followed(m.q, "disassoc") => Followed(m'.q, "disassoc")
    <3>1. m.q \in Seq(CmdCodes) /\ m'.q = Append(m.q, "disassoc_wait")
      BY <1>0, <1>6 DEF DisconnectAborted, rtw_enqueue_cmd, Privs
    <3>2. "disassoc_wait" \in CmdCodes /\ "disassoc_wait" # "disassoc"
      BY DEF CmdCodes
    <3>3. LET c == "disassoc_wait"
          IN /\ \A d : Contains(m.q, d) => Contains(Append(m.q, c), d)
             /\ \A d : c # d /\ Followed(m.q, d) => Followed(Append(m.q, c), d)
      BY <3>1, <3>2, QueueAppend
    <3> QED
      BY <3>1, <3>2, <3>3
  <2>4. TypeInv'
    BY <1>2, <2>0, <2>1 DEF Inv, TypeInv, TypeOK
  <2>5. LinkInv' /\ RoamInv'
    BY <1>2, <2>0, <2>2, <2>3 DEF Inv, LinkInv, RoamInv, RoamGoesOn, Settling, Correcting, Timed
  <2> QED
    BY <2>4, <2>5 DEF Inv
<1>7. CASE DisconnectAcked
  <2>0. /\ user = "disc_wait" /\ user' = "disc_indicate"
        /\ faults' \in 0..MaxFaults /\ (faults' = 0 => faults = 0)
        /\ UNCHANGED <<m, ext, scan, scan_request, assocHdl, scanHdl, cmd, rx,
                       link, reqs, losses>>
    BY <1>0, <1>7 DEF DisconnectAcked
  <2>1. TypeInv'
    BY <2>0 DEF Inv, TypeInv, TypeOK
  <2>2. LinkInv' /\ RoamInv'
    BY <2>0 DEF Inv, LinkInv, RoamInv, RoamGoesOn, Settling, Correcting, Timed
  <2> QED
    BY <2>1, <2>2 DEF Inv
<1>8. CASE DisconnectIndicated
  <2>0. /\ user = "disc_indicate" /\ user' = "idle"
        /\ UNCHANGED <<ext, scan, scan_request, assocHdl, scanHdl, cmd, rx,
                       link, reqs, losses, faults>>
    BY <1>8 DEF DisconnectIndicated
  <2> DEFINE s == rtw_indicate_disconnect(m)
  <2>1. /\ s \in Privs /\ s.fw = m.fw \ {LINKING, LINKED} /\ s.q = m.q
        /\ s.to_roam = m.to_roam /\ s.to_join = m.to_join
        /\ s.assoc_timer = m.assoc_timer
    BY <1>0, IndicateFacts
  <2>2. m' = [s EXCEPT !.quiet = FALSE, !.hushed = FALSE,
                       !.told = "down", !.awaited = FALSE]
    BY <1>8 DEF DisconnectIndicated
  <2> HIDE DEF s
  <2>3. /\ m' \in Privs /\ m'.fw = s.fw /\ m'.q = m.q /\ m'.to_roam = m.to_roam
        /\ m'.to_join = m.to_join /\ m'.assoc_timer = m.assoc_timer
    BY <2>1, <2>2 DEF Privs
  <2>4. /\ LINKED \notin m'.fw /\ LINKING \notin m'.fw
        /\ SURVEY \in m.fw => SURVEY \in m'.fw
    BY <2>1, <2>3 DEF LINKED, LINKING, SURVEY
  <2>5. TypeInv'
    BY <2>0, <2>3 DEF Inv, TypeInv, TypeOK
  <2>6. LinkInv' /\ RoamInv'
    BY <2>0, <2>3, <2>4 DEF Inv, LinkInv, RoamInv, RoamGoesOn, Timed
  <2> QED
    BY <2>5, <2>6 DEF Inv
<1> QED
  BY <1>1, <1>3, <1>4, <1>5, <1>6, <1>7, <1>8 DEF UserStep

\* Every step keeps the invariant.
LEMMA InvStep == Inv /\ [Next]_vars => Inv'
<1> SUFFICES ASSUME Inv, [Next]_vars PROVE Inv'
  OBVIOUS
<1>1. CASE UNCHANGED vars
  <2>1. TypeInv'
    BY <1>1 DEF vars, Inv, TypeInv, TypeOK
  <2>2. LinkInv' /\ RoamInv'
    BY <1>1 DEF vars, Inv, LinkInv, RoamInv, RoamGoesOn, InTouch, Settling, Correcting, Timed
  <2> QED
    BY <2>1, <2>2 DEF Inv
<1>2. CASE CmdStep
  BY <1>2, SurveyCmdInv, JoinCmdInv, DisconnectInv, SurveyDoneInv, LossInv DEF CmdStep
<1> QED
  BY <1>1, <1>2, FrameInv, RxInv, TimersInv, LossInv, RequestInv, UserInv
     DEF Next, Timers

\* The invariant holds in every reachable state.
LEMMA InvAlways == Spec => []Inv
<1> QED
  BY InitInv, InvStep, PTL DEF Spec

-----------------------------------------------------------------------------
(***************************************************************************)
(* Every variable keeps its type, whatever the number of channels,         *)
(* retries, requests, losses and faults: no roaming attempt and no channel *)
(* is counted below zero.                                                  *)
(***************************************************************************)
THEOREM TypeCorrect == Spec => []TypeOK
<1>1. Inv => TypeOK
  BY DEF Inv, TypeInv
<1> QED
  BY <1>1, InvAlways, PTL

(***************************************************************************)
(* mlmepriv is linked only while mlmeext is associated or something that   *)
(* will make them agree is on its way, whatever the order of frames,       *)
(* timers, commands and operations of the user.                            *)
(***************************************************************************)
THEOREM LinkedOrSettling == Spec => []LinkedIsAssociated
<1>1. Inv => LinkedIsAssociated
  BY DEF Inv, TypeInv, TypeOK, Exts, LinkInv, InTouch, Settling, Correcting, Timed,
         LinkedIsAssociated, JoinUnderWay, Attempting, AnswerDue
<1> QED
  BY <1>1, InvAlways, PTL

(***************************************************************************)
(* Until a wait runs into its limit, roaming attempts that are left are    *)
(* always followed up: rtw_roaming, rtw_join_timeout_handler and the end   *)
(* of a scan never leave to_roam set with nothing under way.               *)
(***************************************************************************)
THEOREM RoamingFollowedUp == Spec => []RoamGoesOn
<1>1. Inv => RoamGoesOn
  BY DEF Inv, RoamInv
<1> QED
  BY <1>1, InvAlways, PTL

=============================================================================
