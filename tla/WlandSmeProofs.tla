---------------------------- MODULE WlandSmeProofs ----------------------------
(***************************************************************************)
(* Theorems about WlandSme, for every set of networks, every budget and    *)
(* every length of the event queue.                                        *)
(***************************************************************************)
EXTENDS WlandSme, SequenceTheorems, TLAPS

-----------------------------------------------------------------------------
(* Links *)

\* A link the driver has is one cfg80211 was told of (wland_cfg80211.c:5650-5829).
\* LinkIsKnown is inductive: only the event worker makes links, and reports each
\* before it takes the next event.
THEOREM LinksAreKnown == Spec => []LinkIsKnown
<1>1. Init => LinkIsKnown
  BY DEF Init, LinkIsKnown
<1>2. LinkIsKnown /\ [Next]_vars => LinkIsKnown'
  <2> SUFFICES ASSUME LinkIsKnown, [Next]_vars PROVE LinkIsKnown'
    OBVIOUS
  <2> USE DEF LinkIsKnown, Forgotten, Idle, scanVars, linkVars, joinVars, waitVars, callVars,
              fwVars, evVars
  <2>1. CASE Calls
    BY <2>1 DEF Calls, Scan, Open, Stop, Suspend, RemoveInterface, Disconnect, Connect
  <2>2. CASE CallGoesOn
    <3>1. CASE ScanBegin \/ ConnectWaited \/ HoldEnds \/ DisconnectCancel \/ DisconnectTimer
               \/ StopTimer \/ StopEnds \/ SuspendEnds \/ DisconnectBegin
               \/ \E ok \in BOOLEAN : ScanSent(ok)
      BY <3>1 DEF ScanBegin, ConnectWaited, HoldEnds, DisconnectCancel, DisconnectTimer,
                  StopTimer, StopEnds, SuspendEnds, DisconnectBegin, ScanSent
    <3>2. CASE ConnectBegin \/ DisconnectSent \/ \E ok \in BOOLEAN : ConnectSent(ok) \/ StopSent(ok)
      BY <3>2 DEF ConnectBegin, DisconnectSent, ConnectSent, StopSent
    <3> QED
      BY <2>2, <3>1, <3>2 DEF CallGoesOn
  <2>3. CASE Timers \/ ReportWork \/ JoinWork
    BY <2>3 DEF Timers, ScanTimeout, ConnectTimer, Restore, ReportWork, ReportTake, ReportDone,
                JoinWork, JoinBegin, JoinEnds
  <2>4. CASE EventWork
    BY <2>4 DEF EventWork, HandleScan, TakeLink, CancelJoin, LinkUp, LinkUpReported, LinkDown,
                NextIs, Taken
  <2>5. CASE Firmware
    BY <2>5 DEF Firmware, FwJoins, FwRefuses, FwLeaves, FwDrops, FwFinds, Push
  <2>6. CASE UNCHANGED vars
    BY <2>6 DEF vars
  <2> QED
    BY <2>1, <2>2, <2>3, <2>4, <2>5, <2>6 DEF Next
<1> QED
  BY <1>1, <1>2, PTL DEF Spec

-----------------------------------------------------------------------------
(* Scan requests *)

\* The numbers the argument compares.
Numbers ==
    /\ open \in Nat /\ request \in Nat /\ reporting \in Nat \cup {-1}
    /\ left \in [{"scans", "connects", "stops", "removals", "drops", "finds", "failures"} -> Nat]

\* Timer and report work exist for the request in cfg->scan_request, one after the
\* other; a report under way has taken it; a call that brings a request finds
\* neither, and one that aborts a scan has stopped the timer.
Hands ==
    /\ scanTimer \/ reportQ => request # 0
    /\ ~ (scanTimer /\ reportQ)
    /\ reporting # -1 => reporting # 0 /\ request = 0
    /\ pc = "scan" => request = 0 /\ reporting = -1 /\ open # 0
    /\ pc = "scanCmd" => request # 0 /\ ~ scanTimer /\ ~ reportQ
    /\ pc \in {"downAbort", "sleepAbort"} => ~ scanTimer

ScanInv == Numbers /\ Hands /\ OneOwner

Kinds == {"scans", "connects", "stops", "removals", "drops", "finds", "failures"}

\* Spending keeps the budget a function to the naturals.
LEMMA Spending ==
    ASSUME Numbers, NEW what \in Kinds, Spend(what)
    PROVE  left' \in [Kinds -> Nat]
<1>1. left \in [Kinds -> Nat] /\ left[what] \in Nat /\ left[what] > 0
  BY DEF Numbers, Kinds, Spend
<1>2. left[what] - 1 \in Nat
  BY <1>1
<1> QED
  BY <1>1, <1>2 DEF Spend

LEMMA Outcomes ==
    ASSUME Numbers, NEW ok \in BOOLEAN, Outcome(ok)
    PROVE  left' \in [Kinds -> Nat]
  BY Spending DEF Numbers, Kinds, Outcome

\* Steps that leave the request alone, and that begin or end no call about it.
LEMMA Elsewhere ==
    ASSUME ScanInv, left' \in [Kinds -> Nat],
           UNCHANGED <<open, request, reporting, scanTimer, reportQ>>,
           \/ pc' = pc
           \/ pc # "scan" /\ pc' \notin {"scan", "scanCmd", "downAbort", "sleepAbort"}
    PROVE  ScanInv'
  BY DEF ScanInv, Numbers, Kinds, Hands, OneOwner

\* A scan starts with no request, timer or report of an earlier one about.
LEMMA StepScan ==
    ASSUME ScanInv, Scan \/ ScanBegin \/ \E ok \in BOOLEAN : ScanSent(ok)
    PROVE  ScanInv'
<1> USE DEF ScanInv
<1>1. CASE Scan
  <2>1. left' \in [Kinds -> Nat] /\ left.scans \in Nat /\ left.scans > 0
    BY <1>1, Spending DEF Scan, Spend, Numbers, Kinds
  <2>2. request = 0 /\ reporting = -1 /\ ~ scanTimer /\ ~ reportQ
    BY <1>1 DEF Scan, Hands, OneOwner, Numbers
  <2> QED
    BY <1>1, <2>1, <2>2 DEF Scan, Hands, OneOwner, Numbers, Kinds
<1>2. CASE ScanBegin
  BY <1>2 DEF ScanBegin, Hands, OneOwner, Numbers, Idle
<1>3. ASSUME NEW ok \in BOOLEAN, ScanSent(ok) PROVE ScanInv'
  <2>1. left' \in [Kinds -> Nat]
    BY <1>3, Outcomes DEF ScanSent
  <2>2. reporting = -1 /\ request = open
    BY <1>3 DEF ScanSent, Hands, OneOwner, Numbers
  <2> QED
    BY <1>3, <2>1, <2>2 DEF ScanSent, Hands, OneOwner, Numbers, Kinds, Idle
<1> QED
  BY <1>1, <1>2, <1>3

\* The timer passes the request to the report work, which reports it.
LEMMA StepReport ==
    ASSUME ScanInv, ScanTimeout \/ ReportWork
    PROVE  ScanInv'
<1> USE DEF ScanInv, callVars
<1>1. CASE ScanTimeout
  BY <1>1 DEF ScanTimeout, Hands, OneOwner, Numbers
<1>2. CASE ReportTake
  BY <1>2 DEF ReportTake, Hands, OneOwner, Numbers
<1>3. CASE ReportDone
  BY <1>3 DEF ReportDone, Hands, OneOwner, Numbers
<1> QED
  BY <1>1, <1>2, <1>3 DEF ReportWork

\* Stopping the interface, suspending: the timer is stopped, then the request
\* taken back from wherever it is.
LEMMA StepAbort ==
    ASSUME ScanInv, StopTimer \/ StopEnds \/ Suspend \/ SuspendEnds
    PROVE  ScanInv'
<1> USE DEF ScanInv
<1>1. CASE StopTimer
  BY <1>1 DEF StopTimer, Hands, OneOwner, Numbers
<1>2. CASE StopEnds
  BY <1>2 DEF StopEnds, Abort, Hands, OneOwner, Numbers, Idle
<1>3. CASE Suspend
  <2>1. left' \in [Kinds -> Nat]
    BY <1>3, Spending DEF Suspend, Kinds
  <2> QED
    BY <1>3, <2>1 DEF Suspend, Hands, OneOwner, Numbers, Kinds, Idle
<1>4. CASE SuspendEnds
  BY <1>4 DEF SuspendEnds, Abort, Hands, OneOwner, Numbers, Idle
<1> QED
  BY <1>1, <1>2, <1>3, <1>4

LEMMA InitScan == Init => ScanInv
<1> SUFFICES ASSUME Init PROVE ScanInv
  OBVIOUS
<1>1. left \in [Kinds -> Nat]
  BY SmeAssumption DEF Init, Budget, Kinds
<1> QED
  BY <1>1 DEF Init, ScanInv, Numbers, Kinds, Hands, OneOwner, Idle

\* Every step, provided nobody asks to delete the interface during a scan.
LEMMA StepScanInv == ASSUME ~ Careless, ScanInv, [Next]_vars PROVE ScanInv'
<1> USE DEF scanVars, linkVars, joinVars, waitVars, callVars, fwVars, evVars, Idle
<1>0. Numbers /\ left \in [Kinds -> Nat]
  BY DEF ScanInv, Numbers, Kinds
<1>1. CASE Scan \/ ScanBegin \/ \E ok \in BOOLEAN : ScanSent(ok)
  BY <1>1, StepScan
<1>2. CASE ScanTimeout \/ ReportWork
  BY <1>2, StepReport
<1>3. CASE StopTimer \/ StopEnds \/ Suspend \/ SuspendEnds
  BY <1>3, StepAbort
<1>4. CASE RemoveInterface
  <2>1. left' \in [Kinds -> Nat]
    BY <1>4, <1>0, Spending DEF RemoveInterface, Kinds
  <2>2. UNCHANGED <<open, request, reporting, scanTimer, reportQ, pc>>
    BY <1>4, ~ Careless DEF RemoveInterface
  <2> QED
    BY <2>1, <2>2, Elsewhere
<1>5. CASE Open \/ Disconnect \/ Stop \/ \E n \in Networks, named \in Named : Connect(n, named)
  <2>1. left' \in [Kinds -> Nat]
    BY <1>5, <1>0, Spending DEF Open, Disconnect, Stop, Connect, Kinds
  <2>2. UNCHANGED <<open, request, reporting, scanTimer, reportQ>>
        /\ \/ pc' = pc
           \/ pc # "scan" /\ pc' \notin {"scan", "scanCmd", "downAbort", "sleepAbort"}
    BY <1>5 DEF Open, Disconnect, Stop, Connect
  <2> QED
    BY <2>1, <2>2, Elsewhere
<1>6. CASE \/ ConnectWaited \/ HoldEnds \/ ConnectBegin \/ DisconnectCancel
           \/ DisconnectTimer \/ DisconnectSent \/ DisconnectBegin
           \/ \E ok \in BOOLEAN : ConnectSent(ok) \/ StopSent(ok)
  <2>1. left' \in [Kinds -> Nat]
    BY <1>6, <1>0, Outcomes
       DEF ConnectWaited, HoldEnds, ConnectBegin, DisconnectCancel, DisconnectTimer,
           DisconnectSent, DisconnectBegin, ConnectSent, StopSent
  <2>2. UNCHANGED <<open, request, reporting, scanTimer, reportQ>>
        /\ pc # "scan" /\ pc' \notin {"scan", "scanCmd", "downAbort", "sleepAbort"}
    BY <1>6 DEF ConnectWaited, HoldEnds, ConnectBegin, DisconnectCancel, DisconnectTimer,
                DisconnectSent, DisconnectBegin, ConnectSent, StopSent
  <2> QED
    BY <2>1, <2>2, Elsewhere
<1>7. CASE ConnectTimer \/ Restore \/ JoinWork \/ EventWork \/ Firmware \/ UNCHANGED vars
  <2>1. left' \in [Kinds -> Nat]
    BY <1>7, <1>0, Spending
       DEF ConnectTimer, Restore, JoinWork, JoinBegin, JoinEnds, EventWork, HandleScan, TakeLink,
           CancelJoin, LinkUp, LinkUpReported, LinkDown, Firmware, FwJoins, FwRefuses, FwLeaves,
           FwDrops, FwFinds, Kinds, vars
  <2>2. UNCHANGED <<open, request, reporting, scanTimer, reportQ, pc>>
    BY <1>7
       DEF ConnectTimer, Restore, JoinWork, JoinBegin, JoinEnds, EventWork, HandleScan, TakeLink,
           CancelJoin, LinkUp, LinkUpReported, LinkDown, Firmware, FwJoins, FwRefuses, FwLeaves,
           FwDrops, FwFinds, vars
  <2> QED
    BY <2>1, <2>2, Elsewhere
<1> QED
  BY <1>1, <1>2, <1>3, <1>4, <1>5, <1>6, <1>7 DEF Next, Calls, CallGoesOn, Timers

\* A scan request is reported exactly once (wland_cfg80211.c:546-607, 2571-2629),
\* whoever ends the scan, provided that nobody asks to delete the interface
\* meanwhile: cfg80211_del_virtual_iface takes the request and leaves its report
\* work pending.
THEOREM RequestsHaveOneOwner == ASSUME ~ Careless PROVE Spec => []OneOwner
<1>1. ScanInv /\ [Next]_vars => ScanInv'
  BY StepScanInv
<1>2. ScanInv => OneOwner
  BY DEF ScanInv
<1> QED
  BY InitScan, <1>1, <1>2, PTL DEF Spec

-----------------------------------------------------------------------------
(* The scan status *)

TimeoutQueued == \E i \in 1 .. Len(events) : events[i].type = "timeout"

\* The events of a timer are handled only while the interface is up: while it is
\* down there is no scan they could end.
Downs == ~ up => ~ busy /\ pc = Idle

BusyInv == ScanInv /\ events \in Seq(Event) /\ Downs /\ BusyMeansScanning

\* What is pushed joins the events; what is taken was the first.
LEMMA Pushing ==
    ASSUME events \in Seq(Event), NEW e \in Event, Push(e)
    PROVE  /\ events' \in Seq(Event)
           /\ e.type = "timeout" => TimeoutQueued'
           /\ TimeoutQueued => TimeoutQueued'
<1>1. events' = Append(events, e) /\ events' \in Seq(Event) /\ Len(events') = Len(events) + 1
  BY DEF Push
<1>2. events'[Len(events) + 1] = e /\ \A i \in 1 .. Len(events) : events'[i] = events[i]
  BY <1>1
<1> QED
  BY <1>1, <1>2 DEF TimeoutQueued

LEMMA Taking ==
    ASSUME events \in Seq(Event), events # << >>, Taken,
           TimeoutQueued, Head(events).type # "timeout"
    PROVE  TimeoutQueued'
<1>1. PICK i \in 1 .. Len(events) : events[i].type = "timeout"
  BY DEF TimeoutQueued
<1>2. i # 1
  BY <1>1
<1>3. i - 1 \in 1 .. Len(events') /\ events'[i - 1] = events[i]
  BY <1>2 DEF Taken
<1> QED
  BY <1>1, <1>3 DEF TimeoutQueued

\* Steps that touch neither the scan nor the queue.
LEMMA BusyElsewhere ==
    ASSUME BusyInv, ScanInv', UNCHANGED <<busy, scanTimer, events, up>>,
           \/ pc' = pc
           \/ /\ pc \notin {"scanCmd", "downAbort", "sleepAbort"}
              /\ up \/ pc' = Idle
    PROVE  BusyInv'
  BY DEF BusyInv, Downs, BusyMeansScanning

\* What waits for SCAN_STATUS_BUSY waits for something that will happen: without
\* requests to delete the interface the bit is never left behind
\* (wland_cfg80211.c:818, 1256, 1583).
THEOREM BusyEnds == ASSUME ~ Careless PROVE Spec => []BusyMeansScanning
<1>1. Init => BusyInv
  BY InitScan DEF Init, BusyInv, Downs, BusyMeansScanning
<1>2. BusyInv /\ [Next]_vars => BusyInv'
  <2> SUFFICES ASSUME BusyInv, [Next]_vars PROVE BusyInv'
    OBVIOUS
  <2> USE DEF scanVars, linkVars, joinVars, waitVars, callVars, fwVars, evVars, Idle
  <2>0. ScanInv'
    BY StepScanInv DEF BusyInv
  <2>1. CASE Scan \/ ScanBegin \/ \E ok \in BOOLEAN : ScanSent(ok)
    BY <2>0, <2>1 DEF Scan, ScanBegin, ScanSent, BusyInv, Downs, BusyMeansScanning
  <2>2. CASE ScanTimeout
    <3>1. events' \in Seq(Event) /\ TimeoutQueued'
      BY <2>2, Pushing DEF ScanTimeout, BusyInv, Event
    <3> QED
      BY <2>0, <2>2, <3>1 DEF ScanTimeout, BusyInv, Downs, BusyMeansScanning, TimeoutQueued
  <2>3. CASE ReportWork
    <3>1. (scanTimer => scanTimer') /\ UNCHANGED <<busy, events, up, pc>>
      BY <2>3 DEF ReportWork, ReportTake, ReportDone, BusyInv, ScanInv, Hands
    <3> QED
      BY <2>0, <3>1 DEF BusyInv, Downs, BusyMeansScanning
  <2>4. CASE StopTimer \/ StopEnds \/ Suspend \/ SuspendEnds
    BY <2>0, <2>4 DEF StopTimer, StopEnds, Suspend, SuspendEnds, Abort, BusyInv, Downs,
                      BusyMeansScanning
  <2>5. CASE Calls /\ ~ Scan /\ ~ Suspend
    <3>1. CASE Open
      BY <2>0, <3>1 DEF Open, BusyInv, Downs, BusyMeansScanning
    <3>2. CASE RemoveInterface
      BY <2>0, <3>2, BusyElsewhere, ~ Careless DEF RemoveInterface, BusyInv
    <3>3. CASE Disconnect \/ Stop \/ \E n \in Networks, named \in Named : Connect(n, named)
      BY <2>0, <3>3, BusyElsewhere DEF Disconnect, Stop, Connect
    <3> QED
      BY <2>5, <3>1, <3>2, <3>3 DEF Calls
  <2>6. CASE \/ ConnectWaited \/ HoldEnds \/ ConnectBegin \/ DisconnectCancel
             \/ DisconnectTimer \/ DisconnectSent \/ DisconnectBegin
             \/ \E ok \in BOOLEAN : ConnectSent(ok) \/ StopSent(ok)
    <3>1. UNCHANGED <<busy, scanTimer, events, up>>
          /\ pc \notin {"scanCmd", "downAbort", "sleepAbort", "idle"}
      BY <2>6 DEF ConnectWaited, HoldEnds, ConnectBegin, DisconnectCancel, DisconnectTimer,
                  DisconnectSent, DisconnectBegin, ConnectSent, StopSent
    <3>2. up
      BY <3>1 DEF BusyInv, Downs
    <3> QED
      BY <2>0, <3>1, <3>2, BusyElsewhere
  <2>7. CASE HandleScan \/ TakeLink
    <3>1. events # << >> /\ Taken /\ events' \in Seq(Event)
      BY <2>7 DEF HandleScan, TakeLink, NextIs, Taken, BusyInv
    <3>2. UNCHANGED <<scanTimer, up, pc>> /\ (busy' = busy \/ busy' = FALSE)
      BY <2>7 DEF HandleScan, TakeLink
    <3>3. busy' => Head(events).type # "timeout"
      BY <2>7, <3>2 DEF HandleScan, TakeLink, NextIs, BusyInv, Downs
    <3>4. busy' /\ TimeoutQueued => TimeoutQueued'
      BY <3>1, <3>3, Taking DEF BusyInv
    <3> QED
      BY <2>0, <3>1, <3>2, <3>4 DEF BusyInv, Downs, BusyMeansScanning, TimeoutQueued
  <2>8. CASE Firmware
    <3>1. UNCHANGED <<scanTimer, up, pc, busy>>
      BY <2>8 DEF Firmware, FwJoins, FwRefuses, FwLeaves, FwDrops, FwFinds
    <3>2. UNCHANGED events \/ \E e \in Event : Push(e)
      BY <2>8 DEF Firmware, FwJoins, FwRefuses, FwLeaves, FwDrops, FwFinds, Event
    <3>3. events' \in Seq(Event) /\ (TimeoutQueued => TimeoutQueued')
      BY <3>2, Pushing DEF BusyInv, TimeoutQueued
    <3> QED
      BY <2>0, <3>1, <3>3 DEF BusyInv, Downs, BusyMeansScanning, TimeoutQueued
  <2>9. CASE \/ ConnectTimer \/ Restore \/ JoinWork \/ CancelJoin \/ LinkUp \/ LinkUpReported
             \/ LinkDown \/ UNCHANGED vars
    <3>1. UNCHANGED <<busy, scanTimer, events, up, pc>>
      BY <2>9 DEF ConnectTimer, Restore, JoinWork, JoinBegin, JoinEnds, CancelJoin, LinkUp,
                  LinkUpReported, LinkDown, vars
    <3> QED
      BY <2>0, <3>1, BusyElsewhere
  <2> QED
    BY <2>1, <2>2, <2>3, <2>4, <2>5, <2>6, <2>7, <2>8, <2>9
       DEF Next, Calls, CallGoesOn, Timers, EventWork
<1>3. BusyInv => BusyMeansScanning
  BY DEF BusyInv
<1> QED
  BY <1>1, <1>2, <1>3, PTL DEF Spec

-----------------------------------------------------------------------------
(* Types, and the two counters that TypeOK bounds *)

\* The control state, the two records and the names.
Names ==
    /\ pc \in Waits \cup {Idle, "scanCmd", "hold", "begin", "ie", "timer", "settle",
                          "leave", "downCmd", "downTimer", "downAbort", "sleepAbort"}
    /\ sme \in [net : Networks \cup {None}, named : Named \cup {{}}]
    /\ told \in {Idle, "connecting", "connected"}
    /\ known \subseteq Networks
    /\ profile \in Profile
    /\ worker \in {Idle, "cancel", "timer", "phy"} /\ hand \in {"connect", "disconnect"}

ScanBits == {busy, scanTimer, reportQ, current, up} \subseteq BOOLEAN
LinkBits == {connecting, connected, connTimer, restore, joinQ, join} \subseteq BOOLEAN
WaitBits == {inDisconnecting, inWaiting, fwJoin, fwLeave, fwLink} \subseteq BOOLEAN

Requests ==
    /\ open \in 0 .. MaxCount /\ request \in 0 .. MaxCount
    /\ reporting \in -1 .. MaxCount

Queue == events \in Seq(Event) /\ Len(events) <= MaxQueue

\* The timer that is running has a try left (wland_cfg80211.c:1054-1087).
Tries == retries \in 0 .. Retries /\ (connTimer => retries < Retries)

\* A connect that waits for a disconnect lets at most one completion happen: the
\* wait is over before the next disconnect begins (1309, 5691).
Patience ==
    /\ completions \in Nat
    /\ inWaiting => pc \in {"hold", "begin"}
    /\ completions + left.connects
       + (IF pc = "connect" \/ (inWaiting /\ inDisconnecting) THEN 1 ELSE 0) <= MaxCount

TypeInv == /\ Names /\ ScanBits /\ LinkBits /\ WaitBits /\ Requests /\ Queue
           /\ Tries /\ left \in Budget /\ Patience

\* Spending takes one from one kind.
LEMMA Spent ==
    ASSUME left \in Budget, NEW what \in Kinds, Spend(what)
    PROVE  /\ left' \in Budget
           /\ left[what] \in 1 .. MaxCount /\ left'[what] = left[what] - 1
           /\ \A k \in Kinds \ {what} : left'[k] = left[k]
<1>1. left \in [Kinds -> 0 .. MaxCount] /\ left[what] \in 0 .. MaxCount /\ left[what] > 0
  BY DEF Budget, Kinds, Spend
<1>2. left[what] \in 1 .. MaxCount /\ left[what] - 1 \in 0 .. MaxCount
  BY <1>1, SmeAssumption
<1> QED
  BY <1>1, <1>2 DEF Spend, Budget, Kinds

\* Only connect spends what Patience counts.
LEMMA StepBudget ==
    ASSUME left \in Budget, [Next]_vars
    PROVE  /\ left' \in Budget
           /\ ~ (\E n \in Networks, named \in Named : Connect(n, named))
              => left'.connects = left.connects
<1> USE DEF Outcome, Kinds
<1>1. CASE Calls
  BY <1>1, Spent DEF Calls, Scan, Open, Stop, Suspend, RemoveInterface, Disconnect, Connect
<1>2. CASE CallGoesOn
  BY <1>2, Spent
     DEF CallGoesOn, ScanBegin, ConnectWaited, HoldEnds, ConnectBegin, DisconnectCancel,
         DisconnectTimer, DisconnectSent, StopTimer, StopEnds, SuspendEnds, DisconnectBegin,
         ScanSent, ConnectSent, StopSent
<1>3. CASE Timers \/ ReportWork \/ JoinWork \/ EventWork \/ UNCHANGED vars
  BY <1>3
     DEF Timers, ScanTimeout, ConnectTimer, Restore, ReportWork, ReportTake, ReportDone,
         JoinWork, JoinBegin, JoinEnds, EventWork, HandleScan, TakeLink, CancelJoin, LinkUp,
         LinkUpReported, LinkDown, vars
<1>4. CASE Firmware
  BY <1>4, Spent DEF Firmware, FwJoins, FwRefuses, FwLeaves, FwDrops, FwFinds
<1> QED
  BY <1>1, <1>2, <1>3, <1>4 DEF Next

LEMMA StepRequests ==
    ASSUME Requests, left \in Budget, [Next]_vars PROVE Requests'
<1> USE DEF Requests, scanVars
<1>0. 0 \in 0 .. MaxCount /\ -1 \in -1 .. MaxCount /\ 0 .. MaxCount \subseteq -1 .. MaxCount
  BY SmeAssumption
<1>1. CASE Calls
  <2>1. CASE Scan
    <3>1. left.scans \in 0 .. MaxCount
      BY DEF Budget
    <3> QED
      BY <2>1, <3>1 DEF Scan
  <2>2. CASE Open \/ Stop \/ Suspend \/ Disconnect \/ \E n \in Networks, named \in Named : Connect(n, named)
    BY <2>2 DEF Open, Stop, Suspend, Disconnect, Connect
  <2>3. CASE RemoveInterface
    BY <2>3, <1>0 DEF RemoveInterface
  <2> QED
    BY <1>1, <2>1, <2>2, <2>3 DEF Calls
<1>2. CASE CallGoesOn
  BY <1>2, <1>0
     DEF CallGoesOn, ScanBegin, ConnectWaited, HoldEnds, ConnectBegin, DisconnectCancel,
         DisconnectTimer, DisconnectSent, StopTimer, StopEnds, SuspendEnds, DisconnectBegin,
         ScanSent, ConnectSent, StopSent, Abort
<1>3. CASE Timers \/ ReportWork \/ JoinWork \/ EventWork \/ Firmware \/ UNCHANGED vars
  BY <1>3, <1>0
     DEF Timers, ScanTimeout, ConnectTimer, Restore, ReportWork, ReportTake, ReportDone,
         JoinWork, JoinBegin, JoinEnds, EventWork, HandleScan, TakeLink, CancelJoin, LinkUp,
         LinkUpReported, LinkDown, Firmware, FwJoins, FwRefuses, FwLeaves, FwDrops, FwFinds, vars
<1> QED
  BY <1>1, <1>2, <1>3 DEF Next

\* The timer stops with its last try, and a new attempt starts with none used.
LEMMA StepTries == ASSUME Tries, [Next]_vars PROVE Tries'
<1> USE DEF Tries, linkVars
<1>0. Retries \in Nat /\ 0 < Retries /\ 0 \in 0 .. Retries /\ retries \in Nat
  BY SmeAssumption
<1>1. CASE \E ok \in BOOLEAN : ConnectSent(ok)
  <2>1. retries' = 0 \/ (retries' = retries /\ (connTimer' => connTimer))
    <3>1. PICK ok \in BOOLEAN : ConnectSent(ok)
      BY <1>1
    <3>2. CASE ok /\ ("channel" \in sme.named \/ current)
      BY <3>1, <3>2, Zenon DEF ConnectSent
    <3>3. CASE ~ (ok /\ ("channel" \in sme.named \/ current))
      BY <3>1, <3>3, Zenon DEF ConnectSent
    <3> QED
      BY <3>2, <3>3
  <2> QED
    BY <1>0, <2>1
<1>2. CASE ConnectTimer
  <2>1. CASE connected
    BY <1>2, <2>1 DEF ConnectTimer
  <2>2. CASE ~ connected
    <3>1. retries' = retries + 1 /\ (connTimer' => retries' < Retries) /\ connTimer
      BY <1>2, <2>2, Zenon DEF ConnectTimer
    <3> QED
      BY <1>0, <3>1
  <2> QED
    BY <2>1, <2>2
<1>3. CASE Calls \/ ReportWork \/ JoinWork \/ EventWork \/ Firmware \/ UNCHANGED vars
  <2>1. retries' = retries /\ (connTimer' => connTimer)
    <3>1. CASE Calls
      BY <3>1 DEF Calls, Scan, Open, Stop, Suspend, RemoveInterface, Disconnect, Connect
    <3>2. CASE ReportWork \/ JoinWork \/ Firmware \/ UNCHANGED vars
      <4>1. UNCHANGED <<retries, connTimer>>
        BY <3>2 DEF ReportWork, ReportTake, ReportDone, JoinWork, JoinBegin, JoinEnds, Firmware,
                    FwJoins, FwRefuses, FwLeaves, FwDrops, FwFinds, vars
      <4> QED
        BY <4>1
    <3>3. CASE EventWork
      BY <3>3 DEF EventWork, HandleScan, TakeLink, CancelJoin, LinkUp, LinkUpReported, LinkDown
    <3> QED
      BY <1>3, <3>1, <3>2, <3>3
  <2> QED
    BY <2>1
<1>4. CASE \/ ScanBegin \/ ConnectWaited \/ HoldEnds \/ ConnectBegin \/ DisconnectCancel
           \/ DisconnectTimer \/ DisconnectSent \/ StopTimer \/ StopEnds \/ SuspendEnds
           \/ DisconnectBegin \/ ScanTimeout \/ Restore
           \/ \E ok \in BOOLEAN : ScanSent(ok) \/ StopSent(ok)
  BY <1>4
     DEF ScanBegin, ConnectWaited, HoldEnds, ConnectBegin, DisconnectCancel, DisconnectTimer,
         DisconnectSent, StopTimer, StopEnds, SuspendEnds, DisconnectBegin, ScanSent, StopSent,
         ScanTimeout, Restore
<1> QED
  BY <1>1, <1>2, <1>3, <1>4 DEF Next, CallGoesOn, Timers

\* Between waiting for a disconnect and going on no other call begins one.
LEMMA StepPatience ==
    ASSUME Patience, left \in Budget, [Next]_vars PROVE Patience'
<1> USE DEF Patience, waitVars, callVars, Idle
<1>0. left' \in Budget /\ left.connects \in Nat /\ left'.connects \in Nat /\ MaxCount \in Nat
  BY StepBudget, SmeAssumption DEF Budget
<1>1. ASSUME NEW n \in Networks, NEW named \in Named, Connect(n, named) PROVE Patience'
  <2>1. left'.connects = left.connects - 1
    BY <1>1, Spent DEF Connect, Kinds
  <2> QED
    BY <1>0, <1>1, <2>1 DEF Connect
<1>2. CASE ~ \E n \in Networks, named \in Named : Connect(n, named)
  <2>0. left'.connects = left.connects
    BY <1>2, StepBudget
  <2> USE <1>0, <2>0
  <2>1. CASE Scan \/ Open \/ Stop \/ Suspend \/ RemoveInterface \/ Disconnect
    BY <2>1 DEF Scan, Open, Stop, Suspend, RemoveInterface, Disconnect
  <2>2. CASE ConnectWaited
    BY <2>2 DEF ConnectWaited
  <2>3. CASE HoldEnds
    BY <2>3 DEF HoldEnds
  <2>4. CASE ConnectBegin
    BY <2>4 DEF ConnectBegin
  <2>5. CASE \/ ScanBegin \/ DisconnectCancel \/ DisconnectTimer \/ DisconnectSent \/ StopTimer
             \/ StopEnds \/ SuspendEnds \/ DisconnectBegin
             \/ \E ok \in BOOLEAN : ScanSent(ok) \/ ConnectSent(ok) \/ StopSent(ok)
    <3>1. UNCHANGED <<completions, inWaiting>> /\ pc' # "connect"
          /\ pc \notin {"connect", "hold", "begin"}
      BY <2>5 DEF ScanBegin, DisconnectCancel, DisconnectTimer, DisconnectSent, StopTimer,
                  StopEnds, SuspendEnds, DisconnectBegin, ScanSent, ConnectSent, StopSent
    <3> QED
      BY <3>1
  <2>6. CASE LinkDown
    BY <2>6 DEF LinkDown
  <2>7. CASE \/ Timers \/ ReportWork \/ JoinWork \/ Firmware \/ UNCHANGED vars
             \/ HandleScan \/ TakeLink \/ CancelJoin \/ LinkUp \/ LinkUpReported
    <3>1. UNCHANGED <<completions, inWaiting, inDisconnecting, pc>>
      BY <2>7
         DEF Timers, ScanTimeout, ConnectTimer, Restore, ReportWork, ReportTake, ReportDone,
             JoinWork, JoinBegin, JoinEnds, Firmware, FwJoins, FwRefuses, FwLeaves, FwDrops,
             FwFinds, vars, HandleScan, TakeLink, CancelJoin, LinkUp, LinkUpReported
    <3> QED
      BY <3>1
  <2> QED
    BY <1>2, <2>1, <2>2, <2>3, <2>4, <2>5, <2>6, <2>7 DEF Next, Calls, CallGoesOn, EventWork
<1> QED
  BY <1>1, <1>2

\* Flags stay flags.
LEMMA StepScanBits == ASSUME ScanBits, [Next]_vars PROVE ScanBits'
<1> USE DEF ScanBits, scanVars, linkVars, joinVars, waitVars, callVars, fwVars
<1>1. CASE Calls
  <2>1. CASE Scan \/ Open \/ Stop \/ Disconnect
    BY <2>1 DEF Scan, Open, Stop, Disconnect
  <2>2. CASE Suspend
    BY <2>2 DEF Suspend
  <2>3. CASE RemoveInterface
    BY <2>3 DEF RemoveInterface
  <2>4. CASE \E n \in Networks, named \in Named : Connect(n, named)
    BY <2>4 DEF Connect
  <2> QED
    BY <1>1, <2>1, <2>2, <2>3, <2>4 DEF Calls
<1>2. CASE CallGoesOn
  BY <1>2
     DEF CallGoesOn, ScanBegin, ConnectWaited, HoldEnds, ConnectBegin, DisconnectCancel,
         DisconnectTimer, DisconnectSent, StopTimer, StopEnds, SuspendEnds, DisconnectBegin,
         ScanSent, ConnectSent, StopSent, Abort
<1>3. CASE Timers \/ ReportWork \/ JoinWork
  BY <1>3
     DEF Timers, ScanTimeout, ConnectTimer, Restore, ReportWork, ReportTake, ReportDone,
         JoinWork, JoinBegin, JoinEnds
<1>4. CASE EventWork
  BY <1>4 DEF EventWork, HandleScan, TakeLink, CancelJoin, LinkUp, LinkUpReported, LinkDown
<1>5. CASE Firmware \/ UNCHANGED vars
  BY <1>5 DEF Firmware, FwJoins, FwRefuses, FwLeaves, FwDrops, FwFinds, vars
<1> QED
  BY <1>1, <1>2, <1>3, <1>4, <1>5 DEF Next

LEMMA StepLinkBits == ASSUME LinkBits, [Next]_vars PROVE LinkBits'
<1> USE DEF LinkBits, scanVars, linkVars, joinVars, waitVars, callVars, fwVars
<1>1. CASE Calls
  BY <1>1 DEF Calls, Scan, Open, Stop, Suspend, RemoveInterface, Disconnect, Connect
<1>2. CASE CallGoesOn
  BY <1>2
     DEF CallGoesOn, ScanBegin, ConnectWaited, HoldEnds, ConnectBegin, DisconnectCancel,
         DisconnectTimer, DisconnectSent, StopTimer, StopEnds, SuspendEnds, DisconnectBegin,
         ScanSent, ConnectSent, StopSent
<1>3. CASE Timers \/ ReportWork \/ JoinWork
  <2>1. CASE ConnectTimer
    <3>1. UNCHANGED <<connected, restore, join>>
      BY <2>1 DEF ConnectTimer
    <3>2. connTimer' \in BOOLEAN
      <4>1. connTimer' = FALSE \/ connTimer' = (retries' < Retries)
        BY <2>1, Zenon DEF ConnectTimer
      <4>2. (retries' < Retries) \in BOOLEAN
        BY SMT
      <4> QED
        BY <4>1, <4>2, Zenon
    <3>3. joinQ' \in BOOLEAN /\ connecting' \in BOOLEAN
      <4>1. joinQ' = joinQ \/ joinQ' = (joinQ \/ connTimer')
        BY <2>1, Zenon DEF ConnectTimer
      <4>2. connecting' = connecting \/ connecting' = (connecting /\ connTimer')
        BY <2>1, Zenon DEF ConnectTimer
      <4> QED
        BY <4>1, <4>2
    <3> QED
      BY <3>1, <3>2, <3>3
  <2>2. CASE ScanTimeout \/ Restore \/ ReportWork \/ JoinWork
    BY <2>2 DEF ScanTimeout, Restore, ReportWork, ReportTake, ReportDone, JoinWork, JoinBegin,
                JoinEnds
  <2> QED
    BY <1>3, <2>1, <2>2 DEF Timers
<1>4. CASE EventWork
  BY <1>4 DEF EventWork, HandleScan, TakeLink, CancelJoin, LinkUp, LinkUpReported, LinkDown
<1>5. CASE Firmware \/ UNCHANGED vars
  BY <1>5 DEF Firmware, FwJoins, FwRefuses, FwLeaves, FwDrops, FwFinds, vars
<1> QED
  BY <1>1, <1>2, <1>3, <1>4, <1>5 DEF Next

LEMMA StepWaitBits == ASSUME WaitBits, [Next]_vars PROVE WaitBits'
<1> USE DEF WaitBits, scanVars, linkVars, joinVars, waitVars, callVars, fwVars
<1>1. CASE Calls
  BY <1>1 DEF Calls, Scan, Open, Stop, Suspend, RemoveInterface, Disconnect, Connect
<1>2. CASE CallGoesOn
  BY <1>2
     DEF CallGoesOn, ScanBegin, ConnectWaited, HoldEnds, ConnectBegin, DisconnectCancel,
         DisconnectTimer, DisconnectSent, StopTimer, StopEnds, SuspendEnds, DisconnectBegin,
         ScanSent, ConnectSent, StopSent
<1>3. CASE Timers \/ ReportWork \/ JoinWork
  BY <1>3
     DEF Timers, ScanTimeout, ConnectTimer, Restore, ReportWork, ReportTake, ReportDone,
         JoinWork, JoinBegin, JoinEnds
<1>4. CASE EventWork
  BY <1>4 DEF EventWork, HandleScan, TakeLink, CancelJoin, LinkUp, LinkUpReported, LinkDown
<1>5. CASE Firmware \/ UNCHANGED vars
  BY <1>5 DEF Firmware, FwJoins, FwRefuses, FwLeaves, FwDrops, FwFinds, vars
<1> QED
  BY <1>1, <1>2, <1>3, <1>4, <1>5 DEF Next

\* The queue grows only while there is room.
LEMMA StepQueue == ASSUME Queue, [Next]_vars PROVE Queue'
<1> USE DEF Queue, evVars
<1>1. ASSUME NEW e \in Event, Push(e) PROVE Queue'
  BY <1>1, SmeAssumption, AppendProperties DEF Push
<1>2. ASSUME Taken, events # << >> PROVE Queue'
  BY <1>2, HeadTailProperties, SmeAssumption DEF Taken
<1>3. CASE Calls
  BY <1>3 DEF Calls, Scan, Open, Stop, Suspend, RemoveInterface, Disconnect, Connect
<1>4. CASE CallGoesOn
  BY <1>4
     DEF CallGoesOn, ScanBegin, ConnectWaited, HoldEnds, ConnectBegin, DisconnectCancel,
         DisconnectTimer, DisconnectSent, StopTimer, StopEnds, SuspendEnds, DisconnectBegin,
         ScanSent, ConnectSent, StopSent
<1>5. CASE Timers \/ ReportWork \/ JoinWork
  <2>1. UNCHANGED events \/ \E e \in Event : Push(e)
    BY <1>5
       DEF Timers, ScanTimeout, ConnectTimer, Restore, ReportWork, ReportTake, ReportDone,
           JoinWork, JoinBegin, JoinEnds, Event
  <2> QED
    BY <1>1, <2>1
<1>6. CASE EventWork
  <2>1. UNCHANGED events \/ (Taken /\ events # << >>)
    BY <1>6 DEF EventWork, HandleScan, TakeLink, CancelJoin, LinkUp, LinkUpReported, LinkDown, NextIs
  <2> QED
    BY <1>2, <2>1
<1>7. CASE Firmware \/ UNCHANGED vars
  <2>1. UNCHANGED events \/ \E e \in Event : Push(e)
    BY <1>7 DEF Firmware, FwJoins, FwRefuses, FwLeaves, FwDrops, FwFinds, vars, Event
  <2> QED
    BY <1>1, <2>1
<1> QED
  BY <1>3, <1>4, <1>5, <1>6, <1>7 DEF Next

\* What connect was asked for is what a caller may name; networks come from the
\* caller and from events.
LEMMA StepNames == ASSUME Names, events \in Seq(Event), [Next]_vars PROVE Names'
<1> USE DEF Names, Waits, Idle, Forgotten, linkVars, callVars, evVars, scanVars
<1>1. CASE Calls
  BY <1>1 DEF Calls, Scan, Open, Stop, Suspend, RemoveInterface, Disconnect, Connect, Profile
<1>2. CASE CallGoesOn
  <2>1. CASE ConnectBegin
    BY <2>1 DEF ConnectBegin, Bssids, Profile
  <2>2. CASE CallGoesOn /\ ~ ConnectBegin
    BY <2>2
       DEF CallGoesOn, ScanBegin, ConnectWaited, HoldEnds, ConnectBegin, DisconnectCancel,
           DisconnectTimer, DisconnectSent, StopTimer, StopEnds, SuspendEnds, DisconnectBegin,
           ScanSent, ConnectSent, StopSent, Abort
  <2> QED
    BY <1>2, <2>1, <2>2
<1>3. CASE Timers \/ ReportWork \/ JoinWork
  BY <1>3
     DEF Timers, ScanTimeout, ConnectTimer, Restore, ReportWork, ReportTake, ReportDone,
         JoinWork, JoinBegin, JoinEnds
<1>4. CASE EventWork
  <2>1. CASE HandleScan
    <3>1. Head(events) \in Event
      BY <2>1, HeadTailProperties DEF HandleScan, NextIs
    <3>2. Head(events).type = "bss" => Head(events).bss \in Networks
      BY <3>1 DEF Event
    <3> QED
      BY <2>1, <3>2 DEF HandleScan
  <2>2. CASE TakeLink
    BY <2>2 DEF TakeLink, NextIs
  <2>3. CASE CancelJoin \/ LinkUp \/ LinkUpReported \/ LinkDown
    BY <2>3 DEF CancelJoin, LinkUp, LinkUpReported, LinkDown, Profile, Blank
  <2> QED
    BY <1>4, <2>1, <2>2, <2>3 DEF EventWork
<1>5. CASE Firmware \/ UNCHANGED vars
  <2>1. UNCHANGED <<pc, sme, told, known, profile, worker, hand>>
    BY <1>5 DEF Firmware, FwJoins, FwRefuses, FwLeaves, FwDrops, FwFinds, vars
  <2> QED
    BY <2>1
<1> QED
  BY <1>1, <1>2, <1>3, <1>4, <1>5 DEF Next

\* Types, and with them the bounds of wland_cfg80211.c's counters: a join is
\* retried at most CONNECT_RETRY_TIMES_MAX times (1054-1087), a connect leaves at
\* most one completion of disconnecting_wait behind (1309, 5691), and a request
\* number is never made up.
THEOREM TypeCorrect == Spec => []TypeOK
<1>1. Init => TypeInv
  <2> SUFFICES ASSUME Init PROVE TypeInv
    OBVIOUS
  <2>1. left \in Budget /\ left.connects \in 0 .. MaxCount
    BY SmeAssumption DEF Init, Budget
  <2>2. Names
    BY DEF Init, Names, Profile, Blank, Idle
  <2>3. ScanBits /\ LinkBits /\ WaitBits
    BY DEF Init, ScanBits, LinkBits, WaitBits
  <2>4. Requests /\ Queue
    BY SmeAssumption DEF Init, Requests, Queue
  <2>5. Tries /\ Patience
    BY <2>1, SmeAssumption DEF Init, Tries, Patience, Idle
  <2> QED
    BY <2>1, <2>2, <2>3, <2>4, <2>5 DEF TypeInv
<1>2. TypeInv /\ [Next]_vars => TypeInv'
  <2> SUFFICES ASSUME TypeInv, [Next]_vars PROVE TypeInv'
    OBVIOUS
  <2>1. Names' /\ Queue'
    BY StepNames, StepQueue DEF TypeInv, Queue
  <2>2. ScanBits' /\ LinkBits' /\ WaitBits'
    BY StepScanBits, StepLinkBits, StepWaitBits DEF TypeInv
  <2>3. Requests' /\ Tries' /\ Patience' /\ (left \in Budget)'
    BY StepRequests, StepTries, StepPatience, StepBudget DEF TypeInv
  <2> QED
    BY <2>1, <2>2, <2>3 DEF TypeInv
<1>3. TypeInv => TypeOK
  <2> SUFFICES ASSUME TypeInv PROVE TypeOK
    OBVIOUS
  <2>1. {open, request} \subseteq 0 .. MaxCount /\ reporting \in -1 .. MaxCount
    BY DEF TypeInv, Requests
  <2>2. {current, up, busy, scanTimer, reportQ, connecting, connected, connTimer,
         restore, joinQ, join, inDisconnecting, inWaiting, fwJoin, fwLeave, fwLink}
        \subseteq BOOLEAN
    BY DEF TypeInv, ScanBits, LinkBits, WaitBits
  <2>3. completions \in 0 .. MaxCount
    <3>1. left.connects \in Nat /\ MaxCount \in Nat
      BY SmeAssumption DEF TypeInv, Budget
    <3> QED
      BY <3>1 DEF TypeInv, Patience
  <2> QED
    BY <2>1, <2>2, <2>3 DEF TypeInv, TypeOK, Names, Queue, Tries
<1> QED
  BY <1>1, <1>2, <1>3, PTL DEF Spec
=============================================================================
