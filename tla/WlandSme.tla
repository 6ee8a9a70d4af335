------------------------------ MODULE WlandSme -------------------------------
(***************************************************************************)
(* Scanning and connecting of the WLAN driver (wland_cfg80211.c) and the   *)
(* firmware event queue it lives on (wland_fweh.c): the calls of cfg80211, *)
(* the event worker, the scan report work, the connect work, two timers    *)
(* and the firmware, around scan_status, sme_state, one scan request and   *)
(* one profile.                                                            *)
(*                                                                         *)
(* cfg80211 makes one call at a time (it holds the wiphy mutex, and a stop *)
(* of the interface waits for it).  Threads are cut where the code sleeps, *)
(* and where a timer between two statements matters; timers are whole      *)
(* steps, because the AP has one core.  A station that is no access point  *)
(* and no IBSS; WLAND_P2P_SUPPORT and WLAND_INIT_SCAN_SUPPORT are off.     *)
(***************************************************************************)
EXTENDS Integers, Sequences

CONSTANTS
    Networks,       \* the networks there are
    None,           \* no network: a field of the profile that is all zero
    Named,          \* what connect calls name: sets of "bssid", "channel"
    Careless,       \* deleting the interface may be asked for during a scan
    Retries,        \* CONNECT_RETRY_TIMES_MAX
    MaxCount,       \* bound: how often a bounded thing happens
    Budgets,        \* how often each may happen, one choice per behaviour
    MaxQueue        \* bound: events in event_q

\* The bounded things: the calls of cfg80211 (a suspend counts as a stop, an
\* attempt to delete the interface as a removal), the links the firmware loses
\* and the networks it finds, and the commands that fail.
Budget == [{"scans", "connects", "stops", "removals", "drops", "finds", "failures"}
           -> 0 .. MaxCount]

ASSUME SmeAssumption ==
    /\ None \notin Networks
    /\ Named \subseteq SUBSET {"bssid", "channel"}
    /\ Careless \in BOOLEAN
    /\ Retries \in Nat \ {0} /\ MaxCount \in Nat
    /\ Budgets \subseteq Budget
    /\ MaxQueue \in Nat \ {0}

VARIABLES
    pc,             \* where the call of cfg80211 is
    sme,            \* connect: the network, and what the caller names besides its ssid
    current,        \* connect: bss_current was found in scan_result_list
    open,           \* cfg80211: the scan request it waits for; 0: none
    told,           \* cfg80211: what the station is doing
    up,             \* VIF_STATUS_READY
    busy,           \* SCAN_STATUS_BUSY
    request,        \* cfg->scan_request
    scanTimer,      \* cfg->scan_timeout is pending
    reportQ,        \* scan_report_work is pending
    reporting,      \* the request it took; -1: it does not run
    known,          \* scan_result_list
    connecting,     \* VIF_STATUS_CONNECTING
    connected,      \* VIF_STATUS_CONNECTED
    profile,        \* the ssid and the bssid of the profile
    retries,        \* conn_info->retry_times
    connTimer,      \* conn_info->timer is pending
    restore,        \* connect_restorework_timeout is pending
    joinQ,          \* conn_info->work is pending
    join,           \* the connect work is inside wland_start_join
    inDisconnecting, inWaiting,
    completions,    \* the left of disconnecting_wait
    events,         \* event_q
    worker, hand,   \* where fweh_event_worker is, and with which event
    fwJoin,         \* firmware: it tries to join
    fwLeave,        \* firmware: it was told to leave
    fwLink,         \* firmware: it has a link
    left            \* what is left of the budget

scanVars == <<busy, request, scanTimer, reportQ, reporting, known, open>>
linkVars == <<connecting, connected, profile, retries, connTimer, restore, told>>
joinVars == <<joinQ, join>>
waitVars == <<inDisconnecting, inWaiting, completions>>
callVars == <<pc, sme, current, up>>
fwVars   == <<fwJoin, fwLeave, fwLink>>
evVars   == <<events, worker, hand>>

vars == <<scanVars, linkVars, joinVars, waitVars, callVars, fwVars, evVars, left>>

Idle  == "idle"
Blank == [ssid |-> None, bssid |-> None]
Profile == [ssid : Networks \cup {None}, bssid : Networks \cup {None}]
Event == [type : {"bss"}, bss : Networks] \cup [type : {"timeout", "connect", "disconnect"}]
Waits == {"scan", "connect", "disconnect"}      \* in `while (BUSY) msleep'

TypeOK ==
    /\ pc \in Waits \cup {Idle, "scanCmd", "hold", "begin", "ie", "timer", "settle",
                          "leave", "downCmd", "downTimer", "downAbort",
                          "sleepAbort"}
    /\ sme \in [net : Networks \cup {None}, named : Named \cup {{}}]
    /\ told \in {Idle, "connecting", "connected"}
    /\ {current, up, busy, scanTimer, reportQ, connecting, connected, connTimer,
        restore, joinQ, join, inDisconnecting, inWaiting, fwJoin, fwLeave, fwLink} \subseteq BOOLEAN
    /\ {open, request} \subseteq 0 .. MaxCount
    /\ reporting \in -1 .. MaxCount
    /\ known \subseteq Networks
    /\ profile \in Profile
    /\ retries \in 0 .. Retries
    /\ completions \in 0 .. MaxCount
    /\ events \in Seq(Event) /\ Len(events) <= MaxQueue
    /\ worker \in {Idle, "cancel", "timer", "phy"} /\ hand \in {"connect", "disconnect"}
    /\ left \in Budget

Init ==
    /\ pc = Idle /\ sme = [net |-> None, named |-> {}] /\ current = FALSE
    /\ open = 0 /\ told = Idle /\ up = FALSE
    /\ busy = FALSE /\ request = 0 /\ scanTimer = FALSE /\ reportQ = FALSE
    /\ reporting = -1 /\ known = {}
    /\ connecting = FALSE /\ connected = FALSE /\ profile = Blank /\ retries = 0
    /\ connTimer = FALSE /\ restore = FALSE /\ joinQ = FALSE /\ join = FALSE
    /\ inDisconnecting = FALSE /\ inWaiting = FALSE /\ completions = 0
    /\ events = << >> /\ worker = Idle /\ hand = "connect"
    /\ fwJoin = FALSE /\ fwLeave = FALSE /\ fwLink = FALSE
    /\ left \in Budgets

Spend(what) == left[what] > 0 /\ left' = [left EXCEPT ![what] = @ - 1]

\* The outcome of a command: only a failure is limited.
Outcome(ok) == IF ok THEN UNCHANGED left ELSE Spend("failures")

\* firmweh_push_event: to the end of event_q; the worker will run.
Push(e) == Len(events) < MaxQueue /\ events' = Append(events, e)

-----------------------------------------------------------------------------
(* Scanning: cfg80211_scan, its timer, the report work *)

\* The call; cfg80211 makes none while it waits for an earlier request.
Scan ==
    /\ pc = Idle /\ up /\ open = 0 /\ Spend("scans")
    /\ open' = left.scans /\ pc' = "scan"
    /\ UNCHANGED <<busy, request, scanTimer, reportQ, reporting, known, sme, current, up,
                   linkVars, joinVars, waitVars, fwVars, evVars>>

\* After the wait: -EAGAIN while connecting, or the request is taken.
ScanBegin ==
    /\ pc = "scan" /\ ~ busy
    /\ IF connecting
       THEN pc' = Idle /\ open' = 0 /\ UNCHANGED <<busy, request>>
       ELSE pc' = "scanCmd" /\ busy' = TRUE /\ request' = open /\ UNCHANGED open
    /\ UNCHANGED <<scanTimer, reportQ, reporting, known, sme, current, up,
                   linkVars, joinVars, waitVars, fwVars, evVars, left>>

\* wland_run_escan returned: the timer runs, or (91G) all is taken back.
ScanSent(ok) ==
    /\ pc = "scanCmd" /\ Outcome(ok)
    /\ scanTimer' = ok /\ busy' = ok
    /\ request' = IF ok THEN request ELSE 0
    /\ open' = IF ok THEN open ELSE 0
    /\ pc' = Idle
    /\ UNCHANGED <<reportQ, reporting, known, sme, current, up, linkVars, joinVars,
                   waitVars, fwVars, evVars>>

\* Faulty variant: the event is left to the report work.
ScanTimeoutSilent ==
    /\ scanTimer /\ scanTimer' = FALSE
    /\ reportQ' = (reportQ \/ request # 0)
    /\ UNCHANGED <<busy, request, reporting, known, open, linkVars, joinVars, waitVars,
                   callVars, fwVars, evVars, left>>

\* Faulty variant: the report is left to the event worker.
ScanTimeoutUnreported ==
    /\ scanTimer /\ scanTimer' = FALSE
    /\ Push([type |-> "timeout"])
    /\ UNCHANGED <<busy, request, reportQ, reporting, known, open, linkVars, joinVars, waitVars,
                   callVars, fwVars, worker, hand, left>>

\* wland_scan_timeout pushes an event and schedules the report.
ScanTimeout ==
    /\ scanTimer /\ scanTimer' = FALSE
    /\ Push([type |-> "timeout"])
    /\ reportQ' = (reportQ \/ request # 0)
    /\ UNCHANGED <<busy, request, reporting, known, open, linkVars, joinVars, waitVars,
                   callVars, fwVars, worker, hand, left>>

\* Faulty variant: the request stays in cfg->scan_request.
ReportTakeKeeping ==
    /\ reportQ /\ reporting = -1
    /\ reportQ' = FALSE /\ reporting' = request
    /\ UNCHANGED <<busy, request, scanTimer, known, open, linkVars, joinVars, waitVars,
                   callVars, fwVars, evVars, left>>

\* cfg80211_scan_report_worker: wland_notify_escan_complete takes the request.
ReportTake ==
    /\ reportQ /\ reporting = -1
    /\ reportQ' = FALSE /\ reporting' = request /\ request' = 0
    /\ UNCHANGED <<busy, scanTimer, known, open, linkVars, joinVars, waitVars,
                   callVars, fwVars, evVars, left>>

\* It stops the timer and, if there was a request, calls cfg80211_scan_done.
ReportDone ==
    /\ reporting # -1
    /\ reporting' = -1 /\ scanTimer' = FALSE
    /\ open' = IF reporting # 0 THEN 0 ELSE open
    /\ UNCHANGED <<busy, request, reportQ, known, linkVars, joinVars, waitVars,
                   callVars, fwVars, evVars, left>>

\* wland_abort_scanning, once the timer is stopped: the report work is cancelled,
\* the request reported as aborted.
Abort ==
    /\ reporting = -1
    /\ reportQ' = FALSE /\ busy' = FALSE /\ request' = 0
    /\ open' = IF request # 0 THEN 0 ELSE open
    /\ UNCHANGED <<reporting, known>>

\* cfg80211_del_virtual_iface refuses a station, but first reports its scan.
RemoveInterface ==
    /\ pc = Idle /\ Spend("removals") /\ (busy => Careless)
    /\ IF busy
       THEN /\ request' = 0 /\ scanTimer' = FALSE
            /\ open' = IF request # 0 THEN 0 ELSE open
       ELSE UNCHANGED <<request, scanTimer, open>>
    /\ UNCHANGED <<busy, reportQ, reporting, known, linkVars, joinVars, waitVars,
                   callVars, fwVars, evVars>>

-----------------------------------------------------------------------------
\* cfg80211 forgets a connection it was only trying to make; of one it has it
\* waits to hear the end.
Forgotten == IF told = "connected" THEN told ELSE Idle

(* Connecting: cfg80211_connect, the connect work, its timer *)

\* The profile is cleared and takes the ssid; the scan results are searched.
Connect(n, named) ==
    /\ pc = Idle /\ up /\ told = Idle /\ Spend("connects")
    /\ pc' = "connect" /\ sme' = [net |-> n, named |-> named]
    /\ told' = "connecting"
    /\ profile' = [ssid |-> n, bssid |-> None]
    /\ current' = (n \in known)
    /\ UNCHANGED <<scanVars, connecting, connected, retries, connTimer, restore, joinVars,
                   waitVars, up, fwVars, evVars>>

\* After the scan: a disconnect under way is waited for.
ConnectWaited ==
    /\ pc = "connect" /\ ~ busy
    /\ pc' = IF inDisconnecting THEN "hold" ELSE "begin"
    /\ inWaiting' = inDisconnecting
    /\ UNCHANGED <<scanVars, linkVars, joinVars, inDisconnecting, completions, sme, current,
                   up, fwVars, evVars, left>>

\* wait_for_completion_timeout returns; two seconds may be too short.
HoldEnds ==
    /\ pc = "hold" /\ pc' = "begin"
    /\ completions' = IF completions > 0 THEN completions - 1 ELSE 0
    /\ UNCHANGED <<scanVars, linkVars, joinVars, inDisconnecting, inWaiting, sme, current,
                   up, fwVars, evVars, left>>

\* The bssid comes from the caller or from the scan result found before the
\* waits, which may be freed since (then it is whatever is there now); without
\* either the call fails.
Bssids == IF "bssid" \in sme.named \/ sme.net \in known THEN {sme.net}
          ELSE Networks \cup {None}

ConnectBegin ==
    /\ pc = "begin" /\ inWaiting' = FALSE
    /\ IF "bssid" \in sme.named \/ current
       THEN /\ \E b \in Bssids : profile' = [profile EXCEPT !.bssid = b]
            /\ connecting' = TRUE /\ restore' = FALSE /\ pc' = "ie"
            /\ UNCHANGED told
       ELSE told' = Forgotten /\ pc' = Idle /\ UNCHANGED <<profile, connecting, restore>>
    /\ UNCHANGED <<scanVars, connected, retries, connTimer, joinVars, inDisconnecting,
                   completions, sme, current, up, fwVars, evVars, left>>

\* The information elements (and WEP keys) were sent to the firmware.  Without a
\* channel the call succeeds, too.
ConnectSent(ok) ==
    /\ pc = "ie" /\ pc' = Idle /\ Outcome(ok)
    /\ LET go == ok /\ ("channel" \in sme.named \/ current)
       IN  /\ joinQ' = (joinQ \/ go)
           /\ connTimer' = (ok /\ (connTimer \/ go))
           /\ retries' = IF go THEN 0 ELSE retries
    /\ connecting' = (connecting /\ ok)
    /\ told' = IF ok THEN told ELSE Forgotten
    /\ UNCHANGED <<scanVars, connected, profile, restore, join, waitVars, sme, current, up,
                   fwVars, evVars>>

\* The connect work: wland_start_join reads the profile and sends it; that the
\* command may be lost is the firmware's freedom not to act.
JoinBegin ==
    /\ joinQ /\ ~ join
    /\ joinQ' = FALSE /\ join' = TRUE
    /\ fwJoin' = TRUE
    /\ UNCHANGED <<scanVars, linkVars, waitVars, callVars, fwLeave, fwLink, evVars, left>>

JoinEnds ==
    /\ join /\ join' = FALSE
    /\ UNCHANGED <<scanVars, linkVars, joinQ, waitVars, callVars, fwVars, evVars, left>>

\* Faulty variant: the join is tried again without a limit.
ConnectTimerEndless ==
    /\ connTimer
    /\ IF connected
       THEN connTimer' = FALSE /\ UNCHANGED <<retries, joinQ>>
       ELSE retries' = retries + 1 /\ joinQ' = TRUE /\ UNCHANGED connTimer
    /\ UNCHANGED <<scanVars, connecting, connected, profile, restore, told, join, waitVars,
                   callVars, fwVars, evVars, left>>

\* wland_connect_timer: the join is tried again, the last time given up - which
\* cfg80211 is not told.
ConnectTimer ==
    /\ connTimer
    /\ IF connected
       THEN connTimer' = FALSE /\ UNCHANGED <<retries, joinQ, connecting>>
       ELSE /\ retries' = retries + 1
            /\ connTimer' = (retries' < Retries) /\ joinQ' = (joinQ \/ connTimer')
            /\ connecting' = (connecting /\ connTimer')
    /\ UNCHANGED <<scanVars, connected, profile, restore, told, join, waitVars,
                   callVars, fwVars, evVars, left>>

-----------------------------------------------------------------------------
(* Leaving: cfg80211_disconnect, netdev_stop, cfg80211_suspend *)

Disconnect ==
    /\ pc = Idle /\ up /\ told # Idle
    /\ pc' = "disconnect"
    /\ UNCHANGED <<scanVars, linkVars, joinVars, waitVars, sme, current, up, fwVars, evVars, left>>

\* After the scan: cancel_work_sync of the connect work.
DisconnectCancel ==
    /\ pc = "disconnect" /\ ~ busy /\ ~ join
    /\ joinQ' = FALSE /\ pc' = "timer"
    /\ UNCHANGED <<scanVars, linkVars, join, waitVars, sme, current, up, fwVars, evVars, left>>

\* The timer is stopped (it may have queued the work again), with two seconds
\* of patience if it was running.
DisconnectTimer ==
    /\ pc = "timer" /\ pc' = "settle"
    /\ connTimer' = FALSE
    /\ UNCHANGED <<scanVars, connecting, connected, profile, retries, restore, told, joinVars,
                   waitVars, sme, current, up, fwVars, evVars, left>>

DisconnectBegin ==
    /\ pc = "settle" /\ pc' = "leave"
    /\ connecting' = FALSE /\ restore' = FALSE /\ inDisconnecting' = TRUE
    /\ fwLeave' = TRUE
    /\ UNCHANGED <<scanVars, connected, profile, retries, connTimer, told, joinVars, inWaiting,
                   completions, sme, current, up, fwJoin, fwLink, evVars, left>>

DisconnectSent ==
    /\ pc = "leave" /\ pc' = Idle
    /\ told' = Forgotten
    /\ UNCHANGED <<scanVars, connecting, connected, profile, retries, connTimer, restore,
                   joinVars, waitVars, sme, current, up, fwVars, evVars, left>>

\* netdev_open, wland_cfg80211_up.
Open ==
    /\ pc = Idle /\ ~ up /\ up' = TRUE
    /\ UNCHANGED <<scanVars, linkVars, joinVars, waitVars, pc, sme, current, fwVars, evVars, left>>

\* netdev_stop, wland_cfg80211_down, wland_link_down: a link is left first.
\* cfg80211 has asked to disconnect before, if it thought there was one.
Stop ==
    /\ pc = Idle /\ up /\ (told = Idle \/ inDisconnecting) /\ Spend("stops")
    /\ IF connected
       THEN pc' = "downCmd" /\ fwLeave' = TRUE /\ UNCHANGED connecting
       ELSE pc' = "downTimer" /\ connecting' = FALSE /\ UNCHANGED fwLeave
    /\ UNCHANGED <<scanVars, connected, profile, retries, connTimer, restore, told, joinVars,
                   waitVars, sme, current, up, fwJoin, fwLink, evVars>>

\* wland_disconnect_bss returned; only its success is reported.
StopSent(ok) ==
    /\ pc = "downCmd" /\ pc' = "downTimer" /\ Outcome(ok)
    /\ connected' = FALSE /\ connecting' = FALSE
    /\ told' = IF ok THEN Idle ELSE told
    /\ UNCHANGED <<scanVars, profile, retries, connTimer, restore, joinVars, waitVars, sme,
                   current, up, fwVars, evVars>>

\* wland_abort_scanning begins with the timer.
StopTimer ==
    /\ pc = "downTimer" /\ pc' = "downAbort"
    /\ scanTimer' = FALSE
    /\ UNCHANGED <<busy, request, reportQ, reporting, known, open, linkVars, joinVars,
                   waitVars, sme, current, up, fwVars, evVars, left>>

StopEnds ==
    /\ pc = "downAbort" /\ pc' = Idle /\ Abort /\ up' = FALSE
    /\ UNCHANGED <<scanTimer, linkVars, joinVars, waitVars, sme, current, fwVars, evVars, left>>

\* cfg80211_suspend: a scan is aborted, and scan_status cleared.
Suspend ==
    /\ pc = Idle /\ (told = Idle \/ inDisconnecting) /\ Spend("stops")
    /\ IF up /\ busy
       THEN pc' = "sleepAbort" /\ scanTimer' = FALSE /\ UNCHANGED busy
       ELSE busy' = FALSE /\ UNCHANGED <<pc, scanTimer>>
    /\ UNCHANGED <<request, reportQ, reporting, known, open, linkVars, joinVars, waitVars,
                   sme, current, up, fwVars, evVars>>

SuspendEnds ==
    /\ pc = "sleepAbort" /\ pc' = Idle /\ Abort
    /\ UNCHANGED <<scanTimer, linkVars, joinVars, waitVars, sme, current, up, fwVars, evVars, left>>

-----------------------------------------------------------------------------
(* fweh_event_worker: one event after the other *)

NextIs(types) == worker = Idle /\ events # << >> /\ Head(events).type \in types
Taken == events' = Tail(events)

\* notify_escan_handler, dropped unless the interface is up: a network found, or
\* the end of the scan, where networks long unseen leave the list.
HandleScan ==
    /\ NextIs({"bss", "timeout"}) /\ Taken
    /\ IF ~ up THEN UNCHANGED <<known, busy>>
       ELSE IF Head(events).type = "bss"
       THEN known' = known \cup {Head(events).bss} /\ UNCHANGED busy
       ELSE /\ \E kept \in SUBSET known : known' = IF request # 0 THEN kept ELSE known
            /\ busy' = FALSE
    /\ UNCHANGED <<request, scanTimer, reportQ, reporting, open, linkVars, joinVars, waitVars,
                   callVars, fwVars, worker, hand, left>>

\* notify_connect_status, dropped unless the interface is up.
TakeLink ==
    /\ NextIs({"connect", "disconnect"}) /\ Taken
    /\ hand' = Head(events).type
    /\ worker' = IF up THEN "cancel" ELSE Idle
    /\ UNCHANGED <<scanVars, linkVars, joinVars, waitVars, callVars, fwVars, left>>

\* cancel_work_sync of the connect work.
CancelJoin ==
    /\ worker = "cancel" /\ ~ join
    /\ joinQ' = FALSE /\ worker' = "timer"
    /\ UNCHANGED <<scanVars, linkVars, join, waitVars, callVars, fwVars, events, hand, left>>

\* Connected: wland_bss_connect_done, if the driver is connecting; setting the
\* timeout of the firmware comes before the report.
LinkUp ==
    /\ worker = "timer" /\ hand = "connect"
    /\ connTimer' = FALSE /\ restore' = TRUE
    /\ connecting' = FALSE /\ connected' = (connected \/ connecting)
    /\ worker' = IF connecting THEN "phy" ELSE Idle
    /\ UNCHANGED <<scanVars, profile, retries, told, joinVars, waitVars, callVars, fwVars,
                   events, hand, left>>

LinkUpReported ==
    /\ worker = "phy" /\ worker' = Idle
    /\ told' = "connected"
    /\ UNCHANGED <<scanVars, connecting, connected, profile, retries, connTimer, restore,
                   joinVars, waitVars, callVars, fwVars, events, hand, left>>

\* Faulty variant: an attempt that fails keeps an older link alive.
LinkDownKeeping ==
    /\ worker = "timer" /\ hand = "disconnect" /\ worker' = Idle
    /\ connTimer' = FALSE /\ restore' = FALSE
    /\ told' = IF connecting \/ connected THEN Idle ELSE told
    /\ connecting' = FALSE /\ profile' = Blank
    /\ inDisconnecting' = FALSE
    /\ completions' = completions + (IF inDisconnecting /\ inWaiting THEN 1 ELSE 0)
    /\ UNCHANGED <<scanVars, connected, retries, joinVars, inWaiting, callVars, fwVars,
                   events, hand, left>>

\* Disconnected: what was connected or connecting is reported, the profile
\* cleared, and a connect that waits for this is let go.
LinkDown ==
    /\ worker = "timer" /\ hand = "disconnect" /\ worker' = Idle
    /\ connTimer' = FALSE /\ restore' = FALSE
    /\ told' = IF connecting \/ connected THEN Idle ELSE told
    /\ connecting' = FALSE /\ connected' = FALSE /\ profile' = Blank
    /\ inDisconnecting' = FALSE
    /\ completions' = completions + (IF inDisconnecting /\ inWaiting THEN 1 ELSE 0)
    /\ UNCHANGED <<scanVars, retries, joinVars, inWaiting, callVars, fwVars,
                   events, hand, left>>

\* connect_restorework_timeout: its work only sends two commands.
Restore ==
    /\ restore /\ restore' = FALSE
    /\ UNCHANGED <<scanVars, connecting, connected, profile, retries, connTimer, told, joinVars,
                   waitVars, callVars, fwVars, evVars, left>>

-----------------------------------------------------------------------------
(* External: the firmware, through the receive worker; it need not act *)

FwFinds(n) ==
    /\ Spend("finds") /\ Push([type |-> "bss", bss |-> n])
    /\ UNCHANGED <<scanVars, linkVars, joinVars, waitVars, callVars, fwVars, worker, hand>>

FwJoins ==
    /\ fwJoin /\ fwJoin' = FALSE /\ fwLink' = TRUE
    /\ Push([type |-> "connect"])
    /\ UNCHANGED <<scanVars, linkVars, joinVars, waitVars, callVars, fwLeave, worker, hand, left>>

FwRefuses ==
    /\ fwJoin /\ fwJoin' = FALSE
    /\ Push([type |-> "disconnect"])
    /\ UNCHANGED <<scanVars, linkVars, joinVars, waitVars, callVars, fwLeave, fwLink, worker,
                   hand, left>>

FwLeaves ==
    /\ fwLeave /\ fwLeave' = FALSE /\ fwJoin' = FALSE /\ fwLink' = FALSE
    /\ IF fwJoin \/ fwLink THEN Push([type |-> "disconnect"]) ELSE UNCHANGED events
    /\ UNCHANGED <<scanVars, linkVars, joinVars, waitVars, callVars, worker, hand, left>>

FwDrops ==
    /\ fwLink /\ fwLink' = FALSE /\ Spend("drops")
    /\ Push([type |-> "disconnect"])
    /\ UNCHANGED <<scanVars, linkVars, joinVars, waitVars, callVars, fwJoin, fwLeave, worker, hand>>

-----------------------------------------------------------------------------
Calls == Scan \/ Open \/ Stop \/ Suspend \/ RemoveInterface \/ Disconnect
         \/ \E n \in Networks, named \in Named : Connect(n, named)
CallGoesOn == \/ ScanBegin \/ ConnectWaited \/ HoldEnds \/ ConnectBegin \/ DisconnectCancel
              \/ DisconnectTimer \/ DisconnectSent \/ StopTimer \/ StopEnds \/ SuspendEnds
              \/ DisconnectBegin
              \/ \E ok \in BOOLEAN : ScanSent(ok) \/ ConnectSent(ok) \/ StopSent(ok)
Timers == ScanTimeout \/ ConnectTimer \/ Restore
ReportWork == ReportTake \/ ReportDone
JoinWork == JoinBegin \/ JoinEnds
EventWork == HandleScan \/ TakeLink \/ CancelJoin \/ LinkUp \/ LinkUpReported \/ LinkDown
Firmware == FwJoins \/ FwRefuses \/ FwLeaves \/ FwDrops \/ \E n \in Networks : FwFinds(n)

Next == Calls \/ CallGoesOn \/ Timers \/ ReportWork \/ JoinWork \/ EventWork \/ Firmware

\* Calls, works and timers that are due go on; cfg80211 and the firmware may be
\* silent.
Spec == Init /\ [][Next]_vars
        /\ WF_vars(CallGoesOn) /\ WF_vars(ScanTimeout) /\ WF_vars(ConnectTimer)
        /\ WF_vars(ReportWork) /\ WF_vars(JoinWork) /\ WF_vars(EventWork)

-----------------------------------------------------------------------------
\* The scan request cfg80211 waits for is in exactly one pair of hands - the call
\* that brings it, cfg->scan_request, or the report work - and nobody holds
\* another: none is lost, and none is reported twice although timer, abort and
\* suspend may all end a scan.
OneOwner ==
    /\ \A r \in {request, reporting} : r > 0 => r = open
    /\ ~ (request > 0 /\ reporting > 0)
    /\ open # 0 => pc = "scan" \/ open \in {request, reporting}

\* SCAN_STATUS_BUSY, for which scans, connects and disconnects wait without a
\* limit, has somebody who will clear it: the timer, its event, or the call that
\* is about to start the one or to abort the scan.
BusyMeansScanning ==
    busy => \/ scanTimer \/ pc \in {"scanCmd", "downAbort", "sleepAbort"}
            \/ \E i \in 1 .. Len(events) : events[i].type = "timeout"

\* A link the driver has is one cfg80211 was told of, but for the command between
\* the bit and the report.
LinkIsKnown == connected => told = "connected" \/ worker = "phy"

\* Every call of cfg80211 returns: the waits for SCAN_STATUS_BUSY, for works to be
\* cancelled and for a disconnect end.
CallsReturn == pc # Idle ~> pc = Idle

\* Every scan request is reported.
ScansEnd == open # 0 ~> open = 0

\* The connect work asks the firmware for the network the connect call named, as
\* long as the driver is connecting.
JoinsNamedNetwork ==
    [][joinQ /\ ~ join /\ join' /\ connecting => profile.ssid = sme.net]_vars
=============================================================================
