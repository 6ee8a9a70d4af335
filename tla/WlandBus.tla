------------------------------- MODULE WlandBus -------------------------------
(***************************************************************************)
(* The SDIO bus of the WLAN driver (wland_sdio.c) under its users: data    *)
(* packets of the network stack, commands to the firmware with their       *)
(* answers (wland_cmds.c), the transmit and the receive worker, the        *)
(* interrupt, and the watchdog that puts the chip to sleep.  The chip runs *)
(* its firmware and interrupts (wland_wid.c:495); power management is on.  *)
(*                                                                         *)
(* Packets come from the network stack with bottom halves off, so sending  *)
(* one is a single step on the one core of the AP.  Commands come from     *)
(* several threads without a lock of their own: they number and build      *)
(* their messages in the one prot->msg, a step at a time, the transmit     *)
(* worker copies from there, and the answers are copied to there.          *)
(***************************************************************************)
EXTENDS Integers, Sequences, FiniteSets

CONSTANTS
    Callers,        \* threads that send commands
    IdCount,        \* values of wid_msg_id, a u8
    MaxId,          \* bound: commands sent
    TxqLen, TxHi, TxLow,
    IdleTime        \* WLAND_IDLE_INTERVAL

ASSUME BusAssumption ==
    /\ IsFiniteSet(Callers)
    /\ MaxId \in Nat
    /\ {IdCount, TxqLen, TxHi, TxLow, IdleTime} \subseteq Nat \ {0}
    /\ TxLow <= TxHi /\ TxHi <= TxqLen

VARIABLES
    state,          \* bus_if->state
    txq, txoff,     \* packets in the queue; the network stack is stopped
    tskcnt,         \* tx_dpc_tskcnt
    txWork, tx,     \* TxWork is queued; where the worker is
    ctl, success,   \* ctrl_frame_stat, ctrl_frame_send_success
    msg,            \* prot->msg, which is also ctrl_frame_buf
    frame,          \* what the worker copied of it
    rxq, rxcnt, rxWork,     \* answers received, rx_dpc_tskcnt, RxWork is queued
    rxbuf,          \* the answer in rxbuf; {}: rxlen is 0
    reqid,          \* prot->reqid
    pc, cmd, id,    \* callers: where, with which command, its number
    alone, told,    \* ghosts: see OkMeansCarriedOut
    awake,          \* clkstate is CLK_AVAIL, card_sleep is false
    idle, timer, wd,        \* idlecount, the timer is pending, the thread
    wait,           \* watchdog_wait is completed (once or more: only the first counts)
    inbox, carried, \* firmware: messages it received, commands it carried out
    sent            \* commands so far

txVars   == <<txq, txoff, tskcnt, txWork, tx, frame>>
ctlVars  == <<ctl, success, msg>>
rxVars   == <<rxq, rxcnt, rxWork>>
callVars == <<reqid, pc, cmd, id, alone, told, sent>>
wdVars   == <<awake, idle, timer, wait, wd>>
fwVars   == <<inbox, carried>>
vars == <<state, txVars, ctlVars, rxVars, rxbuf, callVars, wdVars, fwVars>>

Ids == 0 .. IdCount - 1
\* A message is its number and, for its contents, the command it was built for.
Messages == [num : Ids, body : 0 .. MaxId]
NoMessage == [num |-> 0, body |-> 0]
Places == {"idle", "build", "fill", "read", "hand", "wake", "sending", "answer", "compare"}

TypeOK ==
    /\ state \in {"data", "down"}
    /\ txq \in 0 .. TxqLen /\ txoff \in BOOLEAN
    /\ tskcnt \in Int /\ rxcnt \in Nat
    /\ {txWork, ctl, success, rxWork, awake, timer, wait} \subseteq BOOLEAN
    /\ tx \in {"off", "loop", "data", "copy", "ctl"}
    /\ {msg, frame} \cup rxbuf \subseteq Messages
    /\ {rxq, inbox} \subseteq Seq(Messages) /\ carried \cup told \subseteq 0 .. MaxId
    /\ reqid \in Ids /\ id \in [Callers -> Ids] /\ cmd \in [Callers -> 0 .. MaxId]
    /\ pc \in [Callers -> Places] /\ alone \subseteq Callers
    /\ idle \in 0 .. IdleTime /\ wd \in {"wait", "sleep"}
    /\ sent \in 0 .. MaxId

\* The bus at rest, after wland_sdio_bus_init or later: the chip sleeps until the first
\* frame.  A command given up long ago, numbered as the next one will be, may still be
\* with the firmware.
Init ==
    /\ state = "data" /\ txq = 0 /\ txoff = FALSE /\ tskcnt = 0
    /\ txWork = FALSE /\ tx = "off" /\ frame = NoMessage
    /\ ctl = FALSE /\ success = FALSE /\ msg = NoMessage
    /\ rxq = << >> /\ rxcnt = 0 /\ rxWork = FALSE /\ rxbuf = {} /\ reqid = 0
    /\ pc = [c \in Callers |-> "idle"] /\ id = [c \in Callers |-> 0]
    /\ cmd = [c \in Callers |-> 0] /\ alone = {} /\ told = {}
    /\ awake = FALSE /\ idle = 0 /\ timer = FALSE /\ wait = FALSE /\ wd = "wait"
    /\ inbox \in {<< >>, <<NoMessage>>} /\ carried = {} /\ sent = 0

-----------------------------------------------------------------------------
(* Transmitting *)

\* wland_sdio_bus_txdata: the packet is queued and counted and may stop the network
\* stack.  Into a full queue it is dropped instead, and on a bus that is down
\* netdev_start_xmit_op rejects it.
SendPacket ==
    /\ state = "data" /\ ~ txoff /\ txq < TxqLen
    /\ txq' = txq + 1 /\ txoff' = (txq' >= TxHi)
    /\ tskcnt' = tskcnt + 1 /\ txWork' = TRUE
    /\ UNCHANGED <<state, tx, frame, ctlVars, rxVars, rxbuf, callVars, wdVars, fwVars>>

\* wland_sdio_TxWorker runs only if it was counted.
TxStart ==
    /\ tx = "off" /\ txWork /\ txWork' = FALSE
    /\ tx' = IF tskcnt > 0 /\ state = "data" THEN "loop" ELSE "off"
    /\ UNCHANGED <<state, txq, txoff, tskcnt, frame, ctlVars, rxVars, rxbuf, callVars, wdVars,
                   fwVars>>

\* txclk_sem is held while a frame is sent and while the watchdog, which is a
\* single step, changes the clock.
SemFree == tx \notin {"data", "copy", "ctl"}

\* wland_sdio_clkctl(CLK_AVAIL): the chip wakes, the watchdog starts over; a bus
\* that is down stays as it is.
Wake ==
    IF state = "down" THEN UNCHANGED wdVars
    ELSE awake' = TRUE /\ idle' = 0 /\ timer' = TRUE /\ UNCHANGED <<wait, wd>>

\* wland_sdio_sendfromq: a packet leaves the queue, if the clock runs.
TxData ==
    /\ tx = "loop" /\ txq > 0 /\ Wake
    /\ IF awake' THEN tx' = "data" /\ txq' = txq - 1 /\ tskcnt' = tskcnt - 1
       ELSE tx' = "off" /\ UNCHANGED <<txq, tskcnt>>
    /\ UNCHANGED <<state, txoff, txWork, frame, ctlVars, rxVars, rxbuf, callVars, fwVars>>

\* It was sent, or lost; the network stack may go on.
TxDataSent ==
    /\ tx = "data" /\ tx' = "loop"
    /\ txoff' = (txoff /\ (state = "down" \/ txq >= TxLow))
    /\ UNCHANGED <<state, txq, tskcnt, txWork, frame, ctlVars, rxVars, rxbuf, callVars, wdVars,
                   fwVars>>

\* Behind the packets the command: wland_sdio_txctl_frames has memory for its copy,
\* takes sdsem and begins to copy prot->msg.
TxCtl ==
    /\ tx = "loop" /\ txq = 0
    /\ IF ctl THEN Wake ELSE UNCHANGED wdVars
    /\ IF ctl /\ awake'
       THEN tx' = "copy" /\ frame' = [frame EXCEPT !.num = msg.num]
       ELSE tx' = "off" /\ UNCHANGED frame
    /\ UNCHANGED <<state, txq, txoff, tskcnt, txWork, ctlVars, rxVars, rxbuf, callVars, fwVars>>

\* The copy ends, with what is in prot->msg by then; sdsem is free.
TxCopy ==
    /\ tx = "copy" /\ tx' = "ctl" /\ frame' = [frame EXCEPT !.body = msg.body]
    /\ UNCHANGED <<state, txq, txoff, tskcnt, txWork, ctlVars, rxVars, rxbuf, callVars, wdVars,
                   fwVars>>

\* The transfer is over, the caller is told.
TxCtlSent(good) ==
    /\ tx = "ctl" /\ tx' = "off"
    /\ ctl' = FALSE /\ success' = good
    /\ tskcnt' = tskcnt - 1 /\ frame' = NoMessage
    /\ inbox' = IF good THEN Append(inbox, frame) ELSE inbox
    /\ UNCHANGED <<state, txq, txoff, txWork, msg, rxVars, rxbuf, callVars, wdVars, carried>>

-----------------------------------------------------------------------------
(* Commands: wland_fil_set_cmd_data, wland_fil_get_cmd_data *)

Goto(c, place) == pc' = [pc EXCEPT ![c] = place]

\* Nothing numbered n is on its way to the firmware or back.
NoneNumbered(n) ==
    /\ \A m \in rxbuf : m.num # n
    /\ \A q \in {inbox, rxq} : \A i \in DOMAIN q : q[i].num # n

\* The caller clears prot->msg, whoever else uses it, and reads the next number.
Draw(c) ==
    /\ pc[c] = "idle" /\ sent < MaxId /\ state = "data" /\ Goto(c, "build")
    /\ msg' = [msg EXCEPT !.body = 0]
    /\ id' = [id EXCEPT ![c] = reqid]
    /\ sent' = sent + 1 /\ cmd' = [cmd EXCEPT ![c] = sent + 1]
    /\ alone' = IF ~ ctl /\ NoneNumbered(reqid) /\ \A d \in Callers \ {c} : pc[d] = "idle"
                THEN {c} ELSE {}
    /\ UNCHANGED <<state, txVars, ctl, success, rxVars, rxbuf, reqid, told, wdVars, fwVars>>

\* Faulty variant: reqid is counted in more bits than wid_msg_id has.
BuildWide(c) ==
    /\ pc[c] = "build" /\ Goto(c, "fill")
    /\ reqid' = id[c] + 1
    /\ msg' = [msg EXCEPT !.num = id[c]]
    /\ UNCHANGED <<state, txVars, ctl, success, rxVars, rxbuf, cmd, id, alone, told, sent, wdVars,
                   fwVars>>

\* It counts reqid, and numbers the message.
Build(c) ==
    /\ pc[c] = "build" /\ Goto(c, "fill")
    /\ reqid' = (id[c] + 1) % IdCount
    /\ msg' = [msg EXCEPT !.num = id[c]]
    /\ UNCHANGED <<state, txVars, ctl, success, rxVars, rxbuf, cmd, id, alone, told, sent, wdVars,
                   fwVars>>

\* The rest of the message.
Fill(c) ==
    /\ pc[c] = "fill" /\ Goto(c, "read")
    /\ msg' = [msg EXCEPT !.body = cmd[c]]
    /\ UNCHANGED <<state, txVars, ctl, success, rxVars, rxbuf, reqid, cmd, id, alone, told, sent,
                   wdVars, fwVars>>

\* What the caller takes for its number is what prot->msg holds now.
ReadBack(c) ==
    /\ pc[c] = "read" /\ Goto(c, "hand")
    /\ id' = [id EXCEPT ![c] = msg.num]
    /\ UNCHANGED <<state, txVars, ctlVars, rxVars, rxbuf, reqid, cmd, alone, told, sent, wdVars,
                   fwVars>>

\* wland_sdio_bus_txctl, which waits for sdsem, sets the one control frame there is.
HandOver(c) ==
    /\ pc[c] = "hand" /\ tx # "copy" /\ Goto(c, "wake")
    /\ ctl' = TRUE /\ success' = FALSE
    /\ UNCHANGED <<state, txVars, msg, rxVars, rxbuf, reqid, cmd, id, alone, told, sent, wdVars,
                   fwVars>>

\* Back to the caller, with success or an error; what it had in hand is forgotten.
Return(c, good) ==
    /\ Goto(c, "idle") /\ cmd' = [cmd EXCEPT ![c] = 0] /\ id' = [id EXCEPT ![c] = 0]
    /\ alone' = alone \ {c}
    /\ told' = IF good /\ c \in alone THEN told \cup {cmd[c]} ELSE told

\* Faulty variant: the worker is queued, but not counted.
CommandWakeUncounted(c) ==
    /\ pc[c] = "wake"
    /\ IF state = "down"
       THEN Return(c, FALSE) /\ UNCHANGED txWork
       ELSE txWork' = TRUE /\ Goto(c, "sending") /\ UNCHANGED <<cmd, id, alone, told>>
    /\ UNCHANGED <<state, txq, txoff, tskcnt, tx, frame, ctlVars, rxVars, rxbuf, reqid, sent,
                   wdVars, fwVars>>

\* WAKE_TX_WORK, unless the bus went down.
CommandWake(c) ==
    /\ pc[c] = "wake"
    /\ IF state = "down"
       THEN Return(c, FALSE) /\ UNCHANGED <<tskcnt, txWork>>
       ELSE /\ tskcnt' = tskcnt + 1 /\ txWork' = TRUE
            /\ Goto(c, "sending") /\ UNCHANGED <<cmd, id, alone, told>>
    /\ UNCHANGED <<state, txq, txoff, tx, frame, ctlVars, rxVars, rxbuf, reqid, sent, wdVars,
                   fwVars>>

\* dhd_os_wait_for_event: the frame was taken (if not sent: -EIO), or five seconds
\* are over, or there is a signal, and the answer is waited for all the same.
CommandSent(c) ==
    /\ pc[c] = "sending"
    /\ IF ~ ctl /\ ~ success THEN Return(c, FALSE)
       ELSE /\ Goto(c, "answer") /\ UNCHANGED <<cmd, id, told>>
            /\ alone' = IF ctl THEN alone \ {c} ELSE alone
    /\ UNCHANGED <<state, txVars, ctlVars, rxVars, rxbuf, reqid, sent, wdVars, fwVars>>

\* wland_sdio_bus_rxctl: the answer is copied over prot->msg; with a signal pending
\* that was all.
Answer(c) ==
    /\ pc[c] = "answer" /\ \E m \in rxbuf : msg' = m
    /\ rxbuf' = {}
    /\ \/ Goto(c, "compare") /\ UNCHANGED <<cmd, id, alone, told>>
       \/ Return(c, FALSE)
    /\ UNCHANGED <<state, txVars, ctl, success, rxVars, reqid, sent, wdVars, fwVars>>

\* dhd_os_ioctl_resp_wait gives up.
AnswerTimeout(c) ==
    /\ pc[c] = "answer" /\ rxbuf = {} /\ Return(c, FALSE)
    /\ UNCHANGED <<state, txVars, ctlVars, rxVars, rxbuf, reqid, sent, wdVars, fwVars>>

\* Faulty variant: the first answer is taken.
CompareAny(c) ==
    /\ pc[c] = "compare" /\ Return(c, TRUE)
    /\ UNCHANGED <<state, txVars, ctlVars, rxVars, rxbuf, reqid, sent, wdVars, fwVars>>

\* wland_proto_cdc_cmplt drops an answer with another number and waits again; one
\* with the caller's number is its result, unless the caller, which looks at the
\* number once more, finds another by then, or the answer tells of a failure.
Compare(c) ==
    /\ pc[c] = "compare"
    /\ IF msg.num = id[c] THEN \E good \in BOOLEAN : Return(c, good)
       ELSE Goto(c, "answer") /\ UNCHANGED <<cmd, id, alone, told>>
    /\ UNCHANGED <<state, txVars, ctlVars, rxVars, rxbuf, reqid, sent, wdVars, fwVars>>

-----------------------------------------------------------------------------
(* Receiving *)

\* External: the firmware carries the oldest message out and answers, late or never.
\* wland_sdioh_irqhandler reads the answer and counts it, until the bus is down.
Irq ==
    /\ inbox # << >> /\ state = "data"
    /\ inbox' = Tail(inbox) /\ carried' = carried \cup {Head(inbox).body}
    /\ rxq' = Append(rxq, Head(inbox)) /\ rxcnt' = rxcnt + 1 /\ rxWork' = TRUE
    /\ UNCHANGED <<state, txVars, ctlVars, rxbuf, callVars, wdVars>>

\* wland_sdio_process_rxframes: each answer into rxbuf, over the one there.
RxFrame ==
    /\ rxWork
    /\ IF rxcnt > 0 /\ state = "data" /\ rxq # << >>
       THEN /\ rxbuf' = {Head(rxq)} /\ rxq' = Tail(rxq) /\ rxcnt' = rxcnt - 1
            /\ rxWork' = (rxq' # << >>)
       ELSE rxWork' = FALSE /\ UNCHANGED <<rxq, rxcnt, rxbuf>>
    /\ UNCHANGED <<state, txVars, ctlVars, callVars, wdVars, fwVars>>

-----------------------------------------------------------------------------
(* The watchdog, and the end *)

\* wland_bus_watchdog, the timer.
WdTimer ==
    /\ timer /\ timer' = FALSE /\ wait' = TRUE
    /\ UNCHANGED <<state, txVars, ctlVars, rxVars, rxbuf, callVars, awake, idle, wd, fwVars>>

\* The thread counts the ticks without a transfer.
WdTick ==
    /\ wd = "wait" /\ wait /\ wait' = FALSE
    /\ IF ~ awake THEN UNCHANGED <<idle, timer, wd>>
       ELSE /\ idle' = IF idle < IdleTime THEN idle + 1 ELSE idle
            /\ IF idle + 1 >= IdleTime THEN wd' = "sleep" /\ UNCHANGED timer
               ELSE timer' = TRUE /\ UNCHANGED wd
    /\ UNCHANGED <<state, txVars, ctlVars, rxVars, rxbuf, callVars, awake, fwVars>>

\* wland_sdio_clkctl(CLK_NONE), wland_chip_goto_sleep: the chip sleeps and the
\* timer stops, unless a scan or a connect is under way (not quiet).
ClockOff(quiet) ==
    /\ IF ~ awake THEN UNCHANGED <<awake, idle, timer>>
       ELSE IF quiet THEN awake' = FALSE /\ timer' = FALSE /\ UNCHANGED idle
       ELSE idle' = 0 /\ timer' = TRUE /\ UNCHANGED awake
    /\ UNCHANGED <<state, txVars, ctlVars, rxVars, rxbuf, callVars, wait, fwVars>>

\* Faulty variant: the clock is stopped without txclk_sem.
WdSleepUnlocked(quiet) == wd = "sleep" /\ wd' = "wait" /\ ClockOff(quiet)

WdSleep(quiet) == wd = "sleep" /\ SemFree /\ wd' = "wait" /\ ClockOff(quiet)

\* wland_sdio_suspend does the same, until the chip sleeps.
Suspend(quiet) == SemFree /\ ClockOff(quiet) /\ UNCHANGED wd

\* wland_ops_sdio_remove begins.  The timer may still run out and the thread run, but
\* neither touches the clock of a bus that is down (and wland_sdio_bus_stop ends
\* them), so they end here.
Down ==
    /\ state = "data" /\ state' = "down"
    /\ timer' = FALSE /\ wait' = FALSE /\ wd' = "wait" /\ idle' = 0
    /\ UNCHANGED <<txVars, ctlVars, rxVars, rxbuf, callVars, awake, fwVars>>

-----------------------------------------------------------------------------
TxWorker == TxStart \/ TxData \/ TxDataSent \/ TxCtl \/ TxCopy \/ \E good \in BOOLEAN : TxCtlSent(good)
Commands == \E c \in Callers :
    \/ Draw(c) \/ Build(c) \/ Fill(c) \/ ReadBack(c) \/ HandOver(c)
    \/ CommandWake(c) \/ CommandSent(c)
    \/ Answer(c) \/ AnswerTimeout(c) \/ Compare(c)
Watchdog == state = "data" /\ (WdTimer \/ WdTick \/ \E quiet \in BOOLEAN : WdSleep(quiet) \/ Suspend(quiet))
Next == SendPacket \/ TxWorker \/ Commands \/ Irq \/ RxFrame \/ Watchdog \/ Down

Spec == Init /\ [][Next]_vars

-----------------------------------------------------------------------------
\* What is to be sent has the transmit worker before it: tx_dpc_tskcnt, by which
\* it decides whether to run at all, never loses a packet or a command, and a
\* network stack that was stopped at TXHI (wland_sdio.c:1037) is started again.
NothingStalls == state = "data" =>
    /\ txq > 0 \/ (ctl /\ \A c \in Callers : pc[c] # "wake")
         => tx # "off" \/ (txWork /\ tskcnt > 0) \/ \E c \in Callers : pc[c] = "wake"
    /\ txoff => txq >= TxLow \/ tx = "data"

\* Frames are sent to a chip that is awake, and a chip that is awake has a
\* watchdog that will let it sleep (or wland_sdio_suspend waits for ever).
ClockKept ==
    /\ tx \in {"data", "copy", "ctl"} => awake
    /\ awake /\ state = "data" => timer \/ wait \/ wd = "sleep"

\* A command that returns success was carried out, also when the answers to earlier
\* commands come after those were given up, if it was alone from its beginning: no
\* other caller was inside until it returned, the control frame was free, nothing with
\* its number, which wraps, was still under way, and its message was taken while it
\* waited for that.  Without any one of the four this is violated.
\* wland_bus.h:60-63 promises "For control messages to common driver will assure
\* there is only one active transaction"; nothing assures it.  With two, a caller may
\* read back the other's number (wland_cmds.c:70, 303), and be told success for a
\* command that was overwritten and never sent.
OkMeansCarriedOut == told \subseteq carried
=============================================================================
