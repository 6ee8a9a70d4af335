---------------------------- MODULE WlandBusProofs ----------------------------
(***************************************************************************)
(* Theorems about WlandBus, for every number of threads that send          *)
(* commands, of packets, and of the values of wid_msg_id.                  *)
(***************************************************************************)
EXTENDS WlandBus, FiniteSetTheorems, SequenceTheorems, TLAPS

\* What the callers of commands may change, as a whole.
LEMMA CommandsTouch ==
    ASSUME Commands
    PROVE  /\ UNCHANGED <<state, txq, txoff, tx, frame, rxq, rxcnt, rxWork, awake, idle, timer, wait,
                          wd, inbox, carried>>
           /\ tskcnt' \in {tskcnt, tskcnt + 1} /\ txWork' \in {txWork, TRUE}
           /\ ctl' \in {ctl, TRUE} /\ success' \in {success, FALSE}
           /\ sent' = sent \/ (sent < MaxId /\ sent' = sent + 1)
<1> USE DEF txVars, ctlVars, rxVars, callVars, wdVars, fwVars
<1> PICK c \in Callers :
        \/ Draw(c) \/ Build(c) \/ Fill(c) \/ ReadBack(c) \/ HandOver(c)
        \/ CommandWake(c) \/ CommandSent(c)
        \/ Answer(c) \/ AnswerTimeout(c) \/ Compare(c)
  BY DEF Commands
<1>1. CASE Draw(c)
  BY <1>1 DEF Draw
<1>2. CASE Build(c) \/ Fill(c) \/ ReadBack(c)
  BY <1>2 DEF Build, Fill, ReadBack
<1>3. CASE HandOver(c)
  BY <1>3 DEF HandOver
<1>4. CASE CommandWake(c)
  BY <1>4 DEF CommandWake
<1>5. CASE CommandSent(c) \/ AnswerTimeout(c) \/ Compare(c)
  BY <1>5 DEF CommandSent, AnswerTimeout, Compare
<1>6. CASE Answer(c)
  BY <1>6 DEF Answer
<1> QED BY <1>1, <1>2, <1>3, <1>4, <1>5, <1>6

-----------------------------------------------------------------------------
(* The clock *)

\* Frames are sent to a chip that is awake, and a chip that is awake has a
\* watchdog (wland_sdio.c:1192-1306, txclk_sem).  ClockKept is inductive.
THEOREM ChipIsAwake == Spec => []ClockKept
<1>1. Init => ClockKept
  BY DEF Init, ClockKept
<1>2. ClockKept /\ [Next]_vars => ClockKept'
  <2> SUFFICES ASSUME ClockKept, [Next]_vars PROVE ClockKept'
    OBVIOUS
  <2> USE DEF ClockKept, txVars, ctlVars, rxVars, callVars, wdVars, fwVars
  <2>1. CASE SendPacket
    BY <2>1 DEF SendPacket
  <2>2. CASE TxStart \/ TxDataSent \/ TxCopy
    BY <2>2 DEF TxStart, TxDataSent, TxCopy
  <2>3. CASE TxData
    BY <2>3 DEF TxData, Wake
  <2>4. CASE TxCtl
    BY <2>4 DEF TxCtl, Wake
  <2>5. CASE \E good \in BOOLEAN : TxCtlSent(good)
    BY <2>5 DEF TxCtlSent
  <2>6. CASE Commands
    BY <2>6, CommandsTouch
  <2>7. CASE Irq \/ RxFrame \/ Down
    BY <2>7 DEF Irq, RxFrame, Down
  <2>8. CASE WdTimer
    BY <2>8, Zenon DEF WdTimer
  <2>11. CASE WdTick
    <3>1. UNCHANGED <<state, tx, awake>>
      BY <2>11 DEF WdTick
    <3>2. awake => timer' \/ wd' = "sleep"
      BY <2>11, Zenon DEF WdTick
    <3> QED
      BY <3>1, <3>2
  <2>9. CASE \E quiet \in BOOLEAN : WdSleep(quiet) \/ Suspend(quiet)
    BY <2>9 DEF WdSleep, Suspend, ClockOff, SemFree
  <2>10. CASE UNCHANGED vars
    BY <2>10 DEF vars
  <2> QED
    BY <2>1, <2>2, <2>3, <2>4, <2>5, <2>6, <2>7, <2>8, <2>9, <2>10, <2>11
       DEF Next, TxWorker, Watchdog
<1> QED
  BY <1>1, <1>2, PTL DEF Spec

-----------------------------------------------------------------------------
(* Types *)

QueuesOK ==
    /\ txq \in 0 .. TxqLen /\ tskcnt \in Int /\ rxcnt \in Nat
    /\ idle \in 0 .. IdleTime /\ sent \in 0 .. MaxId

WaysOK ==
    /\ state \in {"data", "down"}
    /\ tx \in {"off", "loop", "data", "copy", "ctl"} /\ wd \in {"wait", "sleep"}

SendFlagsOK == txoff \in BOOLEAN /\ txWork \in BOOLEAN /\ ctl \in BOOLEAN /\ success \in BOOLEAN

ClockFlagsOK == rxWork \in BOOLEAN /\ awake \in BOOLEAN /\ timer \in BOOLEAN /\ wait \in BOOLEAN

SwitchesOK == WaysOK /\ SendFlagsOK /\ ClockFlagsOK

MessagesOK ==
    /\ msg \in Messages /\ frame \in Messages /\ rxbuf \subseteq Messages
    /\ rxq \in Seq(Messages) /\ inbox \in Seq(Messages) /\ carried \subseteq 0 .. MaxId

CallersOK ==
    /\ reqid \in Ids /\ id \in [Callers -> Ids] /\ cmd \in [Callers -> 0 .. MaxId]
    /\ pc \in [Callers -> Places] /\ alone \subseteq Callers /\ told \subseteq 0 .. MaxId

LEMMA TypeParts == TypeOK <=> QueuesOK /\ SwitchesOK /\ MessagesOK /\ CallersOK
  BY DEF TypeOK, QueuesOK, SwitchesOK, WaysOK, SendFlagsOK, ClockFlagsOK, MessagesOK, CallersOK

LEMMA StepQueues == QueuesOK /\ [Next]_vars => QueuesOK'
<1> SUFFICES ASSUME QueuesOK, [Next]_vars PROVE QueuesOK'
  OBVIOUS
<1> USE BusAssumption DEF QueuesOK, txVars, ctlVars, rxVars, callVars, wdVars, fwVars
<1>1. CASE SendPacket \/ TxStart \/ TxDataSent \/ TxCopy
  BY <1>1 DEF SendPacket, TxStart, TxDataSent, TxCopy
<1>2. CASE TxData \/ TxCtl
  BY <1>2 DEF TxData, TxCtl, Wake
<1>3. CASE \E good \in BOOLEAN : TxCtlSent(good)
  BY <1>3 DEF TxCtlSent
<1>4. CASE Commands
  <2>1. /\ UNCHANGED <<txq, rxcnt, idle>> /\ (tskcnt' = tskcnt \/ tskcnt' = tskcnt + 1)
        /\ sent' = sent \/ (sent < MaxId /\ sent' = sent + 1)
    BY <1>4, CommandsTouch
  <2>2. tskcnt' \in Int
    BY <2>1
  <2>3. sent' \in 0 .. MaxId
    BY <2>1
  <2> QED BY <2>1, <2>2, <2>3
<1>5. CASE Irq \/ RxFrame
  <2>1. UNCHANGED <<txq, tskcnt, idle, sent>>
    BY <1>5 DEF Irq, RxFrame
  <2>2. rxcnt' = rxcnt \/ rxcnt' = rxcnt + 1 \/ (rxcnt > 0 /\ rxcnt' = rxcnt - 1)
    BY <1>5, Zenon DEF Irq, RxFrame
  <2>3. rxcnt' \in Nat
    BY <2>2
  <2> QED BY <2>1, <2>3
<1>6. CASE Down \/ UNCHANGED vars
  BY <1>6 DEF Down, vars
<1>7. CASE Watchdog
  <2>1. UNCHANGED <<txq, tskcnt, rxcnt, sent>>
    BY <1>7 DEF Watchdog, WdTimer, WdTick, WdSleep, Suspend, ClockOff
  <2>2. idle' = idle \/ idle' = 0 \/ (idle < IdleTime /\ idle' = idle + 1)
    BY <1>7 DEF Watchdog, WdTimer, WdTick, WdSleep, Suspend, ClockOff
  <2> QED BY <2>1, <2>2
<1> QED BY <1>1, <1>2, <1>3, <1>4, <1>5, <1>6, <1>7 DEF Next, TxWorker

LEMMA StepWays == WaysOK /\ [Next]_vars => WaysOK'
<1> SUFFICES ASSUME WaysOK, [Next]_vars PROVE WaysOK'
  OBVIOUS
<1> USE DEF WaysOK, txVars, wdVars
<1>1. CASE SendPacket \/ TxStart \/ TxDataSent \/ TxCopy
  BY <1>1 DEF SendPacket, TxStart, TxDataSent, TxCopy
<1>2. CASE TxData \/ TxCtl
  <2>1. tx' \in {"off", "data", "copy"} /\ UNCHANGED <<state, wd>>
    BY <1>2 DEF TxData, TxCtl, Wake
  <2> QED BY <2>1
<1>3. CASE \E good \in BOOLEAN : TxCtlSent(good)
  BY <1>3 DEF TxCtlSent
<1>4. CASE Commands
  BY <1>4, CommandsTouch
<1>5. CASE Irq \/ RxFrame \/ Down \/ UNCHANGED vars
  BY <1>5 DEF Irq, RxFrame, Down, vars
<1>6. CASE Watchdog
  <2>1. UNCHANGED <<state, tx>>
    BY <1>6 DEF Watchdog, WdTimer, WdTick, WdSleep, Suspend, ClockOff
  <2>2. wd' \in {wd, "sleep", "wait"}
    BY <1>6 DEF Watchdog, WdTimer, WdTick, WdSleep, Suspend, ClockOff
  <2> QED BY <2>1, <2>2
<1> QED BY <1>1, <1>2, <1>3, <1>4, <1>5, <1>6 DEF Next, TxWorker

LEMMA StepSendFlags == SendFlagsOK /\ [Next]_vars => SendFlagsOK'
<1> SUFFICES ASSUME SendFlagsOK, [Next]_vars PROVE SendFlagsOK'
  OBVIOUS
<1> USE DEF txVars, ctlVars
<1>1. CASE SendPacket \/ TxDataSent
  <2>1. txoff' \in BOOLEAN
    <3>1. (txq' >= TxHi) \in BOOLEAN /\ (txoff /\ (state = "down" \/ txq >= TxLow)) \in BOOLEAN
      OBVIOUS
    <3>2. txoff' = (txq' >= TxHi) \/ txoff' = (txoff /\ (state = "down" \/ txq >= TxLow))
      BY <1>1, Zenon DEF SendPacket, TxDataSent
    <3> QED BY <3>1, <3>2, Zenon
  <2>2. (txWork' = txWork \/ txWork' = TRUE) /\ UNCHANGED <<ctl, success>>
    BY <1>1 DEF SendPacket, TxDataSent
  <2> QED BY <2>1, <2>2, Zenon DEF SendFlagsOK
<1>2. CASE TxStart \/ TxData \/ TxCtl \/ TxCopy
  <2>1. (txWork' = txWork \/ txWork' = FALSE) /\ UNCHANGED <<txoff, ctl, success>>
    BY <1>2 DEF TxStart, TxData, TxCtl, TxCopy
  <2> QED BY <2>1, Zenon DEF SendFlagsOK
<1>3. ASSUME NEW good \in BOOLEAN, TxCtlSent(good) PROVE SendFlagsOK'
  <2>1. UNCHANGED <<txoff, txWork>> /\ ctl' = FALSE /\ success' = good
    BY <1>3 DEF TxCtlSent
  <2> QED BY <2>1, Zenon DEF SendFlagsOK
<1>4. CASE Commands
  <2>1. /\ UNCHANGED txoff /\ (txWork' = txWork \/ txWork' = TRUE) /\ (ctl' = ctl \/ ctl' = TRUE)
        /\ success' = success \/ success' = FALSE
    BY <1>4, CommandsTouch
  <2> QED BY <2>1, Zenon DEF SendFlagsOK
<1>5. CASE Irq \/ RxFrame \/ Watchdog \/ Down \/ UNCHANGED vars
  <2>1. UNCHANGED <<txoff, txWork, ctl, success>>
    BY <1>5 DEF Irq, RxFrame, Watchdog, WdTimer, WdTick, WdSleep, Suspend, ClockOff, Down, vars
  <2> QED BY <2>1, Zenon DEF SendFlagsOK
<1> QED BY <1>1, <1>2, <1>3, <1>4, <1>5 DEF Next, TxWorker

LEMMA StepClockFlags == ClockFlagsOK /\ [Next]_vars => ClockFlagsOK'
<1> SUFFICES ASSUME ClockFlagsOK, [Next]_vars PROVE ClockFlagsOK'
  OBVIOUS
<1> USE DEF rxVars, wdVars
<1>1. CASE SendPacket \/ TxStart \/ TxDataSent \/ TxCopy \/ UNCHANGED vars
  <2>1. UNCHANGED <<rxWork, awake, timer, wait>>
    BY <1>1 DEF SendPacket, TxStart, TxDataSent, TxCopy, vars
  <2> QED BY <2>1, Zenon DEF ClockFlagsOK
<1>2. CASE TxData \/ TxCtl
  <2>1. /\ UNCHANGED <<rxWork, wait>> /\ (awake' = awake \/ awake' = TRUE)
        /\ timer' = timer \/ timer' = TRUE
    BY <1>2 DEF TxData, TxCtl, Wake
  <2> QED BY <2>1, Zenon DEF ClockFlagsOK
<1>3. ASSUME NEW good \in BOOLEAN, TxCtlSent(good) PROVE ClockFlagsOK'
  <2>1. UNCHANGED <<rxWork, awake, timer, wait>>
    BY <1>3 DEF TxCtlSent
  <2> QED BY <2>1, Zenon DEF ClockFlagsOK
<1>4. CASE Commands
  <2>1. UNCHANGED <<rxWork, awake, timer, wait>>
    BY <1>4, CommandsTouch
  <2> QED BY <2>1, Zenon DEF ClockFlagsOK
<1>5. CASE Irq \/ RxFrame
  <2>1. rxWork' \in BOOLEAN
    <3>1. (rxq' # << >>) \in BOOLEAN
      OBVIOUS
    <3>2. rxWork' = TRUE \/ rxWork' = FALSE \/ rxWork' = (rxq' # << >>)
      BY <1>5, Zenon DEF Irq, RxFrame
    <3> QED BY <3>1, <3>2, Zenon
  <2>2. UNCHANGED <<awake, timer, wait>>
    BY <1>5 DEF Irq, RxFrame
  <2> QED BY <2>1, <2>2, Zenon DEF ClockFlagsOK
<1>6. CASE WdTimer \/ Down
  <2>1. /\ UNCHANGED <<rxWork, awake>> /\ timer' = FALSE /\ (wait' = TRUE \/ wait' = FALSE)
    BY <1>6 DEF WdTimer, Down
  <2> QED BY <2>1, Zenon DEF ClockFlagsOK
<1>7. CASE WdTick
  <2>1. /\ wait' = FALSE /\ (timer' = timer \/ timer' = TRUE) /\ UNCHANGED <<rxWork, awake>>
    BY <1>7 DEF WdTick
  <2> QED BY <2>1, Zenon DEF ClockFlagsOK
<1>8. ASSUME NEW quiet \in BOOLEAN, WdSleep(quiet) \/ Suspend(quiet) PROVE ClockFlagsOK'
  <2>1. /\ UNCHANGED <<rxWork, wait>> /\ (awake' = awake \/ awake' = FALSE)
        /\ timer' = timer \/ timer' = TRUE \/ timer' = FALSE
    BY <1>8 DEF WdSleep, Suspend, ClockOff
  <2> QED BY <2>1, Zenon DEF ClockFlagsOK
<1> QED BY <1>1, <1>2, <1>3, <1>4, <1>5, <1>6, <1>7, <1>8 DEF Next, TxWorker, Watchdog

LEMMA StepSwitches == SwitchesOK /\ [Next]_vars => SwitchesOK'
  BY StepWays, StepSendFlags, StepClockFlags, Zenon DEF SwitchesOK

\* The number of a message is a u8: it stays one when reqid is counted.
LEMMA NumberWraps == ASSUME NEW n \in Ids PROVE (n + 1) % IdCount \in Ids
<1>1. IdCount \in Nat /\ IdCount > 0 /\ n + 1 \in Int
  BY BusAssumption DEF Ids
<1>2. (n + 1) % IdCount \in 0 .. IdCount - 1
  BY <1>1
<1> QED BY <1>2 DEF Ids

LEMMA StepCallersTyped ==
    ASSUME QueuesOK, MessagesOK, CallersOK, [Next]_vars PROVE CallersOK'
<1> USE DEF CallersOK, txVars, ctlVars, rxVars, callVars, wdVars, fwVars
<1>1. CASE SendPacket \/ TxWorker \/ Irq \/ RxFrame \/ Watchdog \/ Down \/ UNCHANGED vars
  BY <1>1 DEF SendPacket, TxWorker, TxStart, TxData, TxDataSent, TxCtl, TxCopy, TxCtlSent, Irq,
              RxFrame, Watchdog, WdTimer, WdTick, WdSleep, Suspend, ClockOff, Down, vars
<1>2. ASSUME NEW c \in Callers, Draw(c) PROVE CallersOK'
  <2>1. sent + 1 \in 0 .. MaxId
    BY <1>2, BusAssumption DEF Draw, QueuesOK
  <2>2. /\ pc' = [pc EXCEPT ![c] = "build"] /\ id' = [id EXCEPT ![c] = reqid]
        /\ cmd' = [cmd EXCEPT ![c] = sent + 1] /\ alone' \in {{}, {c}} /\ UNCHANGED <<reqid, told>>
    BY <1>2 DEF Draw, Goto
  <2> QED BY <2>1, <2>2 DEF Places
<1>3. ASSUME NEW c \in Callers, Build(c) PROVE CallersOK'
  <2>1. reqid' \in Ids
    BY <1>3, NumberWraps DEF Build
  <2>2. pc' = [pc EXCEPT ![c] = "fill"] /\ UNCHANGED <<id, cmd, alone, told>>
    BY <1>3 DEF Build, Goto
  <2> QED BY <2>1, <2>2 DEF Places
<1>4. ASSUME NEW c \in Callers, Fill(c) \/ ReadBack(c) \/ HandOver(c) PROVE CallersOK'
  <2>1. msg.num \in Ids
    BY DEF MessagesOK, Messages
  <2>2. id' \in {id, [id EXCEPT ![c] = msg.num]} /\ UNCHANGED <<reqid, cmd, alone, told>>
    BY <1>4 DEF Fill, ReadBack, HandOver
  <2>3. \E p \in Places : pc' = [pc EXCEPT ![c] = p]
    BY <1>4 DEF Fill, ReadBack, HandOver, Goto, Places
  <2> QED BY <2>1, <2>2, <2>3
<1>5. ASSUME NEW c \in Callers,
             CommandWake(c) \/ CommandSent(c) \/ Answer(c) \/ AnswerTimeout(c) \/ Compare(c)
      PROVE  CallersOK'
  <2>1. \/ /\ UNCHANGED <<id, cmd, told>> /\ alone' \in {alone, alone \ {c}}
           /\ \E p \in Places : pc' = [pc EXCEPT ![c] = p]
        \/ \E good \in BOOLEAN : Return(c, good)
    BY <1>5 DEF CommandWake, CommandSent, Answer, AnswerTimeout, Compare, Goto, Places
  <2>2. UNCHANGED reqid
    BY <1>5 DEF CommandWake, CommandSent, Answer, AnswerTimeout, Compare
  <2>3. ASSUME NEW good \in BOOLEAN, Return(c, good) PROVE CallersOK'
    <3>1. 0 \in Ids /\ 0 \in 0 .. MaxId
      BY BusAssumption DEF Ids
    <3> QED BY <2>2, <2>3, <3>1 DEF Return, Goto, Places
  <2> QED BY <2>1, <2>2, <2>3
<1> QED BY <1>1, <1>2, <1>3, <1>4, <1>5 DEF Next, Commands

LEMMA StepMessages ==
    ASSUME MessagesOK, CallersOK, [Next]_vars PROVE MessagesOK'
<1> USE DEF txVars, ctlVars, rxVars, callVars, wdVars, fwVars
<1>n. NoMessage \in Messages
  BY BusAssumption DEF NoMessage, Messages, Ids
<1>1. CASE SendPacket \/ TxStart \/ TxData \/ TxDataSent \/ Watchdog \/ Down \/ UNCHANGED vars
  BY <1>1 DEF MessagesOK, SendPacket, TxStart, TxData, TxDataSent, Watchdog, WdTimer, WdTick,
              WdSleep, Suspend, ClockOff, Down, vars
<1>2. CASE TxCtl \/ TxCopy
  <2>1. [frame EXCEPT !.num = msg.num] \in Messages /\ [frame EXCEPT !.body = msg.body] \in Messages
    BY DEF MessagesOK, Messages
  <2>2. /\ frame' \in {frame, [frame EXCEPT !.num = msg.num], [frame EXCEPT !.body = msg.body]}
        /\ UNCHANGED <<msg, rxbuf, rxq, inbox, carried>>
    BY <1>2 DEF TxCtl, TxCopy
  <2> QED BY <2>1, <2>2 DEF MessagesOK
<1>3. ASSUME NEW good \in BOOLEAN, TxCtlSent(good) PROVE MessagesOK'
  <2>1. /\ inbox' \in {inbox, Append(inbox, frame)} /\ frame' = NoMessage
        /\ UNCHANGED <<msg, rxbuf, rxq, carried>>
    BY <1>3 DEF TxCtlSent
  <2>2. Append(inbox, frame) \in Seq(Messages)
    BY AppendProperties DEF MessagesOK
  <2> QED BY <1>n, <2>1, <2>2 DEF MessagesOK
<1>4. ASSUME NEW c \in Callers, Draw(c) \/ Build(c) \/ Fill(c) PROVE MessagesOK'
  <2>1. 0 \in 0 .. MaxId /\ id[c] \in Ids /\ cmd[c] \in 0 .. MaxId
    BY BusAssumption DEF CallersOK
  <2>2. /\ [msg EXCEPT !.body = 0] \in Messages /\ [msg EXCEPT !.num = id[c]] \in Messages
        /\ [msg EXCEPT !.body = cmd[c]] \in Messages
    BY <2>1 DEF MessagesOK, Messages
  <2>3. /\ msg' \in {[msg EXCEPT !.body = 0], [msg EXCEPT !.num = id[c]], [msg EXCEPT !.body = cmd[c]]}
        /\ UNCHANGED <<frame, rxbuf, rxq, inbox, carried>>
    BY <1>4 DEF Draw, Build, Fill
  <2> QED BY <2>2, <2>3 DEF MessagesOK
<1>5. ASSUME NEW c \in Callers,
             ReadBack(c) \/ HandOver(c) \/ CommandWake(c) \/ CommandSent(c) \/ AnswerTimeout(c)
                \/ Compare(c)
      PROVE  MessagesOK'
  BY <1>5 DEF MessagesOK, ReadBack, HandOver, CommandWake, CommandSent, AnswerTimeout, Compare
<1>6. ASSUME NEW c \in Callers, Answer(c) PROVE MessagesOK'
  <2>1. msg' \in rxbuf /\ rxbuf' = {} /\ UNCHANGED <<frame, rxq, inbox, carried>>
    BY <1>6 DEF Answer
  <2> QED BY <2>1 DEF MessagesOK
<1>7. CASE Irq
  <2>1. /\ inbox # << >> /\ inbox' = Tail(inbox) /\ carried' = carried \cup {Head(inbox).body}
        /\ rxq' = Append(rxq, Head(inbox)) /\ UNCHANGED <<msg, frame, rxbuf>>
    BY <1>7 DEF Irq
  <2>2. Head(inbox) \in Messages /\ Tail(inbox) \in Seq(Messages)
    BY <2>1, HeadTailProperties DEF MessagesOK
  <2>3. Append(rxq, Head(inbox)) \in Seq(Messages)
    BY <2>2, AppendProperties DEF MessagesOK
  <2>4. Head(inbox).body \in 0 .. MaxId
    BY <2>2 DEF Messages
  <2> QED BY <2>1, <2>2, <2>3, <2>4 DEF MessagesOK
<1>8. CASE RxFrame
  <2>1. CASE rxq # << >> /\ rxbuf' = {Head(rxq)} /\ rxq' = Tail(rxq)
    <3>1. Head(rxq) \in Messages /\ Tail(rxq) \in Seq(Messages)
      BY <2>1, HeadTailProperties DEF MessagesOK
    <3>2. UNCHANGED <<msg, frame, inbox, carried>>
      BY <1>8 DEF RxFrame
    <3> QED BY <2>1, <3>1, <3>2 DEF MessagesOK
  <2>2. CASE UNCHANGED <<rxq, rxbuf>>
    BY <1>8, <2>2 DEF RxFrame, MessagesOK
  <2> QED BY <1>8, <2>1, <2>2 DEF RxFrame
<1> QED BY <1>1, <1>2, <1>3, <1>4, <1>5, <1>6, <1>7, <1>8 DEF Next, TxWorker, Commands

\* Every variable keeps its type: the number of a command stays within its u8, and a
\* message holds a number and a command or zeros, however it was put together.
THEOREM TypeCorrect == Spec => []TypeOK
<1>1. Init => TypeOK
  <2> SUFFICES ASSUME Init PROVE QueuesOK /\ SwitchesOK /\ MessagesOK /\ CallersOK
    BY TypeParts
  <2>1. 0 \in Ids /\ 0 \in 0 .. MaxId
    BY BusAssumption DEF Ids
  <2>2. QueuesOK
    BY BusAssumption DEF Init, QueuesOK
  <2>3. SwitchesOK
    BY DEF Init, SwitchesOK, WaysOK, SendFlagsOK, ClockFlagsOK
  <2>4. MessagesOK
    <3>1. NoMessage \in Messages
      BY <2>1 DEF NoMessage, Messages
    <3>2. << >> \in Seq(Messages) /\ <<NoMessage>> \in Seq(Messages)
      BY <3>1
    <3> QED BY <3>1, <3>2 DEF Init, MessagesOK
  <2>5. CallersOK
    BY <2>1 DEF Init, CallersOK, Places
  <2> QED BY <2>2, <2>3, <2>4, <2>5
<1>2. TypeOK /\ [Next]_vars => TypeOK'
  <2> SUFFICES ASSUME TypeOK, [Next]_vars PROVE TypeOK'
    OBVIOUS
  <2>1. QueuesOK /\ SwitchesOK /\ MessagesOK /\ CallersOK
    BY TypeParts
  <2>2. QueuesOK'
    BY <2>1, StepQueues
  <2>3. SwitchesOK'
    BY <2>1, StepSwitches
  <2>4. MessagesOK'
    BY <2>1, StepMessages
  <2>5. CallersOK'
    BY <2>1, StepCallersTyped
  <2> QED
    BY <2>2, <2>3, <2>4, <2>5
       DEF TypeOK, QueuesOK, SwitchesOK, WaysOK, SendFlagsOK, ClockFlagsOK, MessagesOK, CallersOK
<1> QED BY <1>1, <1>2, PTL DEF Spec

-----------------------------------------------------------------------------
(* Commands and answers *)

\* What a caller may meet without being misled: whatever has its number is about its
\* command.
Own(c) == {m \in Messages : m.num = id[c] => m.body = cmd[c]}

\* Messages about commands that were carried out.
Done == {m \in Messages : m.body \in carried}

\* Every answer on its way to a caller is to a command that was carried out.
AnswersAreTrue == rxq \in Seq(Done) /\ rxbuf \subseteq Done

\* A caller that is alone finds nothing misleading anywhere.
WayIsClear(c) ==
    /\ \A d \in Callers \ {c} : pc[d] = "idle"
    /\ inbox \in Seq(Own(c)) /\ rxq \in Seq(Own(c)) /\ rxbuf \subseteq Own(c)

\* The control frame is set from hand-over to transfer only, and the message, once
\* built, stays what it is until then.
MessageIsOwn(c) ==
    /\ pc[c] \in {"build", "fill", "read", "hand", "answer", "compare"} => ~ ctl
    /\ pc[c] = "fill" => msg.num = id[c]
    /\ pc[c] \in {"read", "hand", "wake", "sending"} => msg = [num |-> id[c], body |-> cmd[c]]
    /\ tx = "copy" => frame.num = msg.num
    /\ tx = "ctl" => frame = msg
    /\ pc[c] = "compare" => msg \in Own(c) /\ msg \in Done

AloneInv == \A c \in alone : pc[c] # "idle" /\ WayIsClear(c) /\ MessageIsOwn(c)

AnswerInv ==
    /\ tx \in {"copy", "ctl"} => ctl
    /\ AnswersAreTrue
    /\ AloneInv
    /\ OkMeansCarriedOut

\* What the argument is about; many actions leave it alone.
answerVars == <<tx, ctl, msg, frame, rxbuf, inbox, carried, id, cmd, pc, alone, told, rxq>>

LEMMA Undisturbed == ASSUME AnswerInv, UNCHANGED answerVars PROVE AnswerInv'
  BY DEF AnswerInv, answerVars, AnswersAreTrue, AloneInv, WayIsClear, MessageIsOwn, Own, Done,
         OkMeansCarriedOut

\* A sequence of things of one kind is one of another kind if each of them is.
LEMMA SeqOfKind ==
    ASSUME NEW S, NEW T, NEW s \in Seq(S), \A i \in DOMAIN s : s[i] \in T
    PROVE  s \in Seq(T)
  OBVIOUS

LEMMA SeqMonotone ==
    ASSUME NEW S, NEW T, S \subseteq T, NEW s \in Seq(S)
    PROVE  s \in Seq(T)
  OBVIOUS

\* The transmit worker, but for its copy.
LEMMA StepWorkerAnswers == ASSUME TypeOK, AnswerInv, TxStart \/ TxData \/ TxDataSent PROVE AnswerInv'
<1> USE DEF ctlVars, rxVars, callVars, fwVars
<1>1. /\ tx' \notin {"copy", "ctl"}
      /\ UNCHANGED <<ctl, msg, frame, rxbuf, inbox, carried, id, cmd, pc, alone, told, rxq>>
  BY DEF TxStart, TxData, TxDataSent
<1>2. ASSUME NEW c \in alone PROVE WayIsClear(c)' /\ MessageIsOwn(c)'
  <2>1. WayIsClear(c) /\ MessageIsOwn(c) /\ Own(c)' = Own(c) /\ Done' = Done
    BY <1>1 DEF AnswerInv, AloneInv, Own, Done
  <2>2. WayIsClear(c)'
    BY <1>1, <2>1 DEF WayIsClear
  <2>3. MessageIsOwn(c)'
    BY <1>1, <2>1 DEF MessageIsOwn
  <2> QED BY <2>2, <2>3
<1>3. AloneInv'
  BY <1>1, <1>2 DEF AnswerInv, AloneInv
<1> QED BY <1>1, <1>3 DEF AnswerInv, AnswersAreTrue, Done, OkMeansCarriedOut

\* It copies the message in two steps, and it was handed one.
LEMMA StepCopy == ASSUME TypeOK, AnswerInv, TxCtl \/ TxCopy PROVE AnswerInv'
<1> USE DEF ctlVars, rxVars, callVars, fwVars
<1>1. UNCHANGED <<ctl, msg, rxbuf, inbox, carried, id, cmd, pc, alone, told, rxq>>
  BY DEF TxCtl, TxCopy
<1>2. tx' \in {"copy", "ctl"} => ctl
  BY DEF TxCtl, TxCopy, AnswerInv
<1>3. frame \in Messages /\ msg \in Messages
  BY DEF TypeOK
<1>4. tx' = "copy" => frame'.num = msg.num
  <2>1. tx' = "copy" => frame' = [frame EXCEPT !.num = msg.num]
    BY DEF TxCtl, TxCopy
  <2> QED BY <1>3, <2>1 DEF Messages
<1>5. ASSUME NEW c \in alone, tx' = "ctl" PROVE frame' = msg
  <2>1. tx = "copy" /\ frame' = [frame EXCEPT !.body = msg.body]
    BY <1>5 DEF TxCtl, TxCopy
  <2>2. frame.num = msg.num
    BY <1>5, <2>1 DEF AnswerInv, AloneInv, MessageIsOwn
  <2> QED BY <1>3, <2>1, <2>2 DEF Messages
<1>6. ASSUME NEW c \in alone PROVE WayIsClear(c)' /\ MessageIsOwn(c)'
  <2>1. WayIsClear(c) /\ MessageIsOwn(c) /\ Own(c)' = Own(c) /\ Done' = Done
    BY <1>1 DEF AnswerInv, AloneInv, Own, Done
  <2>2. WayIsClear(c)'
    BY <1>1, <2>1 DEF WayIsClear
  <2>3. MessageIsOwn(c)'
    BY <1>1, <1>4, <1>5, <2>1 DEF MessageIsOwn
  <2> QED BY <2>2, <2>3
<1>7. AloneInv'
  BY <1>1, <1>6 DEF AnswerInv, AloneInv
<1> QED BY <1>1, <1>2, <1>7 DEF AnswerInv, AnswersAreTrue, Done, OkMeansCarriedOut

\* What it sends of a caller that is alone is the caller's message.
LEMMA StepSent == ASSUME TypeOK, AnswerInv, NEW good \in BOOLEAN, TxCtlSent(good) PROVE AnswerInv'
<1> USE DEF ctlVars, rxVars, callVars, fwVars
<1>1. /\ tx = "ctl" /\ tx' = "off" /\ ~ ctl' /\ inbox' \in {inbox, Append(inbox, frame)}
      /\ UNCHANGED <<msg, rxbuf, carried, id, cmd, pc, alone, told, rxq>>
  BY DEF TxCtlSent
<1>2. ASSUME NEW c \in alone
      PROVE  /\ pc[c] # "idle" /\ WayIsClear(c) /\ MessageIsOwn(c)
             /\ frame \in Own(c)
  <2>1. pc[c] # "idle" /\ WayIsClear(c) /\ MessageIsOwn(c) /\ ctl
    BY <1>1 DEF AnswerInv, AloneInv
  <2>2. pc[c] \in Places
    BY DEF TypeOK
  <2>3. frame = [num |-> id[c], body |-> cmd[c]]
    BY <1>1, <2>1, <2>2 DEF MessageIsOwn, Places
  <2>4. frame \in Messages
    BY DEF TypeOK
  <2> QED BY <2>1, <2>3, <2>4 DEF Own
<1>3. ASSUME NEW c \in alone PROVE WayIsClear(c)'
  <2>1. inbox \in Seq(Own(c)) /\ Append(inbox, frame) \in Seq(Own(c))
    BY <1>2, AppendProperties DEF WayIsClear
  <2>2. inbox' \in Seq(Own(c))
    BY <1>1, <2>1
  <2>3. Own(c)' = Own(c)
    BY <1>1 DEF Own
  <2> QED BY <1>1, <1>2, <2>2, <2>3 DEF WayIsClear
<1>4. ASSUME NEW c \in alone PROVE MessageIsOwn(c)'
  BY <1>1, <1>2 DEF MessageIsOwn, Own, Done
<1> QED BY <1>1, <1>2, <1>3, <1>4 DEF AnswerInv, AloneInv, AnswersAreTrue, Done, OkMeansCarriedOut

\* The firmware carries out a message and answers it, the answer goes to rxbuf.
LEMMA StepAnswers == ASSUME TypeOK, AnswerInv, Irq \/ RxFrame PROVE AnswerInv'
<1> USE DEF txVars, ctlVars, rxVars, callVars, fwVars
<1>1. CASE Irq
  <2>1. /\ inbox # << >> /\ inbox' = Tail(inbox) /\ carried' = carried \cup {Head(inbox).body}
        /\ rxq' = Append(rxq, Head(inbox))
        /\ UNCHANGED <<tx, ctl, msg, frame, rxbuf, id, cmd, pc, alone, told>>
    BY <1>1 DEF Irq
  <2>2. inbox \in Seq(Messages) /\ Head(inbox) \in Messages
    BY <2>1, HeadTailProperties DEF TypeOK
  <2>3. Done \subseteq Done' /\ Head(inbox) \in Done'
    BY <2>1, <2>2 DEF Done
  <2>4. AnswersAreTrue'
    <3>1. rxq \in Seq(Done')
      BY <2>3, SeqMonotone DEF AnswerInv, AnswersAreTrue
    <3>2. Append(rxq, Head(inbox)) \in Seq(Done')
      BY <2>3, <3>1, AppendProperties
    <3> QED BY <2>1, <2>3, <3>2 DEF AnswerInv, AnswersAreTrue
  <2>5. ASSUME NEW c \in alone PROVE WayIsClear(c)'
    <3>1. inbox \in Seq(Own(c)) /\ rxq \in Seq(Own(c)) /\ WayIsClear(c)
      BY DEF AnswerInv, AloneInv, WayIsClear
    <3>2. Head(inbox) \in Own(c) /\ Tail(inbox) \in Seq(Own(c))
      BY <2>1, <3>1, HeadTailProperties
    <3>3. Append(rxq, Head(inbox)) \in Seq(Own(c))
      BY <3>1, <3>2, AppendProperties
    <3>4. Own(c)' = Own(c)
      BY <2>1 DEF Own
    <3> QED BY <2>1, <3>1, <3>2, <3>3, <3>4 DEF WayIsClear
  <2>6. ASSUME NEW c \in alone PROVE MessageIsOwn(c)'
    <3>1. MessageIsOwn(c) /\ Own(c)' = Own(c)
      BY <2>1 DEF AnswerInv, AloneInv, Own
    <3> QED BY <2>1, <2>3, <3>1 DEF MessageIsOwn
  <2>7. OkMeansCarriedOut'
    BY <2>1 DEF AnswerInv, OkMeansCarriedOut
  <2> QED BY <2>1, <2>4, <2>5, <2>6, <2>7 DEF AnswerInv, AloneInv
<1>2. CASE RxFrame
  <2>1. UNCHANGED <<tx, ctl, msg, frame, inbox, carried, id, cmd, pc, alone, told>>
    BY <1>2 DEF RxFrame
  <2>2. CASE rxq # << >> /\ rxbuf' = {Head(rxq)} /\ rxq' = Tail(rxq)
    <3>1. AnswersAreTrue'
      <4>1. Head(rxq) \in Done /\ Tail(rxq) \in Seq(Done)
        BY <2>2, HeadTailProperties DEF AnswerInv, AnswersAreTrue
      <4>2. Done' = Done
        BY <2>1 DEF Done
      <4> QED BY <2>2, <4>1, <4>2 DEF AnswersAreTrue
    <3>2. ASSUME NEW c \in alone PROVE WayIsClear(c)'
      <4>1. WayIsClear(c)
        BY DEF AnswerInv, AloneInv
      <4>2. Head(rxq) \in Own(c) /\ Tail(rxq) \in Seq(Own(c))
        BY <2>2, <4>1, HeadTailProperties DEF WayIsClear
      <4>3. Own(c)' = Own(c)
        BY <2>1 DEF Own
      <4> QED BY <2>1, <2>2, <4>1, <4>2, <4>3 DEF WayIsClear
    <3>3. ASSUME NEW c \in alone PROVE MessageIsOwn(c)'
      BY <2>1 DEF AnswerInv, AloneInv, MessageIsOwn, Own, Done
    <3> QED BY <2>1, <3>1, <3>2, <3>3 DEF AnswerInv, AloneInv, OkMeansCarriedOut
  <2>3. CASE UNCHANGED <<rxq, rxbuf>>
    <3>1. UNCHANGED answerVars
      BY <2>1, <2>3 DEF answerVars
    <3> QED BY <3>1, Undisturbed
  <2> QED BY <1>2, <2>2, <2>3 DEF RxFrame
<1> QED BY <1>1, <1>2

\* Beside a caller that is alone no other is anywhere.
LEMMA OnlyAlone ==
    ASSUME TypeOK, AnswerInv, NEW c \in Callers, pc[c] # "idle" PROVE alone \subseteq {c}
  BY DEF TypeOK, AnswerInv, AloneInv, WayIsClear

\* A step of a caller that is alone, and stays so or is told something.
LEMMA StepOfOne ==
    ASSUME TypeOK, AnswerInv, NEW c \in Callers, pc[c] # "idle",
           UNCHANGED <<tx, frame, inbox, carried, rxq>>,
           rxbuf' \subseteq rxbuf, ctl' = ctl \/ ctl' = TRUE, alone' \subseteq alone,
           \A d \in Callers \ {c} : pc'[d] = pc[d],
           told' = told \/ told' \subseteq told \cup carried,
           c \in alone' => /\ pc'[c] # "idle" /\ id'[c] = id[c] /\ cmd'[c] = cmd[c]
                           /\ MessageIsOwn(c)'
    PROVE  AnswerInv'
<1>1. alone' \subseteq {c} /\ alone' \subseteq alone
  BY OnlyAlone
<1>2. ASSUME c \in alone' PROVE WayIsClear(c)'
  <2>1. WayIsClear(c)
    BY <1>2 DEF AnswerInv, AloneInv
  <2>2. Own(c)' = Own(c)
    BY <1>2 DEF Own
  <2> QED BY <2>1, <2>2 DEF WayIsClear
<1>3. AloneInv'
  BY <1>1, <1>2 DEF AloneInv
<1>4. AnswersAreTrue'
  BY DEF AnswerInv, AnswersAreTrue, Done
<1>5. OkMeansCarriedOut'
  BY DEF AnswerInv, OkMeansCarriedOut
<1>6. tx' \in {"copy", "ctl"} => ctl'
  BY DEF AnswerInv
<1> QED BY <1>3, <1>4, <1>5, <1>6 DEF AnswerInv

\* A caller that returns is alone no more.
LEMMA StepReturn ==
    ASSUME TypeOK, AnswerInv, NEW c \in Callers, pc[c] # "idle", NEW good \in BOOLEAN,
           Return(c, good), good /\ c \in alone => cmd[c] \in carried,
           UNCHANGED <<tx, frame, inbox, carried, rxq, ctl>>, rxbuf' \subseteq rxbuf
    PROVE  AnswerInv'
<1>1. alone' \subseteq alone /\ c \notin alone' /\ told' \subseteq told \cup carried
  BY DEF Return
<1>2. \A d \in Callers \ {c} : pc'[d] = pc[d]
  BY DEF Return, Goto, TypeOK
<1> QED BY <1>1, <1>2, StepOfOne

\* The caller begins: if it is alone, no message with its number is about.
LEMMA StepDraw == ASSUME TypeOK, AnswerInv, NEW c \in Callers, Draw(c) PROVE AnswerInv'
<1> USE DEF txVars, rxVars, fwVars
<1>1. /\ UNCHANGED <<tx, ctl, frame, rxbuf, inbox, carried, told, rxq>>
      /\ pc' = [pc EXCEPT ![c] = "build"] /\ id' = [id EXCEPT ![c] = reqid]
  BY DEF Draw, Goto
<1>2. alone' = {} \/ (/\ alone' = {c} /\ ~ ctl /\ NoneNumbered(reqid)
                      /\ \A d \in Callers \ {c} : pc[d] = "idle")
  BY DEF Draw
<1>3. ASSUME alone' = {c}, ~ ctl, NoneNumbered(reqid), \A d \in Callers \ {c} : pc[d] = "idle"
      PROVE  pc'[c] # "idle" /\ WayIsClear(c)' /\ MessageIsOwn(c)'
  <2>1. pc'[c] = "build" /\ id'[c] = reqid /\ \A d \in Callers \ {c} : pc'[d] = "idle"
    BY <1>1, <1>3 DEF TypeOK
  <2>2. inbox \in Seq(Messages) /\ rxq \in Seq(Messages) /\ rxbuf \subseteq Messages
    BY DEF TypeOK
  <2>3. \A m \in Messages : m.num # reqid => m \in Own(c)'
    BY <2>1 DEF Own
  <2>4. rxbuf \subseteq Own(c)'
    BY <1>3, <2>2, <2>3 DEF NoneNumbered
  <2>5. inbox \in Seq(Own(c)')
    <3>1. \A i \in DOMAIN inbox : inbox[i] \in Messages /\ inbox[i].num # reqid
      BY <1>3, <2>2 DEF NoneNumbered
    <3>2. \A i \in DOMAIN inbox : inbox[i] \in Own(c)'
      BY <2>3, <3>1
    <3> QED BY <2>2, <3>2, SeqOfKind
  <2>6. rxq \in Seq(Own(c)')
    <3>1. \A i \in DOMAIN rxq : rxq[i] \in Messages /\ rxq[i].num # reqid
      BY <1>3, <2>2 DEF NoneNumbered
    <3>2. \A i \in DOMAIN rxq : rxq[i] \in Own(c)'
      BY <2>3, <3>1
    <3> QED BY <2>2, <3>2, SeqOfKind
  <2>7. WayIsClear(c)'
    BY <1>1, <2>1, <2>4, <2>5, <2>6 DEF WayIsClear
  <2>8. tx' \notin {"copy", "ctl"} /\ ~ ctl'
    BY <1>1, <1>3 DEF AnswerInv
  <2> QED BY <2>1, <2>7, <2>8 DEF MessageIsOwn
<1>4. AloneInv'
  BY <1>2, <1>3 DEF AloneInv
<1> QED BY <1>1, <1>4 DEF AnswerInv, AnswersAreTrue, Done, OkMeansCarriedOut

\* It builds its message and hands it over: what another caller would disturb.
LEMMA StepMessage ==
    ASSUME TypeOK, AnswerInv, NEW c \in Callers, Build(c) \/ Fill(c) \/ ReadBack(c) \/ HandOver(c)
    PROVE  AnswerInv'
<1> USE DEF txVars, rxVars, fwVars, ctlVars
<1>1. /\ pc[c] # "idle" /\ UNCHANGED <<tx, frame, inbox, carried, rxq, rxbuf, cmd, alone, told>>
      /\ ctl' = ctl \/ ctl' = TRUE
  BY DEF Build, Fill, ReadBack, HandOver
<1>2. \A d \in Callers \ {c} : pc'[d] = pc[d]
  BY DEF Build, Fill, ReadBack, HandOver, Goto, TypeOK
<1>3. ASSUME c \in alone PROVE pc'[c] # "idle" /\ id'[c] = id[c] /\ MessageIsOwn(c)'
  <2>1. MessageIsOwn(c) /\ (tx \in {"copy", "ctl"} => ctl)
    BY <1>3 DEF AnswerInv, AloneInv
  <2>2. msg \in Messages /\ pc \in [Callers -> Places] /\ id \in [Callers -> Ids]
    BY DEF TypeOK
  <2>3. pc[c] \in {"build", "fill", "read", "hand"}
    BY DEF Build, Fill, ReadBack, HandOver
  <2>4. ~ ctl /\ tx \notin {"copy", "ctl"}
    BY <2>1, <2>3 DEF MessageIsOwn
  <2>5. CASE Build(c)
    <3>1. pc'[c] = "fill" /\ msg' = [msg EXCEPT !.num = id[c]] /\ UNCHANGED <<id, ctl>>
      BY <2>2, <2>5 DEF Build, Goto
    <3>2. msg'.num = id[c]
      BY <2>2, <3>1 DEF Messages
    <3> QED BY <1>1, <2>4, <3>1, <3>2 DEF MessageIsOwn
  <2>6. CASE Fill(c)
    <3>1. pc'[c] = "read" /\ msg' = [msg EXCEPT !.body = cmd[c]] /\ UNCHANGED <<id, ctl>>
          /\ pc[c] = "fill"
      BY <2>2, <2>6 DEF Fill, Goto
    <3>2. msg.num = id[c]
      BY <2>1, <3>1 DEF MessageIsOwn
    <3>3. msg' = [num |-> id[c], body |-> cmd[c]]
      BY <2>2, <3>1, <3>2 DEF Messages
    <3> QED BY <1>1, <2>4, <3>1, <3>3 DEF MessageIsOwn
  <2>7. CASE ReadBack(c)
    <3>1. pc'[c] = "hand" /\ id' = [id EXCEPT ![c] = msg.num] /\ UNCHANGED <<msg, ctl>>
          /\ pc[c] = "read"
      BY <2>2, <2>7 DEF ReadBack, Goto
    <3>2. msg = [num |-> id[c], body |-> cmd[c]]
      BY <2>1, <3>1 DEF MessageIsOwn
    <3>3. id'[c] = id[c]
      BY <2>2, <3>1, <3>2
    <3> QED BY <1>1, <2>4, <3>1, <3>2, <3>3 DEF MessageIsOwn
  <2>8. CASE HandOver(c)
    <3>1. pc'[c] = "wake" /\ UNCHANGED <<id, msg>> /\ pc[c] = "hand"
      BY <2>2, <2>8 DEF HandOver, Goto
    <3>2. msg = [num |-> id[c], body |-> cmd[c]]
      BY <2>1, <3>1 DEF MessageIsOwn
    <3> QED BY <1>1, <2>4, <3>1, <3>2 DEF MessageIsOwn
  <2> QED BY <2>5, <2>6, <2>7, <2>8
<1> QED BY <1>1, <1>2, <1>3, StepOfOne

\* It waits for the transfer.
LEMMA StepSending ==
    ASSUME TypeOK, AnswerInv, NEW c \in Callers, CommandWake(c) \/ CommandSent(c)
    PROVE  AnswerInv'
<1> USE DEF txVars, rxVars, fwVars, ctlVars
<1>1. /\ pc[c] # "idle"
      /\ UNCHANGED <<tx, frame, inbox, carried, rxq, rxbuf, ctl, msg>>
  BY DEF CommandWake, CommandSent
<1>2. CASE Return(c, FALSE)
  BY <1>1, <1>2, StepReturn
<1>3. CASE CommandWake(c) /\ Goto(c, "sending") /\ UNCHANGED <<cmd, id, alone, told>>
  <2>1. pc[c] = "wake" /\ pc'[c] = "sending" /\ \A d \in Callers \ {c} : pc'[d] = pc[d]
    BY <1>3 DEF CommandWake, Goto, TypeOK
  <2>2. ASSUME c \in alone PROVE MessageIsOwn(c)'
    <3>1. MessageIsOwn(c)
      BY <2>2 DEF AnswerInv, AloneInv
    <3> QED BY <1>1, <1>3, <2>1, <3>1 DEF MessageIsOwn
  <2> QED BY <1>1, <1>3, <2>1, <2>2, StepOfOne
<1>4. CASE Goto(c, "answer") /\ UNCHANGED <<cmd, id, told>>
           /\ alone' = IF ctl THEN alone \ {c} ELSE alone
  <2>1. pc'[c] = "answer" /\ \A d \in Callers \ {c} : pc'[d] = pc[d]
    BY <1>4 DEF Goto, TypeOK
  <2>2. alone' \subseteq alone /\ (c \in alone' => ~ ctl)
    BY <1>4
  <2>3. c \in alone' => MessageIsOwn(c)'
    BY <1>1, <2>1, <2>2 DEF MessageIsOwn, AnswerInv
  <2> QED BY <1>1, <1>4, <2>1, <2>2, <2>3, StepOfOne
<1> QED BY <1>2, <1>3, <1>4 DEF CommandWake, CommandSent

\* It takes an answer, and compares the number.
LEMMA StepResult ==
    ASSUME TypeOK, AnswerInv, NEW c \in Callers, Answer(c) \/ AnswerTimeout(c) \/ Compare(c)
    PROVE  AnswerInv'
<1> USE DEF txVars, rxVars, fwVars, ctlVars
<1>1. /\ pc[c] # "idle" /\ UNCHANGED <<tx, frame, inbox, carried, rxq, ctl>>
      /\ rxbuf' \subseteq rxbuf
  BY DEF Answer, AnswerTimeout, Compare
<1>2. CASE Return(c, FALSE)
  BY <1>1, <1>2, StepReturn
<1>3. CASE Answer(c) /\ Goto(c, "compare") /\ UNCHANGED <<cmd, id, alone, told>>
  <2>1. pc[c] = "answer" /\ pc'[c] = "compare" /\ \A d \in Callers \ {c} : pc'[d] = pc[d]
    BY <1>3 DEF Answer, Goto, TypeOK
  <2>2. ASSUME c \in alone PROVE MessageIsOwn(c)'
    <3>1. MessageIsOwn(c) /\ WayIsClear(c) /\ rxbuf \subseteq Done /\ (tx \in {"copy", "ctl"} => ctl)
      BY <2>2 DEF AnswerInv, AloneInv, AnswersAreTrue
    <3>2. ~ ctl /\ tx \notin {"copy", "ctl"}
      BY <2>1, <3>1 DEF MessageIsOwn
    <3>3. msg' \in Own(c) /\ msg' \in Done
      BY <1>3, <3>1 DEF Answer, WayIsClear
    <3>4. Own(c)' = Own(c) /\ Done' = Done
      BY <1>1, <1>3 DEF Own, Done
    <3> QED BY <1>1, <2>1, <3>2, <3>3, <3>4 DEF MessageIsOwn
  <2> QED BY <1>1, <1>3, <2>1, <2>2, StepOfOne
<1>4. ASSUME NEW good \in BOOLEAN, Compare(c), msg.num = id[c], Return(c, good) PROVE AnswerInv'
  <2>1. ASSUME c \in alone PROVE cmd[c] \in carried
    <3>1. MessageIsOwn(c) /\ pc[c] = "compare"
      BY <1>4, <2>1 DEF AnswerInv, AloneInv, Compare
    <3> QED BY <1>4, <3>1 DEF MessageIsOwn, Own, Done
  <2> QED BY <1>1, <1>4, <2>1, StepReturn
<1>5. CASE Compare(c) /\ Goto(c, "answer") /\ UNCHANGED <<cmd, id, alone, told>>
  <2>1. pc[c] = "compare" /\ pc'[c] = "answer" /\ \A d \in Callers \ {c} : pc'[d] = pc[d]
    BY <1>5 DEF Compare, Goto, TypeOK
  <2>2. ASSUME c \in alone PROVE MessageIsOwn(c)'
    <3>1. ~ ctl /\ tx \notin {"copy", "ctl"}
      BY <2>1, <2>2 DEF AnswerInv, AloneInv, MessageIsOwn
    <3> QED BY <1>1, <2>1, <3>1 DEF MessageIsOwn
  <2> QED BY <1>1, <1>5, <2>1, <2>2, StepOfOne
<1> QED BY <1>2, <1>3, <1>4, <1>5 DEF Answer, AnswerTimeout, Compare

LEMMA AnswersAlways == Spec => []AnswerInv
<1>1. Init => AnswerInv
  <2> SUFFICES ASSUME Init PROVE AnswerInv
    OBVIOUS
  <2>1. tx = "off" /\ alone = {} /\ told = {} /\ rxq = << >> /\ rxbuf = {}
    BY DEF Init
  <2> QED BY <2>1 DEF AnswerInv, AnswersAreTrue, AloneInv, OkMeansCarriedOut
<1>2. TypeOK /\ AnswerInv /\ [Next]_vars => AnswerInv'
  <2> SUFFICES ASSUME TypeOK, AnswerInv, [Next]_vars PROVE AnswerInv'
    OBVIOUS
  <2>1. CASE SendPacket \/ Watchdog \/ Down \/ UNCHANGED vars
    <3>1. UNCHANGED answerVars
      BY <2>1 DEF SendPacket, Watchdog, WdTimer, WdTick, WdSleep, Suspend, ClockOff, Down, vars,
                  answerVars, txVars, ctlVars, rxVars, callVars, wdVars, fwVars
    <3> QED BY <3>1, Undisturbed
  <2>2. CASE TxWorker
    BY <2>2, StepWorkerAnswers, StepCopy, StepSent DEF TxWorker
  <2>3. CASE Commands
    <3>1. PICK c \in Callers :
              \/ Draw(c) \/ Build(c) \/ Fill(c) \/ ReadBack(c) \/ HandOver(c)
              \/ CommandWake(c) \/ CommandSent(c)
              \/ Answer(c) \/ AnswerTimeout(c) \/ Compare(c)
      BY <2>3 DEF Commands
    <3> QED BY <3>1, StepDraw, StepMessage, StepSending, StepResult
  <2> QED BY <2>1, <2>2, <2>3, StepAnswers DEF Next
<1> QED BY <1>1, <1>2, TypeCorrect, PTL DEF Spec

\* A command that was alone and was told success was carried out: while it is alone,
\* neither its message nor its number can become another's, and every answer that has
\* its number is to it (wland_cmds.c:190-207, 303, 371).
THEOREM SuccessIsTrue == Spec => []OkMeansCarriedOut
<1>1. AnswerInv => OkMeansCarriedOut
  BY DEF AnswerInv
<1> QED BY <1>1, AnswersAlways, PTL

-----------------------------------------------------------------------------
(* The count of the transmit worker *)

\* The callers that set the control frame and have not yet called the worker.
Waking == {c \in Callers : pc[c] = "wake"}

\* What waits for the worker: packets, and at most one command.
Pending == txq + (IF ctl THEN 1 ELSE 0)

\* tx_dpc_tskcnt lags behind what is pending by at most the callers about to call
\* the worker.
Counted == tskcnt + Cardinality(Waking) >= Pending

\* A worker at rest was called, or will be, if anything is pending.
WorkerCalled ==
    /\ tx = "off" /\ Pending > 0 => txWork \/ Waking # {}
    /\ tx \in {"copy", "ctl"} /\ txq > 0 => txWork
    /\ txoff => txq >= TxLow \/ tx = "data"

WorkerInv == (tx \in {"copy", "ctl"} => ctl) /\ (state = "data" => Counted /\ WorkerCalled)

\* There are finitely many callers, so those about to call the worker can be
\* counted, and one more or one less makes a difference of one.
LEMMA WakingFinite ==
    /\ IsFiniteSet(Waking) /\ Cardinality(Waking) \in Nat
    /\ Cardinality(Waking) = 0 <=> Waking = {}
<1>1. Waking \subseteq Callers /\ IsFiniteSet(Callers)
  BY BusAssumption DEF Waking
<1>2. IsFiniteSet(Waking)
  BY <1>1, FS_Subset
<1> QED BY <1>2, FS_CardinalityType, FS_EmptySet

LEMMA WakingMore ==
    ASSUME TypeOK, NEW c \in Callers, pc[c] # "wake", pc' = [pc EXCEPT ![c] = "wake"]
    PROVE  Cardinality(Waking') = Cardinality(Waking) + 1 /\ Waking' # {}
<1>1. Waking' = Waking \cup {c} /\ c \notin Waking
  BY DEF Waking, TypeOK
<1> QED BY <1>1, WakingFinite, FS_AddElement

LEMMA WakingLess ==
    ASSUME TypeOK, NEW c \in Callers, pc[c] = "wake",
           NEW v, v # "wake", pc' = [pc EXCEPT ![c] = v]
    PROVE  Cardinality(Waking') = Cardinality(Waking) - 1
<1>1. Waking' = Waking \ {c} /\ c \in Waking
  BY DEF Waking, TypeOK
<1> QED BY <1>1, WakingFinite, FS_RemoveElement

LEMMA WakingSame ==
    ASSUME TypeOK, NEW c \in Callers, pc[c] # "wake",
           NEW v, v # "wake", pc' = [pc EXCEPT ![c] = v]
    PROVE  Waking' = Waking
  BY DEF Waking, TypeOK

\* The types the count depends on.
LEMMA CountTypes ==
    ASSUME TypeOK
    PROVE  /\ state \in {"data", "down"} /\ tx \in {"off", "loop", "data", "copy", "ctl"}
           /\ txq \in Nat /\ tskcnt \in Int /\ TxLow \in Nat /\ TxHi \in Nat /\ TxLow <= TxHi
           /\ ctl \in BOOLEAN
<1>1. txq \in Nat /\ tskcnt \in Int /\ TxLow \in Nat /\ TxHi \in Nat /\ TxLow <= TxHi
  BY BusAssumption DEF TypeOK
<1> QED BY <1>1 DEF TypeOK

\* A step that leaves all of it alone.
workerVars == <<state, txq, txoff, tskcnt, txWork, tx, ctl, pc>>

LEMMA WorkerElsewhere == ASSUME WorkerInv, UNCHANGED workerVars PROVE WorkerInv'
  BY DEF WorkerInv, workerVars, Counted, WorkerCalled, Waking, Pending

\* The network stack.
LEMMA StepPacket == ASSUME TypeOK, WorkerInv, SendPacket PROVE WorkerInv'
<1>1. /\ state = "data" /\ txq' = txq + 1 /\ tskcnt' = tskcnt + 1 /\ txWork' = TRUE
      /\ txoff' = (txq' >= TxHi) /\ UNCHANGED <<state, tx, ctl, pc>>
  BY DEF SendPacket, ctlVars, callVars
<1>2. Waking' = Waking /\ Cardinality(Waking) \in Nat
  BY <1>1, WakingFinite DEF Waking
<1>3. Counted'
  <2>1. Pending' = Pending + 1 /\ Pending \in Nat
    BY <1>1, CountTypes DEF Pending
  <2> QED BY <1>1, <1>2, <2>1, CountTypes DEF WorkerInv, Counted
<1>4. txoff' => txq' >= TxLow
  <2>1. txq' >= TxHi => txq' >= TxLow
    BY <1>1, CountTypes
  <2> QED BY <1>1, <2>1, Zenon
<1>5. WorkerCalled'
  BY <1>1, <1>4, Zenon DEF WorkerCalled
<1> QED BY <1>1, <1>3, <1>5, Zenon DEF WorkerInv

\* The worker.
LEMMA StepWorker == ASSUME TypeOK, WorkerInv, TxWorker PROVE WorkerInv'
<1> USE DEF ctlVars, callVars
<1>w. Cardinality(Waking) \in Nat /\ (Cardinality(Waking) = 0 <=> Waking = {})
  BY WakingFinite
<1>p. pc' = pc => Waking' = Waking
  BY DEF Waking
<1>1. CASE TxStart
  <2>1. /\ tx = "off" /\ tx' = IF tskcnt > 0 /\ state = "data" THEN "loop" ELSE "off"
        /\ UNCHANGED <<state, txq, txoff, tskcnt, ctl, pc>>
    BY <1>1 DEF TxStart
  <2>2. Counted' <=> Counted
    BY <1>p, <2>1 DEF Counted, Pending
  <2>3. state = "data" => WorkerCalled'
    BY <1>w, <1>p, <2>1, CountTypes DEF WorkerInv, WorkerCalled, Counted, Pending
  <2> QED BY <2>1, <2>2, <2>3 DEF WorkerInv
<1>2. CASE TxData
  <2>1. /\ tx = "loop" /\ txq > 0 /\ tx' \in {"data", "off"}
        /\ state = "data" => tx' = "data" /\ txq' = txq - 1 /\ tskcnt' = tskcnt - 1
        /\ UNCHANGED <<state, txoff, txWork, ctl, pc>>
    BY <1>2 DEF TxData, Wake
  <2>2. state = "data" => Counted'
    BY <1>w, <1>p, <2>1, CountTypes DEF WorkerInv, Counted, Pending
  <2>3. state = "data" => WorkerCalled'
    BY <2>1 DEF WorkerCalled
  <2> QED BY <2>1, <2>2, <2>3 DEF WorkerInv
<1>3. CASE TxDataSent
  <2>1. /\ tx = "data" /\ tx' = "loop"
        /\ txoff' = (txoff /\ (state = "down" \/ txq >= TxLow))
        /\ UNCHANGED <<state, txq, tskcnt, txWork, ctl, pc>>
    BY <1>3 DEF TxDataSent
  <2>2. Counted' <=> Counted
    BY <1>p, <2>1 DEF Counted, Pending
  <2>3. state = "data" => (txoff' => txq' >= TxLow)
    <3>1. txoff' => state = "down" \/ txq >= TxLow
      BY <2>1, Zenon
    <3> QED BY <2>1, <3>1
  <2>4. state = "data" => WorkerCalled'
    BY <2>1, <2>3 DEF WorkerCalled
  <2> QED BY <2>1, <2>2, <2>4 DEF WorkerInv
<1>4. CASE TxCtl
  <2>1. /\ tx = "loop" /\ txq = 0 /\ tx' \in {"copy", "off"} /\ (tx' = "copy" => ctl)
        /\ (state = "data" /\ ctl => tx' = "copy")
        /\ UNCHANGED <<state, txq, txoff, tskcnt, txWork, ctl, pc>>
    BY <1>4 DEF TxCtl, Wake
  <2>2. Counted' <=> Counted
    BY <1>p, <2>1 DEF Counted, Pending
  <2>3. state = "data" => WorkerCalled'
    <3>1. state = "data" /\ tx' = "off" => Pending' = 0
      BY <2>1 DEF Pending
    <3>2. state = "data" => (txoff' => txq' >= TxLow)
      BY <2>1 DEF WorkerInv, WorkerCalled
    <3>3. ~ (txq' > 0)
      BY <2>1
    <3>4. state = "data" /\ tx' = "off" => ~ (Pending' > 0)
      BY <3>1
    <3> QED BY <2>1, <3>2, <3>3, <3>4 DEF WorkerCalled
  <2> QED BY <2>1, <2>2, <2>3 DEF WorkerInv
<1>5. CASE TxCopy
  <2>1. tx = "copy" /\ tx' = "ctl" /\ UNCHANGED <<state, txq, txoff, tskcnt, txWork, ctl, pc>>
    BY <1>5 DEF TxCopy
  <2>2. Counted' <=> Counted
    BY <1>p, <2>1 DEF Counted, Pending
  <2>3. state = "data" => WorkerCalled'
    BY <2>1 DEF WorkerInv, WorkerCalled
  <2> QED BY <2>1, <2>2, <2>3 DEF WorkerInv
<1>6. ASSUME NEW good \in BOOLEAN, TxCtlSent(good) PROVE WorkerInv'
  <2>1. /\ tx = "ctl" /\ tx' = "off" /\ ctl' = FALSE /\ tskcnt' = tskcnt - 1 /\ ctl
        /\ UNCHANGED <<state, txq, txoff, txWork, pc>>
    BY <1>6 DEF TxCtlSent, WorkerInv
  <2>2. Pending' = txq /\ Pending = txq + 1
    BY <2>1, CountTypes DEF Pending
  <2>3. state = "data" => Counted'
    BY <1>w, <1>p, <2>1, <2>2, CountTypes DEF WorkerInv, Counted
  <2>4. state = "data" => WorkerCalled'
    BY <2>1, <2>2, CountTypes DEF WorkerInv, WorkerCalled
  <2> QED BY <2>1, <2>3, <2>4 DEF WorkerInv
<1> QED BY <1>1, <1>2, <1>3, <1>4, <1>5, <1>6 DEF TxWorker

\* The callers of commands: handing over adds to what is pending, the call of the
\* worker to the count.
LEMMA StepCallers == ASSUME TypeOK, WorkerInv, Commands PROVE WorkerInv'
<1> USE DEF txVars, ctlVars
<1>w. Cardinality(Waking) \in Nat /\ (Cardinality(Waking) = 0 <=> Waking = {})
  BY WakingFinite
<1>1. UNCHANGED <<state, txq, txoff, tx>>
  BY CommandsTouch
<1> PICK c \in Callers :
        \/ Draw(c) \/ Build(c) \/ Fill(c) \/ ReadBack(c) \/ HandOver(c)
        \/ CommandWake(c) \/ CommandSent(c)
        \/ Answer(c) \/ AnswerTimeout(c) \/ Compare(c)
  BY DEF Commands
<1>2. CASE HandOver(c)
  <2>1. /\ pc[c] = "hand" /\ pc' = [pc EXCEPT ![c] = "wake"] /\ ctl' = TRUE
        /\ UNCHANGED <<tskcnt, txWork>>
    BY <1>2 DEF HandOver, Goto
  <2>2. Cardinality(Waking') = Cardinality(Waking) + 1 /\ Waking' # {}
    BY <2>1, WakingMore
  <2>3. Pending' <= Pending + 1 /\ Pending' \in Nat /\ Pending \in Nat
    BY <1>1, <2>1, CountTypes DEF Pending
  <2>4. state = "data" => Counted'
    BY <1>1, <1>w, <2>1, <2>2, <2>3, CountTypes DEF WorkerInv, Counted
  <2>5. state = "data" => WorkerCalled'
    BY <1>1, <2>1, <2>2 DEF WorkerInv, WorkerCalled
  <2> QED BY <1>1, <2>1, <2>4, <2>5 DEF WorkerInv
<1>3. CASE CommandWake(c)
  <2>1. /\ pc[c] = "wake" /\ UNCHANGED ctl
        /\ state = "data" => /\ tskcnt' = tskcnt + 1 /\ txWork' = TRUE
                             /\ pc' = [pc EXCEPT ![c] = "sending"]
    BY <1>3 DEF CommandWake, Goto
  <2>2. state = "data" => Cardinality(Waking') = Cardinality(Waking) - 1
    BY <2>1, WakingLess
  <2>3. Pending' = Pending /\ Pending \in Nat
    BY <1>1, <2>1, CountTypes DEF Pending
  <2>4. state = "data" => Counted'
    BY <1>1, <1>w, <2>1, <2>2, <2>3, CountTypes DEF WorkerInv, Counted
  <2>5. state = "data" => WorkerCalled'
    BY <1>1, <2>1 DEF WorkerInv, WorkerCalled
  <2> QED BY <1>1, <2>1, <2>4, <2>5 DEF WorkerInv
<1>4. CASE \/ Draw(c) \/ Build(c) \/ Fill(c) \/ ReadBack(c) \/ CommandSent(c)
           \/ Answer(c) \/ AnswerTimeout(c) \/ Compare(c)
  <2>1. pc[c] # "wake" /\ UNCHANGED <<tskcnt, txWork, ctl>>
    BY <1>4 DEF Draw, Build, Fill, ReadBack, CommandSent, Answer, AnswerTimeout, Compare
  <2>2. \E v \in Places \ {"wake"} : pc' = [pc EXCEPT ![c] = v]
    BY <1>4 DEF Draw, Build, Fill, ReadBack, CommandSent, Answer, AnswerTimeout, Compare, Return,
                Goto, Places
  <2>3. Waking' = Waking
    BY <2>1, <2>2, WakingSame
  <2> QED BY <1>1, <2>1, <2>3 DEF WorkerInv, Counted, WorkerCalled, Pending
<1> QED BY <1>2, <1>3, <1>4

LEMMA WorkerAlways == Spec => []WorkerInv
<1>1. Init => WorkerInv
  <2> SUFFICES ASSUME Init PROVE WorkerInv
    OBVIOUS
  <2>1. Waking = {} /\ Cardinality(Waking) = 0
    BY WakingFinite DEF Init, Waking
  <2>2. Pending = 0 /\ tskcnt = 0 /\ tx = "off" /\ txoff = FALSE
    BY DEF Init, Pending
  <2> QED BY <2>1, <2>2 DEF WorkerInv, Counted, WorkerCalled
<1>2. TypeOK /\ WorkerInv /\ [Next]_vars => WorkerInv'
  <2> SUFFICES ASSUME TypeOK, WorkerInv, [Next]_vars PROVE WorkerInv'
    OBVIOUS
  <2>1. CASE Irq \/ RxFrame \/ Watchdog \/ UNCHANGED vars
    <3>1. UNCHANGED workerVars
      BY <2>1 DEF Irq, RxFrame, Watchdog, WdTimer, WdTick, WdSleep, Suspend, ClockOff,
                  vars, workerVars, txVars, ctlVars, rxVars, callVars, wdVars, fwVars
    <3> QED BY <3>1, WorkerElsewhere
  <2>2. CASE Down
    <3>1. state' = "down" /\ UNCHANGED <<tx, ctl>>
      BY <2>2 DEF Down, txVars, ctlVars
    <3> QED BY <3>1 DEF WorkerInv
  <2> QED BY <2>1, <2>2, StepPacket, StepWorker, StepCallers DEF Next
<1> QED BY <1>1, <1>2, TypeCorrect, PTL DEF Spec

\* tx_dpc_tskcnt never loses what is to be sent, and a network stack that was
\* stopped at TXHI is started again: for any number of callers.
THEOREM WorkerComes == Spec => []NothingStalls
<1>1. TypeOK /\ WorkerInv => NothingStalls
  <2> SUFFICES ASSUME TypeOK, WorkerInv, state = "data" PROVE NothingStalls
    BY DEF NothingStalls
  <2>1. /\ Cardinality(Waking) = 0 <=> Waking = {}
        /\ Cardinality(Waking) \in Nat
        /\ Waking # {} <=> \E c \in Callers : pc[c] = "wake"
    BY WakingFinite DEF Waking
  <2>2. ASSUME txq > 0 \/ ctl, tx = "off", Waking = {} PROVE txWork /\ tskcnt > 0
    <3>1. Pending > 0 /\ tskcnt >= Pending /\ Pending \in Nat
      BY <2>1, <2>2, CountTypes DEF WorkerInv, Counted, Pending
    <3>2. txWork
      BY <2>2, <3>1 DEF WorkerInv, WorkerCalled
    <3>3. tskcnt > 0
      BY <3>1, CountTypes
    <3> QED BY <3>2, <3>3
  <2>3. txoff => txq >= TxLow \/ tx = "data"
    BY DEF WorkerInv, WorkerCalled
  <2> QED BY <2>1, <2>2, <2>3 DEF NothingStalls
<1> QED BY <1>1, WorkerAlways, TypeCorrect, PTL

=============================================================================
