------------------------------- MODULE RdaMmc -------------------------------
(***************************************************************************)
(* An SD/MMC host (rda_mmc.c): the thread inside rda_mmc_request, the      *)
(* controller's interrupt and its tasklet, and the card detection          *)
(* interrupt, around one completion and one IFC channel.                   *)
(*                                                                         *)
(* The AP has one core: an interrupt handler is one step, and so is the    *)
(* tasklet, which runs before the interrupted thread goes on.  The thread  *)
(* is cut wherever an interrupt between two statements could matter.       *)
(***************************************************************************)
EXTENDS Ifc

CONSTANTS
    Host,           \* the request id of this host
    Other,          \* another user of the IFC channels
    Directions,     \* of the requests: subset of {"read", "write"}
    Parts,          \* into how many transfers a request is cut: 1, or 2 on an eMMC
    MaxRequests,    \* bound: requests issued
    MaxDetects,     \* bound: changes of the card slot
    Punctual        \* no interrupt for a transfer that was stopped or timed out

ASSUME MmcAssumption ==
    /\ Host \in Requests /\ Other \in Requests /\ Host # Other
    /\ Directions \subseteq {"read", "write"}
    /\ Parts \subseteq {1, 2}
    /\ MaxRequests \in Nat /\ MaxDetects \in Nat
    /\ Punctual \in BOOLEAN

VARIABLES
    pc,         \* where the thread is in rda_mmc_request
    after,      \* where it goes from hal_data_transfer_stop
    arg,        \* the channel number in a local variable of the thread
    req,        \* the request: direction, parts left, errors, result
    channel,    \* transfer->channel
    hasData,    \* host->data # NULL
    done,       \* the count of req_done
    dataErr,    \* host->data_err
    tasklet,    \* finish_tasklet is scheduled
    present,    \* host->present: the card is in the slot
    answers,    \* the card is the one that was initialised
    hw,         \* the controller: "idle", "busy", "dead" (nothing will come)
    end,        \* how the last transfer ended: "good", "short", "badcrc", "error"
    requests,   \* bound: requests issued
    detects,    \* bound: changes of the slot
    owed,       \* ghost: parts of this request whose data has not arrived
    trouble,    \* ghost: something went wrong with this request
    bounced     \* ghost: a card was back before the thread saw it go

thread == <<pc, after, arg, req, hasData>>
irq == <<dataErr, tasklet, end>>
slot == <<present, answers, detects>>
ghost == <<owed, trouble, bounced>>
vars == <<ifcVars, thread, channel, done, irq, slot, hw, requests, ghost>>

NoRequestYet ==
    [dir |-> "read", parts |-> 0, cmdError |-> FALSE, dataError |-> FALSE,
     ret |-> FALSE, transferDone |-> FALSE]

Pcs == {"idle", "choose", "take", "init", "command", "answer", "wait",
        "expired", "stop", "release", "stopcmd", "judge", "part", "end", "lost"}

TypeOK ==
    /\ IfcTypeOK
    /\ pc \in Pcs /\ after \in {"end", "stopcmd", "part"}
    /\ arg \in Channels \cup {NoChannel}
    /\ req \in [dir : {"read", "write"}, parts : 0 .. 2, cmdError : BOOLEAN,
                dataError : BOOLEAN, ret : BOOLEAN, transferDone : BOOLEAN]
    /\ channel \in Channels \cup {NoChannel}
    /\ hasData \in BOOLEAN /\ done \in Nat
    /\ dataErr \in BOOLEAN /\ tasklet \in BOOLEAN
    /\ end \in {"good", "short", "badcrc", "error"}
    /\ present \in BOOLEAN /\ answers \in BOOLEAN
    /\ hw \in {"idle", "busy", "dead"}
    /\ requests \in 0 .. MaxRequests /\ detects \in 0 .. MaxDetects
    /\ owed \in 0 .. 2 /\ trouble \in BOOLEAN /\ bounced \in BOOLEAN

Init ==
    /\ IfcInit
    /\ pc = "idle" /\ after = "end" /\ arg = NoChannel
    /\ req = NoRequestYet /\ channel = NoChannel /\ hasData = FALSE
    /\ done = 0 /\ dataErr = FALSE /\ tasklet = FALSE /\ end = "good"
    /\ present = TRUE /\ answers = TRUE /\ hw = "idle"
    /\ requests = 0 /\ detects = 0 /\ owed = 0 /\ trouble = FALSE
    /\ bounced = FALSE

-----------------------------------------------------------------------------
\* The thread.

\* A request with data: rda_mmc_request up to the first __do_data_transfer.
\* The MMC core sends them to a card it has initialised.
Request(d, n) ==
    /\ pc = "idle" /\ requests < MaxRequests
    /\ requests' = requests + 1
    /\ req' = [NoRequestYet EXCEPT !.dir = d, !.parts = n]
    /\ hasData' = TRUE
    /\ pc' = "choose"
    /\ owed' = n /\ trouble' = FALSE
    /\ answers' = present
    /\ UNCHANGED <<ifcVars, after, arg, channel, done, irq, present, detects, hw,
                   bounced>>

\* The read of get_ch in ifc_transfer_start.
Choose ==
    /\ pc = "choose"
    /\ \E c \in Channels \cup {NoChannel} : GetCh(c) /\ arg' = c
    /\ pc' = "take"
    /\ UNCHANGED <<owner, count, map, failed, after, req, hasData, channel,
                   done, irq, slot, hw, requests, ghost>>

StartTransfer ==
    /\ pc = "take" /\ arg # NoChannel
    /\ Take(Host, arg)
    /\ channel' = arg
    /\ pc' = "init"
    /\ UNCHANGED <<taken, after, arg, req, hasData, done, irq, slot, hw,
                   requests, ghost>>

StartRefused ==
    /\ pc = "take" /\ arg = NoChannel
    /\ channel' = NoChannel
    /\ req' = [req EXCEPT !.cmdError = TRUE, !.ret = TRUE]
    /\ trouble' = TRUE
    /\ pc' = "end"
    /\ UNCHANGED <<ifcVars, after, arg, hasData, done, irq, slot, hw, requests,
                   owed, bounced>>

InitCompletion ==
    /\ pc = "init"
    /\ done' = 0
    /\ pc' = "command"
    /\ UNCHANGED <<ifcVars, after, arg, req, hasData, channel, irq, slot, hw,
                   requests, ghost>>

\* Writing SDMMC_CONFIG starts the command and its data.
SendCommand ==
    /\ pc = "command"
    /\ hw' = IF answers THEN "busy" ELSE "idle"
    /\ pc' = "answer"
    /\ UNCHANGED <<ifcVars, after, arg, req, hasData, channel, done, irq, slot,
                   requests, ghost>>

CommandDone ==
    /\ pc = "answer" /\ answers
    /\ pc' = "wait"
    /\ UNCHANGED <<ifcVars, after, arg, req, hasData, channel, done, irq, slot,
                   hw, requests, ghost>>

\* Faulty variant: the transfer is not stopped.
CommandFailsHolding ==
    /\ pc = "answer"
    /\ req' = [req EXCEPT !.cmdError = TRUE, !.ret = TRUE]
    /\ trouble' = TRUE
    /\ pc' = "end" /\ after' = "end"
    /\ UNCHANGED <<ifcVars, arg, hasData, channel, done, irq, slot, hw, requests,
                   owed, bounced>>

\* No end of the command within 100 ms, no response, or one with a bad CRC.
CommandFails ==
    /\ pc = "answer"
    /\ req' = [req EXCEPT !.cmdError = TRUE, !.ret = TRUE]
    /\ trouble' = TRUE
    /\ pc' = "stop" /\ after' = "end"
    /\ UNCHANGED <<ifcVars, arg, hasData, channel, done, irq, slot, hw, requests,
                   owed, bounced>>

Wake ==
    /\ pc = "wait" /\ done > 0
    /\ done' = done - 1
    /\ req' = [req EXCEPT !.transferDone = TRUE]
    /\ pc' = "judge"
    /\ UNCHANGED <<ifcVars, after, arg, hasData, channel, irq, slot, hw,
                   requests, ghost>>

\* The wait ends after five seconds.
Expire ==
    /\ pc = "wait" /\ done = 0
    /\ Punctual => hw # "busy"
    /\ trouble' = TRUE
    /\ pc' = "expired"
    /\ UNCHANGED <<ifcVars, after, arg, req, hasData, channel, done, irq, slot,
                   hw, requests, owed, bounced>>

\* ifc_transfer_get_tc, for the message.
Expired ==
    /\ pc = "expired"
    /\ IF Owns(Host, channel) THEN UNCHANGED ifcVars ELSE Bug /\ UNCHANGED <<count, map>>
    /\ pc' = "stop" /\ after' = "stopcmd"
    /\ UNCHANGED <<arg, req, hasData, channel, done, irq, slot, hw, requests, ghost>>

\* With a block count of zero the controller stops.
Stopped == hw' = IF Punctual THEN "idle" ELSE hw

Flushes == present /\ hasData /\ req.dir = "read"

\* hal_data_transfer_stop: the flush, with its BUG_ONs, and the vote.
Stop ==
    /\ pc = "stop" /\ channel # NoChannel
    /\ IF Flushes => Owns(Host, channel)
       THEN Put(channel) /\ UNCHANGED <<owner, taken, failed>>
       ELSE Bug /\ UNCHANGED <<count, map>>
    /\ Stopped
    /\ arg' = channel
    /\ pc' = "release"
    /\ UNCHANGED <<after, req, hasData, channel, done, irq, slot, requests, ghost>>

StopNothing ==
    /\ pc = "stop" /\ channel = NoChannel
    /\ Stopped
    /\ pc' = after
    /\ UNCHANGED <<ifcVars, after, arg, req, hasData, channel, done, irq, slot,
                   requests, ghost>>

\* Faulty variant: transfer->channel is left as it was.
StopReleaseKeeping ==
    /\ pc = "release"
    /\ IF Owns(Host, arg) THEN Free(arg) ELSE Bug
    /\ pc' = after
    /\ UNCHANGED <<count, map, channel, after, arg, req, hasData, done, irq,
                   slot, hw, requests, ghost>>

StopRelease ==
    /\ pc = "release"
    /\ IF Owns(Host, arg) THEN Free(arg) ELSE Bug
    /\ channel' = NoChannel
    /\ pc' = after
    /\ UNCHANGED <<count, map, after, arg, req, hasData, done, irq, slot, hw,
                   requests, ghost>>

\* Faulty variant: the timeout is returned, but transfer_done decides alone.
StopCommandSilently ==
    /\ pc = "stopcmd"
    /\ req' = [req EXCEPT !.cmdError = TRUE, !.dataError = TRUE]
    /\ pc' = "judge"
    /\ UNCHANGED <<ifcVars, after, arg, hasData, channel, done, irq, slot, hw,
                   requests, ghost>>

\* CMD12 after a timeout, and the errors of the request.
StopCommand ==
    /\ pc = "stopcmd"
    /\ req' = [req EXCEPT !.cmdError = TRUE, !.dataError = TRUE, !.ret = TRUE]
    /\ pc' = "judge"
    /\ UNCHANGED <<ifcVars, after, arg, hasData, channel, done, irq, slot, hw,
                   requests, ghost>>

\* Is there still a card?  With an error the transfer is stopped (again).
Judge ==
    /\ pc = "judge"
    /\ req' = IF present THEN req
              ELSE [req EXCEPT !.cmdError = TRUE, !.dataError = TRUE]
    /\ pc' = IF req'.dataError THEN "stop" ELSE "part"
    /\ after' = "part"
    /\ UNCHANGED <<ifcVars, arg, hasData, channel, done, irq, slot, hw,
                   requests, ghost>>

\* Faulty variant: only an error ends the request.
PartEndsNever ==
    /\ pc = "part"
    /\ req' = [req EXCEPT !.parts = @ - 1]
    /\ pc' = IF ~req.ret THEN "choose" ELSE "end"
    /\ UNCHANGED <<ifcVars, after, arg, hasData, channel, done, irq, slot, hw,
                   requests, ghost>>

\* The end of __do_data_transfer: the other blocks of an eMMC request follow
\* unless it returned an error.
PartEnds ==
    /\ pc = "part"
    /\ req' = [req EXCEPT !.parts = @ - 1]
    /\ pc' = IF req.parts > 1 /\ ~req.ret THEN "choose" ELSE "end"
    /\ UNCHANGED <<ifcVars, after, arg, hasData, channel, done, irq, slot, hw,
                   requests, ghost>>

\* mmc_request_done, if there was an error or transfer_done is set.
RequestEnds ==
    /\ pc = "end"
    /\ hasData' = FALSE
    /\ pc' = IF req.ret \/ req.transferDone THEN "idle" ELSE "lost"
    /\ UNCHANGED <<ifcVars, after, arg, req, channel, done, irq, slot, hw,
                   requests, ghost>>

Thread ==
    /\ ~tasklet
    /\ \/ \E d \in Directions, n \in Parts : Request(d, n)
       \/ Choose \/ StartTransfer \/ StartRefused \/ InitCompletion
       \/ SendCommand \/ CommandDone \/ CommandFails
       \/ Wake \/ Expire \/ Expired
       \/ Stop \/ StopNothing \/ StopRelease \/ StopCommand
       \/ Judge \/ PartEnds \/ RequestEnds

-----------------------------------------------------------------------------
\* The interrupts and the tasklet.

\* rda_mmc_irq, when the controller ends a transfer in one of the ways it can.
Irq(e) ==
    /\ hw = "busy"
    /\ e = "badcrc" => req.dir = "write"
    /\ hw' = "idle"
    /\ end' = e
    /\ dataErr' = (dataErr \/ (present /\ e = "error"))
    /\ tasklet' = (tasklet \/ (present /\ (e = "error" \/ hasData)))
    /\ owed' = IF e = "good" /\ owed > 0 THEN owed - 1 ELSE owed
    /\ trouble' = (trouble \/ e # "good")
    /\ UNCHANGED <<ifcVars, thread, channel, done, slot, requests, bounced>>

\* The controller never reports the transfer.
Silence ==
    /\ hw = "busy"
    /\ hw' = "dead"
    /\ UNCHANGED <<ifcVars, thread, channel, done, irq, slot, requests, ghost>>

\* ifc_transfer_stop inside the tasklet, with the BUG_ONs in front of it.
StopAtOnce ==
    /\ IF Owns(Host, channel)
       THEN Put(channel) /\ Free(channel)
       ELSE Bug /\ UNCHANGED <<count, map>>
    /\ channel' = NoChannel

\* do_data_abort
Abort ==
    /\ IF channel = NoChannel \/ ~hasData
       THEN UNCHANGED ifcVars /\ channel' = NoChannel
       ELSE StopAtOnce
    /\ req' = [req EXCEPT !.cmdError = @ \/ pc # "idle",
                          !.dataError = @ \/ hasData]

\* Faulty variant: a transfer that left bytes behind counts as complete.
CompleteShort ==
    IF ~hasData \/ channel = NoChannel
    THEN UNCHANGED <<ifcVars, channel, req>>
    ELSE /\ StopAtOnce
         /\ req' = [req EXCEPT !.dataError = @ \/ end = "badcrc"]

\* do_data_complete
Complete ==
    IF ~hasData \/ channel = NoChannel
    THEN UNCHANGED <<ifcVars, channel, req>>
    ELSE /\ StopAtOnce
         /\ req' = [req EXCEPT !.dataError =
                        @ \/ end = "short" \/ (req.dir = "write" /\ end = "badcrc")]

\* Faulty variant: data_err stays set after the abort.
TaskletStale ==
    /\ tasklet
    /\ IF dataErr THEN Abort ELSE Complete
    /\ done' = done + 1
    /\ tasklet' = FALSE
    /\ UNCHANGED <<dataErr, pc, after, arg, hasData, end, slot, hw, requests, ghost>>

\* tasklet_worker
Tasklet ==
    /\ tasklet
    /\ IF dataErr THEN Abort ELSE Complete
    /\ done' = done + 1
    /\ dataErr' = FALSE
    /\ tasklet' = FALSE
    /\ UNCHANGED <<pc, after, arg, hasData, end, slot, hw, requests, ghost>>

\* rda_mmc_det_irq, when the card goes.
Remove ==
    /\ present /\ detects < MaxDetects
    /\ detects' = detects + 1
    /\ present' = FALSE /\ answers' = FALSE
    /\ done' = IF hasData THEN done + 1 ELSE done
    /\ trouble' = TRUE
    /\ UNCHANGED <<ifcVars, thread, channel, irq, hw, requests, owed, bounced>>

\* The removal woke a thread that still has the channel of its transfer, and
\* which has not looked at host->present yet.
Unseen == pc \in {"wait", "judge"} /\ channel # NoChannel

\* rda_mmc_det_irq, when it comes (back).  Nothing debounces the pin.
Insert ==
    /\ ~present /\ detects < MaxDetects
    /\ detects' = detects + 1
    /\ present' = TRUE
    /\ bounced' = (bounced \/ Unseen)
    /\ UNCHANGED <<answers, ifcVars, thread, channel, done, irq, hw, requests,
                   owed, trouble>>

\* Another user of the engine takes and returns channels.
OtherStarts ==
    /\ \E c \in Channels : GetCh(c) /\ Take(Other, c)
    /\ UNCHANGED <<thread, channel, done, irq, slot, hw, requests, ghost>>

OtherStops ==
    /\ \E c \in Channels : owner[c] = Other /\ Put(c) /\ Free(c)
    /\ UNCHANGED <<thread, channel, done, irq, slot, hw, requests, ghost>>

Next ==
    /\ ~failed
    /\ \/ Thread
       \/ \E e \in {"good", "short", "badcrc", "error"} : Irq(e)
       \/ Silence \/ Tasklet \/ Remove \/ Insert \/ OtherStarts \/ OtherStops

Progress == ~failed /\ Thread /\ pc # "idle"

\* Within five seconds the controller has reported a transfer or never will.
Controller == ~failed /\ (Silence \/ \E e \in {"good", "short", "badcrc", "error"} : Irq(e))

Spec ==
    /\ Init /\ [][Next]_vars
    /\ WF_vars(Progress) /\ WF_vars(~failed /\ Tasklet) /\ WF_vars(Controller)

-----------------------------------------------------------------------------
\* rda_mmc.c:1120-1123 says of the card's pin: "use a short delay to debounce",
\* but the delay is 0, and host->present follows the pin at once.  A card that
\* is back before the thread saw it go (bounced) makes the thread take the
\* completion of the removal for that of its transfer, and leave the channel and
\* the controller running; what the first three properties say then fails, and
\* each names the case.

\* No BUG_ON of ifc.c is reached from the thread or from the tasklet: whoever
\* names a channel owns it (ifc.c:192, :140), unless a card bounced.
ChannelIsOurs == ~failed \/ bounced

\* Between requests the host holds neither a channel nor a vote for bandwidth,
\* whichever way the last request ended (rda_mmc.c:320-346), unless a card
\* bounced.
IdleHoldsNothing ==
    pc = "idle" =>
        \/ /\ channel = NoChannel
           /\ taken = {c \in Channels : owner[c] = Other}
           /\ map = taken
        \/ bounced

Error == req.cmdError \/ req.dataError

\* A request with data that is reported without error has moved all its parts
\* (rda_mmc.c:787-803): no short transfer, no stale completion and no removal is
\* taken for success, but a removal that bounced.
SuccessMeansMoved == pc = "end" /\ ~Error => owed = 0 \/ bounced

\* A request is reported with an error only if something went wrong with it,
\* even after a bounce: no completion or error flag of an earlier request
\* reaches it (rda_mmc.c:526).
ErrorsExplained == pc = "end" /\ Error => trouble

\* Every request is reported to the MMC core (rda_mmc.c:934-941), bounce or not.
RequestsEnd == pc # "idle" ~> (pc = "idle" \/ failed)
=============================================================================
