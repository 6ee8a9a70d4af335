------------------------------- MODULE MdSys --------------------------------
(***************************************************************************)
(* The SYS channel (drivers/rda/md_sys.c over drivers/rda/md.c): client    *)
(* threads send commands to the baseband processor (BP) and wait for the   *)
(* reply; the BP also sends events of its own.  The interrupt handler      *)
(* queues a work item, and the worker drains the receive ring, completes   *)
(* waiting callers and hands events to the notifier chain, or holds them   *)
(* back until rda_msys_late_init.                                          *)
(*                                                                         *)
(* The rings carry whole frames here (MdTx and MdRx show why they may).    *)
(* The AP has one core: between the two halves of the interrupt handler    *)
(* only the BP moves.  A call has a number, which the code does not see.   *)
(***************************************************************************)
EXTENDS Integers, Sequences, FiniteSets

CONSTANTS
    Threads,        \* client threads
    Keys,           \* (pmsys_dev, mesg_id) pairs
    SlotCount,      \* MSYS_MAX_SLOTS
    MaxTries,       \* the 10 of rda_msys_sync_write_timeout
    MaxCap,         \* bound on the frames a ring holds
    MaxCalls,       \* bound on the calls
    MaxEvents,      \* bound on the BP's events
    Settings        \* the surroundings the channel is run in

\* What a setting says: the keys each thread sends; the frames each ring holds;
\* whether rda_msys_late_init is still to come; whether the BP may be slower
\* than the callers' timeout, or shut down; the values sysfs gives
\* gmsys_timeout_dbg; whether a reply's extension may be longer than its
\* caller's buffer; and how many calls and events there are.
Setting == [uses : [Threads -> SUBSET Keys], txCap : 1 .. MaxCap, rxCap : 1 .. MaxCap,
            booting : BOOLEAN, slow : BOOLEAN, off : BOOLEAN,
            dbg : SUBSET BOOLEAN, fits : SUBSET BOOLEAN,
            calls : 0 .. MaxCalls, events : 0 .. MaxEvents]

ASSUME SysAssumption ==
    /\ SlotCount \in Nat \ {0} /\ MaxTries \in Nat \ {0} /\ MaxCap \in Nat \ {0}
    /\ MaxCalls \in Nat /\ MaxEvents \in Nat
    /\ 0 \notin Keys
    /\ Settings \subseteq Setting

VARIABLES
    env,            \* the setting
    pc,             \* per thread: where rda_msys_sync_write_timeout is
    mesg,           \* per thread: its struct msys_message, on its stack
    tries,          \* per thread: try_count
    pending,        \* pending_list; the list order is the order of the calls
    txq, rxq,       \* the two rings
    bell,           \* BP: a frame is published, its interrupt not yet raised
    it,             \* SYS_READY_BIT
    irq,            \* where rda_md_interrupt is
    queued,         \* rx_work is pending on rx_wq
    worker,         \* where rda_msys_rx_work is
    cur,            \* the slot it works on
    fr,             \* fr_slot[]; Free: not using
    rxPending,      \* rx_pending_list
    skipped,        \* the frames in the ring when a run began that only hands
                    \* over held events
    asyncDone,      \* msys_async_done
    late,           \* where rda_msys_late_init is
    bpOn,           \* BP_SHUTDOWN_BIT not set
    bpWork,         \* requests the BP is working on
    calls, events,  \* how many calls and events there were
    handled         \* the events given to the notifier chain, in order

bp      == <<bpOn, bpWork, events>>
caller  == <<pc, mesg, tries, pending, calls>>
irqVars == <<bell, it, irq>>
rx      == <<worker, cur, fr, rxPending, skipped, handled>>
boot    == <<asyncDone, late, env>>

vars == <<pc, mesg, tries, pending, txq, rxq, bell, it, irq, queued, worker, cur,
          fr, rxPending, skipped, asyncDone, late, bpOn, bpWork, calls, events, handled, env>>

Slots == 0 .. SlotCount - 1         \* fr_slot[]

Statuses == {"ok", "ENOMEM"}

Request == [call : 1 .. MaxCalls, key : Keys]
ReplyTo(r, fits) == [type |-> "reply", call |-> r.call, key |-> r.key, fits |-> fits]
Event(n) == [type |-> "event", n |-> n]
Frame == [type : {"reply"}, call : 1 .. MaxCalls, key : Keys, fits : BOOLEAN]
            \cup {Event(n) : n \in 1 .. MaxEvents}
Free == [type |-> "free"]
NoMesg == [key |-> 0, call |-> 0, answer |-> 0, status |-> "none"]

TypeOK ==
    /\ env \in Settings
    /\ pc \in [Threads -> {"idle", "pump", "wait", "late", "hung", "bug"}]
    /\ mesg \in [Threads -> [key : Keys \cup {0}, call : 0 .. MaxCalls,
                             answer : 0 .. MaxCalls,
                             status : Statuses \cup {"none"}]]
    /\ tries \in [Threads -> 0 .. MaxTries]
    /\ pending \subseteq Threads
    /\ txq \in Seq(Request) /\ Len(txq) <= env.txCap
    /\ rxq \in Seq(Frame) /\ Len(rxq) <= env.rxCap /\ skipped \in Seq(Frame)
    /\ {bell, it, queued, asyncDone, bpOn} \subseteq BOOLEAN
    /\ irq \in {"off", "notified"}
    /\ worker \in {"idle", "flush", "loop", "frame"}
    /\ cur \in Slots
    /\ fr \in [Slots -> Frame \cup {Free}]
    /\ rxPending \in Seq(Slots)
    /\ late \in {"before", "queueing", "done"}
    /\ bpWork \subseteq Request
    /\ calls \in 0 .. MaxCalls /\ events \in 0 .. MaxEvents
    /\ handled \in Seq(1 .. MaxEvents)

Init ==
    /\ env \in Settings
    /\ pc = [t \in Threads |-> "idle"]
    /\ mesg = [t \in Threads |-> NoMesg]
    /\ tries = [t \in Threads |-> 0]
    /\ pending = {}
    /\ txq = << >> /\ rxq = << >>
    /\ bell = FALSE /\ it = FALSE /\ irq = "off"
    /\ queued = FALSE /\ worker = "idle" /\ cur = 0
    /\ fr = [s \in Slots |-> Free] /\ rxPending = << >> /\ skipped = << >>
    /\ asyncDone = ~ env.booting
    /\ late = IF env.booting THEN "before" ELSE "done"
    /\ bpOn = TRUE /\ bpWork = {}
    /\ calls = 0 /\ events = 0 /\ handled = << >>

\* Code of the AP outside the interrupt handler runs: no handler is active, and
\* no BUG_ON stopped the system.
ApRuns == irq = "off" /\ \A t \in Threads : pc[t] # "bug"

-----------------------------------------------------------------------------
(* Callers: rda_msys_send_cmd, rda_msys_sync_write_timeout *)

\* The message goes to pending_list before it is sent; with the BP off the
\* caller spins until the AP is switched off as well.
Call(t, k) ==
    /\ ApRuns /\ pc[t] = "idle" /\ calls < env.calls
    /\ calls' = calls + 1
    /\ mesg' = [mesg EXCEPT ![t] =
                  [key |-> k, call |-> calls + 1, answer |-> 0, status |-> "none"]]
    /\ tries' = [tries EXCEPT ![t] = 0]
    /\ IF bpOn
       THEN pc' = [pc EXCEPT ![t] = "pump"] /\ pending' = pending \cup {t}
       ELSE pc' = [pc EXCEPT ![t] = "hung"] /\ UNCHANGED pending
    /\ UNCHANGED <<txq, rxq, irqVars, queued, rx, boot, bp>>

\* Faulty variant: the room is not checked.
PumpUnchecked(t) ==
    /\ ApRuns /\ pc[t] = "pump"
    /\ txq' = Append(txq, [call |-> mesg[t].call, key |-> mesg[t].key])
    /\ pc' = [pc EXCEPT ![t] = "wait"]
    /\ UNCHANGED <<mesg, tries, pending, calls, rxq, irqVars, queued, rx, boot, bp>>

\* rda_msys_pump_mesg under tx_mutex: the frame fits.
Pump(t) ==
    /\ ApRuns /\ pc[t] = "pump" /\ Len(txq) < env.txCap
    /\ txq' = Append(txq, [call |-> mesg[t].call, key |-> mesg[t].key])
    /\ pc' = [pc EXCEPT ![t] = "wait"]
    /\ UNCHANGED <<mesg, tries, pending, calls, rxq, irqVars, queued, rx, boot, bp>>

\* Faulty variant: the caller tries for ever.
PumpBusyForever(t) ==
    /\ ApRuns /\ pc[t] = "pump" /\ Len(txq) = env.txCap
    /\ UNCHANGED vars

\* It does not: -EBUSY, and the last try ends in BUG_ON.
PumpBusy(t) ==
    /\ ApRuns /\ pc[t] = "pump" /\ Len(txq) = env.txCap
    /\ tries' = [tries EXCEPT ![t] = @ + 1]
    /\ pc' = [pc EXCEPT ![t] = IF tries'[t] = MaxTries THEN "bug" ELSE @]
    /\ UNCHANGED <<mesg, pending, calls, txq, rxq, irqVars, queued, rx, boot, bp>>

\* wait_for_completion_timeout returns because of complete(); the caller's
\* status is the one in the message, and its message is gone.
Completed(t) ==
    /\ ApRuns /\ pc[t] = "wait" /\ mesg[t].answer # 0
    /\ pc' = [pc EXCEPT ![t] = "idle"]
    /\ mesg' = [mesg EXCEPT ![t] = NoMesg]
    /\ UNCHANGED <<tries, pending, calls, txq, rxq, irqVars, queued, rx, boot, bp>>

\* It returns 0.  The worker may still complete the message before the caller
\* takes pending_lock.
TimedOut(t) ==
    /\ env.slow
    /\ ApRuns /\ pc[t] = "wait" /\ mesg[t].answer = 0
    /\ pc' = [pc EXCEPT ![t] = "late"]
    /\ UNCHANGED <<mesg, tries, pending, calls, txq, rxq, irqVars, queued, rx, boot, bp>>

\* Faulty variant: the message stays on the list.
GiveUpListed(t, dbg) ==
    /\ ApRuns /\ pc[t] = "late"
    /\ pc' = [pc EXCEPT ![t] = "idle"]
    /\ mesg' = [mesg EXCEPT ![t] = NoMesg]
    /\ UNCHANGED <<tries, pending, calls, txq, rxq, irqVars, queued, rx, boot, bp>>

\* list_del (harmless on a message the worker already removed), and the return
\* with EPERM unless the BP is off or gmsys_timeout_dbg is set.
GiveUp(t, dbg) ==
    /\ ApRuns /\ pc[t] = "late"
    /\ pending' = pending \ {t}
    /\ pc' = [pc EXCEPT ![t] = IF ~ bpOn THEN "hung"
                               ELSE IF dbg THEN "bug" ELSE "idle"]
    /\ mesg' = [mesg EXCEPT ![t] = IF pc'[t] = "idle" THEN NoMesg ELSE @]
    /\ UNCHANGED <<tries, calls, txq, rxq, irqVars, queued, rx, boot, bp>>

-----------------------------------------------------------------------------
(* External: the BP *)

BpTake ==
    /\ bpOn /\ txq # << >>
    /\ bpWork' = bpWork \cup {Head(txq)} /\ txq' = Tail(txq)
    /\ UNCHANGED <<caller, rxq, irqVars, queued, rx, boot, bpOn, events>>

\* The BP publishes a frame; raising the interrupt is a step of its own.
Publish(f) == Len(rxq) < env.rxCap /\ rxq' = Append(rxq, f) /\ bell' = TRUE

\* Requests are answered in any order.
BpReply(r, fits) ==
    /\ bpOn /\ r \in bpWork
    /\ Publish(ReplyTo(r, fits))
    /\ bpWork' = bpWork \ {r}
    /\ UNCHANGED <<caller, txq, it, irq, queued, rx, boot, bpOn, events>>

BpEvent ==
    /\ bpOn /\ events < env.events
    /\ Publish(Event(events + 1))
    /\ events' = events + 1
    /\ UNCHANGED <<caller, txq, it, irq, queued, rx, boot, bpOn, bpWork>>

BpInterrupt ==
    /\ bpOn /\ bell
    /\ bell' = FALSE /\ it' = TRUE
    /\ UNCHANGED <<caller, txq, rxq, irq, queued, rx, boot, bp>>

BpPowerOff ==
    /\ env.off /\ bpOn
    /\ bpOn' = FALSE
    /\ UNCHANGED <<caller, txq, rxq, irqVars, queued, rx, boot, bpWork, events>>

-----------------------------------------------------------------------------
(* rda_md_interrupt, SYS part *)

\* port->notify is rda_msys_rx_notify: queue_work, which does nothing when the
\* work is already pending.
IrqNotify ==
    /\ ApRuns /\ it
    /\ irq' = "notified" /\ queued' = TRUE
    /\ UNCHANGED <<caller, txq, rxq, bell, it, rx, boot, bp>>

\* MD_CLR_IT, which also wipes an interrupt raised since.
IrqClear ==
    /\ irq = "notified"
    /\ it' = FALSE /\ irq' = "off"
    /\ UNCHANGED <<caller, txq, rxq, bell, queued, rx, boot, bp>>

-----------------------------------------------------------------------------
(* rda_msys_rx_work *)

\* The workqueue clears the pending bit before it runs the work, so the work
\* can be queued again while it runs.
WorkStart ==
    /\ ApRuns /\ queued /\ worker = "idle"
    /\ queued' = FALSE
    /\ IF asyncDone /\ rxPending # << >>
       THEN worker' = "flush" /\ skipped' = rxq
       ELSE worker' = "loop" /\ skipped' = << >>
    /\ UNCHANGED <<caller, txq, rxq, irqVars, cur, fr, rxPending, handled, boot, bp>>

\* Faulty variant: the slot stays in use.
HandleEventLeaking(s) ==
    /\ handled' = Append(handled, fr[s].n)
    /\ UNCHANGED fr

\* rda_msys_async_msg_handler: the notifier chain, then using = 0.
HandleEvent(s) ==
    /\ handled' = Append(handled, fr[s].n)
    /\ fr' = [fr EXCEPT ![s] = Free]

Flush ==
    /\ ApRuns /\ worker = "flush" /\ rxPending # << >>
    /\ HandleEvent(Head(rxPending))
    /\ rxPending' = Tail(rxPending)
    /\ UNCHANGED <<caller, txq, rxq, irqVars, queued, worker, cur, skipped, boot, bp>>

\* After the held events the worker returns without a look at the ring.
FlushEnd ==
    /\ ApRuns /\ worker = "flush" /\ rxPending = << >>
    /\ worker' = "idle"
    /\ UNCHANGED <<caller, txq, rxq, irqVars, queued, cur, fr, rxPending, skipped,
                   handled, boot, bp>>

\* Faulty variant: the search runs one slot too far.
FreeSlotsOneTooMany == {s \in 0 .. SlotCount : s = SlotCount \/ fr[s] = Free}

FreeSlots == {s \in Slots : fr[s] = Free}

\* rda_msys_find_slot and the two rda_md_read calls.
LoopRead ==
    /\ ApRuns /\ worker = "loop" /\ rxq # << >> /\ FreeSlots # {}
    /\ cur' = CHOOSE s \in FreeSlots : \A u \in FreeSlots : s <= u
    /\ fr' = [fr EXCEPT ![cur'] = Head(rxq)]
    /\ rxq' = Tail(rxq)
    /\ worker' = "frame"
    /\ UNCHANGED <<caller, txq, irqVars, queued, rxPending, skipped, handled, boot, bp>>

\* The ring is empty, or there is no slot.
LoopEnd ==
    /\ ApRuns /\ worker = "loop" /\ (rxq = << >> \/ FreeSlots = {})
    /\ worker' = "idle"
    /\ UNCHANGED <<caller, txq, rxq, irqVars, queued, cur, fr, rxPending, skipped,
                   handled, boot, bp>>

\* Faulty variant: any message that waits will do.
MatchesAny(f) == pending

\* The pending messages a reply fits, and the first of them on the list.
Matches(f) == {t \in pending : mesg[t].key = f.key}
First(ts)  == CHOOSE t \in ts : \A u \in ts : mesg[t].call <= mesg[u].call

\* Faulty variant: an `if' for the `while' of the worker.
HandleReplyOnce ==
    /\ ApRuns /\ worker = "frame" /\ fr[cur].type = "reply"
    /\ LET f == fr[cur]
           t == First(Matches(f))
       IN  IF Matches(f) = {} THEN UNCHANGED <<pending, mesg>>
           ELSE /\ pending' = pending \ {t}
                /\ mesg' = [mesg EXCEPT ![t].answer = f.call, ![t].status = "ok"]
    /\ fr' = [fr EXCEPT ![cur] = Free]
    /\ worker' = "idle"
    /\ UNCHANGED <<pc, tries, calls, txq, rxq, irqVars, queued, cur, rxPending,
                   skipped, handled, boot, bp>>

\* The message leaves the list and its caller is woken, all under
\* pending_lock; a reply without owner is dropped.
HandleReply ==
    /\ ApRuns /\ worker = "frame" /\ fr[cur].type = "reply"
    /\ LET f == fr[cur]
           t == First(Matches(f))
       IN  IF Matches(f) = {} THEN UNCHANGED <<pending, mesg>>
           ELSE /\ pending' = pending \ {t}
                /\ mesg' = [mesg EXCEPT
                              ![t].answer = f.call,
                              ![t].status = IF f.fits THEN "ok" ELSE "ENOMEM"]
    /\ fr' = [fr EXCEPT ![cur] = Free]
    /\ worker' = "loop"
    /\ UNCHANGED <<pc, tries, calls, txq, rxq, irqVars, queued, cur, rxPending,
                   skipped, handled, boot, bp>>

\* Faulty variant: an event nobody can handle yet is dropped.
HandleAsyncDropping ==
    /\ ApRuns /\ worker = "frame" /\ fr[cur].type = "event"
    /\ IF asyncDone THEN HandleEvent(cur)
       ELSE fr' = [fr EXCEPT ![cur] = Free] /\ UNCHANGED handled
    /\ worker' = "loop"
    /\ UNCHANGED <<caller, txq, rxq, irqVars, queued, cur, rxPending, skipped, boot, bp>>

\* An event is handled at once, or held until rda_msys_late_init.
HandleAsync ==
    /\ ApRuns /\ worker = "frame" /\ fr[cur].type = "event"
    /\ IF asyncDone
       THEN HandleEvent(cur) /\ UNCHANGED rxPending
       ELSE rxPending' = Append(rxPending, cur) /\ UNCHANGED <<handled, fr>>
    /\ worker' = "loop"
    /\ UNCHANGED <<caller, txq, rxq, irqVars, queued, cur, skipped, boot, bp>>

-----------------------------------------------------------------------------
(* rda_msys_late_init *)

LateInitSet ==
    /\ ApRuns /\ late = "before"
    /\ asyncDone' = TRUE /\ late' = "queueing"
    /\ UNCHANGED <<caller, txq, rxq, irqVars, queued, rx, bp, env>>

\* Faulty variant: nothing is queued.
LateInitForgets ==
    /\ ApRuns /\ late = "queueing"
    /\ late' = "done"
    /\ UNCHANGED <<caller, txq, rxq, irqVars, queued, rx, asyncDone, bp, env>>

\* The busy loop: it ends when queue_work finds the work not pending.
LateInitQueue ==
    /\ ApRuns /\ late = "queueing" /\ ~ queued
    /\ queued' = TRUE /\ late' = "done"
    /\ UNCHANGED <<caller, txq, rxq, irqVars, rx, asyncDone, bp, env>>

-----------------------------------------------------------------------------
Caller(t) == \/ Pump(t) \/ PumpBusy(t) \/ Completed(t) \/ TimedOut(t)
             \/ \E dbg \in env.dbg : GiveUp(t, dbg)

Worker == \/ WorkStart \/ Flush \/ FlushEnd
          \/ LoopRead \/ LoopEnd \/ HandleReply \/ HandleAsync

BpAnswers == \E r \in bpWork, fits \in env.fits : BpReply(r, fits)

Next ==
    \/ \E t \in Threads : Caller(t) \/ \E k \in env.uses[t] : Call(t, k)
    \/ BpTake \/ BpAnswers \/ BpEvent \/ BpInterrupt \/ BpPowerOff
    \/ IrqNotify \/ IrqClear
    \/ Worker
    \/ LateInitSet \/ LateInitQueue

\* The scheduler runs every runnable thread, the interrupt is taken when it is
\* raised, and a BP that is on answers; it need not send events, and nobody has
\* to make calls.
Fairness ==
    /\ \A t \in Threads : WF_vars(Caller(t))
    /\ WF_vars(Worker) /\ WF_vars(LateInitSet) /\ SF_vars(LateInitQueue)
    /\ WF_vars(IrqNotify) /\ WF_vars(IrqClear)
    /\ WF_vars(BpTake) /\ WF_vars(BpAnswers) /\ WF_vars(BpInterrupt)

Spec == Init /\ [][Next]_vars /\ Fairness

-----------------------------------------------------------------------------
(* Properties *)

\* A message is on pending_list exactly while its caller is inside the call and
\* has not been answered, except that a caller whose timeout expired may find
\* it gone.  The message lives on the caller's stack: a caller that leaves it
\* on the list would let the worker write into a dead frame.
PendingIsLive ==
    /\ \A t \in pending : pc[t] \in {"pump", "wait", "late", "bug"} /\ mesg[t].answer = 0
    /\ \A t \in Threads : pc[t] \in {"pump", "wait"} /\ mesg[t].answer = 0 => t \in pending

\* A frame slot is in use exactly when the worker holds a frame in it or its
\* event is on rx_pending_list, once: none leaks and none is filled twice.
SlotsAccounted ==
    LET held == {rxPending[i] : i \in 1 .. Len(rxPending)}
        work == IF worker = "frame" THEN {cur} ELSE {}
    IN  /\ {s \in Slots : fr[s] # Free} = held \cup work
        /\ held \cap work = {}
        /\ Cardinality(held) = Len(rxPending)

\* Somebody will look at the receive ring: its interrupt is about to be raised,
\* raised or being handled, or the work is queued or in its loop.
Attended ==
    \/ bell \/ it \/ irq = "notified" \/ queued
    \/ worker \in {"loop", "frame"}

\* No frame is left in the ring with nobody to fetch it, although the handler
\* clears an interrupt that may have been raised again after it queued the work
\* ("There is a while loop will handle the later one", md_sys.c:817).  There are
\* two exceptions, both at boot.  Until rda_msys_late_init the worker stops when
\* events hold all the slots (md_sys.c:703).  And the run that hands them over
\* returns without a look at the ring: "It doesn't lost messages send by BP,
\* because work_queue always is triggered by queue_work" (md_sys.c:690), but the
\* frames it was queued for stay there until the BP sends again.
NoStrandedFrame ==
    rxq # << >> /\ bpOn => \/ Attended
                           \/ late # "done" /\ FreeSlots = {}
                           \/ rxq = skipped

\* Where an event is: in the ring, in a slot, or handled.
Places(n) == Cardinality({i \in 1 .. Len(rxq) : rxq[i] = Event(n)})
             + Cardinality({s \in Slots : fr[s] = Event(n)})
             + Cardinality({i \in 1 .. Len(handled) : handled[i] = n})

\* No event of the BP is lost or handled twice, across the switch from holding
\* events to handling them (md_sys.c:683-692, 786-794).
EventsKept == \A n \in 1 .. events : Places(n) = 1

\* Every client sends its own commands, to a BP that answers in time.
Prompt ==
    /\ ~ env.slow /\ ~ env.off
    /\ \A t, u \in Threads : t # u => env.uses[t] \cap env.uses[u] = {}

\* Every command that is sent to a BP that answers in time returns, once the
\* system has booted.
CallsReturn == \A t \in Threads :
    (pc[t] = "pump" /\ Prompt /\ ~ env.booting) ~> pc[t] = "idle"

\* A call ends even if the BP does not answer, or stops reading and leaves the
\* transmit ring full: with a status, with the endless loop that waits for the
\* AP to be switched off, or with BUG_ON (md_sys.c:214-273).  The setting lets
\* the timeout expire.
CallsEnd == \A t \in Threads :
    (pc[t] = "pump" /\ env.slow) ~> \/ pc[t] \in {"idle", "hung"}
                                     \/ \E u \in Threads : pc[u] = "bug"

\* Every event held back at boot is handled after rda_msys_late_init, "to
\* process all pending messages send by BP" (md_sys.c:1216).
HeldEventsHandled == \A s \in Slots :
    (fr[s].type = "event" ~> fr[s].type # "event")

\* The channel is the remote procedure call its clients expect.
Asked == {txq[i] : i \in 1 .. Len(txq)} \cup bpWork
StatusOf(f) == IF f.fits THEN "ok" ELSE "ENOMEM"
Replies == {f \in {rxq[i] : i \in 1 .. Len(rxq)}
                    \cup (IF worker = "frame" THEN {fr[cur]} ELSE {}) :
               f.type = "reply"}
Rpc == INSTANCE MsysRpc WITH
         Numbers <- 1 .. MaxCalls,
         asked <- Asked,
         answers <- {[call |-> f.call, key |-> f.key, status |-> StatusOf(f)] : f \in Replies},
         client <- [t \in Threads |->
             IF pc[t] \in {"pump", "wait", "late"} THEN mesg[t] ELSE NoMesg]
ImplementsRpc == Rpc!Spec
=============================================================================
