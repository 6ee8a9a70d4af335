---------------------------- MODULE MdSysProofs -----------------------------
(***************************************************************************)
(* Theorems about the SYS channel, for every number of threads, keys,      *)
(* slots, calls, events and attempts, and in every setting.                *)
(***************************************************************************)
EXTENDS MdSys, TLAPS, SequenceTheorems, FiniteSetTheorems, WellFoundedInduction

-----------------------------------------------------------------------------
(* Minima, which First and rda_msys_find_slot take *)

\* A set of natural numbers that is not empty has a least element.
LEMMA LeastExists ==
    ASSUME NEW S, S \subseteq Nat, S # {}
    PROVE  \E x \in S : \A y \in S : x <= y
<1>1. PICK x \in S : \A y \in S : ~ (<<y, x>> \in OpToRel(<, Nat))
  BY NatLessThanWellFounded, WFMin, Zenon
<1>2. ASSUME NEW y \in S PROVE x <= y
  <2>1. x \in Nat /\ y \in Nat
    OBVIOUS
  <2>2. ~ (<<y, x>> \in OpToRel(<, Nat))
    BY <1>1
  <2> QED
    BY <2>1, <2>2 DEF OpToRel
<1> QED
  BY <1>2

\* The slot that rda_msys_find_slot finds is free.
LEMMA LowestSlot ==
    ASSUME FreeSlots # {}
    PROVE  (CHOOSE s \in FreeSlots : \A u \in FreeSlots : s <= u) \in FreeSlots
<1>1. FreeSlots \subseteq Nat
  BY SysAssumption DEF FreeSlots, Slots
<1> QED
  BY <1>1, LeastExists, Zenon

\* The first of some messages on the list is one of them.
LEMMA FirstIsOne ==
    ASSUME NEW ts, ts \subseteq Threads, ts # {}, \A t \in Threads : mesg[t].call \in Nat
    PROVE  First(ts) \in ts
<1> DEFINE numbers == {mesg[t].call : t \in ts}
<1>1. numbers \subseteq Nat /\ numbers # {}
  OBVIOUS
<1>2. PICK n \in numbers : \A m \in numbers : n <= m
  BY <1>1, LeastExists, Zenon
<1>3. PICK t \in ts : n = mesg[t].call
  BY <1>2
<1>4. \A u \in ts : mesg[t].call <= mesg[u].call
  BY <1>2, <1>3
<1> QED
  BY <1>4 DEF First

-----------------------------------------------------------------------------
(* The inductive invariant *)

\* A caller that is about to try has a command to send and tries left.
Trying == \A t \in Threads : pc[t] = "pump" =>
    tries[t] < MaxTries /\ mesg[t].call \in 1 .. MaxCalls /\ mesg[t].key \in Keys

\* The slots on rx_pending_list hold events, each is there once, and a slot in
\* use is one of them or the one the worker has in hand.
Holding ==
    /\ \A i \in 1 .. Len(rxPending) : fr[rxPending[i]].type = "event"
    /\ \A i, j \in 1 .. Len(rxPending) : rxPending[i] = rxPending[j] => i = j
    /\ worker = "frame" =>
         fr[cur].type # "free" /\ \A i \in 1 .. Len(rxPending) : rxPending[i] # cur
    /\ \A s \in Slots : fr[s].type # "free" =>
         \/ worker = "frame" /\ s = cur
         \/ \E i \in 1 .. Len(rxPending) : rxPending[i] = s

\* Once rda_msys_late_init is over, events are held back only while the work
\* that hands them over is queued or running; while it runs, the frames it does
\* not look at are those it found or have an interrupt of their own; and the
\* handler clears the interrupt only with the work queued.
Running ==
    /\ asyncDone <=> late # "before"
    /\ late = "done" /\ rxPending # << >> => queued \/ worker = "flush"
    /\ worker = "flush" /\ bpOn => Attended \/ rxq = skipped
    /\ irq = "notified" => queued

SysInv == TypeOK /\ Trying /\ Holding /\ Running /\ PendingIsLive /\ NoStrandedFrame

\* The parts of TypeOK that different actions disturb.
CallerTypes ==
    /\ pc \in [Threads -> {"idle", "pump", "wait", "late", "hung", "bug"}]
    /\ mesg \in [Threads -> [key : Keys \cup {0}, call : 0 .. MaxCalls,
                             answer : 0 .. MaxCalls,
                             status : Statuses \cup {"none"}]]
    /\ tries \in [Threads -> 0 .. MaxTries]
    /\ pending \subseteq Threads
    /\ calls \in 0 .. MaxCalls

SlotTypes ==
    /\ cur \in Slots
    /\ fr \in [Slots -> Frame \cup {Free}]
    /\ rxPending \in Seq(Slots)
    /\ handled \in Seq(1 .. MaxEvents)

ReceiveTypes == rxq \in Seq(Frame) /\ Len(rxq) <= env.rxCap /\ skipped \in Seq(Frame)

SendTypes ==
    /\ txq \in Seq(Request) /\ Len(txq) <= env.txCap
    /\ bpWork \subseteq Request
    /\ events \in 0 .. MaxEvents

FlagTypes ==
    /\ env \in Settings
    /\ {bell, it, queued, asyncDone, bpOn} \subseteq BOOLEAN
    /\ irq \in {"off", "notified"}
    /\ worker \in {"idle", "flush", "loop", "frame"}
    /\ late \in {"before", "queueing", "done"}

LEMMA Types ==
    TypeOK <=> CallerTypes /\ SlotTypes /\ ReceiveTypes /\ SendTypes /\ FlagTypes
  BY DEF TypeOK, CallerTypes, SlotTypes, ReceiveTypes, SendTypes, FlagTypes

LEMMA TypesNext ==
    TypeOK' <=> CallerTypes' /\ SlotTypes' /\ ReceiveTypes' /\ SendTypes' /\ FlagTypes'
  BY DEF TypeOK, CallerTypes, SlotTypes, ReceiveTypes, SendTypes, FlagTypes

\* What a frame or a slot may be.
LEMMA FrameKinds ==
    /\ \A f \in Frame : f.type \in {"reply", "event"}
    /\ \A f \in Frame : f.type = "reply" =>
         f.call \in 1 .. MaxCalls /\ f.key \in Keys /\ f.fits \in BOOLEAN
    /\ \A f \in Frame : f.type = "event" => f.n \in 1 .. MaxEvents
    /\ Free.type = "free"
    /\ \A f \in Frame \cup {Free} : f # Free <=> f.type # "free"
  BY DEF Frame, Event, Free

\* What the settings bound.
LEMMA SettingBounds ==
    ASSUME env \in Settings
    PROVE  /\ env.calls \in Nat /\ env.calls <= MaxCalls
           /\ env.events \in Nat /\ env.events <= MaxEvents
           /\ env.txCap \in Nat /\ env.rxCap \in Nat
           /\ \A t \in Threads : env.uses[t] \subseteq Keys
           /\ env.dbg \subseteq BOOLEAN /\ env.fits \subseteq BOOLEAN
  BY SysAssumption DEF Setting

LEMMA InitSys == Init => SysInv
<1> SUFFICES ASSUME Init PROVE SysInv
  OBVIOUS
<1>1. TypeOK
  <2>1. CallerTypes
    <3>1. NoMesg \in [key : Keys \cup {0}, call : 0 .. MaxCalls, answer : 0 .. MaxCalls,
                      status : Statuses \cup {"none"}]
      BY SysAssumption DEF NoMesg
    <3> QED
      BY <3>1, SysAssumption DEF Init, CallerTypes
  <2>3. FlagTypes
    <3>1. env.booting \in BOOLEAN
      BY SysAssumption DEF Init, Setting
    <3> QED
      BY <3>1 DEF Init, FlagTypes
  <2>2. SlotTypes /\ ReceiveTypes /\ SendTypes
    BY SysAssumption, SettingBounds DEF Init, SlotTypes, ReceiveTypes, SendTypes, Slots
  <2> QED
    BY <2>1, <2>2, <2>3, Types
<1>2. Trying /\ Running /\ PendingIsLive /\ NoStrandedFrame
  BY DEF Init, Trying, Running, PendingIsLive, NoStrandedFrame
<1>3. Holding
  BY FrameKinds DEF Init, Holding
<1> QED
  BY <1>1, <1>2, <1>3 DEF SysInv

-----------------------------------------------------------------------------
(* Callers *)

\* What a caller leaves alone.
LEMMA CallerElsewhere ==
    ASSUME SysInv, UNCHANGED <<rxq, irqVars, queued, rx, boot, bp>>
    PROVE  /\ SlotTypes' /\ ReceiveTypes' /\ FlagTypes'
           /\ Holding' /\ Running' /\ NoStrandedFrame'
<1> USE DEF irqVars, rx, boot, bp
<1>1. SlotTypes /\ ReceiveTypes /\ FlagTypes
  BY Types DEF SysInv
<1>2. SlotTypes'
  BY <1>1 DEF SlotTypes
<1>3. ReceiveTypes' /\ FlagTypes'
  BY <1>1 DEF ReceiveTypes, FlagTypes
<1>4. Holding'
  BY DEF SysInv, Holding
<1>5. Running' /\ NoStrandedFrame'
  BY DEF SysInv, Running, NoStrandedFrame, Attended, FreeSlots
<1> QED
  BY <1>2, <1>3, <1>4, <1>5

LEMMA StepCall ==
    ASSUME SysInv, NEW t \in Threads, NEW k \in env.uses[t], Call(t, k)
    PROVE  SysInv'
<1> USE DEF irqVars, rx, boot, bp
<1>1. CallerTypes /\ SendTypes /\ FlagTypes /\ Trying /\ PendingIsLive
  BY Types DEF SysInv
<1>2. SlotTypes' /\ ReceiveTypes' /\ FlagTypes' /\ Holding' /\ Running' /\ NoStrandedFrame'
  BY CallerElsewhere DEF Call
<1>3. SendTypes'
  BY <1>1 DEF SendTypes, Call
<1>4. k \in Keys /\ calls + 1 \in 1 .. MaxCalls
  BY <1>1, SettingBounds, SysAssumption DEF Call, CallerTypes, FlagTypes
<1>5. CallerTypes'
  <2>1. [key |-> k, call |-> calls + 1, answer |-> 0, status |-> "none"]
          \in [key : Keys \cup {0}, call : 0 .. MaxCalls, answer : 0 .. MaxCalls,
              status : Statuses \cup {"none"}]
    BY <1>4, SysAssumption
  <2>2. mesg' \in [Threads -> [key : Keys \cup {0}, call : 0 .. MaxCalls, answer : 0 .. MaxCalls,
                               status : Statuses \cup {"none"}]]
    BY <1>1, <2>1 DEF CallerTypes, Call
  <2>3. /\ pc' \in [Threads -> {"idle", "pump", "wait", "late", "hung", "bug"}]
        /\ pending' \subseteq Threads
    BY <1>1 DEF CallerTypes, Call
  <2>4. tries' \in [Threads -> 0 .. MaxTries] /\ calls' \in 0 .. MaxCalls
    BY <1>1, <1>4, SysAssumption DEF CallerTypes, Call
  <2> QED
    BY <2>2, <2>3, <2>4 DEF CallerTypes
<1>6. Trying'
  <2> SUFFICES ASSUME NEW u \in Threads, pc'[u] = "pump"
               PROVE  /\ tries'[u] < MaxTries
                      /\ mesg'[u].call \in 1 .. MaxCalls /\ mesg'[u].key \in Keys
    BY DEF Trying
  <2>1. CASE u = t
    BY <1>1, <1>4, <2>1, SysAssumption DEF Call, CallerTypes
  <2>2. CASE u # t
    BY <1>1, <2>2 DEF Trying, Call, CallerTypes
  <2> QED
    BY <2>1, <2>2
<1>7. PendingIsLive'
  BY <1>1 DEF PendingIsLive, Call, CallerTypes
<1> QED
  BY <1>2, <1>3, <1>5, <1>6, <1>7, TypesNext DEF SysInv

LEMMA StepCaller ==
    ASSUME SysInv, NEW t \in Threads, Caller(t)
    PROVE  SysInv'
<1> USE DEF irqVars, rx, boot, bp
<1>1. CallerTypes /\ SendTypes /\ FlagTypes /\ Trying /\ PendingIsLive
  BY Types DEF SysInv
<1>2. SlotTypes' /\ ReceiveTypes' /\ FlagTypes' /\ Holding' /\ Running' /\ NoStrandedFrame'
  BY CallerElsewhere DEF Caller, Pump, PumpBusy, Completed, TimedOut, GiveUp
<1>3. NoMesg \in [key : Keys \cup {0}, call : 0 .. MaxCalls, answer : 0 .. MaxCalls,
                  status : Statuses \cup {"none"}]
  BY SysAssumption DEF NoMesg
<1>4. CASE Pump(t)
  <2>1. [call |-> mesg[t].call, key |-> mesg[t].key] \in Request
    BY <1>1, <1>4 DEF Trying, Pump, Request
  <2>2. Append(txq, [call |-> mesg[t].call, key |-> mesg[t].key]) \in Seq(Request)
    BY <1>1, <2>1 DEF SendTypes
  <2>3. SendTypes'
    BY <1>1, <1>4, <2>1, <2>2, SettingBounds DEF SendTypes, Pump, FlagTypes
  <2>4. CallerTypes' /\ Trying' /\ PendingIsLive'
    BY <1>1, <1>4 DEF CallerTypes, Pump, Trying, PendingIsLive
  <2> QED
    BY <1>2, <2>3, <2>4, TypesNext DEF SysInv
<1>5. CASE PumpBusy(t)
  <2>1. SendTypes'
    BY <1>1, <1>5 DEF SendTypes, PumpBusy
  <2>2. tries[t] + 1 \in 0 .. MaxTries /\ tries' = [tries EXCEPT ![t] = tries[t] + 1]
    BY <1>1, <1>5, SysAssumption DEF Trying, PumpBusy, CallerTypes
  <2>3. CallerTypes'
    BY <1>1, <1>5, <2>2 DEF CallerTypes, PumpBusy
  <2>4. Trying'
    BY <1>1, <1>5, <2>2, SysAssumption DEF CallerTypes, PumpBusy, Trying
  <2>5. PendingIsLive'
    BY <1>1, <1>5 DEF CallerTypes, PumpBusy, PendingIsLive
  <2> QED
    BY <1>2, <2>1, <2>3, <2>4, <2>5, TypesNext DEF SysInv
<1>6. CASE Completed(t)
  <2>1. SendTypes'
    BY <1>1, <1>6 DEF SendTypes, Completed
  <2>2. CallerTypes' /\ Trying'
    BY <1>1, <1>3, <1>6 DEF CallerTypes, Completed, Trying
  <2>3. PendingIsLive'
    BY <1>1, <1>6 DEF CallerTypes, Completed, PendingIsLive
  <2> QED
    BY <1>2, <2>1, <2>2, <2>3, TypesNext DEF SysInv
<1>7. CASE TimedOut(t)
  <2>1. SendTypes'
    BY <1>1, <1>7 DEF SendTypes, TimedOut
  <2>2. CallerTypes' /\ Trying' /\ PendingIsLive'
    BY <1>1, <1>7 DEF CallerTypes, TimedOut, Trying, PendingIsLive
  <2> QED
    BY <1>2, <2>1, <2>2, TypesNext DEF SysInv
<1>8. CASE \E dbg \in env.dbg : GiveUp(t, dbg)
  <2>1. PICK dbg \in env.dbg : GiveUp(t, dbg)
    BY <1>8
  <2>2. SendTypes'
    BY <1>1, <2>1 DEF SendTypes, GiveUp
  <2>3. PICK end \in {"hung", "bug", "idle"} : pc' = [pc EXCEPT ![t] = end]
    BY <2>1 DEF GiveUp
  <2>4. mesg' = [mesg EXCEPT ![t] = NoMesg] \/ mesg' = mesg
    <3>1. mesg = [mesg EXCEPT ![t] = mesg[t]]
      BY <1>1 DEF CallerTypes
    <3> QED
      BY <2>1, <3>1 DEF GiveUp
  <2>5. CallerTypes'
    BY <1>1, <1>3, <2>1, <2>3, <2>4 DEF CallerTypes, GiveUp
  <2>6. Trying' /\ PendingIsLive'
    BY <1>1, <2>1, <2>3, <2>4 DEF CallerTypes, GiveUp, Trying, PendingIsLive
  <2> QED
    BY <1>2, <2>2, <2>5, <2>6, TypesNext DEF SysInv
<1> QED
  BY <1>4, <1>5, <1>6, <1>7, <1>8 DEF Caller

-----------------------------------------------------------------------------
(* The BP and the interrupt *)

\* What only callers and the worker disturb.
LEMMA CallersRest ==
    ASSUME SysInv, UNCHANGED caller
    PROVE  CallerTypes' /\ Trying' /\ PendingIsLive'
  BY Types DEF SysInv, caller, CallerTypes, Trying, PendingIsLive

LEMMA SlotsRest ==
    ASSUME SysInv, UNCHANGED rx
    PROVE  SlotTypes' /\ Holding'
  BY Types DEF SysInv, rx, SlotTypes, Holding

\* What a step beside the worker must keep so that no frame is stranded.
LEMMA AttendedRest ==
    ASSUME SysInv, UNCHANGED rx, bpOn' => bpOn,
           Attended /\ bpOn' => Attended', rxq' = rxq \/ Attended',
           asyncDone' <=> late' # "before", late' = late \/ late' # "done" \/ queued',
           queued => queued', irq' = "notified" => queued'
    PROVE  Running' /\ NoStrandedFrame'
<1>1. Running /\ NoStrandedFrame
  BY DEF SysInv
<1>2. UNCHANGED <<worker, fr, rxPending, skipped>>
  BY DEF rx
<1>3. queued' => Attended'
  BY DEF Attended
<1>4. FreeSlots' = FreeSlots
  BY <1>2 DEF FreeSlots
<1>5. worker' = "flush" /\ bpOn' => Attended' \/ rxq' = skipped'
  BY <1>1, <1>2 DEF Running
<1>6. late' = "done" /\ rxPending' # << >> => queued' \/ worker' = "flush"
  BY <1>1, <1>2 DEF Running
<1>7. Running'
  BY <1>5, <1>6 DEF Running
<1>8. NoStrandedFrame'
  BY <1>1, <1>2, <1>3, <1>4 DEF NoStrandedFrame
<1> QED
  BY <1>7, <1>8

LEMMA StepBp ==
    ASSUME SysInv, BpTake \/ BpAnswers \/ BpEvent \/ BpInterrupt \/ BpPowerOff
    PROVE  SysInv'
<1> USE DEF irqVars, boot, bp
<1>1. SlotTypes /\ ReceiveTypes /\ SendTypes /\ FlagTypes /\ Running /\ NoStrandedFrame
  BY Types DEF SysInv
<1>2. UNCHANGED <<caller, rx>>
  BY DEF BpTake, BpAnswers, BpReply, BpEvent, BpInterrupt, BpPowerOff
<1>3. /\ CallerTypes' /\ Trying' /\ PendingIsLive'
      /\ SlotTypes' /\ Holding'
  BY <1>2, CallersRest, SlotsRest
<1>4. FlagTypes'
  <2> USE <1>1, <1>2 DEF FlagTypes, rx
  <2>1. CASE BpTake
    BY <2>1 DEF BpTake
  <2>2. CASE BpAnswers
    BY <2>2 DEF BpAnswers, BpReply, Publish
  <2>3. CASE BpEvent
    BY <2>3 DEF BpEvent, Publish
  <2>4. CASE BpInterrupt \/ BpPowerOff
    BY <2>4 DEF BpInterrupt, BpPowerOff
  <2> QED
    BY <2>1, <2>2, <2>3, <2>4
<1>10. Running' /\ NoStrandedFrame'
  <2>1. UNCHANGED <<queued, irq, asyncDone, late, worker>> /\ UNCHANGED rx
    BY <1>2 DEF BpTake, BpAnswers, BpReply, BpEvent, BpInterrupt, BpPowerOff, rx
  <2>2. bpOn' => bpOn
    BY DEF BpTake, BpAnswers, BpReply, BpEvent, BpInterrupt, BpPowerOff
  <2>3. Attended /\ bpOn' => Attended'
    BY <1>1, <2>1 DEF BpTake, BpAnswers, BpReply, BpEvent, BpInterrupt, BpPowerOff, Publish,
                      Attended, FlagTypes
  <2>4. rxq' = rxq \/ Attended'
    BY DEF BpTake, BpAnswers, BpReply, BpEvent, BpInterrupt, BpPowerOff, Publish, Attended
  <2> QED
    BY <1>1, <2>1, <2>2, <2>3, <2>4, AttendedRest DEF Running
<1>5. ASSUME NEW f \in Frame, Publish(f), env' = env
      PROVE  ReceiveTypes'
  BY <1>1, <1>2, <1>5, SettingBounds DEF Publish, ReceiveTypes, FlagTypes, rx
<1>6. CASE BpTake
  <2>1. txq \in Seq(Request) /\ txq # << >>
    BY <1>1, <1>6 DEF BpTake, SendTypes
  <2>2. Head(txq) \in Request /\ Tail(txq) \in Seq(Request) /\ Len(Tail(txq)) = Len(txq) - 1
    BY <2>1, HeadTailProperties
  <2>3. SendTypes'
    BY <1>1, <1>6, <2>1, <2>2, SettingBounds, LenProperties DEF BpTake, SendTypes, FlagTypes
  <2>4. ReceiveTypes'
    BY <1>1, <1>6 DEF BpTake, ReceiveTypes, rx
  <2> QED
    BY <1>3, <1>4, <1>10, <2>3, <2>4, TypesNext DEF SysInv
<1>7. CASE BpAnswers
  <2>1. PICK r \in bpWork, fits \in env.fits : BpReply(r, fits)
    BY <1>7 DEF BpAnswers
  <2>2. ReplyTo(r, fits) \in Frame
    BY <1>1, SettingBounds DEF ReplyTo, Frame, Request, SendTypes, FlagTypes
  <2>3. ReceiveTypes'
    BY <1>5, <2>1, <2>2 DEF BpReply
  <2>4. SendTypes'
    BY <1>1, <2>1 DEF BpReply, SendTypes
  <2> QED
    BY <1>3, <1>4, <1>10, <2>3, <2>4, TypesNext DEF SysInv
<1>8. CASE BpEvent
  <2>1. events + 1 \in 1 .. MaxEvents
    BY <1>1, <1>8, SettingBounds, SysAssumption DEF BpEvent, SendTypes, FlagTypes
  <2>2. Event(events + 1) \in Frame
    BY <2>1 DEF Frame
  <2>3. ReceiveTypes'
    BY <1>5, <1>8, <2>2 DEF BpEvent
  <2>4. SendTypes'
    BY <1>1, <1>8, <2>1 DEF BpEvent, SendTypes
  <2> QED
    BY <1>3, <1>4, <1>10, <2>3, <2>4, TypesNext DEF SysInv
<1>9. CASE BpInterrupt \/ BpPowerOff
  <2>1. ReceiveTypes' /\ SendTypes'
    BY <1>1, <1>9 DEF BpInterrupt, BpPowerOff, ReceiveTypes, SendTypes, rx
  <2> QED
    BY <1>3, <1>4, <1>10, <2>1, TypesNext DEF SysInv
<1> QED
  BY <1>6, <1>7, <1>8, <1>9

\* The handler, and rda_msys_late_init.
LEMMA StepIrq ==
    ASSUME SysInv, IrqNotify \/ IrqClear \/ LateInitSet \/ LateInitQueue
    PROVE  SysInv'
<1> USE DEF irqVars, boot, bp
<1>1. SlotTypes /\ ReceiveTypes /\ SendTypes /\ FlagTypes /\ Running /\ NoStrandedFrame
  BY Types DEF SysInv
<1>2. UNCHANGED <<caller, rx>>
  BY DEF IrqNotify, IrqClear, LateInitSet, LateInitQueue
<1>3. /\ CallerTypes' /\ Trying' /\ PendingIsLive'
      /\ SlotTypes' /\ Holding'
  BY <1>2, CallersRest, SlotsRest
<1>4. ReceiveTypes' /\ SendTypes'
  BY <1>1, <1>2 DEF IrqNotify, IrqClear, LateInitSet, LateInitQueue, ReceiveTypes, SendTypes, rx
<1>5. FlagTypes'
  BY <1>1, <1>2 DEF IrqNotify, IrqClear, LateInitSet, LateInitQueue, FlagTypes, rx
<1>6. /\ UNCHANGED <<rx, rxq, bpOn>>
      /\ asyncDone' <=> late' # "before"
      /\ late' = late \/ late' # "done" \/ queued'
      /\ queued => queued'
      /\ irq' = "notified" => queued'
      /\ Attended => Attended'
  BY <1>1, <1>2 DEF IrqNotify, IrqClear, LateInitSet, LateInitQueue, Running, Attended,
                    FlagTypes, rx
<1>7. Running' /\ NoStrandedFrame'
  BY <1>6, AttendedRest
<1> QED
  BY <1>3, <1>4, <1>5, <1>7, TypesNext DEF SysInv

-----------------------------------------------------------------------------
(* The worker *)

\* What the worker leaves alone.
LEMMA WorkerElsewhere ==
    ASSUME SysInv, Worker
    PROVE  SendTypes' /\ UNCHANGED <<boot, bp, irqVars>> /\ irq = "off"
<1>1. UNCHANGED <<boot, bp, irqVars, txq>> /\ irq = "off"
  BY DEF Worker, WorkStart, Flush, FlushEnd, LoopRead, LoopEnd, HandleReply, HandleAsync, ApRuns
<1>2. SendTypes
  BY Types DEF SysInv
<1> QED
  BY <1>1, <1>2 DEF SendTypes, bp, boot

\* A run starts or ends: no slot changes.
LEMMA StepRun ==
    ASSUME SysInv, WorkStart \/ FlushEnd \/ LoopEnd
    PROVE  SysInv'
<1> USE DEF irqVars, boot, bp
<1>1. /\ SlotTypes /\ ReceiveTypes /\ FlagTypes /\ Running /\ NoStrandedFrame /\ Holding
  BY Types DEF SysInv
<1>2. SendTypes' /\ UNCHANGED <<boot, bp, irqVars>> /\ irq = "off"
  BY WorkerElsewhere DEF Worker
<1>3. UNCHANGED <<caller, rxq, cur, fr, rxPending, handled>>
      /\ skipped' \in {skipped, rxq, << >>}
  BY DEF WorkStart, FlushEnd, LoopEnd
<1>4. CallerTypes' /\ Trying' /\ PendingIsLive'
  BY <1>3, CallersRest
<1>5. SlotTypes' /\ ReceiveTypes'
  <2>1. << >> \in Seq(Frame)
    OBVIOUS
  <2>2. ReceiveTypes'
    BY <1>1, <1>2, <1>3, <2>1 DEF ReceiveTypes
  <2> QED
    BY <1>1, <1>2, <1>3, <2>2 DEF SlotTypes
<1>6. worker # "frame" /\ worker' # "frame"
  BY DEF WorkStart, FlushEnd, LoopEnd
<1>7. Holding'
  BY <1>1, <1>3, <1>6 DEF Holding
<1>8. FlagTypes' /\ Running'
  BY <1>1, <1>2, <1>3 DEF WorkStart, FlushEnd, LoopEnd, FlagTypes, Running, Attended
<1>9. NoStrandedFrame'
  <2> SUFFICES ASSUME rxq' # << >>, bpOn'
               PROVE  Attended' \/ (late' # "done" /\ FreeSlots' = {}) \/ rxq' = skipped'
    BY DEF NoStrandedFrame
  <2>1. CASE WorkStart
    <3>1. worker' = "loop" \/ rxq' = skipped'
      BY <1>3, <2>1 DEF WorkStart
    <3> QED
      BY <3>1 DEF Attended
  <2>2. CASE FlushEnd
    <3>1. Attended \/ rxq = skipped
      BY <1>1, <1>2, <2>2 DEF FlushEnd, Running
    <3>2. UNCHANGED <<bell, it, irq, queued, rxq, skipped>> /\ worker = "flush"
      BY <2>2 DEF FlushEnd
    <3>3. Attended => Attended'
      BY <3>2 DEF Attended
    <3> QED
      BY <3>1, <3>2, <3>3
  <2>3. CASE LoopEnd
    <3>1. FreeSlots = {} /\ worker = "loop" /\ UNCHANGED <<fr, queued>>
      BY <1>3, <2>3 DEF LoopEnd
    <3>2. rxPending # << >>
      <4>1. 0 \in Slots /\ fr[0] # Free
        BY <3>1, SysAssumption DEF Slots, FreeSlots
      <4>2. fr[0].type # "free"
        BY <1>1, <4>1, FrameKinds DEF SlotTypes
      <4> QED
        BY <1>1, <3>1, <4>1, <4>2 DEF Holding
    <3>3. late # "done" \/ queued
      BY <1>1, <3>1, <3>2 DEF Running
    <3>4. FreeSlots' = {} /\ late' = late
      BY <1>2, <3>1 DEF FreeSlots
    <3> QED
      BY <3>1, <3>3, <3>4 DEF Attended
  <2> QED
    BY <2>1, <2>2, <2>3
<1> QED
  BY <1>2, <1>4, <1>5, <1>7, <1>8, <1>9, TypesNext DEF SysInv

\* The worker fills a slot.
LEMMA StepRead ==
    ASSUME SysInv, LoopRead
    PROVE  SysInv'
<1> USE DEF irqVars, boot, bp
<1>1. /\ SlotTypes /\ ReceiveTypes /\ FlagTypes /\ Running /\ Holding
  BY Types DEF SysInv
<1>2. SendTypes' /\ UNCHANGED <<boot, bp, irqVars>> /\ irq = "off"
  BY WorkerElsewhere DEF Worker
<1>3. CallerTypes' /\ Trying' /\ PendingIsLive'
  BY CallersRest DEF LoopRead
<1>4. /\ cur' \in Slots /\ fr[cur'] = Free
      /\ worker = "loop" /\ worker' = "frame" /\ fr' = [fr EXCEPT ![cur'] = Head(rxq)]
      /\ UNCHANGED <<queued, rxPending, handled>>
  BY LowestSlot DEF LoopRead, FreeSlots
<1>5. /\ Head(rxq) \in Frame /\ Tail(rxq) \in Seq(Frame)
      /\ Len(Tail(rxq)) = Len(rxq) - 1 /\ Len(rxq) \in Nat
  BY <1>1, HeadTailProperties, LenProperties DEF LoopRead, ReceiveTypes
<1>6. ReceiveTypes'
  BY <1>1, <1>2, <1>5, SettingBounds DEF LoopRead, ReceiveTypes, FlagTypes
<1>7. SlotTypes'
  BY <1>1, <1>4, <1>5 DEF SlotTypes
<1>8. FlagTypes' /\ Running'
  BY <1>1, <1>2, <1>4 DEF FlagTypes, Running
<1>9. Holding'
  <2>1. fr'[cur'].type # "free" /\ \A s \in Slots : s # cur' => fr'[s] = fr[s]
    BY <1>1, <1>4, <1>5, FrameKinds DEF SlotTypes
  <2>2. \A i \in 1 .. Len(rxPending) :
          rxPending[i] \in Slots /\ rxPending[i] # cur' /\ fr'[rxPending[i]].type = "event"
    BY <1>1, <1>4, <2>1, FrameKinds, ElementOfSeq DEF Holding, SlotTypes
  <2>3. \A s \in Slots : fr'[s].type # "free" =>
          s = cur' \/ \E i \in 1 .. Len(rxPending) : rxPending[i] = s
    BY <1>1, <1>4, <2>1 DEF Holding
  <2> QED
    BY <1>1, <1>4, <2>1, <2>2, <2>3 DEF Holding
<1>10. NoStrandedFrame'
  BY <1>4 DEF NoStrandedFrame, Attended
<1> QED
  BY <1>2, <1>3, <1>6, <1>7, <1>8, <1>9, <1>10, TypesNext DEF SysInv

\* The slot in hand becomes free.
LEMMA CurFreed ==
    ASSUME SysInv, worker = "frame", worker' # "frame",
           fr' = [fr EXCEPT ![cur] = Free], UNCHANGED <<rxPending, cur>>
    PROVE  Holding' /\ fr' \in [Slots -> Frame \cup {Free}]
<1>1. SlotTypes /\ Holding
  BY Types DEF SysInv
<1>2. /\ fr' \in [Slots -> Frame \cup {Free}]
      /\ fr'[cur].type = "free" /\ \A s \in Slots : s # cur => fr'[s] = fr[s]
  BY <1>1, FrameKinds DEF SlotTypes
<1>3. \A i \in 1 .. Len(rxPending) :
        rxPending[i] \in Slots /\ rxPending[i] # cur /\ fr'[rxPending[i]].type = "event"
  BY <1>1, <1>2, ElementOfSeq DEF Holding, SlotTypes
<1>4. \A s \in Slots : fr'[s].type # "free" =>
        \E i \in 1 .. Len(rxPending) : rxPending[i] = s
  BY <1>1, <1>2 DEF Holding
<1> QED
  BY <1>1, <1>2, <1>3, <1>4 DEF Holding

\* A reply completes a call or is dropped.
LEMMA StepReply ==
    ASSUME SysInv, HandleReply
    PROVE  SysInv'
<1> USE DEF irqVars, boot, bp
<1>1. /\ CallerTypes /\ SlotTypes /\ ReceiveTypes /\ FlagTypes /\ Running
      /\ Trying /\ PendingIsLive
  BY Types DEF SysInv
<1>2. SendTypes' /\ UNCHANGED <<boot, bp, irqVars>> /\ irq = "off"
  BY WorkerElsewhere DEF Worker
<1>3. /\ worker = "frame" /\ worker' = "loop" /\ fr[cur].type = "reply"
      /\ fr' = [fr EXCEPT ![cur] = Free]
      /\ UNCHANGED <<pc, tries, calls, rxq, queued, cur, rxPending, skipped, handled>>
  BY DEF HandleReply
<1>4. Holding' /\ fr' \in [Slots -> Frame \cup {Free}]
  BY <1>3, CurFreed
<1>5. SlotTypes' /\ ReceiveTypes' /\ FlagTypes' /\ Running' /\ NoStrandedFrame'
  BY <1>1, <1>2, <1>3, <1>4
     DEF SlotTypes, ReceiveTypes, FlagTypes, Running, NoStrandedFrame, Attended
<1>6. fr[cur].call \in 1 .. MaxCalls /\ fr[cur].call # 0
  <2>1. fr[cur] \in Frame
    BY <1>1, <1>3, FrameKinds DEF SlotTypes
  <2> QED
    BY <1>3, <2>1, FrameKinds, SysAssumption
<1>7. CallerTypes' /\ Trying' /\ PendingIsLive'
  <2>1. CASE Matches(fr[cur]) = {}
    <3>1. UNCHANGED <<pending, mesg>>
      BY <2>1 DEF HandleReply
    <3> QED
      BY <1>1, <1>3, <3>1 DEF CallerTypes, Trying, PendingIsLive
  <2>2. CASE Matches(fr[cur]) # {}
    <3> DEFINE t == First(Matches(fr[cur]))
    <3>1. t \in pending /\ t \in Threads
      <4>1. \A u \in Threads : mesg[u].call \in Nat
        BY <1>1 DEF CallerTypes
      <4>2. Matches(fr[cur]) \subseteq pending /\ pending \subseteq Threads
        BY <1>1 DEF Matches, CallerTypes
      <4>3. Matches(fr[cur]) \subseteq Threads
        BY <4>2
      <4>4. t \in Matches(fr[cur])
        BY <2>2, <4>1, <4>3, FirstIsOne, Zenon
      <4> QED
        BY <4>2, <4>4, Zenon
    <3>2. PICK status \in Statuses :
            mesg' = [mesg EXCEPT ![t].answer = fr[cur].call, ![t].status = status]
      BY <2>2 DEF HandleReply, Statuses
    <3>3. pending' = pending \ {t}
      BY <2>2 DEF HandleReply
    <3> HIDE DEF t
    <3>4. CallerTypes'
      <4>1. fr[cur].call \in 0 .. MaxCalls /\ status \in Statuses \cup {"none"}
        BY <1>6, SysAssumption
      <4>2. [mesg[t] EXCEPT !.answer = fr[cur].call, !.status = status]
              \in [key : Keys \cup {0}, call : 0 .. MaxCalls, answer : 0 .. MaxCalls,
                  status : Statuses \cup {"none"}]
        BY <1>1, <3>1, <4>1 DEF CallerTypes
      <4>3. mesg' = [mesg EXCEPT ![t] = [mesg[t] EXCEPT !.answer = fr[cur].call, !.status = status]]
        BY <1>1, <3>1, <3>2 DEF CallerTypes
      <4>4. mesg' \in [Threads -> [key : Keys \cup {0}, call : 0 .. MaxCalls,
                                   answer : 0 .. MaxCalls, status : Statuses \cup {"none"}]]
        BY <1>1, <4>2, <4>3 DEF CallerTypes
      <4> QED
        BY <1>1, <1>3, <3>3, <4>4 DEF CallerTypes
    <3>5. \A u \in Threads : u # t => mesg'[u] = mesg[u]
      BY <1>1, <3>1, <3>2 DEF CallerTypes
    <3>6. mesg'[t].answer = fr[cur].call /\ mesg'[t].call = mesg[t].call /\ mesg'[t].key = mesg[t].key
      BY <1>1, <3>1, <3>2 DEF CallerTypes
    <3>7. Trying'
      BY <1>1, <1>3, <3>5, <3>6 DEF Trying
    <3>8. PendingIsLive'
      BY <1>1, <1>3, <1>6, <3>1, <3>3, <3>5, <3>6 DEF PendingIsLive, CallerTypes
    <3> QED
      BY <3>4, <3>7, <3>8
  <2> QED
    BY <2>1, <2>2
<1> QED
  BY <1>2, <1>4, <1>5, <1>7, TypesNext DEF SysInv

\* An event is handled or held back.
LEMMA StepAsync ==
    ASSUME SysInv, HandleAsync
    PROVE  SysInv'
<1> USE DEF irqVars, boot, bp
<1>1. /\ SlotTypes /\ ReceiveTypes /\ FlagTypes /\ Running /\ Holding
  BY Types DEF SysInv
<1>2. SendTypes' /\ UNCHANGED <<boot, bp, irqVars>> /\ irq = "off"
  BY WorkerElsewhere DEF Worker
<1>3. CallerTypes' /\ Trying' /\ PendingIsLive'
  BY CallersRest DEF HandleAsync
<1>4. /\ worker = "frame" /\ worker' = "loop" /\ fr[cur].type = "event"
      /\ UNCHANGED <<rxq, queued, cur, skipped>>
  BY DEF HandleAsync
<1>5. ReceiveTypes' /\ FlagTypes' /\ NoStrandedFrame'
  BY <1>1, <1>2, <1>4 DEF ReceiveTypes, FlagTypes, NoStrandedFrame, Attended
<1>6. Running'
  BY <1>1, <1>2, <1>4 DEF Running, HandleAsync
<1>7. SlotTypes' /\ Holding'
  <2>1. CASE asyncDone
    <3>1. /\ fr' = [fr EXCEPT ![cur] = Free] /\ UNCHANGED rxPending
          /\ handled' = Append(handled, fr[cur].n)
      BY <2>1 DEF HandleAsync, HandleEvent
    <3>2. Holding' /\ fr' \in [Slots -> Frame \cup {Free}]
      BY <1>4, <3>1, CurFreed
    <3>3. fr[cur] \in Frame
      BY <1>1, <1>4, FrameKinds DEF SlotTypes
    <3>4. handled' \in Seq(1 .. MaxEvents)
      BY <1>1, <1>4, <3>1, <3>3, FrameKinds DEF SlotTypes
    <3> QED
      BY <1>1, <1>4, <3>1, <3>2, <3>4 DEF SlotTypes
  <2>2. CASE ~ asyncDone
    <3>1. rxPending' = Append(rxPending, cur) /\ UNCHANGED <<handled, fr>>
      BY <2>2 DEF HandleAsync
    <3>2. rxPending \in Seq(Slots) /\ cur \in Slots
      BY <1>1 DEF SlotTypes
    <3>3. /\ rxPending' \in Seq(Slots) /\ Len(rxPending') = Len(rxPending) + 1
          /\ rxPending'[Len(rxPending) + 1] = cur
          /\ \A i \in 1 .. Len(rxPending) : rxPending'[i] = rxPending[i]
          /\ Len(rxPending) \in Nat
      BY <3>1, <3>2, AppendProperties, LenProperties
    <3>4. SlotTypes'
      BY <1>1, <1>4, <3>1, <3>3 DEF SlotTypes
    <3>5. \A i \in 1 .. Len(rxPending') :
            i \in 1 .. Len(rxPending) \/ i = Len(rxPending) + 1
      BY <3>3
    <3>6. \A i \in 1 .. Len(rxPending') : fr'[rxPending'[i]].type = "event"
      BY <1>1, <1>4, <3>1, <3>3, <3>5 DEF Holding
    <3>7. \A i, j \in 1 .. Len(rxPending') : rxPending'[i] = rxPending'[j] => i = j
      BY <1>1, <1>4, <3>3, <3>5 DEF Holding
    <3>8. \A s \in Slots : fr'[s].type # "free" =>
            \E i \in 1 .. Len(rxPending') : rxPending'[i] = s
      <4> SUFFICES ASSUME NEW s \in Slots, fr[s].type # "free"
                   PROVE  \E i \in 1 .. Len(rxPending') : rxPending'[i] = s
        BY <3>1
      <4>1. CASE s = cur
        BY <3>3, <4>1
      <4>2. CASE s # cur
        <5>1. PICK i \in 1 .. Len(rxPending) : rxPending[i] = s
          BY <1>1, <4>2 DEF Holding
        <5> QED
          BY <3>3, <5>1
      <4> QED
        BY <4>1, <4>2
    <3> QED
      BY <1>4, <3>4, <3>6, <3>7, <3>8 DEF Holding
  <2> QED
    BY <2>1, <2>2
<1> QED
  BY <1>2, <1>3, <1>5, <1>6, <1>7, TypesNext DEF SysInv

\* The oldest event held back is handled.
LEMMA StepFlush ==
    ASSUME SysInv, Flush
    PROVE  SysInv'
<1> USE DEF irqVars, boot, bp
<1>1. /\ SlotTypes /\ ReceiveTypes /\ FlagTypes /\ Running /\ Holding
  BY Types DEF SysInv
<1>2. SendTypes' /\ UNCHANGED <<boot, bp, irqVars>> /\ irq = "off"
  BY WorkerElsewhere DEF Worker
<1>3. CallerTypes' /\ Trying' /\ PendingIsLive'
  BY CallersRest DEF Flush
<1>4. /\ worker = "flush" /\ rxPending # << >> /\ rxPending' = Tail(rxPending)
      /\ UNCHANGED <<rxq, queued, worker, cur, skipped>>
      /\ fr' = [fr EXCEPT ![Head(rxPending)] = Free]
      /\ handled' = Append(handled, fr[Head(rxPending)].n)
  BY DEF Flush, HandleEvent
<1>5. ReceiveTypes' /\ FlagTypes' /\ Running' /\ NoStrandedFrame'
  <2>1. ReceiveTypes' /\ FlagTypes'
    BY <1>1, <1>2, <1>4 DEF ReceiveTypes, FlagTypes
  <2>2. Attended' = Attended
    BY <1>2, <1>4 DEF Attended
  <2>3. Running'
    BY <1>1, <1>2, <1>4, <2>2 DEF Running
  <2>4. NoStrandedFrame'
    BY <1>1, <1>2, <1>4, <2>2 DEF Running, NoStrandedFrame
  <2> QED
    BY <2>1, <2>3, <2>4
<1> DEFINE s0 == Head(rxPending)
<1>6. /\ s0 = rxPending[1] /\ s0 \in Slots /\ 1 \in 1 .. Len(rxPending)
      /\ rxPending' \in Seq(Slots) /\ Len(rxPending') = Len(rxPending) - 1
      /\ Len(rxPending) \in Nat
      /\ \A i \in 1 .. Len(rxPending') : rxPending'[i] = rxPending[i + 1]
  BY <1>1, <1>4, HeadTailProperties, LenProperties, EmptySeq DEF SlotTypes
<1>7. /\ fr' \in [Slots -> Frame \cup {Free}]
      /\ fr'[s0].type = "free" /\ \A s \in Slots : s # s0 => fr'[s] = fr[s]
  BY <1>1, <1>4, <1>6, FrameKinds DEF SlotTypes
<1>8. handled' \in Seq(1 .. MaxEvents)
  <2>1. fr[s0].type = "event" /\ fr[s0] \in Frame
    BY <1>1, <1>6, FrameKinds DEF Holding, SlotTypes
  <2>2. fr[s0].n \in 1 .. MaxEvents
    BY <2>1, FrameKinds
  <2> QED
    BY <1>1, <1>4, <2>2 DEF SlotTypes
<1>9. SlotTypes'
  BY <1>1, <1>4, <1>6, <1>7, <1>8 DEF SlotTypes
<1> HIDE DEF s0
<1>10. ASSUME NEW i \in 1 .. Len(rxPending')
       PROVE  /\ i + 1 \in 1 .. Len(rxPending) /\ rxPending'[i] = rxPending[i + 1]
              /\ rxPending'[i] \in Slots /\ rxPending'[i] # s0
  <2>1. i + 1 \in 1 .. Len(rxPending) /\ i + 1 # 1 /\ rxPending'[i] = rxPending[i + 1]
    BY <1>6
  <2>2. rxPending[i + 1] # rxPending[1] /\ rxPending[i + 1] \in Slots
    BY <1>1, <1>6, <2>1, ElementOfSeq DEF Holding, SlotTypes
  <2> QED
    BY <1>6, <2>1, <2>2
<1>11. Holding'
  <2>1. \A i \in 1 .. Len(rxPending') : fr'[rxPending'[i]].type = "event"
    BY <1>1, <1>7, <1>10 DEF Holding
  <2>2. \A i, j \in 1 .. Len(rxPending') : rxPending'[i] = rxPending'[j] => i = j
    <3> SUFFICES ASSUME NEW i \in 1 .. Len(rxPending'), NEW j \in 1 .. Len(rxPending'),
                        rxPending'[i] = rxPending'[j]
                 PROVE  i = j
      OBVIOUS
    <3>1. i + 1 = j + 1
      BY <1>1, <1>10 DEF Holding
    <3> QED
      BY <3>1
  <2>3. \A s \in Slots : fr'[s].type # "free" =>
          \E i \in 1 .. Len(rxPending') : rxPending'[i] = s
    <3> SUFFICES ASSUME NEW s \in Slots, fr'[s].type # "free"
                 PROVE  \E i \in 1 .. Len(rxPending') : rxPending'[i] = s
      OBVIOUS
    <3>1. s # s0 /\ fr[s].type # "free"
      BY <1>7
    <3>2. PICK j \in 1 .. Len(rxPending) : rxPending[j] = s
      BY <1>1, <1>4, <3>1 DEF Holding
    <3>3. j # 1 /\ j - 1 \in 1 .. Len(rxPending') /\ (j - 1) + 1 = j
      BY <1>6, <3>1, <3>2
    <3>4. rxPending'[j - 1] = s
      BY <1>6, <3>2, <3>3
    <3> QED
      BY <3>3, <3>4
  <2> QED
    BY <1>4, <2>1, <2>2, <2>3 DEF Holding
<1> QED
  BY <1>2, <1>3, <1>5, <1>9, <1>11, TypesNext DEF SysInv

LEMMA StepSys == SysInv /\ [Next]_vars => SysInv'
<1> SUFFICES ASSUME SysInv, [Next]_vars PROVE SysInv'
  OBVIOUS
<1>1. CASE \E t \in Threads : Caller(t) \/ \E k \in env.uses[t] : Call(t, k)
  BY <1>1, StepCaller, StepCall
<1>2. CASE BpTake \/ BpAnswers \/ BpEvent \/ BpInterrupt \/ BpPowerOff
  BY <1>2, StepBp
<1>3. CASE IrqNotify \/ IrqClear \/ LateInitSet \/ LateInitQueue
  BY <1>3, StepIrq
<1>4. CASE Worker
  BY <1>4, StepRun, StepRead, StepReply, StepAsync, StepFlush DEF Worker
<1>5. CASE UNCHANGED vars
  <2>1. UNCHANGED <<caller, rx, txq, rxq, irqVars, queued, boot, bp>>
    BY <1>5 DEF vars, caller, rx, irqVars, boot, bp
  <2>2. /\ CallerTypes' /\ Trying' /\ PendingIsLive'
        /\ SlotTypes' /\ ReceiveTypes' /\ FlagTypes' /\ Holding' /\ Running' /\ NoStrandedFrame'
    BY <2>1, CallersRest, CallerElsewhere
  <2>3. SendTypes'
    BY <2>1, Types DEF SysInv, SendTypes, bp, boot
  <2> QED
    BY <2>2, <2>3, TypesNext DEF SysInv
<1> QED
  BY <1>1, <1>2, <1>3, <1>4, <1>5 DEF Next

-----------------------------------------------------------------------------
(* The theorems *)

LEMMA SysInvariant == Spec => []SysInv
  BY InitSys, StepSys, PTL DEF Spec

\* Every variable of the channel keeps its type: no ring is overfilled, no slot
\* outside fr_slot[] is used, and only events are given to the notifier chain.
THEOREM TypesHold == Spec => []TypeOK
  BY SysInvariant, PTL DEF SysInv

\* A message is on pending_list only while its caller is inside the call
\* (md_sys.c:207-268), so the worker never writes into a stack frame that is gone.
THEOREM ListIsLive == Spec => []PendingIsLive
  BY SysInvariant, PTL DEF SysInv

\* No frame stays in the receive ring with nobody to fetch it, although the
\* handler clears the interrupt after it queued the work (md.c:855-864), but
\* for the two cases at boot that NoStrandedFrame names: the worker found no slot
\* (md_sys.c:703), or it handed over held events and returned (md_sys.c:692).
THEOREM FramesAreFetched == Spec => []NoStrandedFrame
  BY SysInvariant, PTL DEF SysInv

\* No slot of fr_slot[] leaks and none is filled twice (md_sys.c:683-763).
THEOREM SlotsNeverLeak == Spec => []SlotsAccounted
<1>1. SysInv => SlotsAccounted
  <2> SUFFICES ASSUME SysInv PROVE SlotsAccounted
    OBVIOUS
  <2> DEFINE held == {rxPending[i] : i \in 1 .. Len(rxPending)}
             work == IF worker = "frame" THEN {cur} ELSE {}
             n == Len(rxPending)
             list == [i \in 1 .. n |-> rxPending[i]]
  <2>1. SlotTypes /\ Holding
    BY Types DEF SysInv
  <2>2. /\ \A i \in 1 .. n : rxPending[i] \in Slots
        /\ n \in Nat
    BY <2>1, ElementOfSeq, LenProperties DEF SlotTypes
  <2>3. \A s \in Slots : fr[s] # Free <=> fr[s].type # "free"
    BY <2>1, FrameKinds DEF SlotTypes
  <2>4. \A s \in held : s \in Slots /\ fr[s].type # "free"
    BY <2>1, <2>2 DEF Holding
  <2>5. \A s \in work : s \in Slots /\ fr[s].type # "free"
    BY <2>1 DEF Holding, SlotTypes
  <2>6. {s \in Slots : fr[s] # Free} = held \cup work
    BY <2>1, <2>3, <2>4, <2>5 DEF Holding
  <2>7. held \cap work = {}
    BY <2>1 DEF Holding
  <2>8. Cardinality(held) = n
    <3>1. list \in Bijection(1 .. n, held)
      <4>1. list \in [1 .. n -> held]
        OBVIOUS
      <4>2. \A i, j \in 1 .. n : list[i] = list[j] => i = j
        BY <2>1 DEF Holding
      <4>3. \A s \in held : \E i \in 1 .. n : list[i] = s
        OBVIOUS
      <4> HIDE DEF held, n, list
      <4> QED
        BY <4>1, <4>2, <4>3 DEF Bijection, Injection, IsInjective, Surjection
    <3>2. ExistsBijection(1 .. n, held)
      BY <3>1 DEF ExistsBijection
    <3> HIDE DEF held, n
    <3> QED
      BY <2>2, <3>2, FS_CountingElements
  <2> QED
    BY <2>6, <2>7, <2>8 DEF SlotsAccounted
<1> QED
  BY <1>1, SysInvariant, PTL

-----------------------------------------------------------------------------
(* The two rings as queues: what is added and what is taken *)

LEMMA Added ==
    ASSUME NEW T, NEW s \in Seq(T), NEW x \in T, NEW u, u = Append(s, x)
    PROVE  /\ u \in Seq(T) /\ Len(s) \in Nat /\ Len(u) = Len(s) + 1
           /\ u[Len(s) + 1] = x
           /\ \A i \in 1 .. Len(s) : i \in 1 .. Len(u) /\ u[i] = s[i]
           /\ \A i \in 1 .. Len(u) : i \in 1 .. Len(s) \/ i = Len(s) + 1
  BY AppendProperties, LenProperties

LEMMA Taken ==
    ASSUME NEW T, NEW s \in Seq(T), s # << >>, NEW u, u = Tail(s)
    PROVE  /\ u \in Seq(T) /\ Len(s) \in Nat \ {0} /\ Len(u) = Len(s) - 1
           /\ Head(s) = s[1] /\ Head(s) \in T
           /\ \A i \in 1 .. Len(u) : i + 1 \in 1 .. Len(s) /\ u[i] = s[i + 1]
           /\ \A i \in 1 .. Len(s) : i = 1 \/ (i - 1 \in 1 .. Len(u) /\ u[i - 1] = s[i])
<1>1. Len(s) \in Nat /\ Len(s) # 0
  BY LenProperties, EmptySeq
<1>2. u \in Seq(T) /\ Len(u) = Len(s) - 1 /\ Head(s) = s[1] /\ Head(s) \in T
      /\ \A i \in 1 .. Len(u) : u[i] = s[i + 1]
  BY <1>1, HeadTailProperties, ElementOfSeq
<1>3. ASSUME NEW i \in 1 .. Len(s), i # 1
      PROVE  i - 1 \in 1 .. Len(u) /\ u[i - 1] = s[i]
  <2>1. i - 1 \in 1 .. Len(u) /\ (i - 1) + 1 = i
    BY <1>1, <1>2, <1>3
  <2> QED
    BY <1>2, <2>1
<1> QED
  BY <1>1, <1>2, <1>3

LEMMA TakenRest ==
    ASSUME NEW T, NEW s \in Seq(T), s # << >>, NEW u, u = Tail(s)
    PROVE  \A x : (\E i \in 1 .. Len(s) : x = s[i])
                    <=> x = Head(s) \/ \E i \in 1 .. Len(u) : x = u[i]
<1>1. /\ Len(s) \in Nat \ {0} /\ Head(s) = s[1]
      /\ \A i \in 1 .. Len(u) : i + 1 \in 1 .. Len(s) /\ u[i] = s[i + 1]
      /\ \A i \in 1 .. Len(s) : i = 1 \/ (i - 1 \in 1 .. Len(u) /\ u[i - 1] = s[i])
  BY Taken
<1>2. 1 \in 1 .. Len(s)
  BY <1>1
<1> QED
  BY <1>1, <1>2

-----------------------------------------------------------------------------
(* Every request is in one place *)

\* The numbers of the calls whose request is still to be sent, in the transmit
\* ring, with the BP, and those whose reply is in the receive ring or in hand.
Unsent    == {t \in Threads : pc[t] = "pump"}
Answers   == {i \in 1 .. Len(rxq) : rxq[i].type = "reply"}
NewCalls  == {mesg[t].call : t \in Unsent}
TxCalls   == {txq[i].call : i \in 1 .. Len(txq)}
BpCalls   == {r.call : r \in bpWork}
RxCalls   == {rxq[i].call : i \in Answers}
HandCalls == IF worker = "frame" /\ fr[cur].type = "reply" THEN {fr[cur].call} ELSE {}

CallerDistinct == \A t, u \in Unsent : mesg[t].call = mesg[u].call => t = u
TxDistinct == \A i, j \in 1 .. Len(txq) : txq[i].call = txq[j].call => i = j
BpDistinct == \A r, q \in bpWork : r.call = q.call => r = q
RxDistinct == \A i, j \in Answers : rxq[i].call = rxq[j].call => i = j

Distinct == CallerDistinct /\ TxDistinct /\ BpDistinct /\ RxDistinct

Apart ==
    /\ NewCalls \cap TxCalls = {} /\ NewCalls \cap BpCalls = {}
    /\ NewCalls \cap RxCalls = {} /\ NewCalls \cap HandCalls = {}
    /\ TxCalls \cap BpCalls = {} /\ TxCalls \cap RxCalls = {} /\ TxCalls \cap HandCalls = {}
    /\ BpCalls \cap RxCalls = {} /\ BpCalls \cap HandCalls = {} /\ RxCalls \cap HandCalls = {}

Numbered == NewCalls \cup TxCalls \cup BpCalls \cup RxCalls \cup HandCalls \subseteq 1 .. calls

\* A caller whose timeout expired is on the list unless it was answered.
Heard == \A t \in Threads : pc[t] = "late" /\ mesg[t].answer = 0 => t \in pending

CallInv == Distinct /\ Apart /\ Numbered /\ Heard

LEMMA InitCalls == Init => CallInv
<1> SUFFICES ASSUME Init PROVE CallInv
  OBVIOUS
<1>1. Unsent = {} /\ Answers = {} /\ bpWork = {} /\ HandCalls = {} /\ Len(txq) = 0
  BY DEF Init, Unsent, Answers, HandCalls
<1>2. NewCalls = {} /\ TxCalls = {} /\ BpCalls = {} /\ RxCalls = {}
  BY <1>1 DEF NewCalls, TxCalls, BpCalls, RxCalls
<1>3. Distinct
  BY <1>1 DEF Distinct, CallerDistinct, TxDistinct, BpDistinct, RxDistinct
<1>4. Apart /\ Numbered /\ Heard
  BY <1>1, <1>2 DEF Init, Apart, Numbered, Heard
<1> QED
  BY <1>3, <1>4 DEF CallInv

\* The transmit ring.
LEMMA TxAdded ==
    ASSUME SysInv, TxDistinct, NEW r \in Request, txq' = Append(txq, r), r.call \notin TxCalls
    PROVE  TxDistinct' /\ TxCalls' = TxCalls \cup {r.call}
<1>1. txq \in Seq(Request)
  BY Types DEF SysInv, SendTypes
<1>2. /\ Len(txq) \in Nat /\ Len(txq') = Len(txq) + 1 /\ txq'[Len(txq) + 1] = r
      /\ \A i \in 1 .. Len(txq) : i \in 1 .. Len(txq') /\ txq'[i] = txq[i]
      /\ \A i \in 1 .. Len(txq') : i \in 1 .. Len(txq) \/ i = Len(txq) + 1
  BY <1>1, Added
<1>3. TxDistinct'
  BY <1>2 DEF TxDistinct, TxCalls
<1>4. TxCalls' = TxCalls \cup {r.call}
  BY <1>2 DEF TxCalls
<1> QED
  BY <1>3, <1>4

LEMMA TxTaken ==
    ASSUME SysInv, TxDistinct, txq # << >>, txq' = Tail(txq)
    PROVE  /\ TxDistinct' /\ TxCalls' = TxCalls \ {Head(txq).call}
           /\ Head(txq).call \in TxCalls /\ Head(txq) \in Request
<1>1. txq \in Seq(Request)
  BY Types DEF SysInv, SendTypes
<1>2. /\ Len(txq) \in Nat \ {0} /\ Len(txq') = Len(txq) - 1
      /\ Head(txq) = txq[1] /\ Head(txq) \in Request
      /\ \A i \in 1 .. Len(txq') : i + 1 \in 1 .. Len(txq) /\ txq'[i] = txq[i + 1]
      /\ \A i \in 1 .. Len(txq) : i = 1 \/ (i - 1 \in 1 .. Len(txq') /\ txq'[i - 1] = txq[i])
  BY <1>1, Taken
<1>3. TxDistinct'
  <2> SUFFICES ASSUME NEW i \in 1 .. Len(txq'), NEW j \in 1 .. Len(txq'),
                      txq'[i].call = txq'[j].call
               PROVE  i = j
    BY DEF TxDistinct
  <2>1. i + 1 = j + 1
    BY <1>2 DEF TxDistinct
  <2> QED
    BY <2>1
<1>4. 1 \in 1 .. Len(txq) /\ Head(txq).call \in TxCalls
  BY <1>2 DEF TxCalls
<1>5. ASSUME NEW c PROVE c \in TxCalls' <=> c \in TxCalls \ {Head(txq).call}
  <2>1. ASSUME NEW i \in 1 .. Len(txq'), c = txq'[i].call PROVE c \in TxCalls \ {Head(txq).call}
    <3>1. i + 1 \in 1 .. Len(txq) /\ i + 1 # 1 /\ c = txq[i + 1].call
      BY <1>2, <2>1
    <3> QED
      BY <1>2, <1>4, <3>1 DEF TxCalls, TxDistinct
  <2>2. ASSUME NEW i \in 1 .. Len(txq), c = txq[i].call, c # Head(txq).call PROVE c \in TxCalls'
    BY <1>2, <2>2 DEF TxCalls
  <2> QED
    BY <2>1, <2>2 DEF TxCalls
<1> QED
  BY <1>2, <1>3, <1>4, <1>5

\* The receive ring; events have no number.
LEMMA RxAdded ==
    ASSUME SysInv, RxDistinct, NEW f \in Frame, rxq' = Append(rxq, f),
           f.type = "reply" => f.call \notin RxCalls
    PROVE  /\ RxDistinct'
           /\ RxCalls' = RxCalls \cup (IF f.type = "reply" THEN {f.call} ELSE {})
<1>1. rxq \in Seq(Frame)
  BY Types DEF SysInv, ReceiveTypes
<1>2. /\ Len(rxq) \in Nat /\ Len(rxq') = Len(rxq) + 1 /\ rxq'[Len(rxq) + 1] = f
      /\ \A i \in 1 .. Len(rxq) : i \in 1 .. Len(rxq') /\ rxq'[i] = rxq[i]
      /\ \A i \in 1 .. Len(rxq') : i \in 1 .. Len(rxq) \/ i = Len(rxq) + 1
  BY <1>1, Added
<1>3. RxDistinct'
  BY <1>2 DEF RxDistinct, RxCalls, Answers
<1>4. RxCalls' = RxCalls \cup (IF f.type = "reply" THEN {f.call} ELSE {})
  BY <1>2 DEF RxCalls, Answers
<1> QED
  BY <1>3, <1>4

LEMMA RxTaken ==
    ASSUME SysInv, RxDistinct, rxq # << >>, rxq' = Tail(rxq)
    PROVE  /\ RxDistinct' /\ Head(rxq) \in Frame
           /\ Head(rxq).type = "reply" =>
                Head(rxq).call \in RxCalls /\ RxCalls' = RxCalls \ {Head(rxq).call}
           /\ Head(rxq).type # "reply" => RxCalls' = RxCalls
<1>1. rxq \in Seq(Frame)
  BY Types DEF SysInv, ReceiveTypes
<1>2. /\ Len(rxq) \in Nat \ {0} /\ Len(rxq') = Len(rxq) - 1
      /\ Head(rxq) = rxq[1] /\ Head(rxq) \in Frame
      /\ \A i \in 1 .. Len(rxq') : i + 1 \in 1 .. Len(rxq) /\ rxq'[i] = rxq[i + 1]
      /\ \A i \in 1 .. Len(rxq) : i = 1 \/ (i - 1 \in 1 .. Len(rxq') /\ rxq'[i - 1] = rxq[i])
  BY <1>1, Taken
<1>3. RxDistinct'
  <2> SUFFICES ASSUME NEW i \in Answers', NEW j \in Answers', rxq'[i].call = rxq'[j].call
               PROVE  i = j
    BY DEF RxDistinct
  <2>1. i \in 1 .. Len(rxq') /\ j \in 1 .. Len(rxq')
    BY DEF Answers
  <2>2. i + 1 \in Answers /\ j + 1 \in Answers /\ rxq[i + 1].call = rxq[j + 1].call
    BY <1>2, <2>1 DEF Answers
  <2>3. i + 1 = j + 1
    BY <2>2 DEF RxDistinct
  <2> QED
    BY <2>1, <2>3
<1>4. 1 \in 1 .. Len(rxq)
  BY <1>2
<1>5. ASSUME NEW i \in Answers' PROVE i + 1 \in Answers /\ i + 1 # 1 /\ rxq'[i].call = rxq[i + 1].call
  <2>1. i \in 1 .. Len(rxq') /\ i \in Nat
    BY <1>2 DEF Answers
  <2> QED
    BY <1>2, <1>5, <2>1 DEF Answers
<1>6. ASSUME NEW i \in Answers, i # 1 PROVE i - 1 \in Answers' /\ rxq'[i - 1].call = rxq[i].call
  BY <1>2, <1>6 DEF Answers
<1>7. CASE Head(rxq).type = "reply"
  <2>1. 1 \in Answers /\ Head(rxq).call \in RxCalls
    BY <1>2, <1>4, <1>7 DEF Answers, RxCalls
  <2>2. ASSUME NEW i \in Answers' PROVE rxq'[i].call \in RxCalls \ {Head(rxq).call}
    <3>1. i + 1 \in Answers /\ i + 1 # 1 /\ rxq'[i].call = rxq[i + 1].call
      BY <1>5
    <3>2. rxq[i + 1].call # rxq[1].call
      BY <2>1, <3>1 DEF RxDistinct
    <3> QED
      BY <1>2, <3>1, <3>2 DEF RxCalls
  <2>3. ASSUME NEW i \in Answers, rxq[i].call # Head(rxq).call PROVE rxq[i].call \in RxCalls'
    <3>1. i # 1
      BY <1>2, <2>3
    <3> QED
      BY <1>6, <3>1 DEF RxCalls
  <2>4. RxCalls' = RxCalls \ {Head(rxq).call}
    BY <2>2, <2>3 DEF RxCalls
  <2> QED
    BY <1>2, <1>3, <1>7, <2>1, <2>4
<1>8. CASE Head(rxq).type # "reply"
  <2>1. 1 \notin Answers
    BY <1>2, <1>8 DEF Answers
  <2>2. ASSUME NEW i \in Answers PROVE rxq[i].call \in RxCalls'
    BY <1>6, <2>1 DEF RxCalls
  <2>3. ASSUME NEW i \in Answers' PROVE rxq'[i].call \in RxCalls
    BY <1>5 DEF RxCalls
  <2>4. RxCalls' = RxCalls
    BY <2>2, <2>3 DEF RxCalls
  <2> QED
    BY <1>2, <1>3, <1>8, <2>4
<1> QED
  BY <1>7, <1>8

\* Steps that move no request.
LEMMA CallsElsewhere ==
    ASSUME CallInv, UNCHANGED <<pc, mesg, pending, calls, txq, rxq, bpWork>>,
           HandCalls' = HandCalls
    PROVE  CallInv'
<1>1. /\ Unsent' = Unsent /\ Answers' = Answers
      /\ NewCalls' = NewCalls /\ TxCalls' = TxCalls /\ BpCalls' = BpCalls /\ RxCalls' = RxCalls
  BY DEF Unsent, Answers, NewCalls, TxCalls, BpCalls, RxCalls
<1>2. Distinct'
  BY <1>1 DEF CallInv, Distinct, CallerDistinct, TxDistinct, BpDistinct, RxDistinct
<1>3. Apart' /\ Numbered' /\ Heard'
  BY <1>1 DEF CallInv, Apart, Numbered, Heard
<1> QED
  BY <1>2, <1>3 DEF CallInv

\* What does not change with the callers, and with everything but the callers.
LEMMA CallersOnly ==
    ASSUME CallInv, UNCHANGED <<rxq, bpWork, worker, fr, cur>>
    PROVE  /\ BpDistinct' /\ RxDistinct'
           /\ BpCalls' = BpCalls /\ RxCalls' = RxCalls /\ HandCalls' = HandCalls
<1>1. Answers' = Answers
  BY DEF Answers
<1> QED
  BY <1>1 DEF CallInv, Distinct, BpDistinct, RxDistinct, BpCalls, RxCalls, HandCalls

LEMMA CallersAside ==
    ASSUME CallInv, UNCHANGED <<pc, mesg, pending, calls>>
    PROVE  CallerDistinct' /\ NewCalls' = NewCalls /\ Heard'
<1>1. Unsent' = Unsent
  BY DEF Unsent
<1> QED
  BY <1>1 DEF CallInv, Distinct, CallerDistinct, NewCalls, Heard

\* A call gets a number of its own.
LEMMA CallOnce ==
    ASSUME SysInv, CallInv, NEW t \in Threads, NEW k \in env.uses[t], Call(t, k)
    PROVE  CallInv'
<1>1. CallerTypes
  BY Types DEF SysInv
<1>2. /\ UNCHANGED <<txq, rxq, bpWork, worker, fr, cur>>
      /\ calls' = calls + 1 /\ calls \in Nat
  BY <1>1, SysAssumption DEF Call, CallerTypes, rx, bp
<1>3. /\ BpDistinct' /\ RxDistinct'
      /\ BpCalls' = BpCalls /\ RxCalls' = RxCalls /\ HandCalls' = HandCalls
  BY <1>2, CallersOnly
<1>4. TxCalls' = TxCalls /\ TxDistinct'
  BY <1>2 DEF TxCalls, CallInv, Distinct, TxDistinct
<1>5. /\ \A u \in Threads : u # t => pc'[u] = pc[u] /\ mesg'[u] = mesg[u]
      /\ mesg'[t].call = calls + 1 /\ pc[t] = "idle" /\ pc'[t] \in {"pump", "hung"}
      /\ pending \subseteq pending'
  BY <1>1 DEF Call, CallerTypes
<1>6. NewCalls' \subseteq NewCalls \cup {calls + 1}
  BY <1>5 DEF NewCalls, Unsent
<1>7. calls + 1 \notin 1 .. calls
  BY <1>2
<1>8. CallerDistinct'
  <2> SUFFICES ASSUME NEW u \in Unsent', NEW v \in Unsent', mesg'[u].call = mesg'[v].call
               PROVE  u = v
    BY DEF CallerDistinct
  <2>1. \A w \in Unsent' : w = t \/ (w \in Unsent /\ mesg'[w] = mesg[w])
    BY <1>5 DEF Unsent
  <2>2. \A w \in Unsent : mesg[w].call # calls + 1
    BY <1>7 DEF CallInv, Numbered, NewCalls
  <2> QED
    BY <1>5, <2>1, <2>2 DEF CallInv, Distinct, CallerDistinct
<1>9. Apart' /\ Numbered'
  <2>1. 1 .. calls \subseteq 1 .. calls' /\ calls + 1 \in 1 .. calls'
    BY <1>2
  <2>2. calls + 1 \notin TxCalls \cup BpCalls \cup RxCalls \cup HandCalls
    BY <1>7 DEF CallInv, Numbered
  <2>3. Apart'
    BY <1>3, <1>4, <1>6, <2>2 DEF CallInv, Apart
  <2>4. Numbered'
    BY <1>3, <1>4, <1>6, <2>1 DEF CallInv, Numbered
  <2> QED
    BY <2>3, <2>4
<1>10. Heard'
  BY <1>5 DEF CallInv, Heard
<1> QED
  BY <1>3, <1>4, <1>8, <1>9, <1>10 DEF CallInv, Distinct

\* The request is sent.
LEMMA PumpOnce ==
    ASSUME SysInv, CallInv, NEW t \in Threads, Pump(t)
    PROVE  CallInv'
<1> DEFINE r == [call |-> mesg[t].call, key |-> mesg[t].key]
<1>1. CallerTypes /\ Trying
  BY Types DEF SysInv
<1>2. /\ UNCHANGED <<rxq, bpWork, worker, fr, cur, mesg, pending, calls>>
      /\ txq' = Append(txq, r) /\ pc[t] = "pump" /\ pc' = [pc EXCEPT ![t] = "wait"]
  BY DEF Pump, rx, bp
<1>3. /\ BpDistinct' /\ RxDistinct'
      /\ BpCalls' = BpCalls /\ RxCalls' = RxCalls /\ HandCalls' = HandCalls
  BY <1>2, CallersOnly
<1>4. r \in Request
  BY <1>1, <1>2 DEF Trying, Request
<1>5. t \in Unsent /\ mesg[t].call \in NewCalls /\ Unsent' = Unsent \ {t}
  BY <1>1, <1>2 DEF Unsent, NewCalls, CallerTypes
<1>6. mesg[t].call \notin TxCalls
  BY <1>5 DEF CallInv, Apart
<1>7. TxDistinct' /\ TxCalls' = TxCalls \cup {mesg[t].call}
  BY <1>2, <1>4, <1>6, TxAdded DEF CallInv, Distinct
<1>8. CallerDistinct' /\ NewCalls' = NewCalls \ {mesg[t].call}
  BY <1>2, <1>5 DEF CallInv, Distinct, CallerDistinct, NewCalls
<1>9. Apart' /\ Numbered'
  BY <1>2, <1>3, <1>5, <1>7, <1>8 DEF CallInv, Apart, Numbered
<1>10. Heard'
  BY <1>1, <1>2 DEF CallInv, Heard, CallerTypes
<1> QED
  BY <1>3, <1>7, <1>8, <1>9, <1>10 DEF CallInv, Distinct

\* The caller's other steps send nothing.
LEMMA CallerOnce ==
    ASSUME SysInv, CallInv, NEW t \in Threads,
           PumpBusy(t) \/ Completed(t) \/ TimedOut(t) \/ \E dbg \in env.dbg : GiveUp(t, dbg)
    PROVE  CallInv'
<1>1. CallerTypes /\ PendingIsLive
  BY Types DEF SysInv
<1>2. /\ UNCHANGED <<txq, rxq, bpWork, worker, fr, cur, calls>>
      /\ \A u \in Threads : u # t => pc'[u] = pc[u] /\ mesg'[u] = mesg[u] /\ (u \in pending => u \in pending')
      /\ pc'[t] = "pump" => pc[t] = "pump" /\ mesg'[t] = mesg[t]
      /\ pc'[t] = "late" => mesg'[t] = mesg[t] /\ (pc[t] = "wait" \/ pc[t] = "late") /\ pending' = pending
  BY <1>1 DEF PumpBusy, Completed, TimedOut, GiveUp, rx, bp, CallerTypes
<1>3. /\ BpDistinct' /\ RxDistinct'
      /\ BpCalls' = BpCalls /\ RxCalls' = RxCalls /\ HandCalls' = HandCalls
  BY <1>2, CallersOnly
<1>4. TxCalls' = TxCalls /\ TxDistinct'
  BY <1>2 DEF TxCalls, CallInv, Distinct, TxDistinct
<1>5. Unsent' \subseteq Unsent /\ \A u \in Unsent' : mesg'[u] = mesg[u]
  BY <1>2 DEF Unsent
<1>6. NewCalls' \subseteq NewCalls /\ CallerDistinct'
  BY <1>5 DEF NewCalls, CallInv, Distinct, CallerDistinct
<1>7. Apart' /\ Numbered'
  BY <1>2, <1>3, <1>4, <1>6 DEF CallInv, Apart, Numbered
<1>8. Heard'
  BY <1>1, <1>2 DEF CallInv, Heard, PendingIsLive
<1> QED
  BY <1>3, <1>4, <1>6, <1>7, <1>8 DEF CallInv, Distinct

\* The BP takes requests and answers each once.
LEMMA BpOnce ==
    ASSUME SysInv, CallInv, BpTake \/ BpAnswers \/ BpEvent
    PROVE  CallInv'
<1>1. UNCHANGED <<pc, mesg, pending, calls, worker, fr, cur>>
  BY DEF BpTake, BpAnswers, BpReply, BpEvent, caller, rx
<1>2. CallerDistinct' /\ NewCalls' = NewCalls /\ Heard'
  BY <1>1, CallersAside
<1>3. HandCalls' = HandCalls
  BY <1>1 DEF HandCalls
<1>4. CASE BpTake
  <2>1. txq # << >> /\ txq' = Tail(txq) /\ bpWork' = bpWork \cup {Head(txq)} /\ rxq' = rxq
    BY <1>4 DEF BpTake
  <2>2. /\ TxDistinct' /\ TxCalls' = TxCalls \ {Head(txq).call}
        /\ Head(txq).call \in TxCalls
    BY <2>1, TxTaken DEF CallInv, Distinct
  <2>3. RxDistinct' /\ RxCalls' = RxCalls
    <3>1. Answers' = Answers
      BY <2>1 DEF Answers
    <3> QED
      BY <2>1, <3>1 DEF CallInv, Distinct, RxDistinct, RxCalls
  <2>4. Head(txq).call \notin BpCalls
    BY <2>2 DEF CallInv, Apart
  <2>5. BpDistinct' /\ BpCalls' = BpCalls \cup {Head(txq).call}
    BY <2>1, <2>4 DEF CallInv, Distinct, BpDistinct, BpCalls
  <2>6. Apart' /\ Numbered'
    BY <1>1, <1>2, <1>3, <2>2, <2>3, <2>5 DEF CallInv, Apart, Numbered
  <2> QED
    BY <1>2, <2>2, <2>3, <2>5, <2>6 DEF CallInv, Distinct
<1>5. CASE BpAnswers \/ BpEvent
  <2>1. txq' = txq
    BY <1>5 DEF BpAnswers, BpReply, BpEvent
  <2>2. TxDistinct' /\ TxCalls' = TxCalls
    BY <2>1 DEF CallInv, Distinct, TxDistinct, TxCalls
  <2>3. CASE BpAnswers
    <3>1. PICK r \in bpWork, fits \in env.fits : BpReply(r, fits)
      BY <2>3 DEF BpAnswers
    <3> DEFINE f == ReplyTo(r, fits)
    <3>2. f \in Frame /\ f.type = "reply" /\ f.call = r.call
      BY Types, SettingBounds DEF ReplyTo, Frame, Request, SendTypes, FlagTypes, SysInv
    <3>3. rxq' = Append(rxq, f) /\ bpWork' = bpWork \ {r}
      BY <3>1 DEF BpReply, Publish
    <3> HIDE DEF f
    <3>4. BpDistinct' /\ BpCalls' = BpCalls \ {r.call} /\ r.call \in BpCalls
      BY <3>3 DEF CallInv, Distinct, BpDistinct, BpCalls
    <3>5. RxDistinct' /\ RxCalls' = RxCalls \cup {r.call}
      <4>1. f.call \notin RxCalls
        BY <3>2, <3>4 DEF CallInv, Apart
      <4> QED
        BY <3>2, <3>3, <4>1, RxAdded DEF CallInv, Distinct
    <3>6. Apart' /\ Numbered'
      BY <1>1, <1>2, <1>3, <2>2, <3>4, <3>5 DEF CallInv, Apart, Numbered
    <3> QED
      BY <1>2, <2>2, <3>4, <3>5, <3>6 DEF CallInv, Distinct
  <2>4. CASE BpEvent
    <3> DEFINE f == Event(events + 1)
    <3>1. f \in Frame /\ f.type # "reply"
      <4>1. events + 1 \in 1 .. MaxEvents
        BY <2>4, Types, SettingBounds, SysAssumption DEF BpEvent, SendTypes, FlagTypes, SysInv
      <4> QED
        BY <4>1 DEF Frame, Event
    <3>2. rxq' = Append(rxq, f) /\ bpWork' = bpWork
      BY <2>4 DEF BpEvent, Publish
    <3> HIDE DEF f
    <3>3. RxDistinct' /\ RxCalls' = RxCalls
      BY <3>1, <3>2, RxAdded DEF CallInv, Distinct
    <3>4. BpDistinct' /\ BpCalls' = BpCalls
      BY <3>2 DEF CallInv, Distinct, BpDistinct, BpCalls
    <3>5. Apart' /\ Numbered'
      BY <1>1, <1>2, <1>3, <2>2, <3>3, <3>4 DEF CallInv, Apart, Numbered
    <3> QED
      BY <1>2, <2>2, <3>3, <3>4, <3>5 DEF CallInv, Distinct
  <2> QED
    BY <1>5, <2>3, <2>4
<1> QED
  BY <1>4, <1>5

\* The first pending message a reply fits.
LEMMA FirstMatch ==
    ASSUME SysInv, NEW f, Matches(f) # {}
    PROVE  /\ First(Matches(f)) \in Matches(f)
           /\ Matches(f) \subseteq pending /\ pending \subseteq Threads
<1>1. \A u \in Threads : mesg[u].call \in Nat
  BY Types DEF SysInv, CallerTypes
<1>2. Matches(f) \subseteq pending /\ pending \subseteq Threads
  BY Types DEF SysInv, CallerTypes, Matches
<1>3. Matches(f) \subseteq Threads
  BY <1>2
<1>4. First(Matches(f)) \in Matches(f)
  BY <1>1, <1>3, FirstIsOne, Zenon
<1> QED
  BY <1>2, <1>4

\* The worker takes a reply from the ring, and completes one caller or none.
LEMMA ReadOnce == ASSUME SysInv, CallInv, LoopRead PROVE CallInv'
<1>1. /\ UNCHANGED <<pc, mesg, pending, calls, txq, bpWork>>
      /\ rxq # << >> /\ rxq' = Tail(rxq) /\ worker = "loop" /\ worker' = "frame"
      /\ cur' \in Slots /\ fr'[cur'] = Head(rxq)
  BY LowestSlot, Types DEF LoopRead, FreeSlots, caller, bp, SysInv, SlotTypes
<1>2. CallerDistinct' /\ NewCalls' = NewCalls /\ Heard'
  BY <1>1, CallersAside
<1>3. TxDistinct' /\ TxCalls' = TxCalls /\ BpDistinct' /\ BpCalls' = BpCalls
  BY <1>1 DEF CallInv, Distinct, TxDistinct, TxCalls, BpDistinct, BpCalls
<1>4. /\ RxDistinct'
      /\ Head(rxq).type = "reply" =>
           Head(rxq).call \in RxCalls /\ RxCalls' = RxCalls \ {Head(rxq).call}
      /\ Head(rxq).type # "reply" => RxCalls' = RxCalls
  BY <1>1, RxTaken DEF CallInv, Distinct
<1>5. HandCalls' = IF Head(rxq).type = "reply" THEN {Head(rxq).call} ELSE {}
  BY <1>1 DEF HandCalls
<1>6. Apart' /\ Numbered'
  BY <1>1, <1>2, <1>3, <1>4, <1>5 DEF CallInv, Apart, Numbered
<1> QED
  BY <1>2, <1>3, <1>4, <1>6 DEF CallInv, Distinct

\* What the reply in hand changes for the callers.
LEMMA Answered ==
    ASSUME SysInv, HandleReply, Matches(fr[cur]) # {}, NEW t, t = First(Matches(fr[cur]))
    PROVE  /\ t \in Matches(fr[cur]) /\ t \in pending /\ t \in Threads
           /\ pending' = pending \ {t}
           /\ \A u \in Threads : u # t => mesg'[u] = mesg[u]
           /\ mesg'[t] = [mesg[t] EXCEPT !.answer = fr[cur].call, !.status = StatusOf(fr[cur])]
           /\ DOMAIN mesg' = Threads
           /\ fr[cur].call \in 1 .. MaxCalls
<1>1. CallerTypes /\ SlotTypes
  BY Types DEF SysInv
<1>2. t \in Matches(fr[cur]) /\ t \in pending /\ t \in Threads
  BY FirstMatch
<1>3. /\ pending' = pending \ {t}
      /\ mesg' = [mesg EXCEPT ![t].answer = fr[cur].call,
                              ![t].status = IF fr[cur].fits THEN "ok" ELSE "ENOMEM"]
  BY DEF HandleReply
<1>4. fr[cur].call \in 1 .. MaxCalls
  BY <1>1, FrameKinds DEF HandleReply, SlotTypes
<1> QED
  BY <1>1, <1>2, <1>3, <1>4 DEF CallerTypes, StatusOf

LEMMA ReplyOnce == ASSUME SysInv, CallInv, HandleReply PROVE CallInv'
<1>1. /\ UNCHANGED <<pc, calls, txq, rxq, bpWork>> /\ worker' = "loop"
  BY DEF HandleReply, bp
<1>2. /\ \A u \in Threads : mesg'[u].call = mesg[u].call
      /\ \A u \in Threads : u \in pending /\ u \notin pending' => mesg'[u].answer # 0
      /\ \A u \in Threads : mesg'[u].answer = 0 => mesg[u].answer = 0
  <2>1. CASE Matches(fr[cur]) = {}
    BY <2>1 DEF HandleReply
  <2>2. CASE Matches(fr[cur]) # {}
    <3> DEFINE t == First(Matches(fr[cur]))
    <3>1. /\ t \in Matches(fr[cur]) /\ t \in pending /\ t \in Threads
          /\ pending' = pending \ {t}
          /\ \A u \in Threads : u # t => mesg'[u] = mesg[u]
          /\ mesg'[t] = [mesg[t] EXCEPT !.answer = fr[cur].call, !.status = StatusOf(fr[cur])]
          /\ fr[cur].call \in 1 .. MaxCalls
      BY <2>2, Answered, Zenon
    <3> HIDE DEF t
    <3>2. fr[cur].call # 0
      BY <3>1, SysAssumption
    <3>3. mesg[t] \in [key : Keys \cup {0}, call : 0 .. MaxCalls, answer : 0 .. MaxCalls,
                       status : Statuses \cup {"none"}]
      BY <3>1, Types DEF SysInv, CallerTypes
    <3>4. mesg'[t].call = mesg[t].call /\ mesg'[t].answer = fr[cur].call
      BY <3>1, <3>3
    <3> QED
      BY <3>1, <3>2, <3>4
  <2> QED
    BY <2>1, <2>2
<1>3. Unsent' = Unsent /\ Answers' = Answers
  BY <1>1 DEF Unsent, Answers
<1>4. NewCalls' = NewCalls /\ CallerDistinct'
  BY <1>2, <1>3 DEF NewCalls, CallInv, Distinct, CallerDistinct, Unsent
<1>5. /\ TxDistinct' /\ BpDistinct' /\ RxDistinct'
      /\ TxCalls' = TxCalls /\ BpCalls' = BpCalls /\ RxCalls' = RxCalls
  BY <1>1, <1>3 DEF CallInv, Distinct, TxDistinct, BpDistinct, RxDistinct, TxCalls, BpCalls, RxCalls
<1>6. HandCalls' = {}
  BY <1>1 DEF HandCalls
<1>7. Apart' /\ Numbered'
  BY <1>1, <1>4, <1>5, <1>6 DEF CallInv, Apart, Numbered
<1>8. Heard'
  BY <1>1, <1>2 DEF CallInv, Heard
<1> QED
  BY <1>4, <1>5, <1>7, <1>8 DEF CallInv, Distinct

LEMMA StepCalls == SysInv /\ CallInv /\ [Next]_vars => CallInv'
<1> SUFFICES ASSUME SysInv, CallInv, [Next]_vars PROVE CallInv'
  OBVIOUS
<1>1. CASE \E t \in Threads : Caller(t) \/ \E k \in env.uses[t] : Call(t, k)
  BY <1>1, CallOnce, PumpOnce, CallerOnce DEF Caller
<1>2. CASE BpTake \/ BpAnswers \/ BpEvent
  BY <1>2, BpOnce
<1>3. CASE BpInterrupt \/ BpPowerOff \/ IrqNotify \/ IrqClear \/ LateInitSet \/ LateInitQueue
           \/ UNCHANGED vars
  <2>1. UNCHANGED <<pc, mesg, pending, calls, txq, rxq, bpWork, worker, fr, cur>>
    BY <1>3 DEF BpInterrupt, BpPowerOff, IrqNotify, IrqClear, LateInitSet, LateInitQueue, vars,
                caller, rx, bp
  <2> QED
    BY <2>1, CallsElsewhere DEF HandCalls
<1>4. CASE WorkStart \/ Flush \/ FlushEnd \/ LoopEnd \/ HandleAsync
  <2>1. UNCHANGED <<pc, mesg, pending, calls, txq, rxq, bpWork>>
    BY <1>4 DEF WorkStart, Flush, FlushEnd, LoopEnd, HandleAsync, caller, bp
  <2>2. HandCalls = {} /\ HandCalls' = {}
    BY <1>4 DEF WorkStart, Flush, FlushEnd, LoopEnd, HandleAsync, HandCalls
  <2> QED
    BY <2>1, <2>2, CallsElsewhere
<1>5. CASE LoopRead
  BY <1>5, ReadOnce
<1>6. CASE HandleReply
  BY <1>6, ReplyOnce
<1> QED
  BY <1>1, <1>2, <1>3, <1>4, <1>5, <1>6 DEF Next, Worker

\* A command is sent to the BP once and answered to the AP once
\* (md_sys.c:150-205, 696-760): no number is in two places of its way.
THEOREM RequestsAreSingle == Spec => [](Distinct /\ Apart)
<1>1. Init => SysInv /\ CallInv
  BY InitSys, InitCalls
<1>2. (SysInv /\ CallInv) /\ [Next]_vars => (SysInv /\ CallInv)'
  BY StepSys, StepCalls
<1>3. CallInv => Distinct /\ Apart
  BY DEF CallInv
<1> QED
  BY <1>1, <1>2, <1>3, PTL DEF Spec

-----------------------------------------------------------------------------
(* The channel is a remote procedure call *)

\* What the mapping makes of the three parts of the call.
Client == [t \in Threads |-> IF pc[t] \in {"pump", "wait", "late"} THEN mesg[t] ELSE NoMesg]
Reported(f) == [call |-> f.call, key |-> f.key, status |-> StatusOf(f)]
Answering == {Reported(f) : f \in Replies}

LEMMA Mapped == /\ Rpc!vars = <<Client, Asked, Answering>>
                /\ Rpc!vars' = <<Client', Asked', Answering'>>
  BY DEF Rpc!vars, Client, Answering, Reported

LEMMA RpcBegins ==
    ASSUME NEW t \in Threads, NEW k \in Keys, NEW c \in 1 .. MaxCalls, Client[t] = NoMesg,
           Client' = [Client EXCEPT ![t] = [key |-> k, call |-> c, answer |-> 0, status |-> "none"]],
           UNCHANGED <<Asked, Answering>>
    PROVE  Rpc!Next
<1>1. Rpc!Begin(t)
  BY DEF Rpc!Begin, Rpc!Idle, NoMesg, Client, Answering, Reported
<1> QED
  BY <1>1 DEF Rpc!Next

LEMMA RpcAsks ==
    ASSUME NEW t \in Threads, Client[t] # NoMesg,
           Asked' = Asked \cup {[call |-> Client[t].call, key |-> Client[t].key]},
           UNCHANGED <<Client, Answering>>
    PROVE  Rpc!Next
<1>1. Rpc!Ask(t)
  BY DEF Rpc!Ask, Rpc!Idle, NoMesg, Client, Answering, Reported
<1> QED
  BY <1>1 DEF Rpc!Next

LEMMA RpcReplies ==
    ASSUME NEW r \in Asked, NEW s \in Statuses, Asked' = Asked \ {r},
           Answering' = Answering \cup {[call |-> r.call, key |-> r.key, status |-> s]},
           UNCHANGED Client
    PROVE  Rpc!Next
<1>1. Rpc!Reply
  BY DEF Rpc!Reply, Client, Answering, Reported
<1> QED
  BY <1>1 DEF Rpc!Next

Waiting(a) == {t \in Threads : /\ Client[t] # NoMesg /\ Client[t].answer = 0
                               /\ Client[t].key = a.key}

LEMMA RpcDelivers ==
    ASSUME NEW a \in Answering, Answering' = Answering \ {a}, UNCHANGED Asked,
           \/ Waiting(a) = {} /\ UNCHANGED Client
           \/ \E t \in Waiting(a) :
                Client' = [Client EXCEPT ![t].answer = a.call, ![t].status = a.status]
    PROVE  Rpc!Next
<1>1. Rpc!Waiting(a) = Waiting(a)
  BY DEF Rpc!Waiting, Waiting, Client, Rpc!Idle, NoMesg
<1>2. Rpc!Deliver
  BY <1>1 DEF Rpc!Deliver, Client, Answering, Reported
<1> QED
  BY <1>2 DEF Rpc!Next

LEMMA RpcReturns ==
    ASSUME NEW t \in Threads, Client[t] # NoMesg, Client' = [Client EXCEPT ![t] = NoMesg],
           UNCHANGED <<Asked, Answering>>
    PROVE  Rpc!Next
<1>1. Rpc!Return(t)
  BY DEF Rpc!Return, Rpc!Idle, NoMesg, Client, Answering, Reported
<1> QED
  BY <1>1 DEF Rpc!Next

LEMMA InitRpc == Init => Rpc!Init
<1> SUFFICES ASSUME Init PROVE Rpc!Init
  OBVIOUS
<1>1. Client = [t \in Threads |-> NoMesg]
  BY DEF Init, Client
<1>2. Asked = {} /\ Replies = {}
  BY DEF Init, Asked, Replies
<1> QED
  BY <1>1, <1>2 DEF Rpc!Init, Rpc!Idle, NoMesg, Client

\* What the callers see of the rest, and the rest of the callers.
LEMMA ClientAside == ASSUME UNCHANGED <<pc, mesg>> PROVE UNCHANGED Client
  BY DEF Client

LEMMA RequestsAside == ASSUME UNCHANGED <<txq, bpWork>> PROVE UNCHANGED Asked
  BY DEF Asked

LEMMA AnswersAside ==
    ASSUME UNCHANGED rxq, UNCHANGED <<worker, fr, cur>> \/ (worker # "frame" /\ worker' # "frame")
    PROVE  UNCHANGED Answering
<1>1. UNCHANGED Replies
  BY DEF Replies
<1> QED
  BY <1>1 DEF Answering, Reported, StatusOf

\* One thread moves.
LEMMA ClientMoves ==
    ASSUME SysInv, NEW t \in Threads, NEW p, NEW m, pc' = [pc EXCEPT ![t] = p],
           mesg' = [mesg EXCEPT ![t] = m]
    PROVE  /\ p \in {"pump", "wait", "late"} => Client' = [Client EXCEPT ![t] = m]
           /\ p \notin {"pump", "wait", "late"} => Client' = [Client EXCEPT ![t] = NoMesg]
           /\ Client = [Client EXCEPT ![t] = Client[t]]
<1>1. \A u \in Threads : u # t => pc'[u] = pc[u] /\ mesg'[u] = mesg[u]
  BY Types DEF SysInv, CallerTypes
<1>2. pc'[t] = p /\ mesg'[t] = m
  BY Types DEF SysInv, CallerTypes
<1> QED
  BY <1>1, <1>2 DEF Client

\* The caller's steps: a call begins, its request leaves, it returns.
LEMMA CallerRpc ==
    ASSUME SysInv, NEW t \in Threads,
           Caller(t) \/ \E k \in env.uses[t] : Call(t, k)
    PROVE  Rpc!Next \/ UNCHANGED Rpc!vars
<1>1. CallerTypes /\ FlagTypes /\ Trying
  BY Types DEF SysInv
<1>2. UNCHANGED <<rxq, worker, fr, cur, bpWork>>
  BY DEF Caller, Call, Pump, PumpBusy, Completed, TimedOut, GiveUp, rx, bp
<1>3. UNCHANGED Answering
  BY <1>2, AnswersAside
<1>4. mesg = [mesg EXCEPT ![t] = mesg[t]] /\ Client[t] \in {mesg[t], NoMesg}
  BY <1>1 DEF CallerTypes, Client
<1>5. CASE \E k \in env.uses[t] : Call(t, k)
  <2>1. PICK k \in env.uses[t] : Call(t, k)
    BY <1>5
  <2>2. k \in Keys /\ calls + 1 \in 1 .. MaxCalls
    BY <1>1, <2>1, SettingBounds, SysAssumption DEF Call, CallerTypes, FlagTypes
  <2> DEFINE m == [key |-> k, call |-> calls + 1, answer |-> 0, status |-> "none"]
  <2>3. pc[t] = "idle" /\ Client[t] = NoMesg /\ UNCHANGED Asked /\ mesg' = [mesg EXCEPT ![t] = m]
    BY <1>2, <2>1 DEF Call, Client, Asked
  <2> HIDE DEF m
  <2>4. CASE bpOn
    <3>1. pc' = [pc EXCEPT ![t] = "pump"]
      BY <2>1, <2>4 DEF Call
    <3>2. Client' = [Client EXCEPT ![t] = m]
      BY <2>3, <3>1, ClientMoves
    <3> QED
      BY <1>3, <2>2, <2>3, <3>2, RpcBegins DEF m
  <2>5. CASE ~ bpOn
    <3>1. pc' = [pc EXCEPT ![t] = "hung"]
      BY <2>1, <2>5 DEF Call
    <3>2. Client' = [Client EXCEPT ![t] = NoMesg] /\ Client = [Client EXCEPT ![t] = NoMesg]
      BY <2>3, <3>1, ClientMoves
    <3> QED
      BY <1>3, <2>3, <3>2, Mapped
  <2> QED
    BY <2>4, <2>5
<1>6. CASE Pump(t)
  <2> DEFINE r == [call |-> mesg[t].call, key |-> mesg[t].key]
  <2>1. pc[t] = "pump" /\ Client[t] = mesg[t] /\ mesg[t].key \in Keys
    BY <1>1, <1>6 DEF Pump, Client, Trying
  <2>2. Client[t] # NoMesg
    BY <2>1, SysAssumption DEF NoMesg
  <2>3. UNCHANGED Client
    <3>1. pc' = [pc EXCEPT ![t] = "wait"] /\ mesg' = mesg
      BY <1>6 DEF Pump
    <3>2. Client' = [Client EXCEPT ![t] = mesg[t]] /\ Client = [Client EXCEPT ![t] = Client[t]]
      BY <1>4, <3>1, ClientMoves
    <3> QED
      BY <2>1, <3>2
  <2>4. Asked' = Asked \cup {r}
    <3>1. r \in Request
      BY <1>1, <2>1 DEF Trying, Request
    <3>2. txq \in Seq(Request) /\ txq' = Append(txq, r)
      BY <1>6, Types DEF Pump, SysInv, SendTypes
    <3> HIDE DEF r
    <3>3. /\ \A i \in 1 .. Len(txq) : i \in 1 .. Len(txq') /\ txq'[i] = txq[i]
          /\ \A i \in 1 .. Len(txq') : i \in 1 .. Len(txq) \/ i = Len(txq) + 1
          /\ Len(txq') = Len(txq) + 1 /\ Len(txq) \in Nat /\ txq'[Len(txq) + 1] = r
      BY <3>1, <3>2, Added
    <3> QED
      BY <1>2, <3>3 DEF Asked
  <2> QED
    BY <1>3, <2>1, <2>2, <2>3, <2>4, RpcAsks
<1>7. CASE PumpBusy(t) \/ Completed(t) \/ TimedOut(t) \/ \E dbg \in env.dbg : GiveUp(t, dbg)
  <2>1. txq' = txq /\ UNCHANGED Asked
    BY <1>2, <1>7 DEF PumpBusy, Completed, TimedOut, GiveUp, Asked
  <2>2. PICK p \in {"idle", "pump", "late", "hung", "bug"}, m \in {mesg[t], NoMesg} :
          /\ pc' = [pc EXCEPT ![t] = p] /\ mesg' = [mesg EXCEPT ![t] = m]
          /\ p \in {"pump", "wait", "late"} =>
               m = mesg[t] /\ pc[t] \in {"pump", "wait", "late"}
    <3>1. CASE PumpBusy(t)
      BY <1>4, <3>1 DEF PumpBusy
    <3>2. CASE Completed(t)
      BY <3>2 DEF Completed
    <3>3. CASE TimedOut(t)
      BY <1>4, <3>3 DEF TimedOut
    <3>4. CASE \E dbg \in env.dbg : GiveUp(t, dbg)
      BY <1>1, <1>4, <3>4 DEF GiveUp, CallerTypes
    <3> QED
      BY <1>7, <3>1, <3>2, <3>3, <3>4
  <2>3. Client = [Client EXCEPT ![t] = Client[t]]
    BY <2>2, ClientMoves
  <2>4. CASE p \in {"pump", "wait", "late"}
    <3>1. Client' = [Client EXCEPT ![t] = m] /\ Client[t] = m
      BY <2>2, <2>4, ClientMoves DEF Client
    <3> QED
      BY <1>3, <2>1, <2>3, <3>1, Mapped
  <2>5. CASE p \notin {"pump", "wait", "late"}
    <3>1. Client' = [Client EXCEPT ![t] = NoMesg]
      BY <2>2, <2>5, ClientMoves
    <3>2. CASE Client[t] = NoMesg
      BY <1>3, <2>1, <2>3, <3>1, <3>2, Mapped
    <3>3. CASE Client[t] # NoMesg
      BY <1>3, <2>1, <3>1, <3>3, RpcReturns
    <3> QED
      BY <3>2, <3>3
  <2> QED
    BY <2>4, <2>5
<1> QED
  BY <1>5, <1>6, <1>7 DEF Caller

\* Two answers that are on their way have numbers of their own.
LEMMA InRing ==
    ASSUME SysInv, CallInv, worker = "frame", fr[cur].type = "reply",
           NEW i \in 1 .. Len(rxq), rxq[i].type = "reply"
    PROVE  rxq[i].call # fr[cur].call
<1>1. rxq[i].call \in RxCalls /\ fr[cur].call \in HandCalls
  BY DEF RxCalls, Answers, HandCalls
<1> QED
  BY <1>1 DEF CallInv, Apart

\* The BP takes requests, which the mapping does not see, and answers them.
LEMMA BpRpc ==
    ASSUME SysInv, CallInv, BpTake \/ BpAnswers \/ BpEvent
    PROVE  Rpc!Next \/ UNCHANGED Rpc!vars
<1>1. /\ SendTypes /\ ReceiveTypes /\ FlagTypes /\ txq \in Seq(Request) /\ rxq \in Seq(Frame)
  BY Types DEF SysInv, SendTypes, ReceiveTypes
<1>2. UNCHANGED <<pc, mesg, worker, fr, cur>>
  BY DEF BpTake, BpAnswers, BpReply, BpEvent, caller, rx
<1>3. UNCHANGED Client
  BY <1>2, ClientAside
<1>4. ASSUME NEW f \in Frame, rxq' = Append(rxq, f)
      PROVE  Replies' = Replies \cup (IF f.type = "reply" THEN {f} ELSE {})
  <2>1. /\ \A i \in 1 .. Len(rxq) : i \in 1 .. Len(rxq') /\ rxq'[i] = rxq[i]
        /\ \A i \in 1 .. Len(rxq') : i \in 1 .. Len(rxq) \/ i = Len(rxq) + 1
        /\ Len(rxq') = Len(rxq) + 1 /\ Len(rxq) \in Nat /\ rxq'[Len(rxq) + 1] = f
    BY <1>1, <1>4, Added
  <2>2. {rxq'[i] : i \in 1 .. Len(rxq')} = {rxq[i] : i \in 1 .. Len(rxq)} \cup {f}
    BY <2>1
  <2> QED
    BY <1>2, <2>2 DEF Replies
<1>5. CASE BpTake
  <2>1. txq # << >> /\ txq' = Tail(txq) /\ bpWork' = bpWork \cup {Head(txq)} /\ rxq' = rxq
    BY <1>5 DEF BpTake
  <2>2. \A x : (\E i \in 1 .. Len(txq) : x = txq[i])
                 <=> x = Head(txq) \/ \E i \in 1 .. Len(txq') : x = txq'[i]
    BY <1>1, <2>1, TakenRest
  <2>3. UNCHANGED Asked
    BY <2>1, <2>2, Zenon DEF Asked
  <2> QED
    BY <1>2, <1>3, <2>1, <2>3, AnswersAside, Mapped
<1>6. CASE BpAnswers
  <2>1. PICK r \in bpWork, fits \in env.fits : BpReply(r, fits)
    BY <1>6 DEF BpAnswers
  <2>2. r \in Request /\ fits \in BOOLEAN
    BY <1>1, SettingBounds DEF SendTypes, FlagTypes
  <2> DEFINE f == ReplyTo(r, fits)
             s == IF fits THEN "ok" ELSE "ENOMEM"
  <2>3. f \in Frame /\ f.type = "reply" /\ Reported(f) = [call |-> r.call, key |-> r.key, status |-> s]
    BY <2>2 DEF ReplyTo, Frame, Request, Reported, StatusOf
  <2>4. rxq' = Append(rxq, f) /\ bpWork' = bpWork \ {r} /\ txq' = txq
    BY <2>1 DEF BpReply, Publish
  <2> HIDE DEF f
  <2>5. Replies' = Replies \cup {f}
    BY <1>4, <2>3, <2>4
  <2>6. Answering' = Answering \cup {[call |-> r.call, key |-> r.key, status |-> s]}
    BY <2>3, <2>5 DEF Answering, Reported, StatusOf
  <2>7. Asked' = Asked \ {r}
    <3>1. ASSUME NEW i \in 1 .. Len(txq) PROVE txq[i] # r
      <4>1. txq[i].call \in TxCalls /\ r.call \in BpCalls
        BY DEF TxCalls, BpCalls
      <4> QED
        BY <4>1 DEF CallInv, Apart
    <3> QED
      BY <2>4, <3>1 DEF Asked
  <2>8. r \in Asked /\ s \in Statuses
    BY DEF Asked, Statuses
  <2> HIDE DEF s
  <2> QED
    BY <1>3, <2>6, <2>7, <2>8, RpcReplies
<1>7. CASE BpEvent
  <2> DEFINE f == Event(events + 1)
  <2>1. f \in Frame /\ f.type # "reply"
    <3>1. events + 1 \in 1 .. MaxEvents
      BY <1>1, <1>7, SettingBounds, SysAssumption DEF BpEvent, SendTypes, FlagTypes
    <3> QED
      BY <3>1 DEF Frame, Event
  <2>2. rxq' = Append(rxq, f) /\ UNCHANGED <<txq, bpWork>>
    BY <1>7 DEF BpEvent, Publish
  <2> HIDE DEF f
  <2>3. UNCHANGED Replies
    BY <1>4, <2>1, <2>2
  <2>4. UNCHANGED Answering
    BY <2>3 DEF Answering, Reported, StatusOf
  <2> QED
    BY <1>3, <2>2, <2>4, RequestsAside, Mapped
<1> QED
  BY <1>5, <1>6, <1>7

\* The worker takes a frame in hand: it is on its way still.
LEMMA ReadRpc == ASSUME SysInv, CallInv, LoopRead PROVE UNCHANGED Rpc!vars
<1>1. /\ UNCHANGED <<pc, mesg, txq, bpWork>>
      /\ rxq # << >> /\ rxq' = Tail(rxq) /\ worker = "loop" /\ worker' = "frame"
      /\ fr'[cur'] = Head(rxq) /\ rxq \in Seq(Frame)
  BY LowestSlot, Types DEF LoopRead, FreeSlots, caller, bp, SysInv, SlotTypes, ReceiveTypes
<1>2. \A x : (\E i \in 1 .. Len(rxq) : x = rxq[i])
               <=> x = Head(rxq) \/ \E i \in 1 .. Len(rxq') : x = rxq'[i]
  BY <1>1, TakenRest
<1>3. UNCHANGED Replies
  BY <1>1, <1>2 DEF Replies
<1>4. UNCHANGED Answering
  BY <1>3 DEF Answering, Reported, StatusOf
<1> QED
  BY <1>1, <1>4, ClientAside, RequestsAside, Mapped

\* A reply goes to one caller that waits for its key, or to nobody when no
\* caller does.
LEMMA ReplyRpc == ASSUME SysInv, CallInv, HandleReply PROVE Rpc!Next
<1> DEFINE f == fr[cur]
           a == Reported(f)
<1>1. CallerTypes /\ SlotTypes /\ PendingIsLive /\ Heard
  BY Types DEF SysInv, CallInv
<1>2. /\ UNCHANGED <<pc, txq, rxq, bpWork>> /\ worker = "frame" /\ worker' = "loop"
      /\ f.type = "reply" /\ ApRuns
  BY DEF HandleReply, bp
<1>3. f.key \in Keys
  BY <1>1, <1>2, FrameKinds DEF SlotTypes
<1>4. UNCHANGED Asked
  BY <1>2, RequestsAside
<1>5. a \in Answering /\ Answering' = Answering \ {a}
  <2> DEFINE ring == {g \in {rxq[i] : i \in 1 .. Len(rxq)} : g.type = "reply"}
  <2>1. Replies = ring \cup {f} /\ Replies' = ring
    BY <1>2 DEF Replies
  <2>2. \A g \in ring : g.call # f.call
    BY <1>2, InRing
  <2> HIDE DEF ring, f
  <2>3. \A g \in ring : Reported(g) # a
    BY <2>2 DEF Reported
  <2>4. Answering = {Reported(g) : g \in ring} \cup {a} /\ Answering' = {Reported(g) : g \in ring}
    BY <2>1 DEF Answering, Reported, StatusOf
  <2> QED
    BY <2>3, <2>4
<1>6. Waiting(a) = Matches(f)
  <2>1. a.key = f.key
    BY DEF Reported
  <2>2. ASSUME NEW t \in Threads, t \in pending, mesg[t].key = f.key
        PROVE  Client[t] = mesg[t] /\ Client[t] # NoMesg /\ Client[t].answer = 0
    <3>1. pc[t] \in {"pump", "wait", "late"} /\ mesg[t].answer = 0
      BY <1>1, <1>2, <2>2 DEF PendingIsLive, ApRuns
    <3> QED
      BY <1>3, <2>2, <3>1, SysAssumption DEF Client, NoMesg
  <2>3. ASSUME NEW t \in Threads, Client[t] # NoMesg, Client[t].answer = 0
        PROVE  t \in pending /\ Client[t] = mesg[t]
    <3>1. pc[t] \in {"pump", "wait", "late"} /\ Client[t] = mesg[t]
      BY <2>3 DEF Client
    <3> QED
      BY <1>1, <2>3, <3>1 DEF PendingIsLive, Heard
  <2>4. pending \subseteq Threads
    BY <1>1 DEF CallerTypes
  <2> HIDE DEF f, a
  <2> QED
    BY <2>1, <2>2, <2>3, <2>4 DEF Waiting, Matches
<1>7. CASE Matches(f) = {}
  <2>1. UNCHANGED mesg
    BY <1>7 DEF HandleReply
  <2> HIDE DEF f, a
  <2> QED
    BY <1>2, <1>4, <1>5, <1>6, <1>7, <2>1, ClientAside, RpcDelivers
<1>8. CASE Matches(f) # {}
  <2> DEFINE t == First(Matches(f))
  <2>1. /\ t \in Matches(f) /\ t \in pending /\ t \in Threads
        /\ \A u \in Threads : u # t => mesg'[u] = mesg[u]
        /\ mesg'[t] = [mesg[t] EXCEPT !.answer = f.call, !.status = StatusOf(f)]
    BY <1>8, Answered, Zenon
  <2>2. a.call = f.call /\ a.status = StatusOf(f)
    BY DEF Reported
  <2> HIDE DEF f, a, t
  <2>3. pc[t] \in {"pump", "wait", "late"}
    BY <1>1, <1>2, <2>1 DEF PendingIsLive, ApRuns
  <2>4. /\ \A u \in Threads : u # t => Client'[u] = Client[u]
        /\ Client'[t] = [Client[t] EXCEPT !.answer = a.call, !.status = a.status]
    BY <1>2, <2>1, <2>2, <2>3 DEF Client
  <2>5. /\ DOMAIN Client = Threads /\ DOMAIN Client' = Threads
        /\ Client = [u \in Threads |-> Client[u]] /\ Client' = [u \in Threads |-> Client'[u]]
    BY DEF Client
  <2>6. Client' = [Client EXCEPT ![t].answer = a.call, ![t].status = a.status]
    BY <2>1, <2>4, <2>5
  <2> QED
    BY <1>4, <1>5, <1>6, <2>1, <2>6, RpcDelivers
<1> QED
  BY <1>7, <1>8

LEMMA StepRpc == SysInv /\ CallInv /\ [Next]_vars => [Rpc!Next]_(Rpc!vars)
<1> SUFFICES ASSUME SysInv, CallInv, [Next]_vars PROVE Rpc!Next \/ UNCHANGED Rpc!vars
  OBVIOUS
<1>1. CASE \E t \in Threads : Caller(t) \/ \E k \in env.uses[t] : Call(t, k)
  BY <1>1, CallerRpc
<1>2. CASE BpTake \/ BpAnswers \/ BpEvent
  BY <1>2, BpRpc
<1>3. CASE BpInterrupt \/ BpPowerOff \/ IrqNotify \/ IrqClear \/ LateInitSet \/ LateInitQueue
           \/ UNCHANGED vars
  <2>1. UNCHANGED <<pc, mesg, txq, rxq, bpWork, worker, fr, cur>>
    BY <1>3 DEF BpInterrupt, BpPowerOff, IrqNotify, IrqClear, LateInitSet, LateInitQueue, vars,
                caller, rx, bp
  <2> QED
    BY <2>1, ClientAside, RequestsAside, AnswersAside, Mapped
<1>4. CASE WorkStart \/ Flush \/ FlushEnd \/ LoopEnd
  <2>1. UNCHANGED <<pc, mesg, txq, rxq, bpWork>> /\ worker # "frame" /\ worker' # "frame"
    BY <1>4 DEF WorkStart, Flush, FlushEnd, LoopEnd, caller, bp
  <2> QED
    BY <2>1, ClientAside, RequestsAside, AnswersAside, Mapped
<1>5. CASE HandleAsync
  <2>1. UNCHANGED <<pc, mesg, txq, rxq, bpWork>> /\ worker' = "loop" /\ fr[cur].type = "event"
    BY <1>5 DEF HandleAsync, caller, bp
  <2>2. UNCHANGED Replies
    BY <2>1 DEF Replies
  <2>3. UNCHANGED Answering
    BY <2>2 DEF Answering, Reported, StatusOf
  <2> QED
    BY <2>1, <2>3, ClientAside, RequestsAside, Mapped
<1>6. CASE LoopRead
  BY <1>6, ReadRpc
<1>7. CASE HandleReply
  BY <1>7, ReplyRpc
<1> QED
  BY <1>1, <1>2, <1>3, <1>4, <1>5, <1>6, <1>7 DEF Next, Worker

\* The channel is the remote procedure call its clients expect: a caller that
\* returns a status was given an answer of the BP to a request with its key,
\* and an answer is given to one caller at most (md_sys.c:150-273, 696-760).
THEOREM ChannelIsRpc == Spec => ImplementsRpc
<1>1. Init => SysInv /\ CallInv /\ Rpc!Init
  BY InitSys, InitCalls, InitRpc
<1>2. SysInv /\ CallInv /\ [Next]_vars => SysInv' /\ CallInv' /\ [Rpc!Next]_(Rpc!vars)
  BY StepSys, StepCalls, StepRpc
<1> QED
  BY <1>1, <1>2, PTL DEF Spec, ImplementsRpc, Rpc!Spec

-----------------------------------------------------------------------------
(* Every event is in one place *)

\* Where events are: in the receive ring, in a slot, or given to the chain.
RingEvents == {i \in 1 .. Len(rxq) : rxq[i].type = "event"}
SlotEvents == {s \in Slots : fr[s].type = "event"}
RxNumbers   == {rxq[i].n : i \in RingEvents}
SlotNumbers == {fr[s].n : s \in SlotEvents}
DoneNumbers == {handled[i] : i \in 1 .. Len(handled)}

RingOnce == \A i, j \in RingEvents : rxq[i].n = rxq[j].n => i = j
SlotOnce == \A s, u \in SlotEvents : fr[s].n = fr[u].n => s = u
DoneOnce == \A i, j \in 1 .. Len(handled) : handled[i] = handled[j] => i = j

EventInv ==
    /\ RingOnce /\ SlotOnce /\ DoneOnce
    /\ RxNumbers \cap SlotNumbers = {} /\ RxNumbers \cap DoneNumbers = {}
    /\ SlotNumbers \cap DoneNumbers = {}
    /\ RxNumbers \cup SlotNumbers \cup DoneNumbers = 1 .. events

LEMMA InitEvents == Init => EventInv
<1> SUFFICES ASSUME Init PROVE EventInv
  OBVIOUS
<1>1. Len(rxq) = 0 /\ Len(handled) = 0 /\ events = 0 /\ SlotEvents = {}
  BY FrameKinds DEF Init, SlotEvents
<1>2. RingEvents = {} /\ RxNumbers = {} /\ SlotNumbers = {} /\ DoneNumbers = {}
  BY <1>1 DEF RingEvents, RxNumbers, SlotNumbers, DoneNumbers
<1> QED
  BY <1>1, <1>2 DEF EventInv, RingOnce, SlotOnce, DoneOnce

LEMMA RingFilled ==
    ASSUME SysInv, RingOnce, NEW f \in Frame, rxq' = Append(rxq, f),
           f.type = "event" => f.n \notin RxNumbers
    PROVE  /\ RingOnce'
           /\ f.type = "event" => RxNumbers' = RxNumbers \cup {f.n}
           /\ f.type # "event" => RxNumbers' = RxNumbers
<1>1. rxq \in Seq(Frame)
  BY Types DEF SysInv, ReceiveTypes
<1>2. /\ Len(rxq) \in Nat /\ Len(rxq') = Len(rxq) + 1 /\ rxq'[Len(rxq) + 1] = f
      /\ \A i \in 1 .. Len(rxq) : i \in 1 .. Len(rxq') /\ rxq'[i] = rxq[i]
      /\ \A i \in 1 .. Len(rxq') : i \in 1 .. Len(rxq) \/ i = Len(rxq) + 1
  BY <1>1, Added
<1>3. RingOnce'
  BY <1>2 DEF RingOnce, RxNumbers, RingEvents
<1>4. /\ f.type = "event" => RxNumbers' = RxNumbers \cup {f.n}
      /\ f.type # "event" => RxNumbers' = RxNumbers
  BY <1>2 DEF RxNumbers, RingEvents
<1> QED
  BY <1>3, <1>4

LEMMA RingTaken ==
    ASSUME SysInv, RingOnce, rxq # << >>, rxq' = Tail(rxq)
    PROVE  /\ RingOnce' /\ Head(rxq) \in Frame
           /\ Head(rxq).type = "event" =>
                Head(rxq).n \in RxNumbers /\ RxNumbers' = RxNumbers \ {Head(rxq).n}
           /\ Head(rxq).type # "event" => RxNumbers' = RxNumbers
<1>1. rxq \in Seq(Frame)
  BY Types DEF SysInv, ReceiveTypes
<1>2. /\ Len(rxq) \in Nat \ {0} /\ Len(rxq') = Len(rxq) - 1
      /\ Head(rxq) = rxq[1] /\ Head(rxq) \in Frame
      /\ \A i \in 1 .. Len(rxq') : i + 1 \in 1 .. Len(rxq) /\ rxq'[i] = rxq[i + 1]
      /\ \A i \in 1 .. Len(rxq) : i = 1 \/ (i - 1 \in 1 .. Len(rxq') /\ rxq'[i - 1] = rxq[i])
  BY <1>1, Taken
<1>3. 1 \in 1 .. Len(rxq)
  BY <1>2
<1>4. ASSUME NEW i \in RingEvents'
      PROVE  i \in Nat /\ i + 1 \in RingEvents /\ i + 1 # 1 /\ rxq'[i].n = rxq[i + 1].n
  <2>1. i \in 1 .. Len(rxq') /\ i \in Nat
    BY <1>2 DEF RingEvents
  <2> QED
    BY <1>2, <1>4, <2>1 DEF RingEvents
<1>5. ASSUME NEW i \in RingEvents, i # 1
      PROVE  i - 1 \in RingEvents' /\ rxq'[i - 1].n = rxq[i].n
  BY <1>2, <1>5 DEF RingEvents
<1>6. RingOnce'
  <2> SUFFICES ASSUME NEW i \in RingEvents', NEW j \in RingEvents', rxq'[i].n = rxq'[j].n
               PROVE  i = j
    BY DEF RingOnce
  <2>1. i + 1 \in RingEvents /\ j + 1 \in RingEvents /\ rxq[i + 1].n = rxq[j + 1].n
    BY <1>4
  <2>2. i + 1 = j + 1
    BY <2>1 DEF RingOnce
  <2> QED
    BY <1>4, <2>2
<1>7. CASE Head(rxq).type = "event"
  <2>1. 1 \in RingEvents /\ Head(rxq).n \in RxNumbers
    BY <1>2, <1>3, <1>7 DEF RingEvents, RxNumbers
  <2>2. ASSUME NEW i \in RingEvents' PROVE rxq'[i].n \in RxNumbers \ {Head(rxq).n}
    <3>1. rxq[i + 1].n # rxq[1].n
      BY <1>4, <2>1 DEF RingOnce
    <3> QED
      BY <1>2, <1>4, <3>1 DEF RxNumbers
  <2>3. ASSUME NEW i \in RingEvents, rxq[i].n # Head(rxq).n PROVE rxq[i].n \in RxNumbers'
    <3>1. i # 1
      BY <1>2, <2>3
    <3> QED
      BY <1>5, <3>1 DEF RxNumbers
  <2>4. RxNumbers' = RxNumbers \ {Head(rxq).n}
    BY <2>2, <2>3 DEF RxNumbers
  <2> QED
    BY <1>2, <1>6, <1>7, <2>1, <2>4
<1>8. CASE Head(rxq).type # "event"
  <2>1. 1 \notin RingEvents
    BY <1>2, <1>8 DEF RingEvents
  <2>2. ASSUME NEW i \in RingEvents PROVE rxq[i].n \in RxNumbers'
    BY <1>5, <2>1 DEF RxNumbers
  <2>3. ASSUME NEW i \in RingEvents' PROVE rxq'[i].n \in RxNumbers
    BY <1>4 DEF RxNumbers
  <2>4. RxNumbers' = RxNumbers
    BY <2>2, <2>3 DEF RxNumbers
  <2> QED
    BY <1>2, <1>6, <1>8, <2>4
<1> QED
  BY <1>7, <1>8

\* A slot that holds no event becomes free or is filled.
LEMMA SlotFilled ==
    ASSUME SysInv, SlotOnce, NEW s \in Slots, fr[s].type # "event", NEW f, fr' = [fr EXCEPT ![s] = f],
           f.type = "event" => f.n \notin SlotNumbers
    PROVE  /\ SlotOnce'
           /\ f.type = "event" => SlotNumbers' = SlotNumbers \cup {f.n}
           /\ f.type # "event" => SlotNumbers' = SlotNumbers
<1>1. fr'[s] = f /\ \A u \in Slots : u # s => fr'[u] = fr[u]
  BY Types DEF SysInv, SlotTypes
<1>2. CASE f.type = "event"
  <2>1. SlotEvents' = SlotEvents \cup {s} /\ s \notin SlotEvents
    BY <1>1, <1>2 DEF SlotEvents
  <2> QED
    BY <1>1, <1>2, <2>1 DEF SlotOnce, SlotNumbers
<1>3. CASE f.type # "event"
  <2>1. SlotEvents' = SlotEvents /\ s \notin SlotEvents
    BY <1>1, <1>3 DEF SlotEvents
  <2> QED
    BY <1>1, <1>3, <2>1 DEF SlotOnce, SlotNumbers
<1> QED
  BY <1>2, <1>3

\* An event goes from its slot to the notifier chain.
LEMMA EventHandled ==
    ASSUME SysInv, EventInv, NEW s \in Slots, fr[s].type = "event", HandleEvent(s),
           UNCHANGED <<rxq, events>>
    PROVE  EventInv'
<1>1. fr \in [Slots -> Frame \cup {Free}] /\ handled \in Seq(1 .. MaxEvents)
  BY Types DEF SysInv, SlotTypes
<1>2. /\ fr'[s].type # "event" /\ \A u \in Slots : u # s => fr'[u] = fr[u]
      /\ handled' = Append(handled, fr[s].n) /\ fr[s].n \in 1 .. MaxEvents
  BY <1>1, FrameKinds DEF HandleEvent
<1>3. /\ Len(handled) \in Nat /\ Len(handled') = Len(handled) + 1
      /\ handled'[Len(handled) + 1] = fr[s].n
      /\ \A i \in 1 .. Len(handled) : i \in 1 .. Len(handled') /\ handled'[i] = handled[i]
      /\ \A i \in 1 .. Len(handled') : i \in 1 .. Len(handled) \/ i = Len(handled) + 1
  BY <1>1, <1>2, Added
<1>4. RingOnce' /\ RxNumbers' = RxNumbers
  <2>1. RingEvents' = RingEvents
    BY DEF RingEvents
  <2> QED
    BY <2>1 DEF EventInv, RingOnce, RxNumbers
<1>5. /\ SlotOnce' /\ SlotNumbers' = SlotNumbers \ {fr[s].n} /\ fr[s].n \in SlotNumbers
  <2>1. SlotEvents' = SlotEvents \ {s} /\ s \in SlotEvents
    BY <1>2 DEF SlotEvents
  <2>2. \A u \in SlotEvents' : u \in SlotEvents /\ u # s /\ fr'[u].n = fr[u].n
    BY <1>2, <2>1 DEF SlotEvents
  <2>3. \A u \in SlotEvents : u # s => fr[u].n # fr[s].n
    BY <2>1 DEF EventInv, SlotOnce
  <2>4. SlotOnce'
    BY <2>2 DEF EventInv, SlotOnce
  <2>5. fr[s].n \in SlotNumbers
    BY <2>1 DEF SlotNumbers
  <2>6. SlotNumbers' = SlotNumbers \ {fr[s].n}
    BY <2>1, <2>2, <2>3 DEF SlotNumbers
  <2> QED
    BY <2>4, <2>5, <2>6
<1>6. fr[s].n \notin DoneNumbers
  BY <1>5 DEF EventInv
<1>7. DoneNumbers' = DoneNumbers \cup {fr[s].n}
  BY <1>3 DEF DoneNumbers
<1>8. DoneOnce'
  <2>1. \A i \in 1 .. Len(handled) : handled[i] # fr[s].n
    BY <1>6 DEF DoneNumbers
  <2> QED
    BY <1>3, <2>1 DEF EventInv, DoneOnce
<1> QED
  BY <1>4, <1>5, <1>7, <1>8 DEF EventInv

\* Steps that move no event, and those that move none in the slots.
LEMMA SlotsElsewhere ==
    ASSUME EventInv, UNCHANGED <<fr, handled>>
    PROVE  SlotOnce' /\ DoneOnce' /\ SlotNumbers' = SlotNumbers /\ DoneNumbers' = DoneNumbers
<1>1. SlotEvents' = SlotEvents
  BY DEF SlotEvents
<1> QED
  BY <1>1 DEF EventInv, SlotOnce, DoneOnce, SlotNumbers, DoneNumbers

LEMMA EventsElsewhere ==
    ASSUME EventInv, UNCHANGED <<rxq, fr, handled, events>>
    PROVE  EventInv'
<1>1. RingEvents' = RingEvents
  BY DEF RingEvents
<1>2. RingOnce' /\ RxNumbers' = RxNumbers
  BY <1>1 DEF EventInv, RingOnce, RxNumbers
<1>3. SlotOnce' /\ DoneOnce' /\ SlotNumbers' = SlotNumbers /\ DoneNumbers' = DoneNumbers
  BY SlotsElsewhere
<1> QED
  BY <1>2, <1>3 DEF EventInv

\* The BP publishes a reply or its next event.
LEMMA BpEvents ==
    ASSUME SysInv, EventInv, BpAnswers \/ BpEvent
    PROVE  EventInv'
<1>1. UNCHANGED <<fr, handled>>
  BY DEF BpAnswers, BpReply, BpEvent, rx
<1>2. SlotOnce' /\ DoneOnce' /\ SlotNumbers' = SlotNumbers /\ DoneNumbers' = DoneNumbers
  BY <1>1, SlotsElsewhere
<1>3. SendTypes /\ FlagTypes
  BY Types DEF SysInv
<1>4. CASE BpAnswers
  <2>1. PICK r \in bpWork, fits \in env.fits : BpReply(r, fits)
    BY <1>4 DEF BpAnswers
  <2> DEFINE f == ReplyTo(r, fits)
  <2>2. f \in Frame /\ f.type # "event"
    BY <1>3, SettingBounds DEF ReplyTo, Frame, Request, SendTypes, FlagTypes
  <2>3. rxq' = Append(rxq, f) /\ events' = events
    BY <2>1 DEF BpReply, Publish
  <2> HIDE DEF f
  <2>4. RingOnce' /\ RxNumbers' = RxNumbers
    BY <2>2, <2>3, RingFilled DEF EventInv
  <2> QED
    BY <1>2, <2>3, <2>4 DEF EventInv
<1>5. CASE BpEvent
  <2> DEFINE f == Event(events + 1)
  <2>1. events + 1 \in 1 .. MaxEvents /\ events \in Nat
    BY <1>3, <1>5, SettingBounds, SysAssumption DEF BpEvent, SendTypes, FlagTypes
  <2>2. f \in Frame /\ f.type = "event" /\ f.n = events + 1
    BY <2>1 DEF Frame, Event
  <2>3. rxq' = Append(rxq, f) /\ events' = events + 1
    BY <1>5 DEF BpEvent, Publish
  <2> HIDE DEF f
  <2>4. events + 1 \notin 1 .. events
    BY <2>1
  <2>5. RingOnce' /\ RxNumbers' = RxNumbers \cup {events + 1}
    BY <2>2, <2>3, <2>4, RingFilled DEF EventInv
  <2>6. 1 .. events' = (1 .. events) \cup {events + 1}
    BY <2>1, <2>3
  <2> QED
    BY <1>2, <2>4, <2>5, <2>6 DEF EventInv
<1> QED
  BY <1>4, <1>5

\* The worker takes a frame from the ring into a slot.
LEMMA ReadEvents == ASSUME SysInv, EventInv, LoopRead PROVE EventInv'
<1>1. /\ UNCHANGED <<handled, events>> /\ rxq # << >> /\ rxq' = Tail(rxq)
      /\ cur' \in Slots /\ fr[cur'].type # "event" /\ fr' = [fr EXCEPT ![cur'] = Head(rxq)]
  BY LowestSlot, FrameKinds DEF LoopRead, FreeSlots, bp
<1>2. /\ RingOnce' /\ Head(rxq) \in Frame
      /\ Head(rxq).type = "event" =>
           Head(rxq).n \in RxNumbers /\ RxNumbers' = RxNumbers \ {Head(rxq).n}
      /\ Head(rxq).type # "event" => RxNumbers' = RxNumbers
  BY <1>1, RingTaken DEF EventInv
<1>3. Head(rxq).type = "event" => Head(rxq).n \notin SlotNumbers
  BY <1>2 DEF EventInv
<1>4. /\ SlotOnce'
      /\ Head(rxq).type = "event" => SlotNumbers' = SlotNumbers \cup {Head(rxq).n}
      /\ Head(rxq).type # "event" => SlotNumbers' = SlotNumbers
  BY <1>1, <1>3, SlotFilled DEF EventInv
<1>5. DoneOnce' /\ DoneNumbers' = DoneNumbers
  BY <1>1 DEF EventInv, DoneOnce, DoneNumbers
<1> QED
  BY <1>1, <1>2, <1>4, <1>5 DEF EventInv

LEMMA StepEvents == SysInv /\ EventInv /\ [Next]_vars => EventInv'
<1> SUFFICES ASSUME SysInv, EventInv, [Next]_vars PROVE EventInv'
  OBVIOUS
<1>1. CASE \/ \E t \in Threads : Caller(t) \/ \E k \in env.uses[t] : Call(t, k)
           \/ BpTake \/ BpInterrupt \/ BpPowerOff \/ IrqNotify \/ IrqClear
           \/ LateInitSet \/ LateInitQueue \/ WorkStart \/ FlushEnd \/ LoopEnd \/ UNCHANGED vars
  <2>1. UNCHANGED <<rxq, fr, handled, events>>
    BY <1>1 DEF Caller, Call, Pump, PumpBusy, Completed, TimedOut, GiveUp, BpTake, BpInterrupt,
                BpPowerOff, IrqNotify, IrqClear, LateInitSet, LateInitQueue, WorkStart,
                FlushEnd, LoopEnd, vars, rx, bp
  <2> QED
    BY <2>1, EventsElsewhere
<1>2. CASE BpAnswers \/ BpEvent
  BY <1>2, BpEvents
<1>3. CASE LoopRead
  BY <1>3, ReadEvents
<1>4. CASE HandleReply
  <2>1. /\ UNCHANGED <<rxq, handled, events>> /\ cur \in Slots
        /\ fr[cur].type # "event" /\ fr' = [fr EXCEPT ![cur] = Free]
    BY <1>4, Types DEF HandleReply, bp, SysInv, SlotTypes
  <2>2. SlotOnce' /\ SlotNumbers' = SlotNumbers
    BY <2>1, SlotFilled, FrameKinds DEF EventInv
  <2>3. RingEvents' = RingEvents
    BY <2>1 DEF RingEvents
  <2> QED
    BY <2>1, <2>2, <2>3 DEF EventInv, RingOnce, DoneOnce, RxNumbers, DoneNumbers
<1>5. CASE HandleAsync
  <2>1. UNCHANGED <<rxq, events>> /\ cur \in Slots /\ fr[cur].type = "event"
    BY <1>5, Types DEF HandleAsync, bp, SysInv, SlotTypes
  <2>2. HandleEvent(cur) \/ UNCHANGED <<handled, fr>>
    BY <1>5 DEF HandleAsync
  <2> QED
    BY <2>1, <2>2, EventHandled, EventsElsewhere
<1>6. CASE Flush
  <2>1. SlotTypes /\ Holding /\ rxPending # << >>
    BY <1>6, Types DEF SysInv, Flush
  <2>2. Head(rxPending) = rxPending[1] /\ Head(rxPending) \in Slots /\ 1 \in 1 .. Len(rxPending)
    BY <2>1, HeadTailProperties, LenProperties, EmptySeq DEF SlotTypes
  <2>3. fr[Head(rxPending)].type = "event"
    BY <2>1, <2>2 DEF Holding
  <2>4. HandleEvent(Head(rxPending)) /\ UNCHANGED <<rxq, events>>
    BY <1>6 DEF Flush, bp
  <2> QED
    BY <2>2, <2>3, <2>4, EventHandled
<1> QED
  BY <1>1, <1>2, <1>3, <1>4, <1>5, <1>6 DEF Next, Worker

\* A set of which one can have one member has one or none.
LEMMA OneOrNone ==
    ASSUME NEW S, \A x, y \in S : x = y
    PROVE  Cardinality(S) = IF S = {} THEN 0 ELSE 1
<1>1. CASE S = {}
  BY <1>1, FS_EmptySet
<1>2. CASE S # {}
  <2>1. PICK x \in S : S = {x}
    BY <1>2
  <2> QED
    BY <2>1, FS_Singleton
<1> QED
  BY <1>1, <1>2

\* No event of the BP is lost or handled twice, across the switch from holding
\* events to handling them (md_sys.c:683-692, 786-794).
THEOREM EventsAreKept == Spec => []EventsKept
<1>1. SysInv /\ EventInv => EventsKept
  <2> SUFFICES ASSUME SysInv, EventInv, NEW n \in 1 .. events PROVE Places(n) = 1
    BY DEF EventsKept
  <2> DEFINE ring == {i \in 1 .. Len(rxq) : rxq[i] = Event(n)}
             slot == {s \in Slots : fr[s] = Event(n)}
             done == {i \in 1 .. Len(handled) : handled[i] = n}
  <2>1. /\ \A i \in 1 .. Len(rxq) : rxq[i] \in Frame
        /\ \A s \in Slots : fr[s] \in Frame \cup {Free}
    BY Types, ElementOfSeq DEF SysInv, ReceiveTypes, SlotTypes
  <2>2. \A f \in Frame \cup {Free} : f = Event(n) <=> f.type = "event" /\ f.n = n
    BY DEF Frame, Event, Free
  <2>3. /\ ring = {i \in RingEvents : rxq[i].n = n}
        /\ slot = {s \in SlotEvents : fr[s].n = n}
    BY <2>1, <2>2 DEF RingEvents, SlotEvents
  <2>4. /\ ring = {} <=> n \notin RxNumbers
        /\ slot = {} <=> n \notin SlotNumbers
        /\ done = {} <=> n \notin DoneNumbers
    BY <2>3 DEF RxNumbers, SlotNumbers, DoneNumbers
  <2>5. /\ \A i, j \in ring : i = j
        /\ \A i, j \in slot : i = j
        /\ \A i, j \in done : i = j
    BY <2>3 DEF EventInv, RingOnce, SlotOnce, DoneOnce
  <2>6. Places(n) = Cardinality(ring) + Cardinality(slot) + Cardinality(done)
    BY DEF Places
  <2> HIDE DEF ring, slot, done
  <2>7. /\ Cardinality(ring) = IF ring = {} THEN 0 ELSE 1
        /\ Cardinality(slot) = IF slot = {} THEN 0 ELSE 1
        /\ Cardinality(done) = IF done = {} THEN 0 ELSE 1
    BY <2>5, OneOrNone
  <2>8. \/ n \in RxNumbers /\ n \notin SlotNumbers /\ n \notin DoneNumbers
        \/ n \notin RxNumbers /\ n \in SlotNumbers /\ n \notin DoneNumbers
        \/ n \notin RxNumbers /\ n \notin SlotNumbers /\ n \in DoneNumbers
    BY DEF EventInv
  <2> QED
    BY <2>4, <2>6, <2>7, <2>8
<1>2. Init => SysInv /\ EventInv
  BY InitSys, InitEvents
<1>3. SysInv /\ EventInv /\ [Next]_vars => SysInv' /\ EventInv'
  BY StepSys, StepEvents
<1> QED
  BY <1>1, <1>2, <1>3, PTL DEF Spec

=============================================================================
