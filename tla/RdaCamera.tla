----------------------------- MODULE RdaCamera ------------------------------
(***************************************************************************)
(* Capture buffers of the camera (media/rda_camera_8810.c) between the     *)
(* V4L2 calls, the frame interrupt, the delayed work that tells the camera *)
(* the address of the next frame, and the camera itself, which writes.     *)
(*                                                                         *)
(* The AP has one core: while an interrupt of the camera is pending, no    *)
(* other code of the driver runs.  The interrupt may be late, behind       *)
(* handlers of other devices; then the camera goes on and causes add up.   *)
(* The work is interrupted, but it is assumed that no call preempts it     *)
(* between its reading and its writing.                                    *)
(***************************************************************************)
EXTENDS Integers, Sequences, SequencesExt

CONSTANTS
    Bufs,           \* buffers of the queue
    None,           \* NULL, or an address that is no buffer's
    MaxOverflows    \* bound: frames the camera loses bytes of

ASSUME CameraAssumption == None \notin Bufs /\ MaxOverflows \in Nat

VARIABLES
    queue,          \* vb2: buffers queued while it does not stream
    stream,         \* vb2: off, in start_streaming, on, stopping
    done,           \* buffers that came back with VB2_BUF_STATE_DONE
    list,           \* cap_buffer_list
    active, next, state,
    pend, run,      \* isr_work is pending; where a running one is
    loaded,         \* what it read from p->next
    passed,         \* a frame ended since
    enabled, cause, \* IRQ_MASK, IRQ_CAUSE
    addr, dma,      \* CAM_FRAME_START_ADDR, CAMERA_ENABLE
    votes,          \* master_ref_cnt[PM_DDR_CAMERA_DMA]
    sensor, phase,  \* the sensor sends frames: blank, sync, data
    cur,            \* where the frame goes
    filled,         \* buffers that hold a whole frame, or one torn by the camera
    overflows

vb2  == <<queue, stream, done>>
bufs == <<list, active, next>>
work == <<pend, run, loaded, passed>>
irqs == <<enabled, cause>>
dmas == <<addr, dma, votes>>
cam  == <<sensor, phase, cur, filled, overflows>>
vars == <<vb2, bufs, state, work, irqs, dmas, cam>>

TypeOK ==
    /\ queue \in Seq(Bufs) /\ list \in Seq(Bufs)
    /\ stream \in {"off", "sensor", "vsync", "on", "stopping"}
    /\ {active, next, loaded, addr, cur} \subseteq Bufs \cup {None}
    /\ state \in {"idle", "oneshot", "success"}
    /\ {pend, passed, enabled, dma, sensor} \subseteq BOOLEAN
    /\ run \in {"no", "retry", "store"}
    /\ cause \subseteq {"vsync_r", "vsync_f", "ovfl"}
    /\ votes \in 0 .. 1
    /\ phase \in {"blank", "sync", "data"}
    /\ filled \subseteq Bufs /\ done \subseteq Bufs
    /\ overflows \in 0 .. MaxOverflows

Init ==
    /\ queue = << >> /\ stream = "off" /\ done = {}
    /\ list = << >> /\ active = None /\ next = None /\ state = "idle"
    /\ pend = FALSE /\ run = "no" /\ loaded = None /\ passed = FALSE
    /\ enabled = FALSE /\ cause = {} /\ addr = None /\ dma = FALSE /\ votes = 0
    /\ sensor = FALSE /\ phase = "blank" /\ cur = None
    /\ filled = {} /\ overflows = 0

\* Code outside the handler runs; the calls, when the work does not.
NoIrq == ~ enabled \/ cause = {}
Quiet == NoIrq /\ run = "no"

Nth(n, s) == IF n \in DOMAIN s THEN s[n] ELSE None

\* The buffers the driver holds, and the ones the user may use.
Held == ToSet(list)
Outside == Bufs \ (Held \cup ToSet(queue))

-----------------------------------------------------------------------------
\* start_dma(active) and stop_dma; pm_ddr_put does nothing without a vote.
StartDma(b) == addr' = b /\ dma' = TRUE /\ votes' = votes + 1
StopDma == dma' = FALSE /\ votes' = (IF votes > 0 THEN votes - 1 ELSE 0) /\ UNCHANGED addr

(* V4L2 calls, under the lock of the queue *)

\* Starting in the middle of a frame the camera misses its beginning, which the
\* driver does not notice.
Tears(b) == IF phase = "data" THEN {b} ELSE {}

\* buffer_queue while vb2 streams, at the end of the list; with nothing active
\* the camera starts at once, wherever the frame is.
BufferQueue(b) ==
    /\ list' = Append(list, b)
    /\ IF active = None
       THEN active' = b /\ StartDma(b) /\ UNCHANGED next
            /\ filled' = (filled \ {b}) \cup Tears(b)
       ELSE /\ next' = (IF next = None THEN b ELSE next)
            /\ filled' = filled \ {b} /\ UNCHANGED <<active, dmas>>

\* VIDIOC_QBUF: before streaming the buffer stays with vb2.
Qbuf(b) ==
    /\ Quiet /\ b \in Outside /\ done' = done \ {b}
    /\ \/ stream = "off" /\ queue' = Append(queue, b) /\ filled' = filled \ {b}
          /\ UNCHANGED <<bufs, dmas>>
       \/ stream = "on" /\ BufferQueue(b) /\ UNCHANGED queue
    /\ UNCHANGED <<stream, state, work, irqs, sensor, phase, cur, overflows>>

\* VIDIOC_STREAMON: the queued buffers go to the driver, then start_streaming.
StartStreaming ==
    /\ Quiet /\ stream = "off" /\ stream' = "sensor"
    /\ list' = queue /\ queue' = << >>
    /\ active' = Nth(1, queue) /\ next' = Nth(2, queue)
    /\ state' = "idle" /\ enabled' = TRUE /\ cause' = {}
    /\ IF queue = << >> THEN UNCHANGED <<dmas, filled>>
       ELSE StartDma(active') /\ filled' = filled \cup Tears(active')
    /\ UNCHANGED <<done, work, sensor, phase, cur, overflows>>

\* Every buffer of the driver goes back to vb2 with an error.
ReleaseAll ==
    /\ active' = None /\ next' = None /\ list' = << >>
    /\ filled' = filled \ Held

\* The error path: neither the work nor the sensor is stopped.
StartFails ==
    /\ enabled' = FALSE /\ cause' = {} /\ stream' = "off"
    /\ StopDma /\ cur' = None /\ ReleaseAll

\* The sensor is told to send frames.
StartSensor(ok) ==
    /\ Quiet /\ stream = "sensor"
    /\ IF ok
       THEN stream' = "vsync" /\ sensor' = TRUE
            /\ UNCHANGED <<bufs, irqs, dmas, cur, filled>>
       ELSE StartFails /\ UNCHANGED sensor
    /\ UNCHANGED <<queue, done, state, work, phase, overflows>>

\* The first VSYNC came; or it did not within 500 ms, or a signal did.
StartDone ==
    /\ Quiet /\ stream = "vsync" /\ state # "idle" /\ stream' = "on"
    /\ UNCHANGED <<queue, done, bufs, state, work, irqs, dmas, cam>>
StartAborted ==
    /\ Quiet /\ stream = "vsync" /\ state = "idle" /\ StartFails
    /\ UNCHANGED <<queue, done, state, work, sensor, phase, overflows>>

\* VIDIOC_STREAMOFF: stop_streaming cancels the work and waits for a running one,
Cancel ==
    /\ Quiet /\ stream = "on"
    /\ stream' = "stopping" /\ pend' = FALSE
    /\ UNCHANGED <<queue, done, bufs, state, run, loaded, passed, irqs, dmas, cam>>

\* Faulty variant: the buffers go back, the camera stays on.
StopStreamingRunning ==
    /\ Quiet /\ stream = "stopping" /\ stream' = "off"
    /\ enabled' = FALSE /\ cause' = {} /\ ReleaseAll
    /\ UNCHANGED <<queue, done, state, work, dmas, sensor, phase, cur, overflows>>

\* and only then masks the interrupt, which may have scheduled it again.
StopStreaming ==
    /\ Quiet /\ stream = "stopping" /\ stream' = "off"
    /\ enabled' = FALSE /\ cause' = {}
    /\ StopDma /\ cur' = None /\ ReleaseAll
    /\ UNCHANGED <<queue, done, state, work, sensor, phase, overflows>>

-----------------------------------------------------------------------------
(* rda_camera_isr: clears all causes, handles the first of them *)

\* handle_streaming: the active buffer is done, the next one becomes active.
HandleStreaming ==
    /\ done' = done \cup {active}
    /\ list' = Tail(list)
    /\ active' = Nth(2, list) /\ next' = Nth(3, list)

FrameBegins ==
    /\ "vsync_r" \in cause
    /\ pend' = (pend \/ next # None)
    /\ state' = IF next # None THEN "success" ELSE "oneshot"
    /\ UNCHANGED <<done, bufs, run, loaded, passed, dmas>>

Overflowed ==
    /\ "vsync_r" \notin cause /\ "ovfl" \in cause
    /\ state' = "oneshot"
    /\ UNCHANGED <<done, bufs, work, dmas>>

\* The camera was told the next address, and goes on there; or it was not, and
\* starts afresh, if there is another buffer.
FrameEndsMoving ==
    /\ state = "success" /\ addr # active
    /\ HandleStreaming
    /\ passed' = TRUE
    /\ UNCHANGED <<state, pend, run, loaded, dmas>>

\* Faulty variant: the camera starts at the buffer it just filled.
FrameEndsOneshotKeeping ==
    /\ state = "oneshot" \/ addr = active
    /\ HandleStreaming
    /\ IF active' = None THEN StopDma ELSE UNCHANGED dmas
    /\ state' = "oneshot" /\ pend' = FALSE /\ passed' = TRUE
    /\ UNCHANGED <<run, loaded>>

\* Faulty variant: a frame that ends before the work told the next address is
\* not looked at.
FrameEndsOneshotOnly ==
    /\ state = "oneshot"
    /\ HandleStreaming
    /\ IF active' = None THEN StopDma ELSE addr' = active' /\ UNCHANGED <<dma, votes>>
    /\ pend' = FALSE /\ passed' = TRUE
    /\ UNCHANGED <<state, run, loaded>>

FrameEndsOneshot ==
    /\ state = "oneshot" \/ addr = active
    /\ HandleStreaming
    /\ IF active' = None THEN StopDma ELSE addr' = active' /\ UNCHANGED <<dma, votes>>
    /\ state' = "oneshot" /\ pend' = FALSE /\ passed' = TRUE
    /\ UNCHANGED <<run, loaded>>

FrameEnds ==
    /\ cause = {"vsync_f"}
    /\ \/ /\ active = None \/ (state = "idle" /\ addr # active)
          /\ UNCHANGED <<done, bufs, state, work, dmas>>
       \/ active # None /\ (FrameEndsMoving \/ FrameEndsOneshot)

Isr ==
    /\ enabled /\ cause' = {}
    /\ FrameBegins \/ Overflowed \/ FrameEnds
    /\ UNCHANGED <<queue, stream, enabled, cam>>

-----------------------------------------------------------------------------
(* handle_vsync, the delayed work *)

Transferring == phase = "data" /\ cur # None        \* CAM_TC_COUNT is not 0

\* Faulty variant: the address is told without regard to the transfer.
WorkBeginEarly ==
    /\ Quiet /\ pend /\ pend' = FALSE
    /\ run' = IF next # None THEN "store" ELSE "no"
    /\ loaded' = next /\ passed' = FALSE
    /\ UNCHANGED <<vb2, bufs, state, irqs, dmas, cam>>

WorkBegin ==
    /\ Quiet /\ pend /\ pend' = FALSE
    /\ run' = IF ~ Transferring THEN "retry" ELSE IF next # None THEN "store" ELSE "no"
    /\ loaded' = IF run' = "store" THEN next ELSE None
    /\ passed' = FALSE
    /\ UNCHANGED <<vb2, bufs, state, irqs, dmas, cam>>

\* Before the first byte of the frame: again in 5 ms.
WorkRetry ==
    /\ NoIrq /\ run = "retry" /\ run' = "no" /\ pend' = TRUE
    /\ UNCHANGED <<vb2, bufs, state, loaded, passed, irqs, dmas, cam>>

\* The address of the next frame, maybe read before the last one ended.
WorkStore ==
    /\ NoIrq /\ run = "store" /\ run' = "no"
    /\ addr' = loaded /\ loaded' = None
    /\ UNCHANGED <<vb2, bufs, state, pend, passed, irqs, dma, votes, cam>>

-----------------------------------------------------------------------------
(* External: sensor and camera.  The address is taken when the first byte comes. *)

Raise(c) == cause' = IF enabled THEN cause \cup {c} ELSE cause

FrameStart ==
    /\ sensor /\ phase = "blank" /\ phase' = "sync" /\ Raise("vsync_r")
    /\ UNCHANGED <<vb2, bufs, state, work, enabled, dmas, sensor, cur, filled, overflows>>

DataStart ==
    /\ phase = "sync" /\ phase' = "data"
    /\ cur' = IF dma THEN addr ELSE None
    /\ filled' = filled \ {cur'}
    /\ UNCHANGED <<vb2, bufs, state, work, irqs, dmas, sensor, overflows>>

Overflow ==
    /\ Transferring /\ overflows < MaxOverflows /\ overflows' = overflows + 1
    /\ Raise("ovfl")
    /\ cur' = None /\ filled' = filled \cup {cur}
    /\ UNCHANGED <<vb2, bufs, state, work, enabled, dmas, sensor, phase>>

\* The work, once it has read p->next, is not held up for more than a frame.
FrameEnd ==
    /\ phase = "data" /\ phase' = "blank" /\ Raise("vsync_f")
    /\ ~ (run = "store" /\ passed)
    /\ filled' = filled \cup ({cur} \ {None}) /\ cur' = None
    /\ UNCHANGED <<vb2, bufs, state, work, enabled, dmas, sensor, overflows>>

Camera == FrameStart \/ DataStart \/ FrameEnd
Work == WorkBegin \/ WorkRetry \/ WorkStore
Start == \E ok \in BOOLEAN : StartSensor(ok) \/ StartDone \/ StartAborted
Calls == (\E b \in Bufs : Qbuf(b)) \/ StartStreaming \/ Cancel \/ StopStreaming
Next == Calls \/ Start \/ Isr \/ Work \/ Camera \/ Overflow

\* The sensor sends frames, the scheduler runs what is runnable, calls end, and an
\* interrupt is not late, so that another one is lost behind it, every time.
Fairness ==
    /\ WF_vars(Camera) /\ WF_vars(Isr)
    /\ \A c \in {"vsync_r", "vsync_f"} : SF_vars(Isr /\ cause = {c})
    /\ WF_vars(Work) /\ WF_vars(Start) /\ WF_vars(StopStreaming)

Spec == Init /\ [][Next]_vars /\ Fairness

-----------------------------------------------------------------------------
\* The camera writes only into buffers the driver holds, never into one that
\* went back to the user; active and next are the first two of the list (so that
\* what is done is what was written); and the memory is kept awake for the camera
\* exactly while it is on.
WritesHeld ==
    /\ Transferring => cur \in Held
    /\ active = Nth(1, list) /\ next = Nth(2, list)
    /\ votes = IF dma THEN 1 ELSE 0

\* A buffer that is done is one the camera wrote a frame into, although the work, the
\* interrupt and the camera race for CAM_FRAME_START_ADDR and interrupts get lost.
\* That frame is not whole (and the driver does not tell) when the camera lost bytes, or was started in
\* the middle of a frame by buffer_queue (rda_camera_8810.c:514) or, the sensor
\* being on since the last time, by start_streaming (550).
DoneIsFilled == done \subseteq filled

\* Every buffer comes back while the sensor sends frames.
BuffersReturned == \A b \in Bufs : (b \in Held ~> b \notin Held)
=============================================================================
