--------------------------- MODULE RdaCameraProofs ---------------------------
(***************************************************************************)
(* Theorems about RdaCamera, for every set of buffers and every number of  *)
(* overflows.                                                              *)
(***************************************************************************)
EXTENDS RdaCamera, SequenceTheorems, TLAPS

-----------------------------------------------------------------------------
(* Lists of buffers, each in it once *)

IsQueue(s) == s \in Seq(Bufs) /\ IsInjective(s)

\* What Nth answers, for the places the driver looks at.
LEMMA Places ==
    ASSUME NEW s \in Seq(Bufs)
    PROVE  /\ Nth(1, s) \in Bufs \cup {None} /\ Nth(2, s) \in Bufs \cup {None}
           /\ Nth(1, s) # None => Nth(1, s) \in ToSet(s)
           /\ Nth(2, s) # None => Nth(2, s) \in ToSet(s)
           /\ Nth(1, s) = None <=> s = << >>
           /\ Nth(2, s) = None <=> Len(s) < 2
           /\ ToSet(s) \subseteq Bufs
<1>1. DOMAIN s = 1 .. Len(s) /\ Len(s) \in Nat /\ \A i \in 1 .. Len(s) : s[i] \in Bufs
  BY LenProperties, ElementOfSeq
<1>2. s = << >> <=> Len(s) = 0
  BY EmptySeq
<1> QED
  BY <1>1, <1>2, CameraAssumption DEF Nth, ToSet

LEMMA TwoPlaces ==
    ASSUME NEW s, IsQueue(s), Nth(1, s) # None
    PROVE  Nth(1, s) # Nth(2, s)
<1>1. DOMAIN s = 1 .. Len(s) /\ Len(s) \in Nat
  BY LenProperties DEF IsQueue
<1> QED
  BY <1>1 DEF Nth, IsQueue, IsInjective

\* buffer_queue: the list grows at its end.
LEMMA Grown ==
    ASSUME NEW s, IsQueue(s), NEW b \in Bufs \ ToSet(s), NEW t, t = Append(s, b)
    PROVE  /\ IsQueue(t) /\ t # << >> /\ ToSet(t) = ToSet(s) \cup {b}
           /\ s = << >> => Nth(1, t) = b /\ Nth(2, t) = None
           /\ s # << >> => /\ Nth(1, t) = Nth(1, s)
                           /\ Nth(2, t) = IF Nth(2, s) = None THEN b ELSE Nth(2, s)
<1>1. s \in Seq(Bufs) /\ Len(s) \in Nat /\ DOMAIN s = 1 .. Len(s)
  BY LenProperties DEF IsQueue
<1>2. /\ t \in Seq(Bufs) /\ Len(t) = Len(s) + 1 /\ DOMAIN t = 1 .. Len(s) + 1
      /\ t[Len(s) + 1] = b /\ \A i \in 1 .. Len(s) : t[i] = s[i]
  BY <1>1, AppendProperties, LenProperties
<1>3. IsInjective(t)
  BY <1>1, <1>2 DEF IsQueue, IsInjective, ToSet
<1>4. ToSet(t) = ToSet(s) \cup {b}
  BY <1>1, <1>2 DEF ToSet
<1>5. s = << >> <=> Len(s) = 0
  BY <1>1, EmptySeq
<1>6. Nth(2, s) = None <=> Len(s) < 2
  BY <1>1, Places
<1> QED
  BY <1>1, <1>2, <1>3, <1>4, <1>5, <1>6 DEF Nth, IsQueue

\* handle_streaming: the first buffer leaves, the others move up.
LEMMA Shifted ==
    ASSUME NEW s, IsQueue(s), s # << >>, NEW t, t = Tail(s)
    PROVE  /\ IsQueue(t) /\ ToSet(t) = ToSet(s) \ {Nth(1, s)}
           /\ Nth(1, t) = Nth(2, s) /\ Nth(2, t) = Nth(3, s)
<1>1. s \in Seq(Bufs) /\ Len(s) \in Nat \ {0} /\ DOMAIN s = 1 .. Len(s)
  BY LenProperties, EmptySeq DEF IsQueue
<1>2. /\ t \in Seq(Bufs) /\ Len(t) = Len(s) - 1 /\ DOMAIN t = 1 .. Len(s) - 1
      /\ \A i \in 1 .. Len(s) - 1 : t[i] = s[i + 1]
  BY <1>1, HeadTailProperties, LenProperties
<1>3. IsInjective(t)
  BY <1>1, <1>2 DEF IsQueue, IsInjective
<1>4. ToSet(t) = ToSet(s) \ {s[1]}
  <2>1. ASSUME NEW x \in ToSet(t) PROVE x \in ToSet(s) \ {s[1]}
    BY <1>1, <1>2 DEF ToSet, IsQueue, IsInjective
  <2>2. ASSUME NEW x \in ToSet(s) \ {s[1]} PROVE x \in ToSet(t)
    <3>1. PICK i \in 2 .. Len(s) : s[i] = x
      BY <1>1 DEF ToSet
    <3>2. i - 1 \in 1 .. Len(s) - 1 /\ t[i - 1] = x
      BY <1>1, <1>2, <3>1
    <3> QED
      BY <1>2, <3>2 DEF ToSet
  <2> QED
    BY <2>1, <2>2
<1> QED
  BY <1>1, <1>2, <1>3, <1>4 DEF Nth, IsQueue

-----------------------------------------------------------------------------
(* The invariant *)

\* The parts of TypeOK that Lists and Switches do not give.
Types ==
    /\ stream \in {"off", "sensor", "vsync", "on", "stopping"}
    /\ state \in {"idle", "oneshot", "success"}
    /\ run \in {"no", "retry", "store"}
    /\ cause \subseteq {"vsync_r", "vsync_f", "ovfl"}
    /\ phase \in {"blank", "sync", "data"}
    /\ overflows \in 0 .. MaxOverflows

Buffers ==
    /\ loaded \in Bufs \cup {None} /\ addr \in Bufs \cup {None} /\ cur \in Bufs \cup {None}
    /\ filled \subseteq Bufs /\ done \subseteq Bufs

Bits == /\ pend \in BOOLEAN /\ passed \in BOOLEAN /\ enabled \in BOOLEAN
        /\ dma \in BOOLEAN /\ sensor \in BOOLEAN

\* No buffer is in two places; active and next are the first two of the list.
Lists ==
    /\ IsQueue(list) /\ IsQueue(queue)
    /\ done \cap (Held \cup ToSet(queue)) = {}
    /\ active = Nth(1, list) /\ next = Nth(2, list)

\* What is on while it streams: the interrupt, and with a buffer the camera.
Switches ==
    /\ stream = "off" => list = << >> /\ ~ enabled
    /\ stream # "off" => queue = << >> /\ enabled
    /\ ~ enabled => cause = {}
    /\ dma <=> active # None
    /\ votes = IF dma THEN 1 ELSE 0

\* The interrupt of a frame's end is not handled in the next frame: the beginning
\* of that one comes before it.  So the driver knows, when it moves on to the next
\* buffer, that there is one.
Frames ==
    /\ phase # "data" => cur = None
    /\ phase # "blank" /\ "vsync_f" \in cause => "vsync_r" \in cause
    /\ enabled /\ state = "success" /\ "vsync_r" \notin cause
       /\ (phase # "blank" \/ "vsync_f" \in cause) => next # None

\* The camera is told one of the first two buffers.  What the work has read from
\* p->next is that, or what became active since, and then no other frame ends.
Address ==
    /\ dma => addr \in {active, next} \ {None}
    /\ cur # None => cur \in Held
    /\ run = "store" =>
        /\ loaded # None
        /\ loaded = IF passed THEN active ELSE next
        /\ passed => "vsync_f" \notin cause

Written(b) == b \in filled \/ cur = b

\* When the camera was told another address than the active buffer's, or is in a
\* frame, or has ended one that is not handled yet, the active buffer is written.
Filling ==
    /\ active # None
    /\ addr # active \/ phase = "data" \/ (phase = "blank" /\ "vsync_f" \in cause)
       \/ (run = "store" /\ ~ passed)
    => Written(active)

CameraInv ==
    Types /\ Buffers /\ Bits /\ Lists /\ Switches /\ Frames /\ Address /\ Filling /\ DoneIsFilled

\* The first two places of the list, for use without the list.
FirstTwo ==
    /\ active \in Held \cup {None} /\ next \in Held \cup {None}
    /\ active # None => active # next
    /\ active = None <=> Held = {}
    /\ active = None => next = None
    /\ Held \subseteq Bufs /\ done \cap Held = {}
    /\ None \notin Bufs

LEMMA FirstTwoKnown == ASSUME Lists PROVE FirstTwo
<1>1. list \in Seq(Bufs) /\ IsQueue(list)
  BY DEF Lists, IsQueue
<1>2. list = << >> <=> Len(list) = 0 
  BY <1>1, EmptySeq
<1>3. Held = {} <=> list = << >>
  BY <1>1, <1>2, LenProperties DEF Held, ToSet
<1> QED
  BY <1>1, <1>2, <1>3, Places, TwoPlaces, CameraAssumption, LenProperties DEF FirstTwo, Lists, Held

LEMMA FirstTwoNext == Lists' => FirstTwo'
<1>1. Lists => FirstTwo
  BY FirstTwoKnown
<1> QED
  BY <1>1, PTL

-----------------------------------------------------------------------------
(* The camera *)

\* Steps of the camera leave the driver alone.
LEMMA CameraElsewhere ==
    ASSUME CameraInv, UNCHANGED <<vb2, bufs, state, work, enabled, dmas, sensor>>
    PROVE  /\ Bits' /\ Lists' /\ Held' = Held
           /\ (~ enabled => cause' = {}) => Switches'
<1> USE DEF CameraInv, vb2, bufs, work, dmas
<1>1. Bits'
  BY DEF Bits
<1>2. Lists' /\ Held' = Held
  BY DEF Lists, Held
<1>3. ASSUME ~ enabled => cause' = {} PROVE Switches'
  BY <1>3 DEF Switches
<1> QED
  BY <1>1, <1>2, <1>3

LEMMA StepFrameStart == ASSUME CameraInv, FrameStart PROVE CameraInv'
<1> USE DEF CameraInv, FrameStart, Raise
<1>1. Bits' /\ Lists' /\ Switches' /\ Held' = Held
  BY CameraElsewhere DEF Switches
<1>2. Types' /\ Buffers'
  BY DEF Types, Buffers, vb2, bufs, work, dmas
<1>3. Frames' /\ Address'
  BY <1>1 DEF Frames, Address, Types, Switches, Bits, vb2, bufs, work, dmas
<1>4. Filling' /\ DoneIsFilled'
  BY DEF Filling, Written, DoneIsFilled, vb2, bufs, work, dmas
<1> QED
  BY <1>1, <1>2, <1>3, <1>4

\* The frame goes to the active buffer, or to the next one when the active one is
\* written already.
LEMMA StepDataStart == ASSUME CameraInv, DataStart PROVE CameraInv'
<1> USE DEF CameraInv, DataStart
<1>0. FirstTwo
  BY FirstTwoKnown
<1>1. Bits' /\ Lists' /\ Switches' /\ Held' = Held
  BY CameraElsewhere DEF Switches, irqs
<1>2. Types' /\ Buffers'
  BY DEF Types, Buffers, vb2, bufs, work, dmas, irqs
<1>3. Frames'
  BY DEF Frames, vb2, bufs, work, dmas, irqs
<1>4. cur' # None => dma /\ cur' = addr /\ addr \in {active, next} /\ cur' \in Held
  BY <1>0 DEF Address, FirstTwo
<1>5. Address'
  BY <1>1, <1>4 DEF Address, vb2, bufs, work, dmas, irqs
<1>6. Filling'
  <2> SUFFICES ASSUME active # None PROVE Written(active)'
    BY DEF Filling, bufs
  <2>1. dma /\ cur' = addr /\ addr \in {active, next}
    BY DEF Switches, Address
  <2>2. CASE addr = active
    BY <2>1, <2>2 DEF Written, bufs
  <2>3. CASE addr # active
    <3>1. active \in filled /\ addr # active
      BY <1>0, <2>1, <2>3 DEF Filling, Written, Frames, FirstTwo
    <3> QED
      BY <2>1, <3>1 DEF Written, bufs
  <2> QED
    BY <2>2, <2>3
<1>7. DoneIsFilled'
  BY <1>0, <1>4 DEF DoneIsFilled, FirstTwo, Buffers, vb2
<1> QED
  BY <1>1, <1>2, <1>3, <1>5, <1>6, <1>7

\* Bytes are lost: the driver is told, but not that the buffer is torn.
LEMMA StepOverflow == ASSUME CameraInv, Overflow PROVE CameraInv'
<1> USE DEF CameraInv, Overflow, Raise, Transferring
<1>1. Bits' /\ Lists' /\ Switches' /\ Held' = Held
  BY CameraElsewhere DEF Switches
<1>2. Types' /\ Buffers'
  BY CameraAssumption DEF Types, Buffers, vb2, bufs, work, dmas
<1>3. Frames' /\ Address'
  BY <1>1 DEF Frames, Address, Types, Switches, Bits, vb2, bufs, work, dmas
<1>4. Filling' /\ DoneIsFilled'
  BY DEF Filling, Written, DoneIsFilled, vb2, bufs, work, dmas
<1> QED
  BY <1>1, <1>2, <1>3, <1>4

\* The frame is whole; the work may be about to store what it read before.
LEMMA StepFrameEnd == ASSUME CameraInv, FrameEnd PROVE CameraInv'
<1> USE DEF CameraInv, FrameEnd, Raise
<1>1. Bits' /\ Lists' /\ Switches' /\ Held' = Held
  BY CameraElsewhere DEF Switches
<1>2. Types' /\ Buffers'
  BY DEF Types, Buffers, vb2, bufs, work, dmas
<1>3. Frames' /\ Address'
  BY <1>1 DEF Frames, Address, Types, Switches, Bits, vb2, bufs, work, dmas
<1>4. Filling' /\ DoneIsFilled'
  BY DEF Filling, Written, DoneIsFilled, vb2, bufs, work, dmas
<1> QED
  BY <1>1, <1>2, <1>3, <1>4

-----------------------------------------------------------------------------
(* The interrupt *)

\* A frame begins, or bytes were lost: only the state and the work change.
LEMMA StepFrameBegins ==
    ASSUME CameraInv, Isr, FrameBegins \/ Overflowed
    PROVE  CameraInv'
<1> USE DEF CameraInv, Isr, cam
<1>1. /\ UNCHANGED <<queue, stream, done, list, active, next, run, loaded, passed, addr, dma, votes,
                     enabled, sensor, phase, cur, filled, overflows>>
      /\ cause' = {} /\ pend' \in BOOLEAN
      /\ state' = "oneshot" \/ (state' = "success" /\ next # None)
  BY DEF FrameBegins, Overflowed, bufs, work, dmas, Bits
<1>2. Types' /\ Buffers' /\ Bits'
  BY <1>1 DEF Types, Buffers, Bits
<1>3. Lists' /\ Held' = Held
  BY <1>1 DEF Lists, Held
<1>4. Switches' /\ Frames' /\ Address'
  BY <1>1, <1>3 DEF Switches, Frames, Address
<1>5. Filling' /\ DoneIsFilled'
  BY <1>1 DEF Filling, Written, DoneIsFilled
<1> QED
  BY <1>2, <1>3, <1>4, <1>5

\* The end of a frame no buffer was active for, or that began before the start.
LEMMA StepFrameIgnored ==
    ASSUME CameraInv, Isr, cause = {"vsync_f"}, UNCHANGED <<done, bufs, state, work, dmas>>
    PROVE  CameraInv'
<1> USE DEF CameraInv, Isr, cam
<1>1. /\ UNCHANGED <<queue, stream, done, list, active, next, pend, run, loaded, passed, addr, dma,
                     votes, enabled, sensor, phase, cur, filled, overflows, state>>
      /\ cause' = {}
  BY DEF bufs, work, dmas
<1>2. Types' /\ Buffers' /\ Bits'
  BY <1>1 DEF Types, Buffers, Bits
<1>3. Lists' /\ Held' = Held
  BY <1>1 DEF Lists, Held
<1>4. Filling' /\ DoneIsFilled' /\ Switches' /\ Address'
  BY <1>1, <1>3 DEF Filling, Written, DoneIsFilled, Switches, Address
<1>5. Frames'
  <2>1. phase = "blank"
    BY DEF Frames
  <2> QED
    BY <1>1, <2>1 DEF Frames
<1> QED
  BY <1>2, <1>3, <1>4, <1>5

\* A frame ends for the active buffer: it is written, and the next one moves up.
LEMMA Handled ==
    ASSUME CameraInv, Isr, cause = {"vsync_f"}, active # None, HandleStreaming
    PROVE  /\ Lists' /\ DoneIsFilled' /\ done' \subseteq Bufs
           /\ active' = next /\ cur = None /\ cur' = None /\ phase = "blank" /\ phase' = "blank"
<1> USE DEF CameraInv, Isr, cam, HandleStreaming
<1>0. FirstTwo
  BY FirstTwoKnown
<1>1. phase = "blank" /\ cur = None
  BY DEF Frames, Types
<1>2. active \in filled
  BY <1>1 DEF Filling, Written
<1>3. list # << >> /\ IsQueue(list) /\ list \in Seq(Bufs)
  BY Places DEF Lists, IsQueue
<1>4. /\ IsQueue(list') /\ Held' = Held \ {active}
      /\ Nth(1, list') = Nth(2, list) /\ Nth(2, list') = Nth(3, list)
  BY <1>3, Shifted DEF Lists, Held
<1>5. active \in Held /\ Held \cap ToSet(queue) = {}
  <2>1. queue = << >>
    BY <1>3 DEF Switches
  <2>2. ToSet(queue) = {}
    BY <2>1 DEF ToSet
  <2> QED
    BY <1>0, <2>2 DEF FirstTwo
<1>6. Lists'
  BY <1>4, <1>5 DEF Lists
<1>7. DoneIsFilled' /\ done' \subseteq Bufs
  BY <1>0, <1>2 DEF DoneIsFilled, Buffers, FirstTwo
<1> QED
  BY <1>1, <1>6, <1>7 DEF Lists

\* The camera went on in the next buffer: only `success' says there is one.
LEMMA StepFrameEndsMoving ==
    ASSUME CameraInv, Isr, cause = {"vsync_f"}, active # None, FrameEndsMoving
    PROVE  CameraInv'
<1> USE DEF CameraInv, Isr, cam, FrameEndsMoving
<1>1. /\ Lists' /\ DoneIsFilled' /\ done' \subseteq Bufs
      /\ active' = next /\ cur = None /\ cur' = None /\ phase = "blank" /\ phase' = "blank"
  BY Handled
<1>2. FirstTwo /\ FirstTwo'
  BY <1>1, FirstTwoKnown, FirstTwoNext
<1>3. run = "store" => loaded = next /\ loaded # None
  BY DEF Address
<1>4. next # None /\ addr = next /\ dma /\ enabled
  BY DEF Frames, Switches, Address
<1>5. Types' /\ Buffers' /\ Bits'
  BY <1>1 DEF Types, Buffers, Bits, dmas
<1>6. Switches'
  BY <1>1, <1>4 DEF Switches, Lists, dmas, HandleStreaming
<1>7. Frames' /\ Address' /\ Filling'
  BY <1>1, <1>3, <1>4 DEF Frames, Address, Filling, dmas
<1> QED
  BY <1>1, <1>5, <1>6, <1>7

\* The camera is told where to go on, or stopped when there is nowhere.
LEMMA StepFrameEndsOneshot ==
    ASSUME CameraInv, Isr, cause = {"vsync_f"}, active # None, FrameEndsOneshot
    PROVE  CameraInv'
<1> USE DEF CameraInv, Isr, cam, FrameEndsOneshot
<1>1. /\ Lists' /\ DoneIsFilled' /\ done' \subseteq Bufs
      /\ active' = next /\ cur = None /\ cur' = None /\ phase = "blank" /\ phase' = "blank"
  BY Handled
<1>2. FirstTwo /\ FirstTwo'
  BY <1>1, FirstTwoKnown, FirstTwoNext
<1>3. run = "store" => loaded = next /\ loaded # None
  BY DEF Address
<1>4. /\ enabled /\ dma /\ votes = 1 /\ active' = next
      /\ UNCHANGED <<queue, stream, enabled, run, loaded, sensor, overflows, filled>>
      /\ cause' = {} /\ state' = "oneshot" /\ pend' = FALSE /\ passed' = TRUE
  BY <1>1 DEF Switches
<1>5. CASE active' = None
  <2>1. dma' = FALSE /\ votes' = 0 /\ addr' = addr
    BY <1>4, <1>5 DEF StopDma
  <2>2. Types' /\ Buffers' /\ Bits'
    BY <1>1, <1>4, <2>1 DEF Types, Buffers, Bits
  <2>3. Switches'
    BY <1>4, <1>5, <2>1 DEF Switches
  <2>4. Frames' /\ Address' /\ Filling'
    BY <1>1, <1>3, <1>4, <1>5, <2>1 DEF Frames, Address, Filling
  <2> QED
    BY <1>1, <2>2, <2>3, <2>4
<1>6. CASE active' # None
  <2>1. UNCHANGED <<dma, votes>> /\ addr' = active'
    BY <1>6
  <2>2. active' \in Bufs
    BY <1>2, <1>4, <1>6 DEF FirstTwo
  <2>3. Types' /\ Buffers' /\ Bits'
    BY <1>1, <1>4, <2>1, <2>2 DEF Types, Buffers, Bits
  <2>4. Switches'
    BY <1>4, <1>6, <2>1 DEF Switches
  <2>5. Frames' /\ Address' /\ Filling'
    BY <1>1, <1>3, <1>4, <1>6, <2>1 DEF Frames, Address, Filling
  <2> QED
    BY <1>1, <2>3, <2>4, <2>5
<1> QED
  BY <1>5, <1>6

LEMMA StepIsr == ASSUME CameraInv, Isr PROVE CameraInv'
<1>1. CASE FrameBegins \/ Overflowed
  BY <1>1, StepFrameBegins
<1>2. CASE FrameEnds /\ UNCHANGED <<done, bufs, state, work, dmas>>
  BY <1>2, StepFrameIgnored DEF FrameEnds
<1>3. CASE FrameEnds /\ active # None /\ (FrameEndsMoving \/ FrameEndsOneshot)
  BY <1>3, StepFrameEndsMoving, StepFrameEndsOneshot DEF FrameEnds
<1> QED
  BY <1>1, <1>2, <1>3 DEF Isr, FrameEnds

-----------------------------------------------------------------------------
(* The delayed work *)

\* What the work reads is the next buffer, while the camera writes the active one
\* or one after it.
LEMMA StepWorkBegin == ASSUME CameraInv, WorkBegin PROVE CameraInv'
<1> USE DEF CameraInv, WorkBegin, vb2, bufs, irqs, dmas, cam
<1>0. FirstTwo
  BY FirstTwoKnown
<1>1. run' = "store" => Transferring /\ next # None /\ loaded' = next /\ loaded' # None
  OBVIOUS
<1>2. Types' /\ Buffers' /\ Bits'
  <2>1. run' \in {"no", "retry", "store"}
    OBVIOUS
  <2>2. Types'
    BY <2>1 DEF Types
  <2>3. next \in Bufs \cup {None}
    BY <1>0 DEF FirstTwo
  <2>4. Buffers'
    BY <2>3 DEF Buffers
  <2>5. Bits'
    BY DEF Bits
  <2> QED
    BY <2>2, <2>4, <2>5
<1>3. Lists' /\ Held' = Held
  BY DEF Lists, Held
<1>4. Switches' /\ Frames' /\ DoneIsFilled'
  BY DEF Switches, Frames, DoneIsFilled
<1>5. Address'
  BY <1>1, <1>3 DEF Address
<1>6. Filling'
  BY <1>1 DEF Filling, Written, Transferring
<1> QED
  BY <1>2, <1>3, <1>4, <1>5, <1>6

LEMMA StepWorkRetry == ASSUME CameraInv, WorkRetry PROVE CameraInv'
<1> USE DEF CameraInv, WorkRetry, vb2, bufs, irqs, dmas, cam
<1>1. Types' /\ Buffers' /\ Bits'
  BY DEF Types, Buffers, Bits
<1>2. Lists' /\ Held' = Held
  BY DEF Lists, Held
<1>3. Switches' /\ Frames' /\ DoneIsFilled' /\ Address' /\ Filling'
  BY <1>2 DEF Switches, Frames, DoneIsFilled, Address, Filling, Written
<1> QED
  BY <1>1, <1>2, <1>3

\* The camera is told the next buffer, or, a frame later, the one it is at.
LEMMA StepWorkStore == ASSUME CameraInv, WorkStore PROVE CameraInv'
<1> USE DEF CameraInv, WorkStore, vb2, bufs, irqs, cam
<1>0. FirstTwo
  BY FirstTwoKnown
<1>1. Types' /\ Buffers' /\ Bits'
  BY DEF Types, Buffers, Bits
<1>2. Lists' /\ Held' = Held
  BY DEF Lists, Held
<1>3. Switches' /\ Frames' /\ DoneIsFilled'
  BY DEF Switches, Frames, DoneIsFilled
<1>4. loaded \in {active, next} \ {None}
  BY DEF Address
<1>5. Address'
  BY <1>2, <1>4 DEF Address
<1>6. Filling'
  BY <1>0, <1>4 DEF Filling, Written, Address, FirstTwo
<1> QED
  BY <1>1, <1>2, <1>3, <1>5, <1>6

-----------------------------------------------------------------------------
(* The calls *)

\* While a call runs there is no interrupt, and the work does not run.
LEMMA Quietly == ASSUME CameraInv, Quiet PROVE cause = {} /\ run = "no"
  BY DEF CameraInv, Quiet, NoIrq, Switches

\* Before streaming a buffer waits with vb2.
LEMMA StepQbufOff ==
    ASSUME CameraInv, NEW b \in Bufs, Qbuf(b), stream = "off" PROVE CameraInv'
<1> USE DEF CameraInv, Qbuf, work, irqs, bufs, dmas
<1>0. FirstTwo /\ cause = {} /\ run = "no"
  BY FirstTwoKnown, Quietly
<1>1. /\ UNCHANGED <<stream, state, pend, run, loaded, passed, enabled, cause, sensor, phase, cur,
                     overflows, list, active, next, addr, dma, votes>>
      /\ queue' = Append(queue, b) /\ filled' = filled \ {b} /\ done' = done \ {b}
  OBVIOUS
<1>2. list = << >> /\ active = None
  BY DEF Switches, Lists, Nth
<1>3. Types' /\ Buffers' /\ Bits'
  BY <1>1 DEF Types, Buffers, Bits
<1>4. Lists' /\ Held' = Held
  <2>1. IsQueue(queue') /\ ToSet(queue') = ToSet(queue) \cup {b}
    BY <1>1, Grown DEF Lists, Outside
  <2> QED
    BY <1>1, <2>1 DEF Lists, Held
<1>5. Switches' /\ Frames'
  BY <1>1 DEF Switches, Frames
<1>6. Address' /\ Filling'
  BY <1>0, <1>1, <1>2, <1>4 DEF Address, Filling
<1>7. DoneIsFilled'
  BY <1>1 DEF DoneIsFilled
<1> QED
  BY <1>3, <1>4, <1>5, <1>6, <1>7

\* While it streams the buffer joins the list; with nothing active the camera
\* starts at once, in the middle of a frame if need be.
LEMMA StepQbufOn ==
    ASSUME CameraInv, NEW b \in Bufs, Qbuf(b), stream # "off" PROVE CameraInv'
<1> USE DEF CameraInv
<1>0. FirstTwo /\ cause = {} /\ run = "no" /\ enabled /\ b \notin Held /\ b # None
  BY FirstTwoKnown, Quietly, CameraAssumption DEF Qbuf, Switches, Outside
<1>1. /\ UNCHANGED <<stream, state, pend, run, loaded, passed, enabled, cause, sensor, phase, cur,
                     overflows, queue>>
      /\ list' = Append(list, b) /\ done' = done \ {b} /\ BufferQueue(b)
  BY DEF Qbuf, work, irqs, BufferQueue
<1>2. /\ IsQueue(list') /\ Held' = Held \cup {b}
      /\ list = << >> => Nth(1, list') = b /\ Nth(2, list') = None
      /\ list # << >> => /\ Nth(1, list') = Nth(1, list)
                         /\ Nth(2, list') = IF Nth(2, list) = None THEN b ELSE Nth(2, list)
  BY <1>0, <1>1, Grown DEF Lists, Held
<1>3. list = << >> <=> active = None
  BY Places DEF Lists, IsQueue
<1>4. Lists'
  <2>1. active' = Nth(1, list') /\ next' = Nth(2, list')
    <3>1. CASE active = None
      BY <1>0, <1>1, <1>2, <1>3, <3>1 DEF BufferQueue, FirstTwo
    <3>2. CASE active # None
      BY <1>1, <1>2, <1>3, <3>2 DEF BufferQueue, Lists
    <3> QED
      BY <3>1, <3>2
  <2>2. (done' \cap (Held \cup ToSet(queue))') = {}
    BY <1>1, <1>2 DEF Lists
  <2> QED
    BY <1>1, <1>2, <2>1, <2>2 DEF Lists
<1>5. CASE active = None
  <2>1. /\ active' = b /\ addr' = b /\ dma' = TRUE /\ votes' = votes + 1 /\ next' = next
        /\ filled' = (filled \ {b}) \cup Tears(b)
    BY <1>1, <1>5 DEF BufferQueue, StartDma
  <2>2. Tears(b) \subseteq {b} /\ (phase = "data" => Tears(b) = {b})
    BY DEF Tears
  <2>3. cur = None /\ next = None
    BY <1>0, <1>5 DEF Address, FirstTwo
  <2>4. Types' /\ Buffers' /\ Bits'
    BY <1>1, <2>1, <2>2 DEF Types, Buffers, Bits
  <2>5. Switches'
    BY <1>0, <1>1, <1>5, <2>1 DEF Switches
  <2>6. Frames' /\ Address'
    BY <1>0, <1>1, <2>1, <2>3 DEF Frames, Address
  <2>7. Filling' /\ DoneIsFilled'
    BY <1>0, <1>1, <2>1, <2>2 DEF Filling, Written, DoneIsFilled
  <2> QED
    BY <1>4, <2>4, <2>5, <2>6, <2>7
<1>6. CASE active # None
  <2>1. /\ active' = active /\ UNCHANGED <<addr, dma, votes>> /\ filled' = filled \ {b}
        /\ next' = IF next = None THEN b ELSE next
    BY <1>1, <1>6 DEF BufferQueue, dmas
  <2>2. Types' /\ Buffers' /\ Bits'
    BY <1>1, <2>1 DEF Types, Buffers, Bits
  <2>3. Switches'
    BY <1>1, <2>1 DEF Switches
  <2>4. Frames' /\ Address'
    BY <1>0, <1>1, <1>2, <2>1 DEF Frames, Address
  <2>5. Filling' /\ DoneIsFilled'
    BY <1>0, <1>1, <1>6, <2>1 DEF Filling, Written, DoneIsFilled, FirstTwo
  <2> QED
    BY <1>4, <2>2, <2>3, <2>4, <2>5
<1> QED
  BY <1>5, <1>6

\* start_streaming: the first buffer is what the camera is told.
LEMMA StepStartStreaming == ASSUME CameraInv, StartStreaming PROVE CameraInv'
<1> USE DEF CameraInv
<1>0. cause = {} /\ run = "no" /\ stream = "off" /\ list = << >> /\ IsQueue(queue)
  BY Quietly DEF StartStreaming, Switches, Lists
<1>1. /\ UNCHANGED <<done, pend, run, loaded, passed, sensor, phase, cur, overflows>>
      /\ stream' = "sensor" /\ list' = queue /\ queue' = << >> /\ state' = "idle"
      /\ enabled' = TRUE /\ cause' = {}
      /\ active' = Nth(1, queue) /\ next' = Nth(2, queue)
  BY DEF StartStreaming, work
<1>2. ToSet(<< >>) = {} /\ Held' = ToSet(queue) /\ Held = {}
  BY <1>0, <1>1 DEF ToSet, Held
<1>3. active = None /\ ~ dma /\ votes = 0 /\ cur = None
  BY <1>0, <1>2 DEF Lists, Nth, Switches, Address
<1>4. Lists'
  <2>1. IsQueue(<< >>)
    BY DEF IsQueue, IsInjective
  <2> QED
    BY <1>1, <1>2, <2>1 DEF Lists
<1>5. FirstTwo'
  BY <1>4, FirstTwoNext
<1>6. queue = << >> <=> active' = None
  BY <1>0, <1>1, Places DEF IsQueue
<1>7. CASE queue = << >>
  <2>1. UNCHANGED <<addr, dma, votes, filled>> /\ active' = None
    BY <1>6, <1>7 DEF StartStreaming, dmas
  <2>2. Types' /\ Buffers' /\ Bits'
    BY <1>1, <2>1 DEF Types, Buffers, Bits
  <2>3. Switches'
    BY <1>1, <1>3, <2>1 DEF Switches
  <2>4. Frames' /\ Address' /\ Filling' /\ DoneIsFilled'
    BY <1>0, <1>1, <1>3, <2>1 DEF Frames, Address, Filling, DoneIsFilled
  <2> QED
    BY <1>4, <2>2, <2>3, <2>4
<1>8. CASE queue # << >>
  <2>1. /\ active' # None /\ addr' = active' /\ dma' = TRUE /\ votes' = 1
        /\ filled' = filled \cup Tears(active')
    BY <1>3, <1>6, <1>8 DEF StartStreaming, StartDma
  <2>2. active' \in Bufs /\ Tears(active') \subseteq {active'}
        /\ (phase = "data" => Tears(active') = {active'})
    BY <1>5, <2>1 DEF Tears, FirstTwo
  <2>3. Types' /\ Buffers' /\ Bits'
    BY <1>1, <2>1, <2>2 DEF Types, Buffers, Bits
  <2>4. Switches'
    BY <1>1, <2>1 DEF Switches
  <2>5. Frames' /\ Address' /\ Filling' /\ DoneIsFilled'
    BY <1>0, <1>1, <1>3, <2>1, <2>2 DEF Frames, Address, Filling, Written, DoneIsFilled
  <2> QED
    BY <1>4, <2>3, <2>4, <2>5
<1> QED
  BY <1>7, <1>8

\* Stopping, and failing to start: the camera is off when the buffers go back.
LEMMA StepRelease ==
    ASSUME CameraInv, Quiet, StartFails, Bits',
           UNCHANGED <<queue, done, state, run, loaded, passed, phase, overflows>>,
           stream # "off"
    PROVE  CameraInv'
<1> USE DEF CameraInv
<1>0. cause = {} /\ run = "no" /\ queue = << >> /\ FirstTwo
  BY Quietly, FirstTwoKnown DEF Switches
<1>1. /\ enabled' = FALSE /\ cause' = {} /\ stream' = "off" /\ dma' = FALSE /\ addr' = addr
      /\ cur' = None /\ active' = None /\ next' = None /\ list' = << >>
      /\ filled' = filled \ Held
  BY DEF StartFails, ReleaseAll, StopDma
<1>2. votes' = 0
  BY DEF StartFails, StopDma, Switches
<1>3. Types' /\ Buffers'
  BY <1>1 DEF Types, Buffers
<1>4. Lists' /\ Held' = {}
  <2>1. IsQueue(<< >>) /\ ToSet(<< >>) = {}
    BY DEF IsQueue, IsInjective, ToSet
  <2> QED
    BY <1>0, <1>1, <2>1 DEF Lists, Held, Nth
<1>5. Switches'
  BY <1>1, <1>2 DEF Switches
<1>6. Frames' /\ Address' /\ Filling'
  BY <1>0, <1>1 DEF Frames, Address, Filling
<1>7. DoneIsFilled'
  BY <1>0, <1>1 DEF DoneIsFilled, FirstTwo
<1> QED
  BY <1>3, <1>4, <1>5, <1>6, <1>7

\* Steps of a call that leave buffers, camera and interrupt alone.
LEMMA CallElsewhere ==
    ASSUME CameraInv, Types', Bits',
           UNCHANGED <<queue, done, bufs, state, run, loaded, passed, irqs, dmas, phase, cur, filled>>,
           stream # "off", stream' # "off"
    PROVE  CameraInv'
<1> USE DEF CameraInv, bufs, irqs, dmas
<1>1. Buffers' /\ Lists' /\ Held' = Held
  BY DEF Buffers, Lists, Held
<1>2. Switches' /\ Frames' /\ Address' /\ Filling' /\ DoneIsFilled'
  BY <1>1 DEF Switches, Frames, Address, Filling, Written, DoneIsFilled
<1> QED
  BY <1>1, <1>2

LEMMA StepStart == ASSUME CameraInv, Start \/ Cancel \/ StopStreaming PROVE CameraInv'
<1> USE DEF work, cam
<1>1. ASSUME NEW ok \in BOOLEAN, StartSensor(ok) PROVE CameraInv'
  <2>1. CASE ok
    <3>1. Types' /\ Bits'
      BY <1>1, <2>1 DEF StartSensor, CameraInv, Types, Bits, irqs, dmas
    <3> QED
      BY <1>1, <2>1, <3>1, CallElsewhere DEF StartSensor
  <2>2. CASE ~ ok
    <3>1. Bits'
      BY <1>1, <2>2 DEF StartSensor, StartFails, StopDma, CameraInv, Bits
    <3> QED
      BY <1>1, <2>2, <3>1, StepRelease DEF StartSensor
  <2> QED
    BY <2>1, <2>2
<1>2. CASE StartDone \/ Cancel
  <2>1. CASE StartDone
    <3>1. Types'
      BY <2>1 DEF StartDone, CameraInv, Types, irqs, dmas
    <3>2. Bits'
      BY <2>1 DEF StartDone, CameraInv, Bits, irqs, dmas
    <3> QED
      BY <2>1, <3>1, <3>2, CallElsewhere DEF StartDone
  <2>2. CASE Cancel
    <3>1. Types'
      BY <2>2 DEF Cancel, CameraInv, Types, irqs, dmas
    <3>2. Bits'
      BY <2>2 DEF Cancel, CameraInv, Bits, irqs, dmas
    <3> QED
      BY <2>2, <3>1, <3>2, CallElsewhere DEF Cancel
  <2> QED
    BY <1>2, <2>1, <2>2
<1>3. CASE StartAborted \/ StopStreaming
  <2>1. Bits'
    BY <1>3 DEF StartAborted, StopStreaming, StartFails, StopDma, CameraInv, Bits
  <2> QED
    BY <1>3, <2>1, StepRelease DEF StartAborted, StopStreaming, StartFails
<1> QED
  BY <1>1, <1>2, <1>3 DEF Start

-----------------------------------------------------------------------------
(* The theorems *)

LEMMA InitCamera == Init => CameraInv
<1> SUFFICES ASSUME Init PROVE CameraInv
  OBVIOUS
<1>1. IsQueue(<< >>) /\ ToSet(<< >>) = {} /\ Nth(1, << >>) = None /\ Nth(2, << >>) = None
  BY DEF IsQueue, IsInjective, ToSet, Nth
<1>2. Types /\ Buffers
  BY CameraAssumption DEF Init, Types, Buffers
<1>3. Bits
  BY DEF Init, Bits
<1>4. Lists /\ Switches /\ Frames /\ Address /\ Filling /\ DoneIsFilled
  BY <1>1 DEF Init, Lists, Held, Switches, Frames, Address, Filling, DoneIsFilled
<1> QED
  BY <1>2, <1>3, <1>4 DEF CameraInv

LEMMA StepCamera == ASSUME CameraInv, [Next]_vars PROVE CameraInv'
<1>1. ASSUME NEW b \in Bufs, Qbuf(b) PROVE CameraInv'
  BY <1>1, StepQbufOff, StepQbufOn
<1>2. CASE StartStreaming \/ Start \/ Cancel \/ StopStreaming
  BY <1>2, StepStartStreaming, StepStart
<1>3. CASE Isr
  BY <1>3, StepIsr
<1>4. CASE Work
  BY <1>4, StepWorkBegin, StepWorkRetry, StepWorkStore DEF Work
<1>5. CASE Camera \/ Overflow
  BY <1>5, StepFrameStart, StepDataStart, StepFrameEnd, StepOverflow DEF Camera
<1>6. CASE UNCHANGED vars
  <2> USE <1>6 DEF vars, vb2, bufs, work, irqs, dmas, cam, CameraInv
  <2>1. Types' /\ Buffers' /\ Bits'
    BY DEF Types, Buffers, Bits
  <2>2. Lists' /\ Held' = Held
    BY DEF Lists, Held
  <2>3. Switches' /\ Frames' /\ Address' /\ Filling' /\ DoneIsFilled'
    BY <2>2 DEF Switches, Frames, Address, Filling, Written, DoneIsFilled
  <2> QED
    BY <2>1, <2>2, <2>3
<1> QED
  BY <1>1, <1>2, <1>3, <1>4, <1>5, <1>6 DEF Next, Calls

LEMMA CameraAlways == Spec => []CameraInv
<1>1. CameraInv /\ [Next]_vars => CameraInv'
  BY StepCamera
<1> QED
  BY InitCamera, <1>1, PTL DEF Spec

\* Types; the driver holds at most one DDR vote for the camera
\* (rda_camera_8810.c:254-281).
THEOREM TypeCorrect == Spec => []TypeOK
<1>1. CameraInv => TypeOK
  <2> SUFFICES ASSUME CameraInv PROVE TypeOK
    OBVIOUS
  <2> USE DEF CameraInv
  <2>1. queue \in Seq(Bufs) /\ list \in Seq(Bufs)
    BY DEF Lists, IsQueue
  <2>2. {active, next, loaded, addr, cur} \subseteq Bufs \cup {None}
    BY FirstTwoKnown DEF FirstTwo, Buffers
  <2>3. {pend, passed, enabled, dma, sensor} \subseteq BOOLEAN
    BY DEF Bits
  <2>4. votes \in 0 .. 1
    BY DEF Switches
  <2> QED
    BY <2>1, <2>2, <2>3, <2>4 DEF TypeOK, Types, Buffers
<1> QED
  BY CameraAlways, <1>1, PTL

\* The camera writes only into buffers the driver holds (rda_camera_8810.c:308-322,
\* 341-429): whenever the first byte of a frame comes, the address it was told is
\* that of the active or of the next buffer, although the work may tell it a frame
\* late, and stopping takes the address away before the buffers go back.
THEOREM CameraWritesHeld == Spec => []WritesHeld
<1>1. CameraInv => WritesHeld
  BY DEF CameraInv, WritesHeld, Transferring, Address, Lists, Switches
<1> QED
  BY CameraAlways, <1>1, PTL

\* A buffer that is done is one the camera wrote a frame into
\* (rda_camera_8810.c:341-429), also when interrupts are late or merged.  A frame
\* the camera tore counts as written, and the work is one that is not held up for
\* more than a frame between its reading and its writing.
THEOREM DoneMeansFilled == Spec => []DoneIsFilled
<1>1. CameraInv => DoneIsFilled
  BY DEF CameraInv
<1> QED
  BY CameraAlways, <1>1, PTL

\* No buffer is in two places: with vb2, in the driver's list, or done
\* (rda_camera_8810.c:341-374, 496-522, 589-632), and active and next are the first two of
\* the list.
THEOREM BuffersApart == Spec => []Lists
<1>1. CameraInv => Lists
  BY DEF CameraInv
<1> QED
  BY CameraAlways, <1>1, PTL

=============================================================================
