----------------------------- MODULE MdRxProofs -----------------------------
(***************************************************************************)
(* The receive ring is correct for every ring size, every header size,     *)
(* every set of extension lengths and every number of frames: the reader   *)
(* never loses the framing.                                                *)
(***************************************************************************)
EXTENDS MdRx, SequenceTheorems, TLAPS

-----------------------------------------------------------------------------
(* Index arithmetic *)

\* Within one lap of the ring, `& fifo_mask' adds or subtracts Size at most once.
LEMMA WrapByCases ==
    ASSUME NEW m \in -Size .. 2 * Size - 1
    PROVE  Wrap(m) = IF m < 0 THEN m + Size ELSE IF m < Size THEN m ELSE m - Size
<1>1. CASE m < 0
  BY <1>1, SizeAssumption DEF Wrap
<1>2. CASE 0 <= m /\ m < Size
  BY <1>2, SizeAssumption DEF Wrap
<1>3. CASE Size <= m
  BY <1>3, SizeAssumption DEF Wrap
<1> QED
  BY <1>1, <1>2, <1>3, SizeAssumption

\* An index moved twice is moved by the sum.
LEMMA WrapTwice ==
    ASSUME NEW s \in Slots, NEW a \in 0 .. Size - 1, NEW b \in 0 .. Size - 1, a + b < Size
    PROVE  /\ Wrap(s + a) \in Slots
           /\ Wrap(Wrap(s + a) + b) = Wrap(s + (a + b))
<1>1. Size \in Nat /\ Size > 1 /\ s \in 0 .. Size - 1
  BY SizeAssumption DEF Slots
<1>2. Wrap(s + a) = IF s + a < Size THEN s + a ELSE s + a - Size
  <2>1. s + a \in -Size .. 2 * Size - 1 /\ ~ (s + a < 0)
    BY <1>1
  <2> QED
    BY <1>1, <2>1, WrapByCases
<1>3. Wrap(s + (a + b)) = IF s + (a + b) < Size THEN s + (a + b) ELSE s + (a + b) - Size
  <2>1. s + (a + b) \in -Size .. 2 * Size - 1 /\ ~ (s + (a + b) < 0)
    BY <1>1
  <2> QED
    BY <1>1, <2>1, WrapByCases
<1>4. Wrap(s + a) \in Slots
  BY <1>1, <1>2 DEF Slots
<1>5. Wrap(Wrap(s + a) + b)
        = IF Wrap(s + a) + b < Size THEN Wrap(s + a) + b ELSE Wrap(s + a) + b - Size
  <2>1. Wrap(s + a) + b \in -Size .. 2 * Size - 1 /\ ~ (Wrap(s + a) + b < 0)
    BY <1>1, <1>4 DEF Slots
  <2> QED
    BY <1>1, <2>1, WrapByCases
<1> QED
  BY <1>1, <1>2, <1>3, <1>4, <1>5

\* head is as far from tail as __ch_stream_read_avail says, and no other
\* distance within the ring leads there.
LEMMA Distance ==
    ASSUME NEW h \in Slots, NEW t \in Slots
    PROVE  /\ ReadAvail(h, t) \in 0 .. Size - 1 /\ h = Wrap(t + ReadAvail(h, t))
           /\ \A d \in 0 .. Size - 1 : h = Wrap(t + d) => d = ReadAvail(h, t)
<1>1. Size \in Nat /\ Size > 1 /\ h \in 0 .. Size - 1 /\ t \in 0 .. Size - 1
  BY SizeAssumption DEF Slots
<1>2. ReadAvail(h, t) = IF h < t THEN h - t + Size ELSE h - t
  <2>1. h - t \in -Size .. 2 * Size - 1 /\ h - t < Size
    BY <1>1
  <2> QED
    BY <1>1, <2>1, WrapByCases DEF ReadAvail
<1>3. ASSUME NEW d \in 0 .. Size - 1
      PROVE  Wrap(t + d) = IF t + d < Size THEN t + d ELSE t + d - Size
  <2>1. t + d \in -Size .. 2 * Size - 1 /\ ~ (t + d < 0)
    BY <1>1
  <2> QED
    BY <1>1, <2>1, WrapByCases
<1>4. ReadAvail(h, t) \in 0 .. Size - 1
  BY <1>1, <1>2
<1>5. h = Wrap(t + ReadAvail(h, t))
  BY <1>1, <1>2, <1>3, <1>4
<1>6. ASSUME NEW d \in 0 .. Size - 1, h = Wrap(t + d) PROVE d = ReadAvail(h, t)
  BY <1>1, <1>2, <1>3, <1>6
<1> QED
  BY <1>4, <1>5, <1>6

\* Moving tail or head within what is there or free.
LEMMA TailMoves ==
    ASSUME NEW h \in Slots, NEW t \in Slots, NEW m \in 0 .. ReadAvail(h, t)
    PROVE  Wrap(t + m) \in Slots /\ ReadAvail(h, Wrap(t + m)) = ReadAvail(h, t) - m
<1> DEFINE d == ReadAvail(h, t)
<1>1. d \in 0 .. Size - 1 /\ h = Wrap(t + d) /\ Size \in Nat
  BY Distance, SizeAssumption
<1>2. m \in 0 .. Size - 1 /\ d - m \in 0 .. Size - 1 /\ m + (d - m) < Size /\ m + (d - m) = d
  BY <1>1
<1> HIDE DEF d
<1>3. Wrap(t + m) \in Slots /\ h = Wrap(Wrap(t + m) + (d - m))
  BY <1>1, <1>2, WrapTwice
<1> QED
  BY <1>2, <1>3, Distance DEF d

LEMMA HeadMoves ==
    ASSUME NEW h \in Slots, NEW t \in Slots, NEW m \in 0 .. Size - 1 - ReadAvail(h, t)
    PROVE  Wrap(h + m) \in Slots /\ ReadAvail(Wrap(h + m), t) = ReadAvail(h, t) + m
<1> DEFINE d == ReadAvail(h, t)
<1>1. d \in 0 .. Size - 1 /\ h = Wrap(t + d) /\ Size \in Nat
  BY Distance, SizeAssumption
<1>2. m \in 0 .. Size - 1 /\ d + m \in 0 .. Size - 1 /\ d + m < Size
  BY <1>1
<1> HIDE DEF d
<1>3. Wrap(h + m) = Wrap(t + (d + m))
  BY <1>1, <1>2, WrapTwice
<1>4. Wrap(h + m) \in Slots
  <2>1. 0 \in 0 .. Size - 1 /\ m + 0 < Size
    BY <1>1, <1>2
  <2> QED
    BY <1>2, <2>1, WrapTwice
<1> QED
  BY <1>2, <1>3, <1>4, Distance DEF d

\* __ch_read_buffer offers a run that is there and does not cross the end of
\* the memory, and an empty one only when nothing is there.
LEMMA ReadBufferFits ==
    ASSUME NEW h \in Slots, NEW t \in Slots
    PROVE  /\ ReadBuffer(h, t) \in 0 .. ReadAvail(h, t)
           /\ t + ReadBuffer(h, t) <= Size
           /\ ReadAvail(h, t) > 0 => ReadBuffer(h, t) > 0
<1>1. Size \in Nat /\ Size > 1 /\ h \in 0 .. Size - 1 /\ t \in 0 .. Size - 1
  BY SizeAssumption DEF Slots
<1>2. ReadAvail(h, t) = IF h < t THEN h - t + Size ELSE h - t
  <2>1. h - t \in -Size .. 2 * Size - 1 /\ h - t < Size
    BY <1>1
  <2> QED
    BY <1>1, <2>1, WrapByCases DEF ReadAvail
<1> QED
  BY <1>1, <1>2 DEF ReadBuffer

-----------------------------------------------------------------------------
(* The inductive invariant *)

Copying == {"hdrcopied", "extcopied"}

\* The frame the reader is at (the one it tore, if it did), how long a frame is,
\* how much of the frame in hand was copied but not given back, how much was
\* given back, how much is visible in the ring and how much is laid out in it.
Current    == IF Torn THEN Len(frames) ELSE Len(frames) + 1
Whole(k)   == Hdr + exts[k]
Unreleased == IF pc \in Copying THEN n ELSE 0
Released   == CASE Torn -> Len(frames[Len(frames)])
                [] ~ Torn /\ pc \in {"idle", "slot"} -> 0
                [] OTHER -> Len(slot) - Unreleased
Avail      == ReadAvail(head, tail)
Filled     == Avail + rest

\* at[k] is how far behind tail frame k begins: the frames not yet read lie in
\* the ring one after the other, from the one in hand to the last laid out.
Layout(at) ==
    /\ at[Current] = -Released
    /\ at[Len(exts) + 1] = Filled
    /\ \A k \in Current .. Len(exts) :
         at[k + 1] = at[k] + Whole(k) /\ at[k + 1] <= Filled /\ at[k] <= Avail
    /\ \A k \in Current .. Len(exts) : \A i \in 1 .. Whole(k) :
         at[k] + i - 1 >= 0 => fifo[Wrap(tail + (at[k] + i - 1))] = <<k, i>>

Laid == \E at \in [1 .. Len(exts) + 1 -> Int] : Layout(at)

\* What the BP still holds back is the end of the last frame; when its header
\* is out, the frame is one of those exposed.
HeldBack ==
    /\ Filled <= Size - 1
    /\ rest > 0 => /\ Len(exts) > 0 /\ rest <= Whole(Len(exts))
                   /\ Hdr <= Whole(Len(exts)) - rest => Len(exts) \in exposed

\* What the call of __ch_read under way has to reach.
Part == IF pc \in {"hdr", "hdrcopied"} THEN Hdr ELSE Whole(Current)

\* The slot holds a prefix of the frame in hand, `need' is the rest of the part,
\* and the header of the frame was visible from the peek on.
Reading ==
    /\ pc \notin {"idle", "bad"} =>
         Current <= Len(exts) /\ rsize = Whole(Current) /\ Hdr <= Avail + Released
    /\ pc \notin {"idle", "bad", "slot"} =>
         /\ \A i \in 1 .. Len(slot) : slot[i] = <<Current, i>>
         /\ need > 0 /\ Len(slot) + need = Part + Unreleased
         /\ Unreleased <= Len(slot)
    /\ pc \in Copying => n \in 1 .. need /\ n <= Avail

Types ==
    /\ head \in Slots /\ tail \in Slots
    /\ exts \in Seq(ExtLens) /\ rest \in Nat
    /\ pc \in {"idle", "bad", "slot", "hdr", "hdrcopied", "ext", "extcopied"}
    /\ rsize \in Nat /\ need \in Nat /\ n \in Nat
    /\ slot \in Seq(Nat \X Nat) /\ frames \in Seq(Seq(Nat \X Nat))
    /\ Len(frames) <= Len(exts)

Delivered ==
    /\ \A k \in 1 .. Len(frames) :
          /\ \A i \in 1 .. Len(frames[k]) : frames[k][i] = <<k, i>>
          /\ Hdr <= Len(frames[k]) /\ Len(frames[k]) <= Whole(k)
          /\ k < Len(frames) => frames[k] = Frame(k)
    /\ Torn => Len(frames) \in exposed /\ pc \in {"idle", "bad"}
    /\ pc = "bad" => Torn

RxInv == Types /\ Laid /\ HeldBack /\ Reading /\ Delivered

\* What the types say in numbers.
LEMMA Bounds ==
    ASSUME Types
    PROVE  /\ Size \in Nat /\ Size > 1 /\ Hdr \in Nat /\ 0 < Hdr /\ Hdr < Size
           /\ Len(exts) \in Nat /\ Len(frames) \in Nat /\ Len(slot) \in Nat
           /\ Current \in Nat \ {0} /\ Current <= Len(exts) + 1
           /\ Avail \in 0 .. Size - 1 /\ Filled \in Nat /\ Avail <= Filled
           /\ \A k \in 1 .. Len(exts) : exts[k] \in Nat /\ Whole(k) \in Nat /\ Hdr <= Whole(k)
<1>1. Size \in Nat /\ Size > 1 /\ Hdr \in Nat /\ 0 < Hdr /\ Hdr < Size
  BY SizeAssumption, RxAssumption
<1>2. Len(exts) \in Nat /\ Len(frames) \in Nat /\ Len(slot) \in Nat
  BY LenProperties DEF Types
<1>3. Avail \in 0 .. Size - 1
  BY Distance DEF Types, Avail
<1>4. ASSUME NEW k \in 1 .. Len(exts) PROVE exts[k] \in Nat /\ Whole(k) \in Nat /\ Hdr <= Whole(k)
  <2>1. exts[k] \in Nat
    BY ElementOfSeq, RxAssumption DEF Types
  <2> QED
    BY <1>1, <2>1 DEF Whole
<1>5. Current \in Nat \ {0} /\ Current <= Len(exts) + 1
  <2>1. CASE Torn
    <3>1. Current = Len(frames) /\ Len(frames) # 0
      BY <2>1, EmptySeq DEF Current, Torn, Types
    <3> QED
      BY <1>2, <3>1 DEF Types
  <2>2. CASE ~ Torn
    BY <1>2, <2>2 DEF Current, Types
  <2> QED
    BY <2>1, <2>2
<1>6. Filled \in Nat /\ Avail <= Filled
  BY <1>1, <1>3 DEF Filled, Types
<1> QED
  BY <1>1, <1>2, <1>3, <1>4, <1>5, <1>6

\* A frame stays torn, or whole, as long as nothing is delivered.
LEMMA TornStays ==
    ASSUME Types, UNCHANGED frames, \A k \in 1 .. Len(exts) : exts'[k] = exts[k]
    PROVE  Torn' = Torn /\ Current' = Current
<1>1. Len(frames) \in Nat /\ Len(exts) \in Nat /\ Len(frames) <= Len(exts)
  BY Bounds DEF Types
<1>2. CASE frames = << >>
  BY <1>2 DEF Torn, Current
<1>3. CASE frames # << >>
  <2>1. Len(frames) # 0
    BY <1>3, EmptySeq DEF Types
  <2>2. exts'[Len(frames)] = exts[Len(frames)]
    BY <1>1, <2>1
  <2> QED
    BY <2>2 DEF Torn, Current
<1> QED
  BY <1>2, <1>3

LEMMA InitRx == Init => RxInv
<1> SUFFICES ASSUME Init PROVE RxInv
  OBVIOUS
<1>1. /\ 0 \in Slots /\ Len(exts) = 0 /\ Len(frames) = 0 /\ pc = "idle" /\ rest = 0
      /\ ~ Torn
  BY SizeAssumption DEF Slots, Init, Torn
<1>2. Types
  BY <1>1 DEF Init, Types
<1>3. Avail = 0 /\ Filled = 0
  <2>1. 0 = Wrap(0 + 0) /\ 0 \in 0 .. Size - 1
    BY SizeAssumption DEF Wrap
  <2>2. Avail = 0
    BY <1>1, <2>1, Distance DEF Init, Avail
  <2> QED
    BY <1>1, <2>2 DEF Filled
<1>4. Laid
  <2> DEFINE at == [k \in 1 .. 1 |-> 0]
  <2>1. at \in [1 .. Len(exts) + 1 -> Int] /\ at[1] = 0
    BY <1>1
  <2> HIDE DEF at
  <2>2. Current = 1 /\ Len(exts) + 1 = 1 /\ Released = 0 /\ Current .. Len(exts) = {}
    BY <1>1 DEF Current, Released
  <2>3. Layout(at)
    BY <1>3, <2>1, <2>2 DEF Layout
  <2> QED
    BY <2>1, <2>3 DEF Laid
<1>5. HeldBack /\ Reading /\ Delivered
  BY <1>1, <1>3, SizeAssumption DEF HeldBack, Reading, Delivered, Copying
<1> QED
  BY <1>2, <1>4, <1>5 DEF RxInv

-----------------------------------------------------------------------------
(* What is in the ring *)

\* The rest of the frame in hand is laid out, unit by unit; what is not visible
\* of it is what the BP holds back.
LEMMA RestIsThere ==
    ASSUME RxInv, Current <= Len(exts), Released <= Whole(Current), Released \in Nat
    PROVE  /\ Whole(Current) - Released <= Filled
           /\ \A i \in 1 .. Whole(Current) - Released :
                fifo[Wrap(tail + (i - 1))] = <<Current, Released + i>>
           /\ Whole(Current) - Released > Avail =>
                /\ rest > 0 /\ Current = Len(exts)
                /\ Whole(Current) - Released = Filled
<1>1. PICK at \in [1 .. Len(exts) + 1 -> Int] : Layout(at)
  BY DEF RxInv, Laid
<1>2. /\ Current \in Current .. Len(exts) /\ Current \in 1 .. Len(exts) /\ Whole(Current) \in Nat
      /\ Len(exts) \in Nat
  BY Bounds DEF RxInv
<1>3. at[Current] = -Released /\ at[Current + 1] = at[Current] + Whole(Current) /\ at[Current + 1] <= Filled
  BY <1>1, <1>2 DEF Layout
<1>4. ASSUME NEW i \in 1 .. Whole(Current) - Released
      PROVE  fifo[Wrap(tail + (i - 1))] = <<Current, Released + i>>
  <2>1. Released + i \in 1 .. Whole(Current) /\ at[Current] + (Released + i) - 1 = i - 1 /\ i - 1 >= 0
    BY <1>2, <1>3
  <2> QED
    BY <1>1, <1>2, <2>1 DEF Layout
<1>5. Avail \in Nat /\ Filled \in Nat /\ rest \in Nat
  BY Bounds DEF RxInv, Types
<1>6. ASSUME Whole(Current) - Released > Avail
      PROVE  rest > 0 /\ Current = Len(exts) /\ Whole(Current) - Released = Filled
  <2>1. at[Current + 1] > Avail
    BY <1>2, <1>3, <1>5, <1>6
  <2>2. Current = Len(exts)
    <3>1. CASE Current # Len(exts)
      <4>1. Current + 1 \in Current .. Len(exts)
        BY <1>2, <3>1
      <4>2. at[Current + 1] <= Avail
        BY <1>1, <4>1 DEF Layout
      <4> QED
        BY <1>2, <1>3, <1>5, <2>1, <4>2
    <3> QED
      BY <3>1
  <2>3. at[Current + 1] = Filled
    BY <1>1, <2>2 DEF Layout
  <2> QED
    BY <1>2, <1>3, <1>5, <2>1, <2>2, <2>3 DEF Filled
<1>7. Whole(Current) - Released <= Filled
  <2>1. at[Current + 1] = -Released + Whole(Current)
    BY <1>3
  <2> QED
    BY <1>2, <1>3, <1>5, <2>1
<1> QED
  BY <1>4, <1>6, <1>7, Zenon

\* A unit of a frame that ends within the units available is one of them; also
\* when the reader gives j of them back.
LEMMA UnitInside ==
    ASSUME NEW a \in Int, NEW w \in Int, NEW i \in Int, NEW m \in Int, NEW x \in Nat,
           i <= w, a + w <= m, a + i - 1 >= 0
    PROVE  a + i - 1 < m /\ a + i - 1 \in 0 .. m + x - 1
OBVIOUS

LEMMA UnitStaysInside ==
    ASSUME NEW a \in Int, NEW w \in Int, NEW i \in Int, NEW m \in Int, NEW j \in Nat,
           NEW s \in Int, i <= w, a + w <= m, m < s, j <= m, (a - j) + i - 1 >= 0
    PROVE  /\ (a - j) + i - 1 \in 0 .. s - 1 /\ j \in 0 .. s - 1
           /\ j + ((a - j) + i - 1) < s /\ j + ((a - j) + i - 1) = a + i - 1
           /\ a + i - 1 >= 0
OBVIOUS

\* Steps that move nothing in the ring.
LEMMA LaidStays ==
    ASSUME Laid, UNCHANGED <<head, tail, fifo, exts, rest>>,
           Current' = Current, Released' = Released
    PROVE  Laid'
<1>1. PICK at \in [1 .. Len(exts) + 1 -> Int] : Layout(at)
  BY DEF Laid
<1>2. Layout(at)'
  BY <1>1 DEF Layout, Avail, Filled, Whole
<1> QED
  BY <1>2 DEF Laid

\* The reader gives units back: the same frame goes on, or the next begins.
LEMMA LaidShifts ==
    ASSUME RxInv, UNCHANGED <<head, fifo, exts, rest>>, n \in 0 .. Avail, tail' = Wrap(tail + n),
           Released \in Nat, Current <= Len(exts),
           \/ Current' = Current /\ Released' = Released + n
           \/ Current' = Current + 1 /\ Released' = 0 /\ Released + n = Whole(Current)
    PROVE  Laid' /\ tail' \in Slots /\ Avail' = Avail - n /\ Filled' = Filled - n
<1>0. Types /\ Laid
  BY DEF RxInv
<1>1. PICK at \in [1 .. Len(exts) + 1 -> Int] : Layout(at)
  BY <1>0 DEF Laid
<1>2. /\ Len(exts) \in Nat /\ Current \in 1 .. Len(exts) /\ Avail \in 0 .. Size - 1 /\ n \in Nat
      /\ Size \in Nat /\ tail \in Slots /\ head \in Slots
      /\ Filled \in Nat /\ Filled < Size /\ rest \in Nat /\ Filled = Avail + rest
  BY <1>0, Bounds, SizeAssumption DEF Types, RxInv, HeldBack, Filled
<1>3. tail' \in Slots /\ Avail' = Avail - n /\ Filled' = Filled - n
  <2>1. tail' \in Slots /\ Avail' = Avail - n
    BY <1>2, TailMoves DEF Avail
  <2>2. Filled' = (Avail - n) + rest
    BY <2>1 DEF Filled
  <2> QED
    BY <1>2, <2>1, <2>2
<1>4. PICK next \in [1 .. Len(exts) + 1 -> Int] :
        \A k \in 1 .. Len(exts) + 1 : next[k] = at[k] - n /\ at[k] \in Int
  <2> DEFINE f == [k \in 1 .. Len(exts) + 1 |-> at[k] - n]
  <2>1. f \in [1 .. Len(exts) + 1 -> Int]
    BY <1>2
  <2> QED
    BY <2>1
<1>5. /\ \A k \in 1 .. Len(exts) : Whole(k)' = Whole(k) /\ Whole(k) \in Nat
      /\ \A k \in Current' .. Len(exts) : k \in Current .. Len(exts) /\ k \in 1 .. Len(exts)
      /\ Current' \in 1 .. Len(exts) + 1 /\ Len(exts') = Len(exts)
  <2>1. \A k \in 1 .. Len(exts) : Whole(k)' = Whole(k) /\ Whole(k) \in Nat
    BY <1>0, Bounds DEF Whole
  <2>2. Current' = Current \/ Current' = Current + 1
    OBVIOUS
  <2>3. Current' \in 1 .. Len(exts) + 1
    BY <1>2, <2>2
  <2>4. Current <= Current'
    BY <1>2, <2>2
  <2>5. \A k \in Current' .. Len(exts) : k \in Current .. Len(exts) /\ k \in 1 .. Len(exts)
    BY <1>2, <2>3, <2>4
  <2>6. Len(exts') = Len(exts)
    OBVIOUS
  <2> QED
    BY <2>1, <2>3, <2>5, <2>6
<1>6. next[Current'] = -Released'
  <2>0. Current \in Current .. Len(exts)
    BY <1>2
  <2>1. at[Current] = -Released /\ at[Current + 1] = at[Current] + Whole(Current)
    BY <1>1, <2>0, Zenon DEF Layout
  <2>2. CASE Current' = Current /\ Released' = Released + n
    BY <1>2, <1>4, <2>1, <2>2
  <2>3. CASE Current' = Current + 1 /\ Released' = 0 /\ Released + n = Whole(Current)
    <3>1. next[Current + 1] = at[Current + 1] - n
      BY <1>4, <1>5, <2>3
    <3>2. Whole(Current) = Released + n /\ Released \in Int /\ n \in Int
      BY <1>2, <2>3
    <3> QED
      BY <2>1, <2>3, <3>1, <3>2
  <2> QED
    BY <2>2, <2>3
<1>7. next[Len(exts) + 1] = Filled'
  <2>1. at[Len(exts) + 1] = Filled /\ Len(exts) + 1 \in 1 .. Len(exts) + 1
    BY <1>1, <1>2 DEF Layout
  <2> QED
    BY <1>2, <1>3, <1>4, <2>1
<1>8. ASSUME NEW k \in Current' .. Len(exts)
      PROVE  /\ next[k + 1] = next[k] + Whole(k)' /\ next[k + 1] <= Filled'
             /\ next[k] <= Avail'
  <2>1. k \in Current .. Len(exts) /\ k \in 1 .. Len(exts) /\ k + 1 \in 1 .. Len(exts) + 1
        /\ k \in 1 .. Len(exts) + 1
    BY <1>2, <1>5
  <2>2. at[k + 1] = at[k] + Whole(k) /\ at[k + 1] <= Filled /\ at[k] <= Avail
    BY <1>1, <2>1 DEF Layout
  <2> QED
    <3>1. next[k + 1] = at[k + 1] - n /\ next[k] = at[k] - n /\ at[k] \in Int /\ at[k + 1] \in Int
      BY <1>4, <2>1
    <3>2. Whole(k)' = Whole(k) /\ Whole(k) \in Nat
      BY <1>5, <2>1
    <3>3. at[k + 1] - n = (at[k] - n) + Whole(k)
      BY <1>2, <2>2, <3>1, <3>2
    <3>4. at[k + 1] - n <= Filled - n /\ at[k] - n <= Avail - n
      BY <1>2, <2>2, <3>1
    <3> QED
      BY <1>3, <3>1, <3>2, <3>3, <3>4
<1>9. ASSUME NEW k \in Current' .. Len(exts), NEW i \in 1 .. Whole(k)', next[k] + i - 1 >= 0
      PROVE  fifo[Wrap(tail' + (next[k] + i - 1))] = <<k, i>>
  <2>1. /\ k \in Current .. Len(exts) /\ k \in 1 .. Len(exts) + 1
        /\ i \in 1 .. Whole(k) /\ Whole(k) \in Nat
    BY <1>2, <1>5
  <2>2. next[k] = at[k] - n /\ at[k] \in Int /\ at[k] + Whole(k) <= Filled
    BY <1>1, <1>4, <2>1 DEF Layout
  <2>3. /\ next[k] + i - 1 \in 0 .. Size - 1 /\ n \in 0 .. Size - 1
        /\ n + (next[k] + i - 1) < Size /\ n + (next[k] + i - 1) = at[k] + i - 1
        /\ at[k] + i - 1 >= 0
    <3>1. (at[k] - n) + i - 1 >= 0
      BY <1>9, <2>2
    <3>2. i \in Int /\ i <= Whole(k) /\ Whole(k) \in Int
      BY <2>1
    <3>3. n \in Nat /\ n <= Filled /\ Filled \in Int /\ Filled < Size /\ Size \in Int
      BY <1>2
    <3>4. /\ (at[k] - n) + i - 1 \in 0 .. Size - 1 /\ n \in 0 .. Size - 1
          /\ n + ((at[k] - n) + i - 1) < Size /\ n + ((at[k] - n) + i - 1) = at[k] + i - 1
          /\ at[k] + i - 1 >= 0
      BY <2>2, <3>1, <3>2, <3>3, UnitStaysInside, Zenon
    <3> QED
      BY <2>2, <3>4, Zenon
  <2>4. Wrap(tail' + (next[k] + i - 1)) = Wrap(tail + (at[k] + i - 1))
    BY <1>2, <2>3, WrapTwice
  <2>5. fifo[Wrap(tail + (at[k] + i - 1))] = <<k, i>>
    BY <1>1, <2>1, <2>3 DEF Layout
  <2> QED
    BY <2>4, <2>5
<1>10. Layout(next)'
  BY <1>5, <1>6, <1>7, <1>8, <1>9 DEF Layout
<1> QED
  BY <1>3, <1>4, <1>5, <1>10 DEF Laid

\* The BP adds a frame behind the others, where nothing is unread.
LEMMA LaidGrows ==
    ASSUME RxInv, NEW e \in ExtLens, BpWrite(e)
    PROVE  Laid' /\ HeldBack' /\ exts' \in Seq(ExtLens) /\ Len(exts') = Len(exts) + 1
           /\ \A k \in 1 .. Len(exts) : exts'[k] = exts[k]
<1>0. Types /\ Laid
  BY DEF RxInv
<1>1. PICK at \in [1 .. Len(exts) + 1 -> Int] : Layout(at)
  BY <1>0 DEF Laid
<1>2. /\ Len(exts) \in Nat /\ Current \in 1 .. Len(exts) + 1 /\ Avail \in 0 .. Size - 1
      /\ Size \in Nat /\ Hdr \in Nat /\ 0 < Hdr /\ e \in Nat /\ head \in Slots /\ tail \in Slots
  BY <1>0, Bounds, RxAssumption DEF Types
<1>3. Hdr + e \in 0 .. Size - 1 - Avail /\ rest = 0 /\ Filled = Avail
  BY <1>2 DEF BpWrite, WriteAvail, Avail, ReadAvail, Filled
<1>4. /\ exts' = Append(exts, e) /\ rest' = Hdr + e
      /\ UNCHANGED <<head, tail, pc, n, slot, frames>>
      /\ fifo' = [s \in Slots |-> IF Wrap(s - head) < Hdr + e
                                  THEN <<Len(exts) + 1, Wrap(s - head) + 1>> ELSE fifo[s]]
  BY DEF BpWrite
<1>5. Avail' = Avail /\ Filled' = Avail + (Hdr + e)
  BY <1>4 DEF Avail, Filled
<1>6. /\ exts' \in Seq(ExtLens) /\ Len(exts') = Len(exts) + 1 /\ exts'[Len(exts) + 1] = e
      /\ \A k \in 1 .. Len(exts) : exts'[k] = exts[k]
  BY <1>0, <1>4, AppendProperties DEF Types
\* How far behind tail a slot that the BP fills is.
<1>7. ASSUME NEW d \in 0 .. Avail + (Hdr + e) - 1
      PROVE  fifo'[Wrap(tail + d)] = IF d < Avail THEN fifo[Wrap(tail + d)]
                                     ELSE <<Len(exts) + 1, d - Avail + 1>>
  <2> DEFINE s == Wrap(tail + d)
  <2>1. d \in 0 .. Size - 1 /\ 0 \in 0 .. Size - 1 /\ d + 0 < Size
    BY <1>2, <1>3
  <2>2. s \in Slots
    BY <1>2, <2>1, WrapTwice
  <2>3. head = Wrap(tail + Avail)
    BY <1>2, Distance DEF Avail
  <2>4. Wrap(s - head) = IF d < Avail THEN d - Avail + Size ELSE d - Avail
    <3>1. head = IF tail + Avail < Size THEN tail + Avail ELSE tail + Avail - Size
      <4>1. tail + Avail \in -Size .. 2 * Size - 1 /\ ~ (tail + Avail < 0)
        BY <1>2 DEF Slots
      <4> QED
        BY <1>2, <2>3, <4>1, WrapByCases DEF Slots
    <3>2. s = IF tail + d < Size THEN tail + d ELSE tail + d - Size
      <4>1. tail + d \in -Size .. 2 * Size - 1 /\ ~ (tail + d < 0)
        BY <1>2, <2>1 DEF Slots
      <4> QED
        BY <1>2, <2>1, <4>1, WrapByCases DEF Slots
    <3> HIDE DEF s
    <3>3. s - head \in -Size .. 2 * Size - 1 /\ s - head < Size
      BY <1>2, <2>2 DEF Slots
    <3>4. Wrap(s - head) = IF s - head < 0 THEN s - head + Size ELSE s - head
      BY <1>2, <2>2, <3>3, WrapByCases
    <3> QED
      BY <1>2, <2>1, <3>1, <3>2, <3>4 DEF Slots
  <2>5. fifo'[s] = IF Wrap(s - head) < Hdr + e THEN <<Len(exts) + 1, Wrap(s - head) + 1>> ELSE fifo[s]
    BY <1>4, <2>2
  <2> HIDE DEF s
  <2>6. CASE d < Avail
    <3>1. ~ (Wrap(s - head) < Hdr + e)
      BY <1>2, <1>3, <2>4, <2>6
    <3> QED
      BY <2>5, <2>6, <3>1 DEF s
  <2>7. CASE ~ (d < Avail)
    <3>1. Wrap(s - head) = d - Avail /\ Wrap(s - head) < Hdr + e
      BY <1>2, <1>3, <2>4, <2>7
    <3> QED
      BY <2>5, <2>7, <3>1 DEF s
  <2> QED
    BY <2>6, <2>7
<1>8. PICK next \in [1 .. Len(exts) + 2 -> Int] :
        /\ next[Len(exts) + 2] = Avail + (Hdr + e)
        /\ \A k \in 1 .. Len(exts) + 1 : next[k] = at[k] /\ at[k] \in Int
  <2> DEFINE f == [k \in 1 .. Len(exts) + 2 |->
                     IF k = Len(exts) + 2 THEN Avail + (Hdr + e) ELSE at[k]]
  <2>1. Avail + (Hdr + e) \in Int /\ \A k \in 1 .. Len(exts) + 1 : at[k] \in Int
    BY <1>2
  <2>2. \A k \in 1 .. Len(exts) + 2 : k = Len(exts) + 2 \/ k \in 1 .. Len(exts) + 1
    BY <1>2
  <2>3. f \in [1 .. Len(exts) + 2 -> Int]
    BY <2>1, <2>2
  <2>4. f[Len(exts) + 2] = Avail + (Hdr + e) /\ \A k \in 1 .. Len(exts) + 1 : f[k] = at[k]
    BY <1>2
  <2> HIDE DEF f
  <2> QED
    BY <2>1, <2>3, <2>4
<1>9. Len(exts') + 1 = Len(exts) + 2
  BY <1>2, <1>6
<1>10. /\ Current' = Current /\ Released' = Released /\ Hdr + exts'[Len(exts) + 1] = Hdr + e
       /\ \A k \in 1 .. Len(exts) : Whole(k)' = Whole(k) /\ Whole(k) \in Nat
  <2>1. Current' = Current /\ Released' = Released
    <3>1. Torn' = Torn /\ Current' = Current
      BY <1>0, <1>4, <1>6, TornStays
    <3> QED
      BY <1>4, <3>1 DEF Released, Unreleased
  <2>2. \A k \in 1 .. Len(exts) : Whole(k)' = Whole(k) /\ Whole(k) \in Nat
    BY <1>0, <1>6, Bounds DEF Whole
  <2>3. Hdr + exts'[Len(exts) + 1] = Hdr + e
    BY <1>6
  <2> QED
    BY <2>1, <2>2, <2>3
<1>11. \A k \in Current .. Len(exts') : k \in Current .. Len(exts) \/ k = Len(exts) + 1
  BY <1>2, <1>6
<1>12. next[Current'] = -Released' /\ next[Len(exts') + 1] = Filled'
  <2>1. at[Current] = -Released
    BY <1>1 DEF Layout
  <2> QED
    BY <1>2, <1>5, <1>8, <1>9, <1>10, <2>1
<1>13. ASSUME NEW k \in Current' .. Len(exts')
       PROVE  /\ next[k + 1] = next[k] + Whole(k)' /\ next[k + 1] <= Filled'
              /\ next[k] <= Avail'
  <2>1. CASE k \in Current .. Len(exts)
    <3>1. k \in 1 .. Len(exts) /\ k \in 1 .. Len(exts) + 1 /\ k + 1 \in 1 .. Len(exts) + 1
      BY <1>2, <2>1
    <3>2. at[k + 1] = at[k] + Whole(k) /\ at[k + 1] <= Avail /\ at[k] <= Avail
      BY <1>1, <1>3, <2>1 DEF Layout
    <3> QED
      <4>1. next[k + 1] = at[k + 1] /\ next[k] = at[k] /\ at[k] \in Int /\ at[k + 1] \in Int
        BY <1>8, <3>1
      <4>2. Whole(k)' = Whole(k) /\ Whole(k) \in Nat
        BY <1>10, <3>1
      <4> QED
        <5>1. Avail <= Avail + (Hdr + e) /\ Avail \in Int /\ Hdr + e \in Nat
          BY <1>2
        <5> QED
          BY <1>5, <3>2, <4>1, <4>2, <5>1
  <2>2. CASE k = Len(exts) + 1
    <3>1. at[Len(exts) + 1] = Avail /\ k \in 1 .. Len(exts) + 1 /\ k + 1 = Len(exts) + 2
      BY <1>1, <1>2, <1>3, <2>2 DEF Layout
    <3> QED
      <4>1. next[k + 1] = Avail + (Hdr + e) /\ next[k] = Avail
        BY <1>8, <2>2, <3>1
      <4>2. Whole(k)' = Hdr + e
        BY <1>10, <2>2 DEF Whole
      <4> QED
        BY <1>2, <1>5, <4>1, <4>2
  <2> QED
    BY <1>10, <1>11, <2>1, <2>2
<1>14. ASSUME NEW k \in Current' .. Len(exts'), NEW i \in 1 .. Whole(k)', next[k] + i - 1 >= 0
       PROVE  fifo'[Wrap(tail + (next[k] + i - 1))] = <<k, i>>
  <2>1. CASE k \in Current .. Len(exts)
    <3>1. k \in 1 .. Len(exts) /\ k \in 1 .. Len(exts) + 1
      BY <1>2, <2>1
    <3>2. /\ next[k] = at[k] /\ at[k] \in Int /\ i \in 1 .. Whole(k) /\ Whole(k) \in Nat
          /\ at[k] + Whole(k) <= Avail
      BY <1>1, <1>3, <1>8, <1>10, <2>1, <3>1 DEF Layout
    <3>3. fifo[Wrap(tail + (at[k] + i - 1))] = <<k, i>>
      BY <1>1, <1>14, <2>1, <3>2 DEF Layout
    <3>4. at[k] + i - 1 \in 0 .. Avail + (Hdr + e) - 1 /\ at[k] + i - 1 < Avail
      <4>1. at[k] + i - 1 >= 0
        BY <1>14, <3>2
      <4>2. i \in Int /\ i <= Whole(k) /\ Whole(k) \in Int
        BY <3>2
      <4>3. Avail \in Int /\ Hdr + e \in Nat
        BY <1>2
      <4> QED
        BY <3>2, <4>1, <4>2, <4>3, UnitInside, Zenon
    <3> QED
      BY <1>7, <3>2, <3>3, <3>4
  <2>2. CASE k = Len(exts) + 1
    <3>1. next[k] = Avail /\ i \in 1 .. Hdr + e
      <4>1. at[Len(exts) + 1] = Avail /\ k \in 1 .. Len(exts) + 1
        BY <1>1, <1>2, <1>3, <2>2 DEF Layout
      <4>2. Whole(k)' = Hdr + e
        BY <1>10, <2>2 DEF Whole
      <4> QED
        BY <1>8, <2>2, <4>1, <4>2
    <3> DEFINE d == Avail + i - 1
    <3>2. d \in 0 .. Avail + (Hdr + e) - 1 /\ ~ (d < Avail) /\ d - Avail + 1 = i
      BY <1>2, <3>1
    <3>3. next[k] + i - 1 = d
      BY <3>1
    <3> HIDE DEF d
    <3>4. fifo'[Wrap(tail + d)] = <<Len(exts) + 1, i>>
      BY <1>7, <3>2
    <3> QED
      BY <2>2, <3>3, <3>4
  <2> QED
    BY <1>10, <1>11, <2>1, <2>2
<1>15. Layout(next)'
  BY <1>4, <1>12, <1>13, <1>14 DEF Layout
<1>16. HeldBack'
  <2>1. Whole(Len(exts))' = Hdr + e /\ Len(exts') > 0
    BY <1>2, <1>6 DEF Whole
  <2>2. Avail + (Hdr + e) <= Size - 1 /\ Hdr + e <= Hdr + e /\ ~ (Hdr <= (Hdr + e) - (Hdr + e))
    BY <1>2, <1>3
  <2> QED
    BY <1>4, <1>5, <2>1, <2>2 DEF HeldBack
<1> QED
  BY <1>6, <1>8, <1>9, <1>15, <1>16 DEF Laid

\* More of the last frame becomes visible.
LEMMA LaidShows ==
    ASSUME RxInv, NEW m \in 1 .. rest, BpPublish(m)
    PROVE  /\ Laid' /\ HeldBack' /\ head' \in Slots /\ rest' \in Nat
           /\ Avail' = Avail + m /\ Current' = Current /\ Released' = Released /\ Torn' = Torn
<1>0. Types /\ Laid /\ HeldBack
  BY DEF RxInv
<1>1. PICK at \in [1 .. Len(exts) + 1 -> Int] : Layout(at)
  BY <1>0 DEF Laid
<1>2. /\ Len(exts) \in Nat /\ Current \in 1 .. Len(exts) + 1 /\ Avail \in 0 .. Size - 1
      /\ Size \in Nat /\ head \in Slots /\ tail \in Slots /\ rest \in Nat /\ m \in Nat
      /\ Filled \in Nat /\ Filled = Avail + rest /\ Filled <= Size - 1 /\ Hdr \in Nat
  BY <1>0, Bounds DEF Types, HeldBack, Filled
<1>3. /\ head' = Wrap(head + m) /\ rest' = rest - m
      /\ exposed' = IF m < rest /\ rest - m <= exts[Len(exts)]
                    THEN exposed \cup {Len(exts)} ELSE exposed
      /\ UNCHANGED <<tail, fifo, exts, pc, n, slot, frames>>
  BY DEF BpPublish
<1>4. m \in 0 .. Size - 1 - Avail /\ rest - m \in Nat
  BY <1>2
<1>5. head' \in Slots /\ Avail' = Avail + m
  BY <1>2, <1>3, <1>4, HeadMoves DEF Avail
<1>6. Filled' = Filled
  <2>1. Filled' = (Avail + m) + (rest - m)
    BY <1>3, <1>5 DEF Filled
  <2> QED
    BY <1>2, <2>1
<1>7. Torn' = Torn /\ Current' = Current /\ Released' = Released
  <2>1. Torn' = Torn /\ Current' = Current
    BY <1>0, <1>3, TornStays
  <2> QED
    BY <1>3, <2>1 DEF Released, Unreleased
<1>8. Layout(at)'
  <2>1. ASSUME NEW k \in Current .. Len(exts) PROVE at[k] <= Avail'
    <3>1. at[k] <= Avail /\ at[k] \in Int
      BY <1>1, <1>2 DEF Layout
    <3> QED
      BY <1>2, <1>5, <3>1
  <2> QED
    BY <1>1, <1>3, <1>6, <1>7, <2>1 DEF Layout, Whole
<1>9. HeldBack'
  <2>1. Filled' <= Size - 1
    BY <1>2, <1>6
  <2>2. ASSUME rest' > 0
        PROVE  /\ Len(exts) > 0 /\ rest' <= Whole(Len(exts))
               /\ Hdr <= Whole(Len(exts)) - rest' => Len(exts) \in exposed'
    <3>1. /\ Len(exts) > 0 /\ rest <= Whole(Len(exts)) /\ exts[Len(exts)] \in Nat
          /\ Whole(Len(exts)) = Hdr + exts[Len(exts)]
      <4>1. Len(exts) > 0 /\ rest <= Whole(Len(exts))
        BY <1>0, <1>2 DEF HeldBack
      <4> QED
        BY <1>0, <1>2, <4>1, Bounds DEF Whole
    <3>2. m < rest /\ rest' <= Whole(Len(exts))
      BY <1>2, <1>3, <2>2, <3>1
    <3>3. ASSUME Hdr <= Whole(Len(exts)) - rest' PROVE Len(exts) \in exposed'
      <4>1. rest - m <= exts[Len(exts)]
        BY <1>2, <1>3, <3>1, <3>3
      <4> QED
        BY <1>3, <3>2, <4>1
    <3> QED
      BY <3>1, <3>2, <3>3
  <2>3. Len(exts') = Len(exts) /\ Whole(Len(exts))' = Whole(Len(exts))
    BY <1>3 DEF Whole
  <2> QED
    BY <2>1, <2>2, <2>3 DEF HeldBack
<1> QED
  BY <1>2, <1>3, <1>4, <1>5, <1>7, <1>8, <1>9 DEF Laid


-----------------------------------------------------------------------------
(* The steps *)

LEMMA StepWrite == ASSUME RxInv, NEW e \in ExtLens, BpWrite(e) PROVE RxInv'
<1>1. /\ Laid' /\ HeldBack' /\ exts' \in Seq(ExtLens) /\ Len(exts') = Len(exts) + 1
      /\ \A k \in 1 .. Len(exts) : exts'[k] = exts[k]
  BY LaidGrows
<1>2. /\ Types /\ Reading /\ Delivered /\ rest' = Hdr + e
      /\ UNCHANGED <<head, tail, exposed, pc, rsize, need, n, slot, frames>>
  BY DEF RxInv, BpWrite
<1>3. /\ Len(exts) \in Nat /\ Len(frames) \in Nat /\ Current \in Nat \ {0}
      /\ Torn' = Torn /\ Current' = Current
  BY <1>1, <1>2, Bounds, TornStays
<1>4. Types'
  BY <1>1, <1>2, <1>3, RxAssumption DEF Types
<1>5. Reading'
  <2>1. /\ Unreleased' = Unreleased /\ Released' = Released /\ Avail' = Avail
        /\ Current <= Len(exts) => Whole(Current)' = Whole(Current) /\ Current <= Len(exts')
    BY <1>1, <1>2, <1>3 DEF Unreleased, Released, Avail, Whole
  <2>2. pc \notin {"idle", "bad"} => Part' = Part
    BY <1>2, <1>3, <2>1 DEF Part, Reading
  <2> QED
    BY <1>2, <1>3, <2>1, <2>2 DEF Reading
<1>6. Delivered'
  <2>1. ASSUME NEW k \in 1 .. Len(frames) PROVE Whole(k)' = Whole(k) /\ Frame(k)' = Frame(k)
    <3>1. k \in 1 .. Len(exts)
      BY <1>2, <1>3 DEF Types
    <3> QED
      BY <1>1, <3>1 DEF Frame, Whole
  <2> QED
    BY <1>2, <1>3, <2>1 DEF Delivered
<1> QED
  BY <1>1, <1>4, <1>5, <1>6 DEF RxInv

LEMMA StepPublish == ASSUME RxInv, NEW m \in 1 .. rest, BpPublish(m) PROVE RxInv'
<1>1. /\ Laid' /\ HeldBack' /\ head' \in Slots /\ rest' \in Nat
      /\ Avail' = Avail + m /\ Current' = Current /\ Released' = Released /\ Torn' = Torn
  BY LaidShows
<1>2. /\ Types /\ Reading /\ Delivered
      /\ UNCHANGED <<tail, fifo, exts, pc, rsize, need, n, slot, frames>>
      /\ exposed \subseteq exposed'
  BY DEF RxInv, BpPublish
<1>3. Types'
  BY <1>1, <1>2 DEF Types
<1>4. Reading'
  <2>1. Unreleased' = Unreleased /\ Part' = Part /\ Whole(Current)' = Whole(Current)
    BY <1>1, <1>2 DEF Unreleased, Part, Whole
  <2>2. ASSUME pc \notin {"idle", "bad"} PROVE Hdr <= Avail' + Released'
    <3>1. Hdr <= Avail + Released /\ Avail \in Nat /\ m \in Nat /\ Hdr \in Nat /\ Size \in Nat
      BY <1>2, <2>2, Bounds DEF Reading, Types
    <3>2. Released \in Int
      <4>1. Len(slot) \in Nat /\ n \in Nat
        BY <1>2, Bounds DEF Types
      <4>2. ~ Torn
        BY <1>2, <2>2 DEF Delivered
      <4> QED
        BY <4>1, <4>2 DEF Released, Unreleased
    <3> QED
      BY <1>1, <3>1, <3>2
  <2>3. pc \in Copying => n <= Avail'
    <3>1. Avail \in Nat /\ m \in Nat /\ n \in Nat
      BY <1>2, Bounds DEF Types
    <3> QED
      BY <1>1, <1>2, <3>1 DEF Reading
  <2> QED
    BY <1>1, <1>2, <2>1, <2>2, <2>3 DEF Reading
<1>5. Delivered'
  BY <1>1, <1>2 DEF Delivered, Whole, Frame
<1> QED
  BY <1>1, <1>3, <1>4, <1>5 DEF RxInv

\* The header that is peeked at is the one of the next frame, and whole; the
\* rest of a torn frame is no header.
LEMMA StepPeek == ASSUME RxInv, Peek PROVE RxInv'
<1>1. Types /\ Laid /\ HeldBack /\ Reading /\ Delivered
  BY DEF RxInv
<1>2. /\ pc = "idle" /\ Avail >= Hdr
      /\ UNCHANGED <<head, tail, fifo, exts, rest, exposed, need, n, slot, frames>>
  BY DEF Peek, ring, bp, Avail
<1>3. /\ Size \in Nat /\ Hdr \in Nat /\ 0 < Hdr /\ Len(exts) \in Nat /\ Avail \in Nat
      /\ Current \in Nat \ {0} /\ Current <= Len(exts) + 1 /\ Filled \in Nat /\ Avail <= Filled
      /\ Len(frames) \in Nat
  BY <1>1, Bounds
<1>4. Released \in Nat /\ Current <= Len(exts) /\ Released < Whole(Current)
      /\ (Released = 0 <=> ~ Torn)
  <2>1. CASE Torn
    <3>1. Current = Len(frames) /\ Len(frames) # 0 /\ Released = Len(frames[Len(frames)])
      BY <1>1, <2>1, EmptySeq DEF Current, Torn, Released, Types
    <3>2. Current \in 1 .. Len(frames) /\ Current <= Len(exts)
      BY <1>1, <1>3, <3>1 DEF Types
    <3>3. Hdr <= Released /\ Released < Whole(Current) /\ Released \in Nat
      <4>1. frames[Len(frames)] \in Seq(Nat \X Nat)
        BY <1>1, <3>1, <3>2, ElementOfSeq DEF Types
      <4> QED
        BY <1>1, <2>1, <3>1, <3>2, <4>1, LenProperties DEF Delivered, Torn, Whole
    <3> QED
      BY <1>3, <2>1, <3>2, <3>3
  <2>2. CASE ~ Torn
    <3>1. Released = 0
      BY <1>2, <2>2 DEF Released
    <3>2. PICK at \in [1 .. Len(exts) + 1 -> Int] : Layout(at)
      BY <1>1 DEF Laid
    <3>3. at[Current] = -Released /\ at[Len(exts) + 1] = Filled
      BY <3>2 DEF Layout
    <3>4. Current # Len(exts) + 1
      BY <1>2, <1>3, <3>1, <3>3
    <3>5. Current \in 1 .. Len(exts)
      BY <1>3, <3>4
    <3>6. Hdr <= Whole(Current) /\ Whole(Current) \in Nat
      BY <1>1, <3>5, Bounds
    <3> QED
      BY <1>3, <2>2, <3>1, <3>5, <3>6
  <2> QED
    BY <2>1, <2>2
<1>5. Whole(Current) \in Nat /\ Hdr <= Whole(Current) /\ exts[Current] \in Nat
  BY <1>1, <1>3, <1>4, Bounds
<1>6. fifo[tail + 1 - 1] = fifo[tail] /\ fifo[Wrap(tail + 1 - 1)] = <<Current, Released + 1>>
  <2>1. 1 \in 1 .. Whole(Current) - Released /\ Released <= Whole(Current)
    BY <1>4, <1>5
  <2>2. fifo[Wrap(tail + (1 - 1))] = <<Current, Released + 1>>
    BY <1>4, <2>1, RestIsThere
  <2>3. tail + (1 - 1) = tail + 1 - 1 /\ tail + 1 - 1 = tail
    BY <1>1, SizeAssumption DEF Types, Slots
  <2> QED
    BY <2>2, <2>3
<1> DEFINE hdr == Peeked(Hdr)
<1>7. hdr[1] = <<Current, Released + 1>>
  <2>1. 1 \in 1 .. Hdr
    BY <1>3
  <2> QED
    BY <1>6, <2>1 DEF Peeked
<1>8. HasMagic(hdr) <=> ~ Torn
  <2>1. HasMagic(hdr) <=> Released + 1 = 1
    <3> HIDE DEF hdr
    <3> QED
      BY <1>7 DEF HasMagic
  <2> QED
    BY <1>4, <2>1
<1>9. ExtLen(hdr) = exts[Current]
  <2> HIDE DEF hdr
  <2> QED
    BY <1>7 DEF ExtLen
<1>10. IF Torn THEN pc' = "bad" /\ rsize' = rsize ELSE pc' = "slot" /\ rsize' = Whole(Current)
  BY <1>8, <1>9 DEF Peek, Whole
<1>11. Torn' = Torn /\ Current' = Current /\ Avail' = Avail
  BY <1>1, <1>2, TornStays DEF Avail
<1>12. Types'
  BY <1>1, <1>2, <1>5, <1>10 DEF Types
<1>13. Released' = Released
  <2>1. CASE Torn
    BY <1>2, <1>11, <2>1 DEF Released
  <2>2. CASE ~ Torn
    BY <1>2, <1>10, <1>11, <2>2 DEF Released
  <2> QED
    BY <2>1, <2>2
<1>14. Laid'
  BY <1>1, <1>2, <1>11, <1>13, LaidStays
<1>15. HeldBack'
  BY <1>1, <1>2, <1>11 DEF HeldBack, Filled, Whole
<1>16. Reading'
  <2>1. Whole(Current)' = Whole(Current)
    BY <1>2, <1>11 DEF Whole
  <2>2. CASE Torn
    BY <1>10, <2>2 DEF Reading, Copying
  <2>3. CASE ~ Torn
    <3>1. Hdr <= Avail + Released
      BY <1>2, <1>3, <1>4, <2>3
    <3> QED
      BY <1>2, <1>4, <1>10, <1>11, <1>13, <2>1, <2>3, <3>1 DEF Reading, Copying
  <2> QED
    BY <2>2, <2>3
<1>17. Delivered'
  BY <1>1, <1>2, <1>10, <1>11 DEF Delivered, Whole, Frame
<1> QED
  BY <1>12, <1>14, <1>15, <1>16, <1>17 DEF RxInv

LEMMA StepStart == ASSUME RxInv, StartRead PROVE RxInv'
<1>1. Types /\ Laid /\ HeldBack /\ Reading /\ Delivered
  BY DEF RxInv
<1>2. /\ pc = "slot" /\ pc' = "hdr" /\ need' = Hdr /\ slot' = << >>
      /\ UNCHANGED <<head, tail, fifo, exts, rest, exposed, rsize, n, frames>>
  BY DEF StartRead, ring, bp
<1>3. Hdr \in Nat /\ 0 < Hdr /\ Len(slot') = 0
  BY <1>1, <1>2, Bounds
<1>4. ~ Torn /\ Torn' = Torn /\ Current' = Current /\ Avail' = Avail
  BY <1>1, <1>2, TornStays DEF Delivered, Avail
<1>5. Types'
  BY <1>1, <1>2, <1>3 DEF Types
<1>6. Unreleased' = 0 /\ Released = 0 /\ Released' = 0
  BY <1>2, <1>3, <1>4 DEF Released, Unreleased, Copying
<1>7. Laid' /\ HeldBack'
  <2>1. Laid'
    BY <1>1, <1>2, <1>4, <1>6, LaidStays
  <2> QED
    BY <1>1, <1>2, <1>4, <2>1 DEF HeldBack, Filled, Whole
<1>8. Reading'
  <2>1. /\ Current <= Len(exts) /\ rsize = Whole(Current) /\ Hdr <= Avail + Released
        /\ Whole(Current)' = Whole(Current) /\ Part' = Hdr
    BY <1>1, <1>2, <1>4 DEF Reading, Whole, Part
  <2> QED
    BY <1>2, <1>3, <1>4, <1>6, <2>1 DEF Reading, Copying
<1>9. Delivered'
  BY <1>1, <1>2, <1>4 DEF Delivered, Whole, Frame
<1> QED
  BY <1>5, <1>7, <1>8, <1>9 DEF RxInv

\* In the midst of a part: what was given back, and that the rest is laid out -
\* and visible, but for the extension of a frame that is exposed.
LEMMA Midway ==
    ASSUME RxInv, pc \notin {"idle", "bad", "slot"}
    PROVE  /\ ~ Torn
           /\ Current \in 1 .. Len(exts) /\ Part \in Nat /\ Part <= Whole(Current)
           /\ Len(slot) \in Nat /\ need \in Nat /\ need > 0 /\ Unreleased \in 0 .. Len(slot)
           /\ Released = Len(slot) - Unreleased /\ Released \in Nat
           /\ Released + need = Part /\ Hdr <= Avail + Released
           /\ need <= Avail \/ (pc \in {"ext", "extcopied"} /\ Current \in exposed)
           /\ Avail \in 0 .. Size - 1
           /\ \A i \in 1 .. need : fifo[Wrap(tail + (i - 1))] = <<Current, Released + i>>
<1>1. Types /\ Reading /\ HeldBack /\ Delivered
  BY DEF RxInv
<1>2. /\ pc \in {"hdr", "hdrcopied", "ext", "extcopied"} /\ need \in Nat /\ n \in Nat
      /\ Current <= Len(exts) /\ need > 0 /\ Hdr <= Avail + Released /\ ~ Torn
      /\ Len(slot) + need = Part + Unreleased /\ Unreleased <= Len(slot)
  BY <1>1 DEF Types, Reading, Delivered
<1>3. /\ Len(slot) \in Nat /\ Len(exts) \in Nat /\ Current \in 1 .. Len(exts) /\ Hdr \in Nat
      /\ Avail \in 0 .. Size - 1 /\ Size \in Nat /\ Filled \in Nat /\ rest \in Nat
      /\ Filled = Avail + rest
  BY <1>1, <1>2, Bounds DEF Types, Filled
<1>4. Whole(Current) \in Nat /\ Hdr <= Whole(Current)
  BY <1>1, <1>3, Bounds
<1>5. Part \in Nat /\ Part <= Whole(Current)
  BY <1>3, <1>4 DEF Part
<1>6. Unreleased \in Nat
  BY <1>2 DEF Unreleased
<1>7. Released = Len(slot) - Unreleased
  BY <1>2 DEF Released
<1>8. Released \in Nat /\ Released + need = Part /\ Released <= Whole(Current)
  BY <1>2, <1>3, <1>4, <1>5, <1>6, <1>7
<1>9. /\ \A i \in 1 .. Whole(Current) - Released :
           fifo[Wrap(tail + (i - 1))] = <<Current, Released + i>>
      /\ Whole(Current) - Released > Avail =>
           rest > 0 /\ Current = Len(exts) /\ Whole(Current) - Released = Filled
  BY <1>2, <1>8, RestIsThere
<1>10. need <= Whole(Current) - Released
  BY <1>2, <1>4, <1>5, <1>8
<1>11. \A i \in 1 .. need : i \in 1 .. Whole(Current) - Released
  BY <1>2, <1>4, <1>8, <1>10
<1>12. \A i \in 1 .. need : fifo[Wrap(tail + (i - 1))] = <<Current, Released + i>>
  BY <1>9, <1>11
<1>13. Unreleased \in 0 .. Len(slot)
  BY <1>2, <1>3, <1>6
<1>14. need <= Avail \/ (pc \in {"ext", "extcopied"} /\ Current \in exposed)
  <2>1. CASE pc \in {"hdr", "hdrcopied"}
    <3>1. Part = Hdr
      BY <2>1 DEF Part
    <3> QED
      BY <1>2, <1>3, <1>8, <3>1
  <2>2. CASE pc \in {"ext", "extcopied"} /\ need > Avail
    <3>1. Whole(Current) - Released > Avail
      BY <1>2, <1>3, <1>4, <1>8, <1>10, <2>2
    <3>2. rest > 0 /\ Current = Len(exts) /\ Whole(Current) - Released = Filled
      BY <1>9, <3>1
    <3>3. Hdr <= Whole(Current) - rest
      BY <1>2, <1>3, <1>4, <1>8, <3>2
    <3> QED
      BY <1>1, <2>2, <3>2, <3>3 DEF HeldBack
  <2> QED
    BY <1>2, <1>3, <2>1, <2>2
<1> QED
  BY <1>2, <1>3, <1>5, <1>7, <1>8, <1>12, <1>13, <1>14

\* A run of m units of frame c, copied behind what there is of the frame.
LEMMA SlotGrows ==
    ASSUME NEW c \in Nat, NEW m \in Nat,
           NEW a \in Seq(Nat \X Nat), \A i \in 1 .. Len(a) : a[i] = <<c, i>>,
           NEW f \in [1 .. m -> Nat \X Nat],
           \A i \in 1 .. m : f[i] = <<c, Len(a) + i>>
    PROVE  /\ a \o f \in Seq(Nat \X Nat) /\ Len(a \o f) = Len(a) + m
           /\ \A i \in 1 .. Len(a) + m : (a \o f)[i] = <<c, i>>
<1>1. Len(a) \in Nat
  OBVIOUS
<1>2. f \in Seq(Nat \X Nat) /\ Len(f) = m
  BY SMTT(20)
<1>3. /\ a \o f \in Seq(Nat \X Nat) /\ Len(a \o f) = Len(a) + m
      /\ \A i \in 1 .. Len(a) + m : (a \o f)[i] = IF i <= Len(a) THEN a[i] ELSE f[i - Len(a)]
  BY <1>2, ConcatProperties
<1>4. ASSUME NEW i \in 1 .. Len(a) + m PROVE (a \o f)[i] = <<c, i>>
  <2>1. CASE i <= Len(a)
    BY <1>1, <1>3, <2>1
  <2>2. CASE ~ (i <= Len(a))
    <3>1. i - Len(a) \in 1 .. m /\ Len(a) + (i - Len(a)) = i
      BY <1>1, <2>2
    <3> QED
      BY <1>3, <2>2, <3>1
  <2> QED
    BY <2>1, <2>2
<1> QED
  BY <1>3, <1>4

\* A slot that holds as much as the frame is long holds the frame.
LEMMA SlotIsFrame ==
    ASSUME Types, Len(slot) = Whole(Current), \A i \in 1 .. Len(slot) : slot[i] = <<Current, i>>
    PROVE  slot = Frame(Current)
<1>1. slot = [i \in 1 .. Len(slot) |-> slot[i]]
  BY DEF Types
<1> QED
  BY <1>1 DEF Frame, Whole

\* A frame delivered that is not short is the frame.
LEMMA UntornIsWhole ==
    ASSUME Types, Delivered, NEW k \in 1 .. Len(frames), ~ (Len(frames[k]) < Whole(k))
    PROVE  frames[k] = Frame(k)
<1>1. frames[k] \in Seq(Nat \X Nat) /\ k \in 1 .. Len(exts)
  BY Bounds, ElementOfSeq DEF Types
<1>2. /\ \A i \in 1 .. Len(frames[k]) : frames[k][i] = <<k, i>>
      /\ Len(frames[k]) <= Whole(k)
  BY DEF Delivered
<1>3. Len(frames[k]) = Whole(k)
  BY <1>1, <1>2, Bounds, LenProperties
<1>4. frames[k] = [i \in 1 .. Len(frames[k]) |-> frames[k][i]]
  BY <1>1
<1> QED
  BY <1>2, <1>3, <1>4 DEF Frame, Whole

\* While nothing is torn every frame delivered is whole.
LEMMA UntornAllWhole ==
    ASSUME Types, Delivered, ~ Torn, NEW k \in 1 .. Len(frames)
    PROVE  frames[k] = Frame(k)
<1>1. Len(frames) \in Nat
  BY Bounds
<1>2. CASE k < Len(frames)
  BY <1>2 DEF Delivered
<1>3. CASE ~ (k < Len(frames))
  <2>1. k = Len(frames) /\ Len(frames) # 0
    BY <1>1, <1>3
  <2>2. frames # << >> /\ ~ (Len(frames[k]) < Whole(k))
    BY <2>1, EmptySeq DEF Torn, Types, Whole
  <2> QED
    BY <2>2, UntornIsWhole
<1> QED
  BY <1>2, <1>3

\* What the BP holds back is not touched when the reader gives units back.
LEMMA ShorterIsHeld ==
    ASSUME Types, HeldBack, UNCHANGED <<exts, rest, exposed>>, n \in Nat, Filled' = Filled - n
    PROVE  HeldBack'
<1>1. Filled' <= Size - 1
  <2>1. Filled \in Nat /\ Filled <= Size - 1 /\ Size \in Nat
    BY Bounds DEF HeldBack
  <2> QED
    BY <2>1
<1> QED
  BY <1>1 DEF HeldBack, Whole

\* A run is copied behind what the slot holds.
LEMMA StepCopy ==
    ASSUME RxInv, \/ ReadBufferCopy("hdr", "hdrcopied") \/ ReadBufferCopy("ext", "extcopied"),
           Avail > 0
    PROVE  RxInv'
<1> DEFINE run == [i \in 1 .. n' |-> fifo[tail + i - 1]]
<1>1. Types /\ Laid /\ HeldBack /\ Reading /\ Delivered
  BY DEF RxInv
<1>2. /\ pc \in {"hdr", "ext"} /\ n' = Least(ReadBuffer(head, tail), need)
      /\ slot' = slot \o run
      /\ UNCHANGED <<head, tail, fifo, exts, rest, exposed, rsize>>
  BY DEF ReadBufferCopy, ring, bp
<1>3. /\ Current \in 1 .. Len(exts) /\ Part \in Nat /\ Part <= Whole(Current)
      /\ Len(slot) \in Nat /\ need \in Nat /\ need > 0 /\ Unreleased = 0
      /\ Released = Len(slot) /\ Len(slot) + need = Part
      /\ Avail \in 0 .. Size - 1 /\ ~ Torn /\ Hdr <= Avail + Released
      /\ \A i \in 1 .. need : fifo[Wrap(tail + (i - 1))] = <<Current, Len(slot) + i>>
  <2>1. pc \notin {"idle", "bad", "slot"} /\ Unreleased = 0
    BY <1>2 DEF Unreleased, Copying
  <2>2. /\ Current \in 1 .. Len(exts) /\ Part \in Nat /\ Part <= Whole(Current)
        /\ Len(slot) \in Nat /\ need \in Nat /\ need > 0
        /\ Released = Len(slot) - Unreleased /\ Released + need = Part
        /\ Avail \in 0 .. Size - 1 /\ ~ Torn /\ Hdr <= Avail + Released
        /\ \A i \in 1 .. need : fifo[Wrap(tail + (i - 1))] = <<Current, Released + i>>
    BY <2>1, Midway
  <2>3. Released = Len(slot)
    BY <2>1, <2>2
  <2>4. /\ Len(slot) + need = Part
        /\ \A i \in 1 .. need : fifo[Wrap(tail + (i - 1))] = <<Current, Len(slot) + i>>
    BY <2>2, <2>3
  <2> QED
    BY <2>1, <2>2, <2>3, <2>4
<1>4. /\ ReadBuffer(head, tail) \in 1 .. Avail /\ tail + ReadBuffer(head, tail) <= Size
      /\ Size \in Nat /\ tail \in 0 .. Size - 1 /\ Len(exts) \in Nat /\ Current \in Nat
  <2>1. head \in Slots /\ tail \in Slots
    BY <1>1 DEF Types
  <2>2. /\ ReadBuffer(head, tail) \in 0 .. Avail /\ tail + ReadBuffer(head, tail) <= Size
        /\ Avail > 0 => ReadBuffer(head, tail) > 0
    BY <2>1, ReadBufferFits DEF Avail
  <2>3. Size \in Nat /\ tail \in 0 .. Size - 1
    BY <2>1, SizeAssumption DEF Slots
  <2>4. Len(exts) \in Nat
    BY <1>1 DEF Types
  <2> QED
    BY <1>3, <2>2, <2>3, <2>4
<1>5. n' \in 1 .. need /\ n' <= ReadBuffer(head, tail) /\ n' \in Nat
  BY <1>2, <1>3, <1>4 DEF Least
<1>6. UNCHANGED <<need, frames>> /\ pc' = (IF pc = "hdr" THEN "hdrcopied" ELSE "extcopied")
  BY <1>5 DEF ReadBufferCopy
<1>7. ASSUME NEW i \in 1 .. n' PROVE run[i] = <<Current, Len(slot) + i>>
  <2>1. i \in 1 .. need /\ tail + (i - 1) = tail + i - 1 /\ i - 1 \in 0 .. Size - 1
        /\ tail + (i - 1) < Size
    BY <1>3, <1>4, <1>5, <1>7
  <2>2. Wrap(tail + (i - 1)) = tail + i - 1
    <3>1. tail + (i - 1) \in -Size .. 2 * Size - 1 /\ ~ (tail + (i - 1) < 0)
      BY <1>4, <2>1
    <3> QED
      BY <2>1, <3>1, WrapByCases
  <2> QED
    BY <1>3, <2>1, <2>2
<1>8. run \in [1 .. n' -> Nat \X Nat]
  <2> SUFFICES ASSUME NEW i \in 1 .. n' PROVE fifo[tail + i - 1] \in Nat \X Nat
    OBVIOUS
  <2>1. fifo[tail + i - 1] = <<Current, Len(slot) + i>>
    BY <1>7
  <2>2. Current \in Nat /\ Len(slot) + i \in Nat
    BY <1>3, <1>4, <1>5
  <2> QED
    BY <2>1, <2>2
<1> HIDE DEF run
<1>9. PICK m \in Nat : m = n'
  BY <1>5
<1>10. /\ slot' \in Seq(Nat \X Nat) /\ Len(slot') = Len(slot) + n' /\ Len(slot') \in Nat
       /\ \A i \in 1 .. Len(slot') : slot'[i] = <<Current, i>>
  <2>1. slot \in Seq(Nat \X Nat) /\ \A i \in 1 .. Len(slot) : slot[i] = <<Current, i>>
    BY <1>1, <1>2 DEF Types, Reading
  <2>2. run \in [1 .. m -> Nat \X Nat]
        /\ \A i \in 1 .. m : run[i] = <<Current, Len(slot) + i>>
    BY <1>7, <1>8, <1>9
  <2>3. /\ slot \o run \in Seq(Nat \X Nat) /\ Len(slot \o run) = Len(slot) + m
        /\ \A i \in 1 .. Len(slot) + m : (slot \o run)[i] = <<Current, i>>
    <3>1. PICK c \in Nat : c = Current
      BY <1>4
    <3>2. PICK f \in [1 .. m -> Nat \X Nat] : f = run
      BY <2>2
    <3>3. PICK a \in Seq(Nat \X Nat) : a = slot
      BY <2>1
    <3>4. /\ \A i \in 1 .. Len(a) : a[i] = <<c, i>>
          /\ \A i \in 1 .. m : f[i] = <<c, Len(a) + i>>
      BY <2>1, <2>2, <3>1, <3>2, <3>3, Zenon
    <3>5. /\ a \o f \in Seq(Nat \X Nat) /\ Len(a \o f) = Len(a) + m
          /\ \A i \in 1 .. Len(a) + m : (a \o f)[i] = <<c, i>>
      BY <3>4, SlotGrows, Zenon
    <3> QED
      BY <3>1, <3>2, <3>3, <3>5, Zenon
  <2>4. slot' = slot \o run /\ Len(slot) + m \in Nat
    BY <1>2, <1>3
  <2>5. Len(slot') = Len(slot) + m /\ slot' \in Seq(Nat \X Nat)
    BY <2>3, <2>4, Zenon
  <2>6. \A i \in 1 .. Len(slot') : slot'[i] = <<Current, i>>
    BY <2>3, <2>4, <2>5, Zenon
  <2> QED
    BY <1>9, <2>4, <2>5, <2>6
<1>11. /\ Current' = Current /\ Unreleased' = n' /\ Released' = Released /\ Torn' = Torn
       /\ Part' = Part /\ Whole(Current)' = Whole(Current) /\ Avail' = Avail
  <2>0. Torn' = Torn /\ Current' = Current
    BY <1>1, <1>2, <1>6, TornStays
  <2>1. /\ Current' = Current /\ Unreleased' = n' /\ Whole(Current)' = Whole(Current)
        /\ Avail' = Avail
    BY <1>2, <1>6, <2>0 DEF Unreleased, Copying, Whole, Avail
  <2>2. Part' = Part
    BY <1>2, <1>6, <2>1 DEF Part
  <2>3. Released' = Len(slot') - n'
    BY <1>2, <1>3, <1>6, <2>0, <2>1 DEF Released
  <2> QED
    <3>1. Released' = Len(slot)
      BY <1>3, <1>5, <1>10, <2>3
    <3>2. Released = Len(slot)
      BY <1>3
    <3> QED
      BY <2>0, <2>1, <2>2, <3>1, <3>2, Zenon
<1>12. Types'
  BY <1>1, <1>2, <1>3, <1>5, <1>6, <1>10 DEF Types
<1>13. Laid' /\ HeldBack'
  <2>1. Laid'
    BY <1>1, <1>2, <1>11, LaidStays
  <2> QED
    BY <1>1, <1>2, <1>11, <2>1 DEF HeldBack, Filled, Whole
<1>14. Reading'
  <2>1. Current <= Len(exts) /\ rsize = Whole(Current)
    BY <1>1, <1>2 DEF Reading
  <2>2. (Current <= Len(exts))' /\ (rsize = Whole(Current))'
    BY <1>2, <1>11, <2>1
  <2>3. (Len(slot) + need = Part + Unreleased)'
    BY <1>3, <1>5, <1>6, <1>10, <1>11
  <2>4. (need > 0)' /\ (Unreleased <= Len(slot))' /\ (n \in 1 .. need)'
    BY <1>3, <1>5, <1>6, <1>10, <1>11
  <2>5. (Hdr <= Avail + Released)' /\ (n <= Avail)'
    BY <1>3, <1>4, <1>5, <1>11
  <2> QED
    BY <1>10, <1>11, <2>2, <2>3, <2>4, <2>5 DEF Reading
<1>15. Delivered'
  BY <1>1, <1>2, <1>3, <1>6, <1>11 DEF Delivered, Frame, Whole
<1> QED
  BY <1>12, <1>13, <1>14, <1>15 DEF RxInv

\* Nothing is visible: the extension of an exposed frame is cut off there.
LEMMA StepTear ==
    ASSUME RxInv, \/ ReadBufferCopy("hdr", "hdrcopied") \/ ReadBufferCopy("ext", "extcopied"),
           ~ (Avail > 0)
    PROVE  RxInv'
<1>1. Types /\ Laid /\ HeldBack /\ Reading /\ Delivered
  BY DEF RxInv
<1>2. /\ pc \in {"hdr", "ext"} /\ n' = Least(ReadBuffer(head, tail), need)
      /\ slot' = slot \o [i \in 1 .. n' |-> fifo[tail + i - 1]]
      /\ UNCHANGED <<head, tail, fifo, exts, rest, exposed, rsize>>
  BY DEF ReadBufferCopy, ring, bp
<1>3. /\ ~ Torn /\ Current \in 1 .. Len(exts) /\ Part \in Nat /\ Part <= Whole(Current)
      /\ Len(slot) \in Nat /\ need \in Nat /\ need > 0 /\ Unreleased = 0
      /\ Released = Len(slot) /\ Released + need = Part /\ Hdr <= Avail + Released
      /\ Avail = 0 /\ pc = "ext" /\ Current \in exposed
  <2>1. pc \notin {"idle", "bad", "slot"} /\ Unreleased = 0
    BY <1>2 DEF Unreleased, Copying
  <2>2. /\ ~ Torn /\ Current \in 1 .. Len(exts) /\ Part \in Nat /\ Part <= Whole(Current)
        /\ Len(slot) \in Nat /\ need \in Nat /\ need > 0
        /\ Released = Len(slot) - Unreleased /\ Released + need = Part
        /\ Hdr <= Avail + Released /\ Avail \in 0 .. Size - 1
        /\ need <= Avail \/ (pc \in {"ext", "extcopied"} /\ Current \in exposed)
    BY <2>1, Midway
  <2>3. Avail = 0 /\ ~ (need <= Avail)
    BY <2>2, SizeAssumption
  <2> QED
    BY <1>2, <2>1, <2>2, <2>3
<1>4. n' = 0
  <2>1. head \in Slots /\ tail \in Slots
    BY <1>1 DEF Types
  <2>2. ReadBuffer(head, tail) = 0
    BY <1>3, <2>1, ReadBufferFits DEF Avail
  <2> QED
    BY <1>2, <1>3, <2>2 DEF Least
<1>5. slot' = slot
  <2>1. slot \in Seq(Nat \X Nat) /\ slot \o << >> = slot
    BY <1>1, ConcatEmptySeq DEF Types
  <2>2. [i \in 1 .. n' |-> fifo[tail + i - 1]] = << >>
    BY <1>4
  <2> QED
    BY <1>2, <2>1, <2>2
<1>6. pc' = "idle" /\ need' = need /\ frames' = Append(frames, slot)
  BY <1>2, <1>3, <1>4, <1>5 DEF ReadBufferCopy, LoopEnds, Return
<1>7. /\ frames' \in Seq(Seq(Nat \X Nat)) /\ Len(frames') = Len(frames) + 1
      /\ frames'[Len(frames) + 1] = slot /\ Len(frames) \in Nat
      /\ \A k \in 1 .. Len(frames) : frames'[k] = frames[k]
  BY <1>1, <1>6, AppendProperties, LenProperties DEF Types
<1>8. Current = Len(frames) + 1 /\ Current = Len(frames')
  BY <1>3, <1>7 DEF Current
<1>9. /\ Hdr <= Len(slot) /\ Len(slot) < Whole(Current)
      /\ \A i \in 1 .. Len(slot) : slot[i] = <<Current, i>>
      /\ Hdr \in Nat /\ Len(exts) \in Nat /\ Whole(Current) \in Nat
  <2>1. \A i \in 1 .. Len(slot) : slot[i] = <<Current, i>>
    BY <1>1, <1>3 DEF Reading
  <2>2. Hdr \in Nat /\ Len(exts) \in Nat /\ Whole(Current) \in Nat
    BY <1>1, <1>3, Bounds
  <2> QED
    BY <1>3, <2>1, <2>2
<1>10. Torn' /\ Current' = Current /\ Released' = Released
  <2>1. frames' # << >> /\ Len(frames'[Len(frames')]) = Len(slot)
    <3>1. Len(frames') # 0
      BY <1>7
    <3> QED
      BY <1>7, <3>1, EmptySeq
  <2>2. Torn'
    BY <1>2, <1>8, <1>9, <2>1 DEF Torn, Whole
  <2> QED
    BY <1>3, <1>8, <2>1, <2>2 DEF Current, Released
<1>11. Types'
  <2>1. n' \in Nat /\ Len(frames') <= Len(exts')
    BY <1>2, <1>3, <1>4, <1>8
  <2> QED
    BY <1>1, <1>2, <1>5, <1>6, <1>7, <2>1 DEF Types
<1>12. Laid' /\ HeldBack'
  <2>1. Laid'
    BY <1>1, <1>2, <1>10, LaidStays
  <2> QED
    BY <1>1, <1>2, <2>1 DEF HeldBack, Filled, Avail, Whole
<1>13. Reading'
  BY <1>6 DEF Reading, Copying
<1>14. Delivered'
  <2>1. ASSUME NEW k \in 1 .. Len(frames')
        PROVE  /\ \A i \in 1 .. Len(frames'[k]) : frames'[k][i] = <<k, i>>
               /\ Hdr <= Len(frames'[k]) /\ Len(frames'[k]) <= Whole(k)
               /\ k < Len(frames') => frames'[k] = Frame(k)
    <3>1. CASE k \in 1 .. Len(frames)
      <4>1. frames'[k] = frames[k] /\ frames[k] = Frame(k)
        BY <1>1, <1>3, <1>7, <3>1, UntornAllWhole
      <4>2. /\ \A i \in 1 .. Len(frames[k]) : frames[k][i] = <<k, i>>
            /\ Hdr <= Len(frames[k]) /\ Len(frames[k]) <= Whole(k)
        BY <1>1, <3>1, Zenon DEF Delivered
      <4> QED
        BY <4>1, <4>2, Zenon
    <3>2. CASE k = Len(frames) + 1
      <4>1. frames'[k] = slot /\ k = Current /\ ~ (k < Len(frames'))
        BY <1>7, <1>8, <3>2
      <4>2. Len(slot) <= Whole(Current)
        BY <1>3, <1>9
      <4> QED
        BY <1>9, <4>1, <4>2, Zenon
    <3>3. k \in 1 .. Len(frames) \/ k = Len(frames) + 1
      BY <1>7
    <3> QED
      BY <3>1, <3>2, <3>3, Zenon
  <2>2. \A k \in 1 .. Len(frames') : Whole(k)' = Whole(k) /\ Frame(k)' = Frame(k)
    BY <1>2 DEF Whole, Frame
  <2>3. Len(frames') \in exposed' /\ pc' \in {"idle", "bad"} /\ pc' # "bad"
    BY <1>2, <1>3, <1>6, <1>8
  <2> QED
    BY <2>1, <2>2, <2>3 DEF Delivered
<1> QED
  BY <1>11, <1>12, <1>13, <1>14 DEF RxInv

\* The run is given back; the part goes on, or the extension follows, or the
\* frame is complete.
LEMMA StepDone ==
    ASSUME RxInv, \/ ReadDone("hdr", "hdrcopied") \/ ReadDone("ext", "extcopied")
    PROVE  RxInv'
<1>1. Types /\ Laid /\ HeldBack /\ Reading /\ Delivered
  BY DEF RxInv
<1>2. /\ pc \in Copying /\ tail' = Wrap(tail + n)
      /\ UNCHANGED <<head, fifo, exts, rest, exposed, rsize, n, slot>>
  BY DEF ReadDone, Copying, bp
<1>3. /\ Current \in 1 .. Len(exts) /\ Part \in Nat /\ Part <= Whole(Current)
      /\ Len(slot) \in Nat /\ need \in Nat /\ need > 0 /\ n \in 1 .. need /\ n \in Nat
      /\ Released \in Nat /\ Released + n = Len(slot) /\ Released + need = Part
      /\ n \in 0 .. Avail /\ Current <= Len(exts) /\ rsize = Whole(Current)
      /\ Hdr <= Avail + Released /\ Avail \in Nat
      /\ \A i \in 1 .. Len(slot) : slot[i] = <<Current, i>>
  <2>1. pc \notin {"idle", "bad", "slot"} /\ Unreleased = n
    BY <1>2 DEF Unreleased, Copying
  <2>2. n \in 1 .. need /\ n \in Nat /\ rsize = Whole(Current)
        /\ \A i \in 1 .. Len(slot) : slot[i] = <<Current, i>>
    BY <1>1, <1>2, <2>1 DEF Reading, Types, Copying
  <2>3. /\ Current \in 1 .. Len(exts) /\ Part \in Nat /\ Part <= Whole(Current)
        /\ Len(slot) \in Nat /\ need \in Nat /\ need > 0
        /\ Released = Len(slot) - n /\ Released \in Nat /\ Released + need = Part
        /\ Avail \in 0 .. Size - 1 /\ Hdr <= Avail + Released
    BY <2>1, Midway
  <2>n. n <= Avail
    BY <1>1, <1>2 DEF Reading
  <2>4. Len(exts) \in Nat
    BY <1>1, Bounds
  <2> QED
    BY <2>2, <2>3, <2>4, <2>n, SizeAssumption
<1>t. ~ Torn
  BY <1>1, <1>2 DEF Delivered, Copying
<1>4. /\ Len(exts) \in Nat /\ Len(frames) \in Nat /\ Hdr \in Nat /\ 0 < Hdr
      /\ exts[Current] \in Nat /\ Whole(Current) = Hdr + exts[Current]
  BY <1>1, <1>3, Bounds DEF Whole
<1>5. ASSUME UNCHANGED frames, pc' \in {"hdr", "ext"}, need' \in Nat, need' > 0,
             Len(slot) + need' = IF pc' = "hdr" THEN Hdr ELSE Whole(Current)
      PROVE  RxInv'
  <2>1. /\ Current' = Current /\ Unreleased' = 0 /\ Released' = Released + n
        /\ Whole(Current)' = Whole(Current) /\ Torn' = Torn
    <3>1. Current' = Current /\ Whole(Current)' = Whole(Current) /\ Torn' = Torn
      BY <1>1, <1>2, <1>5, TornStays DEF Whole
    <3>2. Unreleased' = 0
      BY <1>5 DEF Unreleased, Copying
    <3>3. Released' = Len(slot)
      BY <1>2, <1>3, <1>t, <1>5, <3>1, <3>2 DEF Released
    <3> QED
      BY <1>3, <3>1, <3>2, <3>3
  <2>2. /\ Laid' /\ tail' \in Slots /\ Avail' = Avail - n /\ Filled' = Filled - n
        /\ HeldBack'
    <3>1. Laid' /\ tail' \in Slots /\ Avail' = Avail - n /\ Filled' = Filled - n
      BY <1>2, <1>3, <2>1, LaidShifts
    <3> QED
      BY <1>1, <1>2, <1>3, <3>1, ShorterIsHeld
  <2>3. Types'
    BY <1>1, <1>2, <1>5, <2>2 DEF Types
  <2>4. Part' = IF pc' = "hdr" THEN Hdr ELSE Whole(Current)
    BY <1>5, <2>1 DEF Part
  <2>h. Hdr <= Avail' + Released' /\ Hdr \in Nat
    <3>1. (Avail - n) + (Released + n) = Avail + Released
      BY <1>3
    <3> QED
      BY <1>1, <1>3, <2>1, <2>2, <3>1, Bounds
  <2>5. Reading'
    BY <1>2, <1>3, <1>5, <2>1, <2>4, <2>h DEF Reading, Copying
  <2>6. Delivered'
    BY <1>1, <1>2, <1>t, <1>5, <2>1 DEF Delivered, Frame, Whole
  <2> QED
    BY <2>2, <2>3, <2>5, <2>6 DEF RxInv
<1>6. ASSUME Return, Len(slot) = Whole(Current)
      PROVE  RxInv'
  <2>1. /\ pc' = "idle" /\ need' = need /\ frames' = Append(frames, slot)
    BY <1>6 DEF Return
  <2>2. /\ frames' \in Seq(Seq(Nat \X Nat)) /\ Len(frames') = Len(frames) + 1
        /\ frames'[Len(frames) + 1] = slot
        /\ \A k \in 1 .. Len(frames) : frames'[k] = frames[k]
    BY <1>1, <2>1, AppendProperties DEF Types
  <2>c. Current = Len(frames) + 1
    BY <1>t DEF Current
  <2>t. ~ Torn'
    <3>1. frames'[Len(frames')] = slot /\ Hdr + exts'[Len(frames')] = Whole(Current)
      BY <1>2, <2>2, <2>c DEF Whole
    <3>2. ~ (Len(frames'[Len(frames')]) < Hdr + exts'[Len(frames')])
      BY <1>4, <1>6, <3>1
    <3> QED
      BY <3>2 DEF Torn
  <2>3. Current' = Current + 1 /\ Released' = 0 /\ Released + n = Whole(Current)
    BY <1>3, <1>4, <1>6, <2>1, <2>2, <2>c, <2>t DEF Current, Released
  <2>4. Laid' /\ tail' \in Slots /\ HeldBack'
    <3>1. Laid' /\ tail' \in Slots /\ Avail' = Avail - n /\ Filled' = Filled - n
      BY <1>2, <1>3, <2>3, LaidShifts
    <3> QED
      BY <1>1, <1>2, <1>3, <3>1, ShorterIsHeld
  <2>5. Len(frames') <= Len(exts)
    BY <1>3, <1>4, <2>2, <2>c
  <2>6. Types'
    BY <1>1, <1>2, <2>1, <2>2, <2>4, <2>5 DEF Types
  <2>7. Reading'
    BY <2>1 DEF Reading, Copying
  <2>8. Delivered'
    <3>1. ASSUME NEW k \in 1 .. Len(frames')
          PROVE  /\ \A i \in 1 .. Len(frames'[k]) : frames'[k][i] = <<k, i>>
                 /\ Hdr <= Len(frames'[k]) /\ Len(frames'[k]) <= Whole(k)
                 /\ k < Len(frames') => frames'[k] = Frame(k)
      <4>1. CASE k \in 1 .. Len(frames)
        <5>1. frames[k] = Frame(k)
          BY <1>1, <1>t, <4>1, UntornAllWhole
        <5>2. /\ \A i \in 1 .. Len(frames[k]) : frames[k][i] = <<k, i>>
              /\ Hdr <= Len(frames[k]) /\ Len(frames[k]) <= Whole(k)
          BY <1>1, <4>1, Zenon DEF Delivered
        <5>3. frames'[k] = frames[k]
          BY <2>2, <4>1
        <5> QED
          BY <5>1, <5>2, <5>3, Zenon
      <4>2. CASE k = Len(frames) + 1
        <5>1. frames'[k] = slot /\ k = Current /\ ~ (k < Len(frames'))
          BY <1>4, <2>2, <2>c, <4>2
        <5>2. Hdr <= Len(slot) /\ Len(slot) <= Whole(Current)
          BY <1>3, <1>4, <1>6
        <5> QED
          BY <1>3, <5>1, <5>2, Zenon
      <4>3. k \in 1 .. Len(frames) \/ k = Len(frames) + 1
        BY <1>4, <2>2
      <4> QED
        BY <4>1, <4>2, <4>3, Zenon
    <3>2. \A k \in 1 .. Len(frames') : Whole(k)' = Whole(k) /\ Frame(k)' = Frame(k)
      BY <1>2 DEF Whole, Frame
    <3>3. pc' # "bad"
      BY <2>1
    <3> QED
      BY <2>t, <3>1, <3>2, <3>3 DEF Delivered
  <2> QED
    BY <2>4, <2>6, <2>7, <2>8 DEF RxInv
<1>7. CASE need > n
  <2>1. need' = need - n /\ UNCHANGED frames /\ pc' = (IF pc = "hdrcopied" THEN "hdr" ELSE "ext")
    BY <1>7 DEF ReadDone
  <2>2. Part = IF pc' = "hdr" THEN Hdr ELSE Whole(Current)
    BY <1>2, <2>1 DEF Part, Copying
  <2>3. pc' \in {"hdr", "ext"} /\ need' \in Nat /\ need' > 0 /\ Len(slot) + need' = Part
    BY <1>3, <1>7, <2>1
  <2> QED
    BY <1>5, <2>1, <2>2, <2>3
<1>8. CASE ~ (need > n)
  <2>1. need = n /\ Len(slot) = Part
    BY <1>3, <1>8
  <2>2. CASE ReadDone("ext", "extcopied")
    <3>1. Return /\ Part = Whole(Current)
      BY <1>8, <2>2 DEF ReadDone, LoopEnds, Part
    <3> QED
      BY <1>6, <2>1, <3>1
  <2>3. CASE ReadDone("hdr", "hdrcopied")
    <3>1. AfterHeader /\ Len(slot) = Hdr
      BY <1>8, <2>1, <2>3 DEF ReadDone, LoopEnds, Part
    <3>2. slot # << >> /\ slot[1] = <<Current, 1>>
      BY <1>3, <1>4, <3>1
    <3>3. HasMagic(slot) /\ ExtLen(slot) = exts[Current]
      BY <3>2 DEF HasMagic, ExtLen
    <3>4. ~ (rsize - Len(slot) < ExtLen(slot))
      BY <1>3, <1>4, <3>1, <3>3
    <3>5. CASE exts[Current] = 0
      <4>1. Return
        BY <3>1, <3>2, <3>3, <3>4, <3>5 DEF AfterHeader
      <4> QED
        BY <1>4, <1>6, <3>1, <3>5, <4>1
    <3>6. CASE exts[Current] # 0
      <4>1. pc' = "ext" /\ need' = exts[Current] /\ UNCHANGED frames
        BY <3>1, <3>2, <3>3, <3>4, <3>6 DEF AfterHeader
      <4>2. need' > 0 /\ need' \in Nat /\ Len(slot) + need' = Whole(Current)
        BY <1>4, <3>1, <3>6, <4>1
      <4> QED
        BY <1>5, <4>1, <4>2
    <3> QED
      BY <3>5, <3>6
  <2> QED
    BY <2>2, <2>3
<1> QED
  BY <1>3, <1>7, <1>8

LEMMA StepRx == RxInv /\ [Next]_vars => RxInv'
<1> SUFFICES ASSUME RxInv, [Next]_vars PROVE RxInv'
  OBVIOUS
<1>1. CASE \E e \in ExtLens : BpWrite(e)
  BY <1>1, StepWrite
<1>2. CASE \E m \in 1 .. rest : BpPublish(m)
  BY <1>2, StepPublish
<1>3. CASE Reader
  BY <1>3, StepPeek, StepStart, StepCopy, StepTear, StepDone DEF Reader
<1>4. CASE UNCHANGED vars
  <2>1. Types /\ Laid /\ HeldBack /\ Reading /\ Delivered
    BY DEF RxInv
  <2>2. UNCHANGED <<head, tail, fifo, exts, rest, exposed, pc, rsize, need, n, slot, frames>>
    BY <1>4 DEF vars
  <2>3. Torn' = Torn /\ Current' = Current /\ Released' = Released /\ Avail' = Avail
    BY <2>2 DEF Torn, Current, Released, Unreleased, Avail
  <2>4. Laid'
    BY <2>1, <2>2, <2>3, LaidStays
  <2>5. Types' /\ HeldBack'
    BY <2>1, <2>2, <2>3 DEF Types, HeldBack, Filled, Whole
  <2>6. Reading' /\ Delivered'
    BY <2>1, <2>2, <2>3 DEF Reading, Delivered, Part, Whole, Unreleased, Frame
  <2> QED
    BY <2>4, <2>5, <2>6 DEF RxInv
<1> QED
  BY <1>1, <1>2, <1>3, <1>4 DEF Next

\* The worker receives the BP's frames in order, none twice and none mixed with
\* its neighbour; only a frame whose header was visible before the rest may be
\* cut off, and then nothing after it is taken for a frame; without one no
\* error return of __ch_packet_read is reached (__ch_read, __ch_packet_read).
THEOREM FramesArriveWhole == Spec => []FramesInOrder
<1>1. RxInv => FramesInOrder
  BY DEF RxInv, Types, Delivered, FramesInOrder, Whole
<1> QED
  BY <1>1, InitRx, StepRx, PTL DEF Spec

=============================================================================
