----------------------------- MODULE MdTxProofs -----------------------------
(***************************************************************************)
(* The transmit ring is correct for every ring size, every header size,    *)
(* every set of request lengths and every number of units written.         *)
(***************************************************************************)
EXTENDS MdTx, Sequences, SequenceTheorems, TLAPS

-----------------------------------------------------------------------------
(* Index arithmetic *)

\* Within one lap of the ring, `& fifo_mask' adds or subtracts Size at most
\* once (the masks of __ch_read_done and __ch_write_done).
LEMMA WrapByCases ==
    ASSUME NEW m \in -Size .. 2 * Size - 1
    PROVE  Wrap(m) = IF m < 0 THEN m + Size
                     ELSE IF m < Size THEN m ELSE m - Size
<1>1. CASE m < 0
  BY <1>1, SizeAssumption DEF Wrap
<1>2. CASE 0 <= m /\ m < Size
  BY <1>2, SizeAssumption DEF Wrap
<1>3. CASE Size <= m
  BY <1>3, SizeAssumption DEF Wrap
<1> QED BY <1>1, <1>2, <1>3, SizeAssumption

\* A wrapped index is an index of the ring.
LEMMA WrapInSlots ==
    ASSUME NEW m \in -Size .. 2 * Size - 1
    PROVE  Wrap(m) \in Slots
BY WrapByCases, SizeAssumption DEF Slots

\* __ch_stream_read_avail: how far head is ahead of tail.
LEMMA ReadAvailByCases ==
    ASSUME NEW h \in Slots, NEW t \in Slots
    PROVE  /\ ReadAvail(h, t) =
                  IF t <= h THEN h - t ELSE h - t + Size
           /\ ReadAvail(h, t) \in 0 .. Size - 1
<1>1. h - t \in -Size .. 2 * Size - 1
  BY SizeAssumption DEF Slots
<1> QED BY <1>1, WrapByCases, SizeAssumption DEF ReadAvail, Slots

\* __ch_write_buffer never offers more than what is free, offers something
\* exactly when something is free, and never crosses the end of the memory.
LEMMA WriteBufferFits ==
    ASSUME NEW h \in Slots, NEW t \in Slots
    PROVE  /\ WriteBuffer(h, t) \in 0 .. Size - 1 - ReadAvail(h, t)
           /\ WriteBuffer(h, t) = 0 <=> WriteAvail(h, t) = 0
           /\ h + WriteBuffer(h, t) <= Size
<1>1. /\ Size \in Nat /\ Size > 1
      /\ h \in 0 .. Size - 1 /\ t \in 0 .. Size - 1
  BY SizeAssumption DEF Slots
<1>2. WriteAvail(h, t) = Size - 1 - ReadAvail(h, t)
  BY DEF WriteAvail, ReadAvail
<1>3. /\ ReadAvail(h, t) \in 0 .. Size - 1
      /\ ReadAvail(h, t) =
            IF t <= h THEN h - t ELSE h - t + Size
  BY ReadAvailByCases
<1>4. CASE h < t
  <2>1. WriteBuffer(h, t) = t - h - 1
    BY <1>4 DEF WriteBuffer
  <2> QED BY <1>1, <1>2, <1>3, <1>4, <2>1
<1>5. CASE h >= t /\ t = 0
  <2>1. WriteBuffer(h, t) = Size - h - 1
    BY <1>1, <1>5 DEF WriteBuffer
  <2> QED BY <1>1, <1>2, <1>3, <1>5, <2>1
<1>6. CASE h >= t /\ t # 0
  <2>1. WriteBuffer(h, t) = Size - h
    BY <1>1, <1>6 DEF WriteBuffer
  <2> QED BY <1>1, <1>2, <1>3, <1>6, <2>1
<1> QED BY <1>1, <1>4, <1>5, <1>6

\* Advancing head by what was free lengthens the unread part by as much.
LEMMA AdvanceHead ==
    ASSUME NEW h \in Slots, NEW t \in Slots,
           NEW m \in 0 .. Size - 1 - ReadAvail(h, t)
    PROVE  /\ Wrap(h + m) \in Slots
           /\ ReadAvail(Wrap(h + m), t) = ReadAvail(h, t) + m
<1> DEFINE next == Wrap(h + m)
<1>1. /\ Size \in Nat /\ Size > 1
      /\ h \in 0 .. Size - 1 /\ t \in 0 .. Size - 1
      /\ ReadAvail(h, t) \in 0 .. Size - 1
      /\ m \in 0 .. Size - 1 - ReadAvail(h, t)
  BY SizeAssumption, ReadAvailByCases DEF Slots
<1>2. m \in 0 .. Size - 1
  BY <1>1
<1>3. h + m \in -Size .. 2 * Size - 1 /\ h + m >= 0
  BY <1>1, <1>2
<1>4. next \in Slots
  BY <1>3, WrapInSlots
<1>5. next = IF h + m < Size THEN h + m ELSE h + m - Size
  BY <1>1, <1>2, <1>3, WrapByCases
<1>6. ReadAvail(next, t) =
          IF t <= next THEN next - t ELSE next - t + Size
  BY <1>4, ReadAvailByCases
<1>7. ReadAvail(h, t) =
          IF t <= h THEN h - t ELSE h - t + Size
  BY ReadAvailByCases
<1>8. ReadAvail(next, t) = ReadAvail(h, t) + m
  <2> HIDE DEF next
  <2> QED BY <1>1, <1>2, <1>5, <1>6, <1>7
<1> QED BY <1>4, <1>8

\* Advancing tail by what was unread shortens the unread part by as much.
LEMMA AdvanceTail ==
    ASSUME NEW h \in Slots, NEW t \in Slots,
           NEW m \in 0 .. ReadAvail(h, t)
    PROVE  /\ Wrap(t + m) \in Slots
           /\ ReadAvail(h, Wrap(t + m)) = ReadAvail(h, t) - m
<1> DEFINE next == Wrap(t + m)
<1>1. /\ Size \in Nat /\ Size > 1
      /\ h \in 0 .. Size - 1 /\ t \in 0 .. Size - 1
      /\ ReadAvail(h, t) \in 0 .. Size - 1
      /\ m \in 0 .. ReadAvail(h, t)
  BY SizeAssumption, ReadAvailByCases DEF Slots
<1>2. m \in 0 .. Size - 1
  BY <1>1
<1>3. t + m \in -Size .. 2 * Size - 1 /\ t + m >= 0
  BY <1>1, <1>2
<1>4. next \in Slots
  BY <1>3, WrapInSlots
<1>5. next = IF t + m < Size THEN t + m ELSE t + m - Size
  BY <1>1, <1>2, <1>3, WrapByCases
<1>6. ReadAvail(h, next) =
          IF next <= h THEN h - next ELSE h - next + Size
  BY <1>4, ReadAvailByCases
<1>7. ReadAvail(h, t) =
          IF t <= h THEN h - t ELSE h - t + Size
  BY ReadAvailByCases
<1>8. ReadAvail(h, next) = ReadAvail(h, t) - m
  <2> HIDE DEF next
  <2> QED BY <1>1, <1>2, <1>5, <1>6, <1>7
<1> QED BY <1>4, <1>8

-----------------------------------------------------------------------------
(* The inductive invariant *)

\* What a write in progress may rely on: the run it is about to copy is free,
\* contiguous and inside the request, however much the BP consumes meanwhile.
RunIsFree ==
    /\ pc # "idle" => len \in 1 .. orig
    /\ pc \in {"copy", "advance"} =>
        /\ xfer \in 1 .. len
        /\ xfer <= WriteAvail(head, tail)
        /\ head + xfer <= Size

\* Between the memcpy and the advance of head the run holds the next units.
RunIsCopied ==
    pc = "advance" =>
        \A i \in 0 .. xfer - 1 : fifo[head + i] = published + i

RingInv == TypeOK /\ UnreadIntact /\ RunIsFree /\ RunIsCopied

-----------------------------------------------------------------------------
LEMMA InitRing == Init => RingInv
<1> SUFFICES ASSUME Init PROVE RingInv
  OBVIOUS
<1>1. 0 \in Slots
  BY SizeAssumption DEF Slots
<1>2. TypeOK
  BY <1>1 DEF Init, TypeOK
<1>3. ReadAvail(head, tail) = 0
  BY <1>1, ReadAvailByCases DEF Init
<1>4. UnreadIntact
  BY <1>3 DEF Init, UnreadIntact
<1> QED BY <1>2, <1>4 DEF Init, RingInv, RunIsFree, RunIsCopied

\* One step of the AP or of the BP preserves the invariant of the ring.
LEMMA StepRing == RingInv /\ [Next]_vars => RingInv'
<1> SUFFICES ASSUME RingInv, [Next]_vars PROVE RingInv'
  OBVIOUS
<1> USE SizeAssumption, TxAssumption DEF Lens
<1>u. framed' = framed
  BY DEF Next, vars
<1>0. /\ TypeOK /\ UnreadIntact /\ RunIsFree /\ RunIsCopied
      /\ head \in Slots /\ tail \in Slots
      /\ Size \in Nat
  BY DEF RingInv, TypeOK
<1> DEFINE used == ReadAvail(head, tail)
<1>r. /\ used \in 0 .. Size - 1
      /\ WriteAvail(head, tail) = Size - 1 - used
  BY <1>0, <1>u, ReadAvailByCases DEF WriteAvail, ReadAvail
<1>1. ASSUME NEW k \in Lens, StartWrite(k) PROVE RingInv'
  <2>1. TypeOK'
    BY <1>0, <1>r, <1>u, <1>1 DEF TypeOK, StartWrite, ring
  <2> QED BY <1>0, <1>u, <1>1, <2>1 DEF RingInv, UnreadIntact, RunIsFree, RunIsCopied, StartWrite, ring
<1>2. ASSUME NEW k \in Lens, RefuseWrite(k) PROVE RingInv'
  <2>1. TypeOK'
    BY <1>0, <1>r, <1>u, <1>2 DEF TypeOK, RefuseWrite, ring
  <2> QED BY <1>0, <1>u, <1>2, <2>1 DEF RingInv, UnreadIntact, RunIsFree, RunIsCopied, RefuseWrite, ring
<1>3. CASE GetBuffer
  <2>1. /\ WriteBuffer(head, tail) \in 0 .. Size - 1 - used
        /\ head + WriteBuffer(head, tail) <= Size
    BY <1>0, <1>u, WriteBufferFits
  <2>2. /\ pc = "buffer" /\ len \in Nat /\ orig \in Nat /\ len > 0 /\ len <= orig
        /\ head \in Nat
        /\ UNCHANGED <<head, tail, fifo, orig, len, published, consumed>>
        /\ xfer' = Least(WriteBuffer(head, tail), len)
    BY <1>0, <1>u, <1>3 DEF GetBuffer, ring, RunIsFree, TypeOK, Slots
  <2>3. xfer' \in Nat /\ xfer' <= WriteBuffer(head, tail) /\ xfer' <= len
    BY <1>r, <2>1, <2>2 DEF Least
  <2>4. TypeOK'
    <3>1. ret' \in Nat \cup {EBUSY}
      BY <1>0, <1>u, <1>3, <2>2 DEF TypeOK, GetBuffer, Returned
    <3>2. pc' \in {"idle", "copy"} /\ base' = base /\ room' = room
      BY <1>3 DEF GetBuffer
    <3> QED BY <1>0, <1>u, <2>2, <2>3, <3>1, <3>2 DEF TypeOK
  <2>5. RunIsFree'
    <3>1. pc' = "copy" => WriteBuffer(head, tail) # 0
      BY <1>3 DEF GetBuffer
    <3>2. pc' \in {"idle", "copy"}
      BY <1>3 DEF GetBuffer
    <3>3. pc' = "copy" => xfer' > 0
      BY <1>r, <2>1, <2>2, <3>1 DEF Least
    <3>4. head + xfer' <= Size /\ xfer' <= WriteAvail(head, tail)
      BY <1>r, <2>1, <2>2, <2>3
    <3> QED BY <2>2, <2>3, <3>2, <3>3, <3>4 DEF RunIsFree
  <2>6. UnreadIntact' /\ RunIsCopied'
    BY <1>0, <1>u, <1>3, <2>2 DEF UnreadIntact, RunIsCopied, GetBuffer
  <2> QED BY <2>4, <2>5, <2>6 DEF RingInv
<1>4. CASE Copy
  <2>1. /\ pc = "copy" /\ pc' = "advance"
        /\ UNCHANGED <<head, tail, orig, len, xfer, published, consumed>>
        /\ xfer \in 1 .. len /\ len \in Nat /\ head + xfer <= Size
        /\ xfer <= Size - 1 - used
        /\ head \in 0 .. Size - 1 /\ tail \in 0 .. Size - 1
        /\ published \in Nat /\ consumed \in Nat
    BY <1>0, <1>u, <1>4, <1>r DEF Copy, RunIsFree, TypeOK, Slots
  <2>2. \A s \in Slots : fifo'[s] = IF s \in head .. head + xfer - 1
                                    THEN published + (s - head) ELSE fifo[s]
    BY <1>4 DEF Copy
  <2>3. TypeOK'
    <3>1. \A s \in Slots : s \in head .. head + xfer - 1 => published + (s - head) \in Nat
      BY <2>1 DEF Slots
    <3>2. fifo' \in [Slots -> Nat]
      BY <1>0, <1>u, <1>4, <3>1 DEF Copy, TypeOK
    <3> QED BY <1>0, <1>u, <1>4, <3>2 DEF Copy, TypeOK
  <2>4. RunIsCopied'
    <3> SUFFICES ASSUME NEW i \in 0 .. xfer - 1
                 PROVE  fifo'[head + i] = published + i
      BY <2>1 DEF RunIsCopied
    <3>1. head + i \in Slots /\ head + i \in head .. head + xfer - 1
      BY <2>1 DEF Slots
    <3> QED BY <2>1, <2>2, <3>1
  <2>5. UnreadIntact'
    <3>1. SUFFICES ASSUME NEW i \in 0 .. used - 1
                   PROVE  fifo'[Wrap(tail + i)] = consumed + i
      BY <1>0, <1>u, <2>1 DEF UnreadIntact
    <3>2. fifo[Wrap(tail + i)] = consumed + i
      BY <1>0 DEF UnreadIntact
    <3>3. /\ tail + i \in -Size .. 2 * Size - 1 /\ i \in Nat /\ i < used
          /\ used <= Size - 1 /\ used \in Nat
      BY <1>r, <2>1
    <3>4. Wrap(tail + i) \in Slots
      BY <3>3, WrapInSlots
    <3>5. Wrap(tail + i) = IF tail + i < Size THEN tail + i ELSE tail + i - Size
      BY <2>1, <3>3, WrapByCases
    <3>6. used = IF tail <= head THEN head - tail ELSE head - tail + Size
      BY <1>0, <1>u, ReadAvailByCases
    <3>7. Wrap(tail + i) \notin head .. head + xfer - 1
      <4> HIDE DEF used
      <4> QED BY <2>1, <3>3, <3>5, <3>6
    <3> QED BY <2>2, <3>2, <3>4, <3>7
  <2> QED BY <1>0, <1>u, <2>1, <2>3, <2>4, <2>5 DEF RingInv, RunIsFree
<1>5. CASE WriteDone
  <2> DEFINE next == Wrap(head + xfer)
  <2>1. /\ pc = "advance" /\ pc' \in {"idle", "buffer"}
        /\ head' = next /\ published' = published + xfer
        /\ len' = len - xfer /\ (pc' = "buffer" => len # xfer)
        /\ UNCHANGED <<tail, fifo, xfer, consumed, orig, base, room>>
        /\ xfer \in 1 .. len /\ len \in Nat /\ head + xfer <= Size
        /\ xfer \in 0 .. Size - 1 - used
        /\ head \in 0 .. Size - 1 /\ tail \in 0 .. Size - 1
        /\ published \in Nat /\ consumed \in Nat
        /\ published - consumed = used
    BY <1>0, <1>u, <1>5, <1>r DEF WriteDone, RunIsFree, TypeOK, Slots, UnreadIntact
  <2>2. next \in Slots /\ ReadAvail(next, tail) = used + xfer
    BY <1>0, <1>u, <2>1, AdvanceHead
  <2>3. TypeOK'
    <3>1. ret' \in Nat \cup {EBUSY}
      BY <1>0, <1>u, <1>5 DEF WriteDone, TypeOK, Returned
    <3> QED BY <1>0, <1>u, <2>1, <2>2, <3>1 DEF TypeOK
  <2>4. UnreadIntact'
    <3>1. ReadAvail(head', tail') = published' - consumed'
      BY <1>r, <2>1, <2>2
    <3>2. ASSUME NEW i \in 0 .. used + xfer - 1
          PROVE  fifo[Wrap(tail + i)] = consumed + i
      <4>1. CASE i < used
        BY <1>0, <1>u, <1>r, <2>1, <4>1 DEF UnreadIntact
      <4>2. CASE i >= used
        <5>1. /\ i - used \in 0 .. xfer - 1 /\ i \in 0 .. Size - 1
          BY <1>r, <2>1, <4>2
        <5>2. fifo[head + (i - used)] = published + (i - used)
          BY <1>0, <1>u, <2>1, <5>1 DEF RunIsCopied
        <5>3. Wrap(tail + i) = IF tail + i < Size THEN tail + i ELSE tail + i - Size
          <6>1. tail + i \in -Size .. 2 * Size - 1
            BY <2>1, <5>1
          <6> QED BY <2>1, <5>1, <6>1, WrapByCases
        <5>4. used = IF tail <= head THEN head - tail ELSE head - tail + Size
          BY <1>0, <1>u, ReadAvailByCases
        <5>5. Wrap(tail + i) = head + (i - used)
          <6> HIDE DEF used
          <6> QED BY <1>r, <2>1, <4>2, <5>1, <5>3, <5>4
        <5> QED BY <1>r, <2>1, <5>1, <5>2, <5>5
      <4> QED BY <1>r, <2>1, <4>1, <4>2
    <3> QED BY <2>1, <2>2, <3>1, <3>2 DEF UnreadIntact
  <2>5. RunIsFree' /\ RunIsCopied'
    <3>1. orig \in Nat /\ len <= orig
      BY <1>0, <1>u, <2>1 DEF RunIsFree, TypeOK
    <3> QED BY <2>1, <3>1 DEF RunIsFree, RunIsCopied
  <2> QED BY <2>3, <2>4, <2>5 DEF RingInv
<1>6. CASE BpRead
  <2>1. PICK k \in 1 .. used : /\ tail' = Wrap(tail + k)
                               /\ consumed' = consumed + k
                               /\ UNCHANGED <<head, fifo, writer, published>>
    BY <1>6 DEF BpRead
  <2>2. /\ k \in 0 .. used /\ k \in Nat /\ used \in Nat
        /\ consumed \in Nat /\ published \in Nat
        /\ published - consumed = used
        /\ UNCHANGED <<pc, orig, len, xfer, ret, base, room>>
    BY <1>0, <1>u, <1>r, <2>1 DEF TypeOK, UnreadIntact, writer
  <2>3. Wrap(tail + k) \in Slots /\ ReadAvail(head, Wrap(tail + k)) = used - k
    BY <1>0, <1>u, <2>2, AdvanceTail
  <2>4. TypeOK'
    BY <1>0, <1>u, <2>1, <2>2, <2>3 DEF TypeOK
  <2>5. UnreadIntact'
    <3>1. ReadAvail(head', tail') = published' - consumed'
      BY <2>1, <2>2, <2>3
    <3>2. ASSUME NEW i \in 0 .. used - k - 1
          PROVE  fifo[Wrap(Wrap(tail + k) + i)] = consumed + k + i
      <4>1. /\ i \in Nat /\ k + i \in 0 .. used - 1
            /\ tail \in 0 .. Size - 1 /\ used \in 0 .. Size - 1
        BY <1>0, <1>u, <1>r, <2>2 DEF Slots
      <4>2. fifo[Wrap(tail + (k + i))] = consumed + (k + i)
        BY <1>0, <1>u, <4>1 DEF UnreadIntact
      <4>3. Wrap(Wrap(tail + k) + i) = Wrap(tail + (k + i))
        <5>1. Wrap(tail + k) = IF tail + k < Size THEN tail + k ELSE tail + k - Size
          <6>1. tail + k \in -Size .. 2 * Size - 1
            BY <2>2, <4>1
          <6> QED BY <2>2, <4>1, <6>1, WrapByCases
        <5>2. Wrap(tail + (k + i)) = IF tail + (k + i) < Size THEN tail + (k + i)
                                     ELSE tail + (k + i) - Size
          <6>1. tail + (k + i) \in -Size .. 2 * Size - 1
            BY <2>2, <4>1
          <6> QED BY <2>2, <4>1, <6>1, WrapByCases
        <5>3. CASE tail + k < Size
          BY <4>1, <2>2, <5>1, <5>3
        <5>4. CASE tail + k >= Size
          <6>1. tail + k - Size + i \in -Size .. 2 * Size - 1
            BY <2>2, <4>1
          <6>2. Wrap(tail + k - Size + i) = tail + k - Size + i
            BY <2>2, <4>1, <5>4, <6>1, WrapByCases
          <6> QED BY <2>2, <4>1, <5>1, <5>2, <5>4, <6>2
        <5> QED BY <2>2, <4>1, <5>3, <5>4
      <4> QED BY <2>2, <4>1, <4>2, <4>3
    <3> QED BY <2>1, <2>2, <2>3, <3>1, <3>2 DEF UnreadIntact
  <2>6. RunIsFree'
    <3>1. WriteAvail(head, tail') = Size - 1 - (used - k)
      BY <2>1, <2>3 DEF WriteAvail, ReadAvail
    <3>2. WriteAvail(head, tail) <= WriteAvail(head, tail')
      BY <1>r, <2>2, <3>1
    <3> QED BY <1>0, <1>u, <1>r, <2>1, <2>2, <3>1, <3>2 DEF RunIsFree, TypeOK
  <2>7. RunIsCopied'
    BY <1>0, <1>u, <2>1, <2>2 DEF RunIsCopied
  <2> QED BY <2>4, <2>5, <2>6, <2>7 DEF RingInv
<1>7. CASE UNCHANGED vars
  BY <1>0, <1>u, <1>7 DEF vars, RingInv, TypeOK, UnreadIntact, RunIsFree, RunIsCopied
<1> QED BY <1>1, <1>2, <1>3, <1>4, <1>5, <1>6, <1>7 DEF Next

-----------------------------------------------------------------------------
\* Every variable of the ring and of the writer keeps its type.
THEOREM TypeCorrect == Spec => []TypeOK
<1>1. RingInv => TypeOK
  BY DEF RingInv
<1> QED BY InitRing, StepRing, <1>1, PTL DEF Spec

\* The BP only ever sees units the AP wrote, complete, in order and each once,
\* whatever the interleaving of __ch_write_buffer, the memcpy and
\* __ch_write_done with the BP's reads.
THEOREM NeverOverrun == Spec => []UnreadIntact
<1>1. RingInv => UnreadIntact
  BY DEF RingInv
<1> QED BY InitRing, StepRing, <1>1, PTL DEF Spec

-----------------------------------------------------------------------------
\* The books of a write in progress: what it published so far, and the room
\* still there, because only the BP moves meanwhile.  On a packet port the rest
\* fits, or the packet is a bare header that found less room than it takes.
Books ==
    pc # "idle" => /\ published - base = orig - len
                   /\ room - (orig - len) <= WriteAvail(head, tail)
                   /\ framed => \/ len <= WriteAvail(head, tail)
                                \/ orig = Hdr /\ room < Hdr

BooksInv == Books /\ AcceptedMeansWritten

\* The check of __ch_packet_write leaves room for the whole packet, unless the
\* packet is a bare header.
LEMMA RoomIsEnough ==
    ASSUME RingInv, NEW k \in Lens, HasRoom(k), framed
    PROVE  k <= WriteAvail(head, tail) \/ (k = Hdr /\ WriteAvail(head, tail) < Hdr)
<1>1. k >= Hdr /\ k \in Nat /\ Hdr \in Nat
  BY TxAssumption DEF Lens
<1>2. WriteAvail(head, tail) \in Nat
  BY ReadAvailByCases, SizeAssumption DEF RingInv, TypeOK, WriteAvail, ReadAvail
<1> QED BY <1>1, <1>2 DEF HasRoom, PacketWriteAvail

\* The BP's reads only add room.
LEMMA ReadsAddRoom ==
    ASSUME RingInv, BpRead
    PROVE  WriteAvail(head, tail) <= WriteAvail(head, tail)'
<1>1. /\ head \in Slots /\ tail \in Slots /\ Size \in Nat
      /\ ReadAvail(head, tail) \in 0 .. Size - 1
  BY ReadAvailByCases, SizeAssumption DEF RingInv, TypeOK
<1>2. PICK k \in 1 .. ReadAvail(head, tail) : tail' = Wrap(tail + k) /\ head' = head
  BY DEF BpRead
<1>3. k \in 0 .. ReadAvail(head, tail)
  BY <1>1, <1>2
<1>4. ReadAvail(head, Wrap(tail + k)) = ReadAvail(head, tail) - k
  BY <1>1, <1>3, AdvanceTail
<1>5. /\ WriteAvail(head, tail) = Size - 1 - ReadAvail(head, tail)
      /\ WriteAvail(head, tail)' = Size - 1 - ReadAvail(head, Wrap(tail + k))
  BY <1>2 DEF WriteAvail, ReadAvail
<1> QED BY <1>1, <1>2, <1>4, <1>5

\* One step preserves the books.
LEMMA StepBooks == RingInv /\ BooksInv /\ [Next]_vars => BooksInv'
<1> SUFFICES ASSUME RingInv, BooksInv, [Next]_vars PROVE BooksInv'
  OBVIOUS
<1> USE SizeAssumption, TxAssumption DEF Lens
<1>u. framed' = framed
  BY DEF Next, vars
<1>0. /\ TypeOK /\ RunIsFree /\ Books /\ AcceptedMeansWritten
      /\ head \in 0 .. Size - 1 /\ tail \in 0 .. Size - 1
      /\ published \in Nat /\ base \in Nat /\ orig \in Nat /\ len \in Nat
      /\ xfer \in Nat /\ room \in Nat /\ Hdr \in Nat
  BY DEF RingInv, BooksInv, TypeOK, Slots
<1>w. WriteAvail(head, tail) \in Nat
  BY <1>0, ReadAvailByCases DEF WriteAvail, ReadAvail, Slots
<1>1. ASSUME NEW k \in Lens, StartWrite(k) PROVE BooksInv'
  <2>1. framed => \/ k <= WriteAvail(head, tail)
                  \/ k = Hdr /\ WriteAvail(head, tail) < Hdr
    BY <1>1, RoomIsEnough DEF StartWrite
  <2>2. WriteAvail(head, tail)' = WriteAvail(head, tail)
    BY <1>1 DEF StartWrite, ring, WriteAvail
  <2>3. /\ pc' = "buffer" /\ published' - base' = 0 /\ orig' = k /\ len' = k
        /\ room' = WriteAvail(head, tail) /\ k \in Nat /\ orig' - len' = 0
    BY <1>0, <1>1 DEF StartWrite
  <2> QED BY <1>w, <1>u, <2>1, <2>2, <2>3 DEF BooksInv, Books, AcceptedMeansWritten
<1>2. ASSUME NEW k \in Lens, RefuseWrite(k) PROVE BooksInv'
  BY <1>0, <1>u, <1>2 DEF RefuseWrite, BooksInv, Books, AcceptedMeansWritten
<1>3. CASE GetBuffer
  <2>1. WriteBuffer(head, tail) = 0 <=> WriteAvail(head, tail) = 0
    BY <1>0, WriteBufferFits DEF Slots
  <2>2. WriteAvail(head, tail)' = WriteAvail(head, tail)
    BY <1>3 DEF GetBuffer, ring, WriteAvail
  <2>3. /\ pc = "buffer" /\ len \in 1 .. orig
        /\ UNCHANGED <<orig, len, published, base, room>>
        /\ published - base = orig - len
    BY <1>0, <1>u, <1>3 DEF GetBuffer, RunIsFree, Books
  <2>4. Books'
    BY <1>0, <1>u, <2>2, <2>3 DEF Books
  <2>5. CASE WriteBuffer(head, tail) = 0
    <3>1. CASE ~ framed
      <4>1. ret' = orig - len
        BY <1>3, <2>5, <3>1 DEF GetBuffer, Returned
      <4> QED BY <1>0, <1>u, <2>3, <2>4, <4>1 DEF BooksInv, AcceptedMeansWritten, EBUSY
    <3>2. CASE framed
      <4>1. ret' = orig /\ UNCHANGED framed
        BY <1>u, <1>3, <2>5, <3>2 DEF GetBuffer, Returned
      <4>2. orig = Hdr /\ room < Hdr /\ room - (orig - len) <= 0
        BY <1>0, <2>1, <2>3, <2>5, <3>2 DEF Books
      <4>3. orig - len \in room .. Hdr - 1 /\ published' - base' = orig - len
        BY <1>0, <2>3, <4>2
      <4>4. CutOff(published - base)'
        BY <1>0, <2>3, <3>2, <4>1, <4>2, <4>3 DEF CutOff
      <4>5. ret' # EBUSY
        BY <1>0, <4>1 DEF EBUSY
      <4> QED BY <2>4, <4>4, <4>5 DEF BooksInv, AcceptedMeansWritten
    <3> QED BY <3>1, <3>2
  <2>6. CASE WriteBuffer(head, tail) # 0
    BY <1>3, <2>4, <2>6 DEF GetBuffer, BooksInv, AcceptedMeansWritten
  <2> QED BY <2>5, <2>6
<1>4. CASE Copy
  <2>1. WriteAvail(head, tail)' = WriteAvail(head, tail)
    BY <1>4 DEF Copy, WriteAvail
  <2> QED BY <1>0, <1>u, <1>4, <2>1 DEF Copy, BooksInv, Books, AcceptedMeansWritten
<1>5. CASE WriteDone
  <2>1. /\ xfer \in 1 .. len /\ xfer <= WriteAvail(head, tail)
        /\ published - base = orig - len /\ len \in 1 .. orig
        /\ room - (orig - len) <= WriteAvail(head, tail)
        /\ framed => \/ len <= WriteAvail(head, tail)
                     \/ orig = Hdr /\ room < Hdr
        /\ head' = Wrap(head + xfer) /\ tail' = tail
        /\ published' = published + xfer /\ len' = len - xfer
        /\ UNCHANGED <<orig, base, room>>
    BY <1>0, <1>u, <1>5 DEF WriteDone, RunIsFree, Books
  <2>2. /\ ReadAvail(head, tail) \in 0 .. Size - 1
        /\ WriteAvail(head, tail) = Size - 1 - ReadAvail(head, tail)
        /\ xfer \in 0 .. Size - 1 - ReadAvail(head, tail)
    <3>1. /\ ReadAvail(head, tail) \in 0 .. Size - 1
          /\ WriteAvail(head, tail) = Size - 1 - ReadAvail(head, tail)
      BY <1>0, ReadAvailByCases DEF WriteAvail, ReadAvail, Slots
    <3> QED BY <1>0, <2>1, <3>1
  <2>3. WriteAvail(head, tail)' = WriteAvail(head, tail) - xfer
    <3>1. ReadAvail(Wrap(head + xfer), tail) = ReadAvail(head, tail) + xfer
      BY <1>0, <2>2, AdvanceHead DEF Slots
    <3>2. WriteAvail(head, tail)' = Size - 1 - ReadAvail(Wrap(head + xfer), tail)
      BY <2>1 DEF WriteAvail, ReadAvail
    <3> QED BY <1>0, <2>2, <3>1, <3>2
  <2>4. Books'
    BY <1>0, <1>u, <2>1, <2>2, <2>3 DEF Books
  <2>5. CASE len = xfer
    <3>1. ret' = orig
      BY <1>0, <1>u, <1>5, <2>5 DEF WriteDone, Returned
    <3> QED BY <1>0, <1>u, <2>1, <2>4, <2>5, <3>1 DEF BooksInv, AcceptedMeansWritten, EBUSY
  <2>6. CASE len # xfer
    BY <1>5, <2>4, <2>6 DEF WriteDone, BooksInv, AcceptedMeansWritten
  <2> QED BY <2>5, <2>6
<1>6. CASE BpRead
  <2>1. WriteAvail(head, tail) <= WriteAvail(head, tail)'
    BY <1>6, ReadsAddRoom
  <2>2. UNCHANGED <<pc, orig, len, ret, base, published>>
    BY <1>6 DEF BpRead, writer
  <2>r. room' = room
    BY <1>6 DEF BpRead, writer
  <2>3. WriteAvail(head, tail) \in Int /\ WriteAvail(head, tail)' \in Int
    <3>1. tail' \in Int /\ head' \in Int
      BY <1>0, <1>6 DEF BpRead, Wrap
    <3> QED BY <1>0, <3>1 DEF WriteAvail, Wrap
  <2>4. Books'
    <3>1. ASSUME pc # "idle", framed
          PROVE  len <= WriteAvail(head, tail)' \/ (orig = Hdr /\ room < Hdr)
      BY <1>0, <1>u, <2>1, <2>3, <3>1 DEF Books
    <3>2. ASSUME pc # "idle" PROVE room - (orig - len) <= WriteAvail(head, tail)'
      BY <1>0, <2>1, <2>3, <3>2 DEF Books
    <3> QED BY <1>0, <1>u, <2>2, <2>r, <3>1, <3>2 DEF Books
  <2>5. AcceptedMeansWritten'
    BY <1>0, <1>u, <2>2, <2>r DEF AcceptedMeansWritten, CutOff
  <2> QED BY <2>4, <2>5 DEF BooksInv
<1>7. CASE UNCHANGED vars
  <2>1. WriteAvail(head, tail)' = WriteAvail(head, tail)
    BY <1>7 DEF vars, ring, WriteAvail
  <2>2. UNCHANGED <<pc, orig, len, ret, base, room, published, framed>>
    BY <1>7 DEF vars, writer
  <2> QED BY <1>0, <2>1, <2>2 DEF BooksInv, Books, AcceptedMeansWritten, CutOff
<1> QED BY <1>1, <1>2, <1>3, <1>4, <1>5, <1>6, <1>7 DEF Next

\* A write that returned n put exactly n units into the channel and a refused
\* one put nothing, on stream and packet ports, but for the bare header into a
\* ring with less room than a header, of which at least that room is written
\* (the check at md.c:546 compares with its empty extension).
THEOREM WritesAreWhole == Spec => []AcceptedMeansWritten
<1>1. Init => BooksInv
  BY DEF Init, BooksInv, Books, AcceptedMeansWritten, EBUSY
<1>2. RingInv /\ BooksInv /\ [Next]_vars => BooksInv'
  BY StepBooks
<1>3. BooksInv => AcceptedMeansWritten
  BY DEF BooksInv
<1> QED BY InitRing, StepRing, <1>1, <1>2, <1>3, PTL DEF Spec

-----------------------------------------------------------------------------
(* The refinement: the ring implements the bounded FIFO of MdFifo.  Under    *)
(* the invariant the abstract queue holds the consecutive numbers from       *)
(* `consumed' to `published' - 1, and every step is one on such runs.        *)

\* The numbers of m consecutive units, from f on.
Run(f, m) == [i \in 1 .. m |-> f + i - 1]

\* What the refinement mapping shows of the ring.
Unread == [i \in 1 .. ReadAvail(head, tail) |-> fifo[Wrap(tail + i - 1)]]

LEMMA RunIsSequence ==
    ASSUME NEW f \in Int, NEW m \in Nat
    PROVE  Run(f, m) \in Seq(Int) /\ Len(Run(f, m)) = m
<1>1. Run(f, m) \in [1 .. m -> Int]
  BY DEF Run
<1>2. Run(f, m) \in Seq(Int)
  BY <1>1, SeqDef
<1> QED BY <1>1, <1>2, LenProperties DEF Run

\* Consecutive runs put end to end are a run.
LEMMA RunsConcatenate ==
    ASSUME NEW f \in Int, NEW m \in Nat, NEW n \in Nat
    PROVE  Run(f, m) \o Run(f + m, n) = Run(f, m + n)
<1> DEFINE s == Run(f, m)
           t == Run(f + m, n)
           u == Run(f, m + n)
<1>1. /\ s \in Seq(Int) /\ Len(s) = m
      /\ t \in Seq(Int) /\ Len(t) = n
      /\ u \in Seq(Int) /\ Len(u) = m + n
  BY RunIsSequence
<1>2. s \o t \in Seq(Int) /\ Len(s \o t) = m + n
  BY <1>1, ConcatProperties
<1>3. ASSUME NEW i \in 1 .. m + n PROVE (s \o t)[i] = u[i]
  <2>1. (s \o t)[i] = IF i <= m THEN s[i] ELSE t[i - m]
    <3> HIDE DEF s, t, u
    <3> QED BY <1>1, ConcatProperties
  <2>2. u[i] = f + i - 1
    BY DEF Run
  <2>3. CASE i <= m
    <3>1. s[i] = f + i - 1
      BY <2>3 DEF Run
    <3> HIDE DEF s, t, u
    <3> QED BY <2>1, <2>2, <2>3, <3>1
  <2>4. CASE i > m
    <3>1. i - m \in 1 .. n
      BY <2>4
    <3>2. t[i - m] = f + m + (i - m) - 1
      BY <3>1 DEF Run
    <3>3. f + m + (i - m) - 1 = f + i - 1 /\ ~ (i <= m)
      BY <2>4
    <3> HIDE DEF s, t, u
    <3> QED BY <2>1, <2>2, <3>2, <3>3
  <2>5. i <= m \/ i > m
    OBVIOUS
  <2> QED BY <2>3, <2>4, <2>5, Zenon
<1>4. s \o t = u
  <2> HIDE DEF s, t, u
  <2> QED BY <1>1, <1>2, <1>3, SeqEqual
<1> QED BY <1>4

\* A run without its first n units is a run.
LEMMA RunTail ==
    ASSUME NEW f \in Int, NEW m \in Nat, NEW n \in 0 .. m
    PROVE  SubSeq(Run(f, m), n + 1, m) = Run(f + n, m - n)
<1> DEFINE s == Run(f, m)
           u == Run(f + n, m - n)
           v == SubSeq(s, n + 1, m)
<1>1. /\ s \in Seq(Int) /\ Len(s) = m
      /\ u \in Seq(Int) /\ Len(u) = m - n
  BY RunIsSequence
<1>2. /\ v \in Seq(Int) /\ Len(v) = m - n
      /\ \A i \in 1 .. m - n : v[i] = s[n + i]
  <2>1. \A i \in n + 1 .. m : s[i] \in Int
    BY DEF Run
  <2> HIDE DEF s
  <2>2. /\ v \in Seq(Int)
        /\ Len(v) = IF n + 1 <= m THEN m - (n + 1) + 1 ELSE 0
        /\ \A i \in 1 .. m - (n + 1) + 1 : v[i] = s[n + 1 + i - 1]
    BY <2>1, SubSeqProperties
  <2> QED BY <2>2
<1>3. ASSUME NEW i \in 1 .. m - n PROVE v[i] = u[i]
  <2>1. n + i \in 1 .. m
    OBVIOUS
  <2>2. s[n + i] = f + (n + i) - 1 /\ u[i] = f + n + i - 1
    BY <2>1 DEF Run
  <2> QED BY <1>2, <2>2
<1>4. v = u
  <2> HIDE DEF s, u, v
  <2> QED BY <1>1, <1>2, <1>3, SeqEqual
<1> QED BY <1>4

\* Under the invariant the unread part of the ring is a run.
UnreadRuns ==
    /\ Unread = Run(consumed, published - consumed)
    /\ ReadAvail(head, tail) = published - consumed
    /\ published - consumed \in 0 .. Size - 1
    /\ published \in Nat /\ consumed \in Nat

LEMMA UnreadIsRun == RingInv => UnreadRuns
<1> SUFFICES ASSUME RingInv PROVE UnreadRuns
  OBVIOUS
<1>1. /\ ReadAvail(head, tail) = published - consumed
      /\ published \in Nat /\ consumed \in Nat
      /\ \A i \in 0 .. ReadAvail(head, tail) - 1 : fifo[Wrap(tail + i)] = consumed + i
      /\ head \in Slots /\ tail \in Slots
  BY DEF RingInv, TypeOK, UnreadIntact
<1>2. published - consumed \in 0 .. Size - 1
  BY <1>1, ReadAvailByCases, SizeAssumption
<1>3. ASSUME NEW i \in 1 .. ReadAvail(head, tail)
      PROVE  fifo[Wrap(tail + i - 1)] = consumed + i - 1
  <2>1. i - 1 \in 0 .. ReadAvail(head, tail) - 1 /\ tail \in Int
    BY <1>1, <1>2 DEF Slots
  <2>2. tail + (i - 1) = tail + i - 1
    BY <2>1
  <2> QED BY <1>1, <2>1, <2>2
<1> QED BY <1>1, <1>2, <1>3 DEF Unread, Run, UnreadRuns

LEMMA UnreadIsRunNext == RingInv' => UnreadRuns'
BY UnreadIsRun, PTL

\* What StartWrite admitted still fits under the bound of the model.
Bounded == pc # "idle" => published + len <= MaxUnits

LEMMA StepBounded == RingInv /\ Bounded /\ [Next]_vars => Bounded'
<1> SUFFICES ASSUME RingInv, Bounded, [Next]_vars PROVE Bounded'
  OBVIOUS
<1> USE DEF Bounded
<1>0. /\ published \in Nat /\ len \in Nat /\ xfer \in Nat
  BY DEF RingInv, TypeOK
<1>1. ASSUME NEW k \in Lens, StartWrite(k) \/ RefuseWrite(k) PROVE Bounded'
  BY <1>1 DEF StartWrite, RefuseWrite
<1>2. CASE GetBuffer \/ Copy
  BY <1>2 DEF GetBuffer, Copy
<1>3. CASE WriteDone
  BY <1>0, <1>3 DEF WriteDone
<1>4. CASE BpRead
  BY <1>4 DEF BpRead, writer
<1>5. CASE UNCHANGED vars
  BY <1>5 DEF vars
<1> QED BY <1>1, <1>2, <1>3, <1>4, <1>5 DEF Next

\* What the abstract queue is, before and after a step.
LEMMA AbstractQueue ==
    ASSUME RingInv, RingInv'
    PROVE  LET q  == Run(consumed, published - consumed)
               q1 == Run(consumed', published' - consumed')
           IN  /\ Len(q) = published - consumed
               /\ Fifo!Put <=> \E n \in 1 .. (Size - 1 - Len(q)) :
                                  /\ published + n <= MaxUnits
                                  /\ q1 = q \o Run(published, n)
                                  /\ published' = published + n
               /\ Fifo!Take <=> \E n \in 1 .. Len(q) :
                                  /\ q1 = SubSeq(q, n + 1, Len(q))
                                  /\ published' = published
<1> DEFINE q  == Run(consumed, published - consumed)
           q1 == Run(consumed', published' - consumed')
<1>1. Unread = q /\ Unread' = q1
  BY UnreadIsRun, UnreadIsRunNext DEF UnreadRuns, Run
<1>2. Len(q) = published - consumed
  BY UnreadIsRun, RunIsSequence DEF UnreadRuns
<1> HIDE DEF q, q1
<1>3. Fifo!Put <=> \E n \in 1 .. (Size - 1 - Len(q)) :
                      /\ published + n <= MaxUnits
                      /\ q1 = q \o Run(published, n)
                      /\ published' = published + n
  BY <1>1 DEF Fifo!Put, Unread, Run
<1>4. Fifo!Take <=> \E n \in 1 .. Len(q) :
                      /\ q1 = SubSeq(q, n + 1, Len(q))
                      /\ published' = published
  BY <1>1 DEF Fifo!Take, Unread
<1> QED BY <1>2, <1>3, <1>4 DEF q, q1

\* The advance of head is one Put of the units copied.
LEMMA WriteDonePuts ==
    ASSUME RingInv, RingInv', Bounded, WriteDone
    PROVE  Fifo!Put
<1> DEFINE m == published - consumed
<1>1. /\ published \in Nat /\ consumed \in Nat /\ m \in 0 .. Size - 1
      /\ Size \in Nat /\ MaxUnits \in Nat
  BY UnreadIsRun, SizeAssumption, TxAssumption DEF UnreadRuns
<1>2. /\ published' = published + xfer /\ consumed' = consumed
      /\ xfer \in 1 .. len /\ len \in Nat
      /\ xfer <= Size - 1 - m
      /\ published + len <= MaxUnits
  BY UnreadIsRun DEF RingInv, RunIsFree, TypeOK, WriteDone, Bounded, UnreadRuns,
                     WriteAvail, ReadAvail
<1>3. Run(consumed', published' - consumed') = Run(consumed, m) \o Run(published, xfer)
  <2>1. /\ published' - consumed' = m + xfer /\ consumed' = consumed
        /\ published = consumed + m
        /\ xfer \in Nat /\ consumed \in Int /\ m \in Nat
    BY <1>1, <1>2
  <2> HIDE DEF m
  <2>2. Run(consumed, m) \o Run(consumed + m, xfer) = Run(consumed, m + xfer)
    BY <2>1, RunsConcatenate
  <2> QED BY <2>1, <2>2
<1>4. Len(Run(consumed, m)) = m
  BY <1>1, RunIsSequence
<1>5. xfer \in 1 .. (Size - 1 - Len(Run(consumed, m))) /\ published + xfer <= MaxUnits
  BY <1>1, <1>2, <1>4
<1> QED BY <1>2, <1>3, <1>5, AbstractQueue

\* A read of the BP is one Take.
LEMMA BpReadTakes ==
    ASSUME RingInv, RingInv', BpRead
    PROVE  Fifo!Take
<1> DEFINE m == published - consumed
<1>1. /\ published \in Nat /\ consumed \in Nat /\ m \in Nat
      /\ ReadAvail(head, tail) = m
  BY UnreadIsRun, SizeAssumption DEF UnreadRuns
<1>2. PICK k \in 1 .. m : published' = published /\ consumed' = consumed + k
  BY <1>1 DEF BpRead
<1>3. Len(Run(consumed, m)) = m
  <2>1. consumed \in Int /\ m \in Nat
    BY <1>1
  <2> QED BY <2>1, RunIsSequence
<1>4. Run(consumed', published' - consumed') = SubSeq(Run(consumed, m), k + 1, m)
  <2>1. /\ k \in 0 .. m /\ published' - consumed' = m - k
        /\ consumed' = consumed + k
        /\ consumed \in Int /\ m \in Nat
    BY <1>1, <1>2
  <2> HIDE DEF m
  <2>2. SubSeq(Run(consumed, m), k + 1, m) = Run(consumed + k, m - k)
    BY <2>1, RunTail
  <2> QED BY <2>1, <2>2
<1> QED BY <1>2, <1>3, <1>4, AbstractQueue

\* Every step of the ring is a step of the FIFO or leaves it alone.
LEMMA StepFifo == RingInv /\ RingInv' /\ Bounded /\ [Next]_vars => [Fifo!Next]_(Fifo!vars)
<1> SUFFICES ASSUME RingInv, RingInv', Bounded, [Next]_vars
             PROVE  [Fifo!Next]_(Fifo!vars)
  OBVIOUS
<1>1. CASE WriteDone
  BY <1>1, WriteDonePuts DEF Fifo!Next
<1>2. CASE BpRead
  BY <1>2, BpReadTakes DEF Fifo!Next
<1>3. ASSUME UNCHANGED <<published, consumed>> PROVE UNCHANGED Fifo!vars
  <2>1. Unread' = Unread
    BY <1>3, UnreadIsRun, UnreadIsRunNext DEF UnreadRuns, Run
  <2> QED BY <1>3, <2>1 DEF Fifo!vars, Unread
<1>4. CASE GetBuffer \/ Copy \/ UNCHANGED vars
  BY <1>3, <1>4 DEF GetBuffer, Copy, vars
<1>5. ASSUME NEW k \in Lens, StartWrite(k) \/ RefuseWrite(k)
      PROVE  UNCHANGED <<published, consumed>>
  BY <1>5 DEF StartWrite, RefuseWrite
<1> QED BY <1>1, <1>2, <1>3, <1>4, <1>5 DEF Next

\* The transmit ring is a FIFO of Size - 1 units to whoever writes and reads it:
\* __ch_stream_write and __ch_packet_write against the BP, whatever the
\* interleaving, put units in at one end and take them out at the other.
THEOREM RingIsFifo == Spec => ImplementsFifo
<1>1. Init => Bounded /\ Fifo!Init
  <2> SUFFICES ASSUME Init PROVE Bounded /\ Fifo!Init
    OBVIOUS
  <2>1. RingInv
    BY InitRing
  <2>2. Unread = << >>
    BY <2>1, UnreadIsRun DEF UnreadRuns, Run, Init
  <2> QED BY <2>2 DEF Init, Bounded, Fifo!Init, Unread
<1> QED BY InitRing, StepRing, StepBounded, StepFifo, <1>1, PTL DEF Spec, ImplementsFifo, Fifo!Spec
=============================================================================
