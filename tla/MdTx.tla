-------------------------------- MODULE MdTx --------------------------------
(***************************************************************************)
(* The transmit direction of a modem port (drivers/rda/md.c): the AP       *)
(* writes with __ch_stream_write (AT and TRACE ports) or __ch_packet_write *)
(* (SYS port) while the BP, another processor, consumes concurrently.      *)
(* Writers of one port are serialized by their caller (tx_mutex for SYS),  *)
(* so there is one writer.                                                 *)
(*                                                                         *)
(* A write is split where the shared memory is touched: the pointers are   *)
(* read, the data is copied, head is advanced.  Unit number k is the k-th  *)
(* unit ever written, and its payload is that number.                      *)
(***************************************************************************)
EXTENDS MdRing

CONSTANTS Hdr,          \* sizeof(struct md_sys_hdr), in units
          PacketLens,   \* the lengths the callers of a packet port ask for
          StreamLens,   \* the lengths the callers of a stream port ask for
          MaxUnits      \* bound on the units ever written

ASSUME TxAssumption ==
    /\ Hdr \in Nat \ {0}
    /\ PacketLens \subseteq Nat \ {0}
    /\ StreamLens \subseteq Nat \ {0}
    /\ MaxUnits \in Nat
    /\ \A n \in PacketLens : n >= Hdr

VARIABLES framed,       \* TRUE: a packet port (SYS), FALSE: a stream port
          head, tail,   \* ch->pctrl
          fifo,         \* ch->pfifo
          pc,           \* where __ch_stream_write is
          orig, len,    \* orig_len and the length still to write
          xfer,         \* the run being copied
          ret,          \* what the last write returned
          published,    \* units made visible to the BP
          consumed,     \* units the BP took
          base, room    \* `published' and the room when the last write began

vars == <<framed, head, tail, fifo, pc, orig, len, xfer, ret, published,
          consumed, base, room>>

ring   == <<head, tail, fifo>>
writer == <<pc, orig, len, xfer, ret, base, room>>

EBUSY == -16

Lens == IF framed THEN PacketLens ELSE StreamLens

TypeOK ==
    /\ framed \in BOOLEAN
    /\ head \in Slots /\ tail \in Slots
    /\ fifo \in [Slots -> Nat]
    /\ pc \in {"idle", "buffer", "copy", "advance"}
    /\ orig \in Nat /\ len \in Nat /\ xfer \in Nat
    /\ ret \in Nat \cup {EBUSY}
    /\ published \in Nat /\ consumed \in Nat /\ base \in Nat /\ room \in Nat

Init ==
    /\ framed \in BOOLEAN
    /\ head = 0 /\ tail = 0
    /\ fifo = [s \in Slots |-> 0]
    /\ pc = "idle" /\ orig = 0 /\ len = 0 /\ xfer = 0 /\ ret = 0
    /\ published = 0 /\ consumed = 0 /\ base = 0 /\ room = 0

\* Faulty variant: the header is not taken off, although the check of
\* __ch_packet_write compares with the length without it.
PacketWriteAvailWithHeader == WriteAvail(head, tail)

\* __ch_packet_write_avail
PacketWriteAvail ==
    LET space == WriteAvail(head, tail)
    IN  IF space > Hdr THEN space - Hdr ELSE 0

\* The check of __ch_packet_write; a stream port has none.
HasRoom(n) == framed => PacketWriteAvail >= n - Hdr

StartWrite(n) ==
    /\ pc = "idle"
    /\ published + n <= MaxUnits
    /\ HasRoom(n)
    /\ pc' = "buffer" /\ orig' = n /\ len' = n
    /\ base' = published /\ room' = WriteAvail(head, tail)
    /\ UNCHANGED <<ring, xfer, ret, published, consumed>>

RefuseWrite(n) ==
    /\ pc = "idle"
    /\ published + n <= MaxUnits
    /\ ~ HasRoom(n)
    /\ ret' = EBUSY /\ base' = published /\ room' = WriteAvail(head, tail)
    /\ UNCHANGED <<ring, pc, orig, len, xfer, published, consumed>>

\* Faulty variant: a stream write forgets what it could not write.
ReturnedAll(left) == orig

\* A stream write returns what it wrote, a packet write the length asked for.
Returned(left) == IF framed THEN orig ELSE orig - left

\* Faulty variant: the end of the memory does not split the run.
GetBufferUnsplit ==
    /\ pc = "buffer"
    /\ xfer' = Least(WriteAvail(head, tail), len)
    /\ pc' = "copy"
    /\ UNCHANGED <<ring, orig, len, ret, published, consumed, base, room>>

\* __ch_write_buffer; a full ring ends the write.
GetBuffer ==
    /\ pc = "buffer"
    /\ xfer' = Least(WriteBuffer(head, tail), len)
    /\ IF WriteBuffer(head, tail) = 0
       THEN pc' = "idle" /\ ret' = Returned(len)
       ELSE pc' = "copy" /\ UNCHANGED ret
    /\ UNCHANGED <<ring, orig, len, published, consumed, base, room>>

\* memcpy(ptr, buf, xfer)
Copy ==
    /\ pc = "copy"
    /\ fifo' = [s \in Slots |-> IF s \in head .. head + xfer - 1
                                THEN published + (s - head) ELSE fifo[s]]
    /\ pc' = "advance"
    /\ UNCHANGED <<head, tail, orig, len, xfer, ret, published, consumed, base, room>>

\* Faulty variant: head is not masked.
WriteDoneUnmasked ==
    /\ pc = "advance"
    /\ head' = head + xfer
    /\ published' = published + xfer
    /\ len' = len - xfer
    /\ pc' = "idle" /\ ret' = Returned(0)
    /\ UNCHANGED <<tail, fifo, orig, xfer, consumed, base, room>>

\* __ch_write_done, and the end of the loop when nothing is left.
WriteDone ==
    /\ pc = "advance"
    /\ head' = Wrap(head + xfer)
    /\ published' = published + xfer
    /\ len' = len - xfer
    /\ IF len = xfer
       THEN pc' = "idle" /\ ret' = Returned(0)
       ELSE pc' = "buffer" /\ UNCHANGED ret
    /\ UNCHANGED <<tail, fifo, orig, xfer, consumed, base, room>>

\* External: the BP consumes any part of what it can see.
BpRead ==
    \E n \in 1 .. ReadAvail(head, tail) :
        /\ tail' = Wrap(tail + n)
        /\ consumed' = consumed + n
        /\ UNCHANGED <<head, fifo, writer, published>>

Next ==
    /\ UNCHANGED framed
    /\ \/ \E n \in Lens : StartWrite(n) \/ RefuseWrite(n)
       \/ GetBuffer \/ Copy \/ WriteDone
       \/ BpRead

Spec == Init /\ [][Next]_vars

-----------------------------------------------------------------------------
(* Properties *)

\* What the BP can see is exactly the units written and not yet taken, each
\* with its own payload and in order: a write never overruns unread data and
\* never publishes a unit before it is copied (__ch_write_buffer keeps one
\* slot free, __ch_write_done runs after the memcpy).
UnreadIntact ==
    /\ ReadAvail(head, tail) = published - consumed
    /\ \A i \in 0 .. ReadAvail(head, tail) - 1 :
          fifo[Wrap(tail + i)] = consumed + i

\* What __ch_packet_write calls written although it is cut off: only a bare
\* header (a command without data: md_sys.c:1029, wland_nvram.c:144), only where
\* the ring had less room than a header, and never less than that room.
CutOff(written) ==
    /\ room < Hdr /\ written \in room .. Hdr - 1

\* A write that returned n put exactly n units into the channel, and one that
\* returned -EBUSY put nothing: "If it returns -EBUSY, it means that we cann't
\* write data to sys channel" (md_sys.c:211).  The one exception is the code's:
\* for a bare header the check at md.c:546 compares the room with zero and
\* passes on a full ring, and md.c:552 returns the length whatever was written.
AcceptedMeansWritten ==
    pc = "idle" => LET written == published - base
                   IN  IF ret = EBUSY THEN written = 0
                       ELSE written = ret \/ CutOff(written)

\* The channel implements a bounded FIFO that holds Size - 1 units.
Fifo == INSTANCE MdFifo WITH
            Capacity <- Size - 1,
            produced <- published,
            q        <- [i \in 1 .. ReadAvail(head, tail) |->
                            fifo[Wrap(tail + i - 1)]]
ImplementsFifo == Fifo!Spec
=============================================================================
