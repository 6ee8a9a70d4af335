------------------------------- MODULE MdRing -------------------------------
(***************************************************************************)
(* The index arithmetic of one direction of a modem channel                *)
(* (struct md_ch, drivers/rda/md.c).  A ring of Size units lives in the    *)
(* memory shared with the baseband processor (BP); the writer owns `head', *)
(* the reader owns `tail', and one slot always stays empty so that         *)
(* head = tail means "no data".                                            *)
(*                                                                         *)
(* `& fifo_mask' is translated by `% Size': the two agree because every    *)
(* fifo_size is a power of two and fifo_mask = fifo_size - 1.              *)
(***************************************************************************)
EXTENDS Integers

CONSTANT Size           \* fifo_size, in units

ASSUME SizeAssumption == Size \in Nat /\ Size > 1

Slots == 0 .. Size - 1

Wrap(n) == n % Size

\* __ch_stream_read_avail: the units between tail and head.
ReadAvail(head, tail) == Wrap(head - tail)

\* __ch_stream_write_avail: the units that may still be written.
WriteAvail(head, tail) == (Size - 1) - Wrap(head - tail)

\* __ch_read_buffer: the contiguous readable run that starts at tail.
ReadBuffer(head, tail) == IF tail <= head THEN head - tail ELSE Size - tail

\* Faulty variant: no slot is kept empty.
WriteBufferToTheBrim(head, tail) ==
    IF head < tail THEN tail - head ELSE Size - head

\* __ch_write_buffer: the contiguous free run that starts at head.
WriteBuffer(head, tail) ==
    IF head < tail THEN tail - head - 1
    ELSE IF tail = 0 THEN Size - head - 1 ELSE Size - head

Least(a, b) == IF a < b THEN a ELSE b
=============================================================================
