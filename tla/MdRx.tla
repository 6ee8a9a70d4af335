-------------------------------- MODULE MdRx --------------------------------
(***************************************************************************)
(* The receive direction of the SYS port (drivers/rda/md.c): the BP        *)
(* publishes frames - a header that announces the length of its extension, *)
(* then the extension - and the AP takes them with rda_md_read, in the two *)
(* calls the rx worker makes (md_sys.c:696): a peek at the header that     *)
(* yields the size of the frame, and a read of that many units.            *)
(*                                                                         *)
(* A unit of shared memory is the pair <<frame, index>>.  External: the BP *)
(* makes a frame visible in as many advances of head as it likes, as the   *)
(* AP's own writer does at the end of the memory (md.c:520-534), so the    *)
(* reader may meet any part of it.                                         *)
(***************************************************************************)
EXTENDS MdRing, Sequences

CONSTANTS Hdr,          \* sizeof(struct md_sys_hdr), in units
          ExtLens,      \* the (aligned) lengths of the BP's extensions
          MaxFrames     \* bound on the frames the BP sends

ASSUME RxAssumption ==
    /\ Hdr \in Nat \ {0} /\ Hdr < Size
    /\ ExtLens \subseteq Nat
    /\ MaxFrames \in Nat

VARIABLES head, tail, fifo,     \* the shared ring
          exts,         \* ext_len of every frame sent, in order
          rest,         \* units of the last frame behind head, not yet visible
          exposed,      \* frames whose header was visible before all of them was
          pc,           \* where __ch_packet_read is
          rsize,        \* what the peek returned
          need,         \* units the current __ch_read still wants
          n,            \* the run being copied
          slot,         \* the frame slot being filled
          frames        \* the frames read, in order

vars == <<head, tail, fifo, exts, rest, exposed, pc, rsize, need, n, slot, frames>>

ring == <<head, tail, fifo>>
bp   == <<exts, rest, exposed>>

Unit  == (0 .. MaxFrames) \X (0 .. Size)
Frame(k) == [i \in 1 .. Hdr + exts[k] |-> <<k, i>>]

\* hdr->magic and hdr->ext_len, as found in the first units of a buffer.
HasMagic(buf) == buf[1][2] = 1
ExtLen(buf)   == exts[buf[1][1]]

Init ==
    /\ head = 0 /\ tail = 0 /\ fifo = [s \in Slots |-> <<0, 0>>]
    /\ exts = << >> /\ rest = 0 /\ exposed = {}
    /\ pc = "idle" /\ rsize = 0 /\ need = 0 /\ n = 0
    /\ slot = << >> /\ frames = << >>

\* External: the BP lays the next frame out behind head, when all of it fits.
BpWrite(e) ==
    /\ Len(exts) < MaxFrames
    /\ rest = 0 /\ Hdr + e <= WriteAvail(head, tail)
    /\ exts' = Append(exts, e) /\ rest' = Hdr + e
    /\ fifo' = [s \in Slots |-> IF Wrap(s - head) < Hdr + e
                                THEN <<Len(exts) + 1, Wrap(s - head) + 1>>
                                ELSE fifo[s]]
    /\ UNCHANGED <<head, tail, exposed, pc, rsize, need, n, slot, frames>>

\* External: the BP makes the next m units of it visible.
BpPublish(m) ==
    /\ head' = Wrap(head + m) /\ rest' = rest - m
    /\ exposed' = IF m < rest /\ rest - m <= exts[Len(exts)]
                  THEN exposed \cup {Len(exts)} ELSE exposed
    /\ UNCHANGED <<tail, fifo, exts, pc, rsize, need, n, slot, frames>>

\* The first m units, wherever the ring wraps, without consuming them.
Peeked(m) == [i \in 1 .. m |-> fifo[Wrap(tail + i - 1)]]

\* Faulty variant: a frame that is a bare header is not worth a read.
PeekBeyondHeader ==
    /\ pc = "idle"
    /\ ReadAvail(head, tail) > Hdr
    /\ pc' = "slot" /\ rsize' = Hdr + ExtLen(Peeked(Hdr))
    /\ UNCHANGED <<ring, bp, need, n, slot, frames>>

\* rda_md_read(port, NULL, 0): __ch_read_hdr and the checks behind it.  Less
\* than a header is -EAGAIN, which leaves the worker where it was.
Peek ==
    /\ pc = "idle"
    /\ ReadAvail(head, tail) >= Hdr
    /\ LET hdr == Peeked(Hdr)
       IN  IF HasMagic(hdr)
           THEN pc' = "slot" /\ rsize' = Hdr + ExtLen(hdr)
           ELSE pc' = "bad" /\ UNCHANGED rsize
    /\ UNCHANGED <<ring, bp, need, n, slot, frames>>

\* Faulty variant: the frame is appended to the one read before.
StartReadAppending ==
    /\ pc = "slot"
    /\ pc' = "hdr" /\ need' = Hdr
    /\ UNCHANGED <<ring, bp, rsize, n, slot, frames>>

\* rda_md_read(port, slot, rsize) starts with the header.
StartRead ==
    /\ pc = "slot"
    /\ pc' = "hdr" /\ need' = Hdr /\ slot' = << >>
    /\ UNCHANGED <<ring, bp, rsize, n, frames>>

\* __ch_packet_read returns: the worker has a frame.
Return == pc' = "idle" /\ frames' = Append(frames, slot) /\ UNCHANGED need

\* The header read is over: its checks, and on to the extension if any.
AfterHeader ==
    CASE slot = << >> -> Return
      [] slot # << >> /\ (~ HasMagic(slot) \/ rsize - Len(slot) < ExtLen(slot)) ->
            pc' = "bad" /\ UNCHANGED <<need, frames>>
      [] slot # << >> /\ HasMagic(slot) /\ ExtLen(slot) = 0 -> Return
      [] OTHER -> pc' = "ext" /\ need' = ExtLen(slot) /\ UNCHANGED frames

\* What follows the loop of the __ch_read of each part.
LoopEnds(part) == IF part = "hdr" THEN AfterHeader ELSE Return

\* One turn of the loop in __ch_read: __ch_read_buffer and the memcpy.  An
\* empty ring ends the loop early with what there is.
ReadBufferCopy(part, copied) ==
    /\ pc = part
    /\ n' = Least(ReadBuffer(head, tail), need)
    /\ slot' = slot \o [i \in 1 .. n' |-> fifo[tail + i - 1]]
    /\ IF n' = 0
       THEN LoopEnds(part)
       ELSE pc' = copied /\ UNCHANGED <<need, frames>>
    /\ UNCHANGED <<ring, bp, rsize>>

\* __ch_read_done, then the next turn or what follows the loop.
ReadDone(part, copied) ==
    /\ pc = copied
    /\ tail' = Wrap(tail + n)
    /\ IF need > n
       THEN pc' = part /\ need' = need - n /\ UNCHANGED frames
       ELSE LoopEnds(part)
    /\ UNCHANGED <<head, fifo, bp, rsize, n, slot>>

Reader ==
    \/ Peek \/ StartRead
    \/ ReadBufferCopy("hdr", "hdrcopied") \/ ReadDone("hdr", "hdrcopied")
    \/ ReadBufferCopy("ext", "extcopied") \/ ReadDone("ext", "extcopied")

Next ==
    \/ Reader
    \/ \E e \in ExtLens : BpWrite(e)
    \/ \E m \in 1 .. rest : BpPublish(m)

\* The rx worker keeps reading while data is available (md_sys.c:696); that it
\* is woken when data arrives is the subject of MdSys.
Spec == Init /\ [][Next]_vars /\ WF_vars(Reader)

-----------------------------------------------------------------------------
(* Properties *)

\* The last frame read is not all of the frame the BP sent: __ch_read came to
\* the end of what was visible and __ch_packet_read returned that.
Torn == frames # << >> /\ Len(frames[Len(frames)]) < Hdr + exts[Len(frames)]

\* The worker receives the BP's frames in order, none twice and none mixed with
\* its neighbour, although a frame may wrap around the ring, become visible in
\* pieces and have the space behind it refilled while it is copied (__ch_read,
\* __ch_packet_read).  Each is whole, but for one whose header the BP made
\* visible before the rest: the check "It might that we would read later data,
\* but BP didn't trigger interrupt" (md.c:404) waits for the header only.
\* Nothing after a torn frame is taken for a frame, and without one the error
\* returns of __ch_packet_read (bad magic, an extension longer than the size
\* peeked) are not reached.
FramesInOrder ==
    /\ Len(frames) <= Len(exts)
    /\ \A k \in 1 .. Len(frames) :
          /\ \A i \in 1 .. Len(frames[k]) : frames[k][i] = <<k, i>>
          /\ Len(frames[k]) <= Hdr + exts[k]
          /\ k < Len(frames) => frames[k] = Frame(k)
    /\ Torn => Len(frames) \in exposed
    /\ pc = "bad" => Torn

\* Every frame the BP made visible is eventually read, unless one was torn: the
\* worker then finds no header at the rest of it, now or later.
AllFramesRead ==
    \A k \in 1 .. MaxFrames :
        Len(exts) >= k /\ (rest = 0 \/ Len(exts) > k) ~> Len(frames) >= k \/ Torn
=============================================================================
