------------------------------- MODULE BitRing -------------------------------
(***************************************************************************)
(* The bitstream ring between the player and the VPU: the library calls    *)
(* vpu_DecGetBitstreamBuffer, vpu_DecUpdateBitstreamBuffer and             *)
(* vpu_DecBitBufferFlush (lib/vpu_lib.c) and the three writers of          *)
(* apps/vpu_stream.c: feed, feed_skip_to_latest/bs_ring_write (TCP, when   *)
(* behind) and rtp_direct_append/flush (RTP).  feed is TCP's writer, but   *)
(* the decode loop also calls it in RTP mode, where it receives a raw      *)
(* datagram over the access unit under assembly.  The VPU reads on its own *)
(* between any two steps.                                                  *)
(*                                                                         *)
(* Addresses are offsets from streamBufStartAddr.  A byte is represented   *)
(* by its position in the incoming stream.                                 *)
(***************************************************************************)
EXTENDS Integers

CONSTANTS
  Size,       \* STREAM_BUF_SIZE
  Chunk,      \* FEED_CHUNK_SIZE
  MinSpace,   \* 512: below this the writers wait
  Drain,      \* DRAIN_BUF_SIZE
  MaxBytes    \* bound on the length of the stream

ASSUME RingConstants ==
  /\ Size \in Nat /\ Size > 1
  /\ Chunk \in Nat \ {0}
  /\ MinSpace \in Nat \ {0}
  /\ Drain \in Nat /\ Drain < Size
  /\ MaxBytes \in Nat

VARIABLES
  mode,    \* "tcp" or "rtp" input
  phase,   \* "prime" before the sequence header is found, then "decode"
  rd,      \* the BIT_RD_PTR register
  wr,      \* streamWrPtr, which the BIT_WR_PTR register always equals
  ring,    \* the bytes in memory
  next,    \* position of the next byte to come from the stream
  eaten,   \* ghost: position of the byte the VPU has to read next
  pc,      \* where the writer is
  space,   \* the writer's snapshot of the room
  len,     \* bytes to write or to commit
  au_len, au_bad,   \* the RTP access unit under assembly
  cut,     \* ghost: were drained bytes cut off since the last resync?
  hit,     \* ghost: has feed received over the unit under assembly?
  torn     \* ghost: was such a unit committed since vpu_DecOpen?

rvars == <<mode, phase, rd, wr, ring, next, eaten, pc, space, len, au_len, au_bad, cut, hit, torn>>

Offsets == 0..Size-1

\* How far b is ahead of a on the ring.
Dist(a, b) == IF b >= a THEN b - a ELSE b - a + Size
Used == Dist(rd, wr)

\* A copy that goes on past the end of the buffer instead of wrapping.
Copy_unwrapped(f, a, n, q) ==
  [i \in Offsets |-> IF i >= a /\ i < a + n THEN q + (i - a) ELSE f[i]]

\* The ring f after n bytes, the first at position q of the stream, were copied to
\* memory from offset a on, wrapping at the end (both memcpy calls).
Copy(f, a, n, q) ==
  [i \in Offsets |-> IF Dist(a, i) < n THEN q + Dist(a, i) ELSE f[i]]

\* The ring when n bytes of the stream go before a unit that is staged, whole, at
\* the write pointer: the same bytes, each n positions later in the stream.
Staged(n) ==
  [i \in Offsets |-> IF ~hit /\ Dist(wr, i) < au_len THEN ring[i] + n ELSE ring[i]]

-----------------------------------------------------------------------------
\* Room that counts the byte kept free between write and read pointer.
Room_full ==
  IF wr < rd THEN rd - wr ELSE (Size - wr) + rd

\* vpu_DecGetBitstreamBuffer
Room ==
  IF wr < rd THEN rd - wr - 1 ELSE (Size - wr) + rd - 1

\* A commit that forgets to wrap a pointer that lands on the end.
Advance_end(n) == IF wr + n > Size THEN wr + n - Size ELSE wr + n

\* The pointer arithmetic of vpu_DecUpdateBitstreamBuffer.
Advance(n) == IF wr + n >= Size THEN wr + n - Size ELSE wr + n

\* It refuses a size that would run into the read pointer, if that is ahead.
Refused(n) == wr < rd /\ rd <= wr + n

\* vpu_DecUpdateBitstreamBuffer(len)
Update ==
  /\ pc = "update"
  /\ wr' = IF Refused(len) THEN wr ELSE Advance(len)
  /\ len' = 0
  /\ pc' = "idle"
  /\ UNCHANGED <<mode, phase, rd, ring, next, eaten, space, au_len, au_bad, cut, hit, torn>>

-----------------------------------------------------------------------------
\* feed: room is asked for, the socket is waited for, bytes are received into
\* the ring up to its end, and committed.  The decode loop calls feed(h, 1)
\* whatever the input and the level of the ring when a picture was neither
\* decoded nor shown; in RTP mode the socket gives it a raw datagram.

FeedGet ==
  /\ pc = "idle"
  /\ mode = "tcp" \/ phase = "decode"
  /\ Room >= MinSpace
  /\ space' = Room
  /\ pc' = "feed"
  /\ UNCHANGED <<mode, phase, rd, wr, ring, next, eaten, len, au_len, au_bad, cut, hit, torn>>

\* A feed that trusts the room and not the end of the buffer.
FeedRecv_pastend ==
  /\ pc = "feed"
  /\ \E n \in 1..Chunk :
        /\ n <= space /\ next + au_len + n <= MaxBytes
        /\ ring' = Copy_unwrapped(Staged(n), wr, n, next)
        /\ len' = n
        /\ next' = next + n
  /\ hit' = (hit \/ au_len > 0)
  /\ pc' = "update"
  /\ UNCHANGED <<mode, phase, rd, wr, eaten, space, au_len, au_bad, cut, torn>>

FeedRecv ==
  /\ pc = "feed"
  /\ \E n \in 1..Chunk :
        /\ n <= space /\ n <= Size - wr /\ next + au_len + n <= MaxBytes
        /\ ring' = Copy(Staged(n), wr, n, next)
        /\ len' = n
        /\ next' = next + n
  /\ hit' = (hit \/ au_len > 0)
  /\ pc' = "update"
  /\ UNCHANGED <<mode, phase, rd, wr, eaten, space, au_len, au_bad, cut, torn>>

\* The poll times out, or recv has nothing.
FeedNothing ==
  /\ pc = "feed"
  /\ pc' = "idle"
  /\ UNCHANGED <<mode, phase, rd, wr, ring, next, eaten, space, len, au_len, au_bad, cut, hit, torn>>

-----------------------------------------------------------------------------
\* feed_skip_to_latest: drain the socket; from an I-VOP on, if one is found,
\* after vpu_DecBitBufferFlush; else unchanged.  When the player is behind (32768
\* bytes pending or 256K used, not AVC) is left open: it may happen at any time.

SkipResync ==
  /\ pc = "idle" /\ mode = "tcp" /\ phase = "decode"
  /\ \E total \in 1..Drain : \E start_at \in 0..total-1 :
        /\ next + total <= MaxBytes
        /\ next' = next + total
        /\ len' = total - start_at
        /\ eaten' = next + start_at
  /\ rd' = 0 /\ wr' = 0
  /\ cut' = FALSE
  /\ pc' = "ring"
  /\ UNCHANGED <<mode, phase, ring, space, au_len, au_bad, hit, torn>>

SkipNoKeyFrame ==
  /\ pc = "idle" /\ mode = "tcp" /\ phase = "decode"
  /\ \E total \in 1..Drain :
        /\ next + total <= MaxBytes
        /\ next' = next + total
        /\ len' = total
  /\ pc' = "ring"
  /\ UNCHANGED <<mode, phase, rd, wr, ring, eaten, space, au_len, au_bad, cut, hit, torn>>

\* bs_ring_write: what does not fit is cut off.
bs_ring_write ==
  /\ pc = "ring"
  /\ LET n == IF len > Room THEN Room ELSE len
     IN /\ ring' = Copy(ring, wr, n, next - len)
        /\ len' = n
        /\ cut' = (cut \/ n < len)
        /\ pc' = IF n > 0 THEN "update" ELSE "idle"
  /\ UNCHANGED <<mode, phase, rd, wr, next, eaten, space, au_len, au_bad, hit, torn>>

-----------------------------------------------------------------------------
\* RTP: packets are appended behind the write pointer and committed as one
\* access unit.

\* An append that looks only at the packet, not at what the unit already holds.
RtpAppend_alone ==
  /\ pc = "idle" /\ mode = "rtp"
  /\ \E n \in 1..Chunk :
        /\ next + au_len + n <= MaxBytes
        /\ IF n + MinSpace >= Room
             THEN au_bad' = TRUE /\ UNCHANGED <<ring, au_len>>
             ELSE /\ ring' = Copy(ring, (wr + au_len) % Size, n, next + au_len)
                  /\ au_len' = au_len + n
                  /\ UNCHANGED au_bad
  /\ UNCHANGED <<mode, phase, rd, wr, next, eaten, pc, space, len, cut, hit, torn>>

\* rtp_direct_append; wr + au_len is below 2 * Size, so % Size is one subtraction.
RtpAppend ==
  /\ pc = "idle" /\ mode = "rtp"
  /\ \E n \in 1..Chunk :
        /\ next + au_len + n <= MaxBytes
        /\ IF au_len + n + MinSpace >= Room
             THEN au_bad' = TRUE /\ UNCHANGED <<ring, au_len>>
             ELSE /\ ring' = Copy(ring, IF wr + au_len >= Size THEN wr + au_len - Size
                                                              ELSE wr + au_len,
                                  n, next + au_len)
                  /\ au_len' = au_len + n
                  /\ UNCHANGED au_bad
  /\ UNCHANGED <<mode, phase, rd, wr, next, eaten, pc, space, len, cut, hit, torn>>

\* rtp_direct_flush of a good unit: as many bytes as were appended are committed
\* from the write pointer on, wherever that is by now.
RtpCommit ==
  /\ pc = "idle" /\ mode = "rtp"
  /\ au_len > 0 /\ ~au_bad
  /\ len' = au_len
  /\ next' = next + au_len
  /\ au_len' = 0
  /\ torn' = (torn \/ hit) /\ hit' = FALSE
  /\ pc' = "update"
  /\ UNCHANGED <<mode, phase, rd, wr, ring, eaten, space, au_bad, cut>>

\* A bad unit, or one whose end was lost, is dropped (rtp_direct_reset), or a
\* sequence gap spoils it (au_bad).  A datagram that feed took is such a gap,
\* unless it was the duplicate of another or no packet of the stream at all.
RtpDrop ==
  /\ pc = "idle" /\ mode = "rtp"
  /\ au_len' = 0 /\ au_bad' = FALSE /\ hit' = FALSE
  /\ UNCHANGED <<mode, phase, rd, wr, ring, next, eaten, pc, space, len, cut, torn>>

RtpGap ==
  /\ pc = "idle" /\ mode = "rtp"
  /\ au_bad' = TRUE
  /\ UNCHANGED <<mode, phase, rd, wr, ring, next, eaten, pc, space, len, au_len, cut, hit, torn>>

-----------------------------------------------------------------------------
\* The VPU consumes a byte it was told of.
VpuRead ==
  /\ rd # wr
  /\ rd' = IF rd + 1 = Size THEN 0 ELSE rd + 1
  /\ eaten' = eaten + 1
  /\ UNCHANGED <<mode, phase, wr, ring, next, pc, space, len, au_len, au_bad, cut, hit, torn>>

\* The sequence header is found: the decode loop begins.
Primed ==
  /\ pc = "idle" /\ phase = "prime"
  /\ phase' = "decode"
  /\ UNCHANGED <<mode, rd, wr, ring, next, eaten, pc, space, len, au_len, au_bad, cut, hit, torn>>

\* The session ends; vpu_DecOpen of the next one resets both pointers.
Reopen ==
  /\ pc = "idle"
  /\ rd' = 0 /\ wr' = 0
  /\ eaten' = next
  /\ phase' = "prime"
  /\ cut' = FALSE
  /\ au_len' = 0 /\ au_bad' = FALSE
  /\ hit' = FALSE /\ torn' = FALSE
  /\ UNCHANGED <<mode, ring, next, pc, space, len>>

RInit ==
  /\ mode \in {"tcp", "rtp"}
  /\ phase = "prime"
  /\ rd = 0 /\ wr = 0
  /\ ring = [i \in Offsets |-> 0]
  /\ next = 0 /\ eaten = 0
  /\ pc = "idle"
  /\ space = 0 /\ len = 0
  /\ au_len = 0 /\ au_bad = FALSE
  /\ cut = FALSE /\ hit = FALSE /\ torn = FALSE

RNext ==
  \/ Update \/ FeedGet \/ FeedRecv \/ FeedNothing
  \/ SkipResync \/ SkipNoKeyFrame \/ bs_ring_write
  \/ RtpAppend \/ RtpCommit \/ RtpDrop \/ RtpGap
  \/ VpuRead \/ Primed \/ Reopen

RSpec == RInit /\ [][RNext]_rvars

-----------------------------------------------------------------------------
\* Properties.

RTypeOK ==
  /\ mode \in {"tcp", "rtp"}
  /\ phase \in {"prime", "decode"}
  /\ rd \in Offsets /\ wr \in Offsets
  /\ ring \in [Offsets -> Nat]
  /\ next \in Nat /\ eaten \in Nat
  /\ pc \in {"idle", "feed", "ring", "update"}
  /\ space \in 0..Size-1
  /\ len \in 0..Size-1
  /\ au_len \in 0..Size-1
  /\ au_bad \in BOOLEAN /\ cut \in BOOLEAN /\ hit \in BOOLEAN /\ torn \in BOOLEAN

\* From the read pointer to the write pointer the VPU finds exactly the bytes of
\* the stream it has not seen yet, in order: nothing is overwritten before it is
\* read, and no writer puts a byte in the wrong place, although the read pointer
\* moves between the room query and the commit, and in RTP mode feed may move the
\* write pointer under a unit that is being assembled.  A chunk that was cut off
\* leaves a hole until the next resync, and the commit of a unit that feed has
\* received over leaves wrong bytes (feed, bs_ring_write, rtp_direct_append).
NoHole ==
  ~cut /\ ~torn =>
    \A i \in Offsets : Dist(rd, i) < Used => ring[i] = eaten + Dist(rd, i)

\* No byte taken from the input is lost unless a chunk is cut off or a torn unit
\* committed: it is read, in the ring, or about to be written or committed (feed,
\* feed_skip_to_latest, rtp_direct_flush).
Lossless ==
  ~cut /\ ~torn => next = eaten + Used + (IF pc \in {"ring", "update"} THEN len ELSE 0)

\* Even when drained bytes are cut off, the VPU sees the bytes that remain in
\* stream order, each once: the writers never overwrite or rearrange, as long as
\* the RTP receiver does not commit a unit that feed has received over.
InOrder ==
  ~torn => \A i, j \in Offsets :
             Dist(rd, i) < Dist(rd, j) /\ Dist(rd, j) < Used => ring[i] < ring[j]

\* What was sized by vpu_DecGetBitstreamBuffer is never refused by
\* vpu_DecUpdateBitstreamBuffer, whose result the writers ignore; only the room of
\* a unit that feed has received over was sized against an older write pointer.
CommitAccepted == ~torn /\ pc = "update" => ~Refused(len) /\ len <= Room

\* What the RTP receiver commits is the access unit it assembled, whole and in
\* place (HANDOFF.md: "The VPU write pointer is advanced only after a complete
\* marker-terminated access unit with no RTP sequence gap").
UnitWhole ==
  mode = "rtp" /\ pc = "update" =>
    \A i \in Offsets : Dist(wr, i) < len => ring[i] = (next - len) + Dist(wr, i)
=============================================================================
