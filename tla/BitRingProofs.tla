--------------------------- MODULE BitRingProofs ---------------------------
(***************************************************************************)
(* Safety of the bitstream ring for every buffer size, chunk size and      *)
(* stream length.                                                          *)
(***************************************************************************)
EXTENDS BitRing, TLAPS

\* Bytes in memory behind the write pointer that are not committed yet; a unit
\* that feed has received over is not counted any more.
Pending == IF pc = "update" THEN len ELSE IF hit THEN 0 ELSE au_len

\* The committed and the pending bytes leave one byte free.
Fits == Used + Pending <= Size - 1

\* The m bytes of f behind the read pointer r are the stream's, from position q on.
Exact(f, r, m, q) == \A i \in Offsets : Dist(r, i) < m => f[i] = q + Dist(r, i)

\* They are in stream order, and all from before position b.
Ordered(f, r, m, b) ==
  /\ \A i, j \in Offsets : Dist(r, i) < Dist(r, j) /\ Dist(r, j) < m => f[i] < f[j]
  /\ \A i \in Offsets : Dist(r, i) < m => f[i] < b

\* The position of the next byte to be put into memory.
Front ==
  IF pc = "ring" THEN next - len
  ELSE IF pc = "update" \/ hit THEN next ELSE next + au_len

\* The committed and the pending bytes are exact until a chunk is cut off...
Contents == ~cut => Exact(ring, rd, Used + Pending, eaten)

\* ...and ordered in any case.
Order == Ordered(ring, rd, Used + Pending, Front)

\* Before a writer has received, the committed bytes are all from before next.
Committed == pc \in {"idle", "feed"} => Ordered(ring, rd, Used, next)

\* What the writer knows between its steps.
Writer ==
  /\ mode = "tcp" \/ pc = "ring" => au_len = 0
  /\ pc = "update" => len > 0 /\ (hit \/ au_len = 0)
  /\ pc = "feed" => space <= Room
  /\ pc = "ring" => len > 0 /\ len <= next

\* What holds of the ring until a unit that feed has received over is committed.
Sound == Fits /\ Contents /\ Order /\ Committed /\ Lossless

\* The inductive invariant.
RInv == RTypeOK /\ Writer /\ (~torn => Sound)

\* The library's room is what the ring has left, less one byte.
LEMMA RoomIsRest ==
  ASSUME RTypeOK PROVE Room = Size - 1 - Used /\ Used \in 0..Size-1
  BY RingConstants DEF RTypeOK, Room, Used, Dist, Offsets

\* Distances are natural numbers.
LEMMA DistNat == \A i, j \in Offsets : Dist(i, j) \in Nat
  BY RingConstants DEF Dist, Offsets

\* No byte at all is exact and ordered.
LEMMA NoBytes ==
  ASSUME NEW f, NEW r \in Offsets, NEW q, NEW b
  PROVE  Exact(f, r, 0, q) /\ Ordered(f, r, 0, b)
<1>1. \A i \in Offsets : ~(Dist(r, i) < 0)
  BY DistNat
<1> QED
  BY <1>1 DEF Exact, Ordered

\* A later bound is a bound.
LEMMA LaterBound ==
  ASSUME NEW f \in [Offsets -> Nat], NEW r, NEW m, NEW b \in Int, NEW d \in Int, b <= d,
         Ordered(f, r, m, b)
  PROVE  Ordered(f, r, m, d)
<1>1. \A i \in Offsets : f[i] \in Nat
  OBVIOUS
<1> QED
  BY <1>1 DEF Ordered

\* The ring is empty and nothing is pending at the start.
LEMMA RInitInv == RInit => RInv
<1> SUFFICES ASSUME RInit PROVE RInv
  OBVIOUS
<1>1. RTypeOK
  <2>1. au_bad \in BOOLEAN /\ cut \in BOOLEAN /\ hit \in BOOLEAN /\ torn \in BOOLEAN
    BY DEF RInit
  <2>2. ring \in [Offsets -> Nat]
    BY DEF RInit
  <2> QED
    BY <2>1, <2>2, RingConstants DEF RInit, RTypeOK, Offsets
<1>2. Used = 0 /\ Pending = 0 /\ rd \in Offsets
  BY RingConstants DEF RInit, Used, Dist, Pending, Offsets
<1>3. Fits
  BY <1>2, RingConstants DEF Fits
<1>4. Contents /\ Order
  BY <1>2, NoBytes DEF Contents, Order
<1>c. Committed
  BY <1>2, NoBytes DEF Committed
<1>5. Writer /\ Lossless
  BY <1>2 DEF Writer, Lossless, RInit
<1> QED
  BY <1>1, <1>3, <1>4, <1>c, <1>5 DEF RInv, Sound

\* An offset less than m + n bytes behind the read pointer r is either one of
\* the n bytes copied to offset a, which is m bytes behind r, or in front of a.
LEMMA CopyOffsets ==
  ASSUME NEW r \in Offsets, NEW a \in Offsets, NEW n \in Nat,
         Dist(r, a) + n <= Size - 1,
         NEW i \in Offsets, Dist(r, i) < Dist(r, a) + n
  PROVE  /\ Dist(a, i) < n => Dist(r, i) = Dist(r, a) + Dist(a, i)
         /\ ~(Dist(a, i) < n) => Dist(r, i) < Dist(r, a)
  BY RingConstants DEF Dist, Offsets

\* g is f with n bytes of the stream, from position q on, copied to offset a.
IsCopy(g, f, a, n, q) ==
  /\ g \in [Offsets -> Nat]
  /\ \A i \in Offsets : g[i] = IF Dist(a, i) < n THEN q + Dist(a, i) ELSE f[i]

\* Copy is one.
LEMMA CopyIsCopy ==
  ASSUME NEW f \in [Offsets -> Nat], NEW a \in Offsets, NEW n \in Nat, NEW q \in Nat
  PROVE  IsCopy(Copy(f, a, n, q), f, a, n, q)
<1>1. \A i \in Offsets : Dist(a, i) \in Nat /\ f[i] \in Nat
  BY DistNat
<1> QED
  BY <1>1 DEF IsCopy, Copy

\* A copy to the end of the known bytes extends them.
LEMMA CopyExtends ==
  ASSUME NEW f \in [Offsets -> Nat], NEW g, NEW r \in Offsets, NEW a \in Offsets,
         NEW n \in Nat, NEW q \in Nat, NEW e \in Nat,
         IsCopy(g, f, a, n, q), Dist(r, a) + n <= Size - 1
  PROVE  /\ Exact(f, r, Dist(r, a), e) /\ q = e + Dist(r, a) => Exact(g, r, Dist(r, a) + n, e)
         /\ Ordered(f, r, Dist(r, a), q) => Ordered(g, r, Dist(r, a) + n, q + n)
<1>1. /\ Dist(r, a) \in Nat
      /\ \A i \in Offsets : Dist(r, i) \in Nat /\ Dist(a, i) \in Nat /\ f[i] \in Nat
  BY DistNat
<1>2. \A i \in Offsets : Dist(r, i) < Dist(r, a) + n =>
         \/ Dist(a, i) < n /\ Dist(r, i) = Dist(r, a) + Dist(a, i) /\ g[i] = q + Dist(a, i)
         \/ Dist(r, i) < Dist(r, a) /\ g[i] = f[i]
  BY CopyOffsets DEF IsCopy
<1>3. ASSUME Exact(f, r, Dist(r, a), e), q = e + Dist(r, a)
      PROVE  Exact(g, r, Dist(r, a) + n, e)
  <2>1. ASSUME NEW i \in Offsets, Dist(r, i) < Dist(r, a) + n PROVE g[i] = e + Dist(r, i)
    BY <1>1, <1>2, <1>3, <2>1 DEF Exact
  <2> QED
    BY <2>1 DEF Exact
<1>4. ASSUME Ordered(f, r, Dist(r, a), q)
      PROVE  Ordered(g, r, Dist(r, a) + n, q + n)
  <2>1. ASSUME NEW i \in Offsets, Dist(r, i) < Dist(r, a) + n PROVE g[i] < q + n
    BY <1>1, <1>2, <1>4, <2>1 DEF Ordered
  <2>2. ASSUME NEW i \in Offsets, NEW j \in Offsets,
               Dist(r, i) < Dist(r, j), Dist(r, j) < Dist(r, a) + n
        PROVE  g[i] < g[j]
    <3>1. Dist(r, i) < Dist(r, a) + n
      BY <1>1, <2>2
    <3>2. CASE Dist(r, j) < Dist(r, a) /\ g[j] = f[j]
      BY <1>1, <1>2, <1>4, <2>2, <3>1, <3>2 DEF Ordered
    <3>3. CASE Dist(a, j) < n /\ Dist(r, j) = Dist(r, a) + Dist(a, j) /\ g[j] = q + Dist(a, j)
      BY <1>1, <1>2, <1>4, <2>2, <3>1, <3>3 DEF Ordered
    <3> QED
      BY <1>2, <2>2, <3>2, <3>3
  <2> QED
    BY <2>1, <2>2 DEF Ordered
<1> QED
  BY <1>3, <1>4

\* What holds of the first k bytes holds of any memory that has the same ones.
LEMMA SameBytes ==
  ASSUME NEW f, NEW g, NEW r \in Offsets, NEW k \in Nat, NEW b, NEW e,
         \A i \in Offsets : Dist(r, i) < k => g[i] = f[i]
  PROVE  /\ Exact(f, r, k, e) => Exact(g, r, k, e)
         /\ Ordered(f, r, k, b) => Ordered(g, r, k, b)
<1>1. \A i \in Offsets : Dist(r, i) \in Nat
  BY DistNat
<1>2. ASSUME Exact(f, r, k, e) PROVE Exact(g, r, k, e)
  BY <1>2 DEF Exact
<1>3. ASSUME Ordered(f, r, k, b) PROVE Ordered(g, r, k, b)
  BY <1>1, <1>3 DEF Ordered
<1> QED
  BY <1>2, <1>3

\* A copy behind the first k bytes leaves them alone.
LEMMA CopyKeeps ==
  ASSUME NEW f \in [Offsets -> Nat], NEW g, NEW r \in Offsets, NEW a \in Offsets,
         NEW n \in Nat, NEW q \in Nat, NEW k \in Nat,
         IsCopy(g, f, a, n, q), Dist(r, a) + n <= Size - 1, k <= Dist(r, a)
  PROVE  \A i \in Offsets : Dist(r, i) < k => g[i] = f[i]
<1>1. ASSUME NEW i \in Offsets, Dist(r, i) < k PROVE ~(Dist(a, i) < n)
  BY <1>1, RingConstants DEF Dist, Offsets
<1> QED
  BY <1>1 DEF IsCopy

\* The first of m known bytes are known.
LEMMA Fewer ==
  ASSUME NEW f, NEW r \in Offsets, NEW m \in Nat, NEW k \in Nat, k <= m, NEW e,
         Exact(f, r, m, e)
  PROVE  Exact(f, r, k, e)
<1>1. \A i \in Offsets : Dist(r, i) \in Nat
  BY DistNat
<1> QED
  BY <1>1 DEF Exact

\* Bytes that come before a staged unit do not touch the committed ones.
LEMMA StagedKeeps ==
  ASSUME RTypeOK, NEW n \in Nat, hit \/ Used + au_len <= Size - 1
  PROVE  /\ Staged(n) \in [Offsets -> Nat]
         /\ \A i \in Offsets : Dist(rd, i) < Used => Staged(n)[i] = ring[i]
<1>1. \A i \in Offsets : ring[i] \in Nat /\ ring[i] + n \in Nat
  BY DEF RTypeOK
<1>2. Staged(n) \in [Offsets -> Nat]
  BY <1>1 DEF Staged
<1>3. ASSUME NEW i \in Offsets, Dist(rd, i) < Used, ~hit PROVE ~(Dist(wr, i) < au_len)
  BY <1>3, RingConstants DEF RTypeOK, Used, Dist, Offsets
<1> QED
  BY <1>2, <1>3 DEF Staged

\* One byte read moves the known bytes on by one.
LEMMA ReadShrinks ==
  ASSUME NEW f \in [Offsets -> Nat], NEW r \in Offsets, NEW s \in Offsets,
         s = (IF r + 1 = Size THEN 0 ELSE r + 1),
         NEW m \in Nat, m < Size - 1, NEW e \in Nat, NEW b
  PROVE  /\ Exact(f, r, m + 1, e) => Exact(f, s, m, e + 1)
         /\ Ordered(f, r, m + 1, b) => Ordered(f, s, m, b)
<1>1. ASSUME NEW i \in Offsets, Dist(s, i) < m
      PROVE  Dist(r, i) = Dist(s, i) + 1 /\ Dist(s, i) \in Nat
  BY <1>1, RingConstants DEF Dist, Offsets
<1>2. ASSUME Exact(f, r, m + 1, e) PROVE Exact(f, s, m, e + 1)
  <2>1. ASSUME NEW i \in Offsets, Dist(s, i) < m PROVE f[i] = (e + 1) + Dist(s, i)
    <3>1. Dist(r, i) = Dist(s, i) + 1 /\ Dist(s, i) \in Nat
      BY <1>1, <2>1
    <3>2. f[i] = e + Dist(r, i)
      BY <1>2, <2>1, <3>1 DEF Exact
    <3> QED
      BY <3>1, <3>2
  <2> QED
    BY <2>1 DEF Exact
<1>3. ASSUME Ordered(f, r, m + 1, b) PROVE Ordered(f, s, m, b)
  <2>1. ASSUME NEW i \in Offsets, Dist(s, i) < m PROVE f[i] < b
    <3>1. Dist(r, i) < m + 1
      BY <1>1, <2>1
    <3> QED
      BY <1>3, <3>1 DEF Ordered
  <2>2. ASSUME NEW i \in Offsets, NEW j \in Offsets, Dist(s, i) < Dist(s, j), Dist(s, j) < m
        PROVE  f[i] < f[j]
    <3>1. Dist(s, i) < m
      BY <2>2, DistNat
    <3>2. Dist(r, i) < Dist(r, j) /\ Dist(r, j) < m + 1
      BY <1>1, <2>2, <3>1
    <3> QED
      BY <1>3, <3>2 DEF Ordered
  <2> QED
    BY <2>1, <2>2 DEF Ordered
<1> QED
  BY <1>2, <1>3

\* Every step keeps the types and what the writer knows: whatever was committed,
\* the pointers stay in the buffer.
LEMMA RTypeNext == RTypeOK /\ Writer /\ [RNext]_rvars => RTypeOK' /\ Writer'
<1> SUFFICES ASSUME RTypeOK, Writer, [RNext]_rvars PROVE RTypeOK' /\ Writer'
  OBVIOUS
<1> USE RingConstants
<1>a. Room = Size - 1 - Used /\ Used \in 0..Size-1
  BY RoomIsRest
<1>b. /\ rd \in Offsets /\ wr \in Offsets /\ ring \in [Offsets -> Nat]
      /\ eaten \in Nat /\ next \in Nat /\ len \in 0..Size-1 /\ au_len \in 0..Size-1
      /\ space \in 0..Size-1 /\ au_bad \in BOOLEAN /\ cut \in BOOLEAN
      /\ hit \in BOOLEAN /\ torn \in BOOLEAN
  BY DEF RTypeOK
<1>1. CASE Update
  <2>1. wr' \in Offsets
    BY <1>1, <1>b DEF Update, Advance, Offsets
  <2> QED
    BY <1>1, <2>1 DEF Update, RTypeOK, Writer
<1>2. CASE FeedGet
  <2>1. space' \in 0..Size-1 /\ space' = Room /\ Room' = Room
    BY <1>2, <1>a DEF FeedGet, Room
  <2> QED
    BY <1>2, <2>1 DEF FeedGet, RTypeOK, Writer
<1>3. CASE FeedRecv
  <2>1. PICK n \in 1..Chunk :
          n <= space /\ ring' = Copy(Staged(n), wr, n, next) /\ len' = n /\ next' = next + n
    BY <1>3 DEF FeedRecv
  <2>2. n \in Nat /\ n > 0 /\ len' \in 0..Size-1 /\ next' \in Nat /\ len' > 0
    BY <1>b, <2>1
  <2>3. ring' \in [Offsets -> Nat]
    <3>1. \A i \in Offsets : ring[i] \in Nat /\ ring[i] + n \in Nat
      BY <1>b, <2>2
    <3>2. Staged(n) \in [Offsets -> Nat]
      BY <3>1 DEF Staged
    <3> QED
      BY <1>b, <2>1, <2>2, <3>2, CopyIsCopy DEF IsCopy
  <2>4. hit' \in BOOLEAN /\ (hit' \/ au_len' = 0)
    <3>1. au_len > 0 \/ au_len = 0
      BY <1>b
    <3>2. hit' = (hit \/ au_len > 0) /\ au_len' = au_len
      BY <1>3 DEF FeedRecv
    <3> QED
      BY <3>1, <3>2
  <2>5. /\ mode' = mode /\ phase' = phase /\ rd' = rd /\ wr' = wr /\ eaten' = eaten
        /\ space' = space /\ au_len' = au_len /\ au_bad' = au_bad /\ cut' = cut
        /\ torn' = torn /\ pc' = "update"
    BY <1>3 DEF FeedRecv
  <2>6. RTypeOK'
    BY <1>b, <2>2, <2>3, <2>4, <2>5 DEF RTypeOK
  <2>7. Writer'
    BY <2>2, <2>4, <2>5 DEF Writer
  <2> QED
    BY <2>6, <2>7
<1>4. CASE FeedNothing
  BY <1>4 DEF FeedNothing, RTypeOK, Writer
<1>5. CASE SkipResync
  <2>1. PICK total \in 1..Drain : \E start_at \in 0..total-1 :
          /\ next' = next + total /\ len' = total - start_at /\ eaten' = next + start_at
    BY <1>5 DEF SkipResync
  <2>2. PICK start_at \in 0..total-1 :
          /\ next' = next + total /\ len' = total - start_at /\ eaten' = next + start_at
    BY <2>1
  <2>3. /\ next' \in Nat /\ eaten' \in Nat /\ len' \in 0..Size-1 /\ len' > 0
        /\ len' <= next'
    BY <2>2, <1>b
  <2>c. cut' \in BOOLEAN
    BY <1>5 DEF SkipResync
  <2>4. au_len' = 0 /\ rd' \in Offsets /\ wr' \in Offsets /\ pc' = "ring"
    BY <1>5 DEF SkipResync, Writer, Offsets
  <2> QED
    BY <1>5, <2>3, <2>4, <2>c DEF SkipResync, RTypeOK, Writer
<1>6. CASE SkipNoKeyFrame
  <2>1. PICK total \in 1..Drain : next' = next + total /\ len' = total
    BY <1>6 DEF SkipNoKeyFrame
  <2>2. next' \in Nat /\ len' \in 0..Size-1 /\ len' > 0 /\ len' <= next'
    BY <2>1, <1>b
  <2>3. au_len' = 0 /\ pc' = "ring"
    BY <1>6 DEF SkipNoKeyFrame, Writer
  <2> QED
    BY <1>6, <2>2, <2>3 DEF SkipNoKeyFrame, RTypeOK, Writer
<1>7. CASE bs_ring_write
  <2> DEFINE n == IF len > Room THEN Room ELSE len
             q == next - len
  <2>0. au_len = 0 /\ len > 0 /\ q \in Nat
    BY <1>7, <1>b DEF bs_ring_write, Writer
  <2>1. n \in Nat /\ n \in 0..Size-1
    BY <1>a, <1>b
  <2>2. /\ ring' = Copy(ring, wr, n, q) /\ len' = n /\ cut' = (cut \/ n < len)
        /\ pc' = IF n > 0 THEN "update" ELSE "idle"
    BY <1>7 DEF bs_ring_write
  <2> HIDE DEF n, q
  <2>3. ring' \in [Offsets -> Nat]
    BY <1>b, <2>0, <2>1, <2>2, CopyIsCopy DEF IsCopy
  <2>4. cut' \in BOOLEAN
    BY <2>2
  <2>5. /\ mode' = mode /\ phase' = phase /\ rd' = rd /\ wr' = wr /\ eaten' = eaten
        /\ space' = space /\ au_len' = au_len /\ au_bad' = au_bad /\ next' = next
        /\ hit' = hit /\ torn' = torn
    BY <1>7 DEF bs_ring_write
  <2>6. RTypeOK'
    BY <1>b, <2>1, <2>2, <2>3, <2>4, <2>5 DEF RTypeOK
  <2>7. Writer'
    BY <2>0, <2>1, <2>2, <2>5 DEF Writer
  <2> QED
    BY <2>6, <2>7
<1>8. CASE RtpAppend
  <2>1. PICK n \in 1..Chunk :
          IF au_len + n + MinSpace >= Room
             THEN au_bad' = TRUE /\ UNCHANGED <<ring, au_len>>
             ELSE /\ ring' = Copy(ring, IF wr + au_len >= Size THEN wr + au_len - Size
                                                              ELSE wr + au_len,
                                  n, next + au_len)
                  /\ au_len' = au_len + n
                  /\ UNCHANGED au_bad
    BY <1>8 DEF RtpAppend
  <2>2. CASE au_len + n + MinSpace >= Room
    <3>1. au_bad' \in BOOLEAN /\ ring' = ring /\ au_len' = au_len
      BY <2>1, <2>2
    <3> QED
      BY <1>8, <3>1 DEF RtpAppend, RTypeOK, Writer
  <2>3. CASE ~(au_len + n + MinSpace >= Room)
    <3> DEFINE a == IF wr + au_len >= Size THEN wr + au_len - Size ELSE wr + au_len
               q == next + au_len
    <3>1. n \in Nat /\ q \in Nat /\ a \in Offsets /\ au_len + n \in 0..Size-1
      BY <1>a, <1>b, <2>3 DEF Offsets
    <3>2. ring' = Copy(ring, a, n, q) /\ au_len' = au_len + n /\ au_bad' = au_bad
      BY <2>1, <2>3
    <3> HIDE DEF a, q
    <3>3. ring' \in [Offsets -> Nat]
      BY <1>b, <3>1, <3>2, CopyIsCopy DEF IsCopy
    <3> QED
      BY <1>8, <3>1, <3>2, <3>3 DEF RtpAppend, RTypeOK, Writer
  <2> QED
    BY <2>2, <2>3
<1>9. CASE RtpCommit
  <2>1. torn' \in BOOLEAN /\ hit' \in BOOLEAN
    BY <1>9, <1>b DEF RtpCommit
  <2>2. next' \in Nat
    BY <1>9, <1>b DEF RtpCommit
  <2> QED
    BY <1>9, <2>1, <2>2 DEF RtpCommit, RTypeOK, Writer
<1>10. CASE RtpDrop
  <2>1. au_bad' \in BOOLEAN /\ hit' \in BOOLEAN
    BY <1>10 DEF RtpDrop
  <2> QED
    BY <1>10, <2>1 DEF RtpDrop, RTypeOK, Writer
<1>11. CASE RtpGap
  <2>1. au_bad' \in BOOLEAN
    BY <1>11 DEF RtpGap
  <2> QED
    BY <1>11, <2>1 DEF RtpGap, RTypeOK, Writer
<1>12. CASE VpuRead
  <2>1. rd' \in Offsets /\ eaten' \in Nat
    BY <1>12, <1>b DEF VpuRead, Offsets
  <2>2. Room' = Room + 1
    BY <1>12, <1>b DEF VpuRead, Room, Offsets
  <2> QED
    BY <1>12, <1>a, <2>1, <2>2 DEF VpuRead, RTypeOK, Writer
<1>13. CASE Primed
  BY <1>13 DEF Primed, RTypeOK, Writer
<1>14. CASE Reopen
  <2>1. au_bad' \in BOOLEAN /\ cut' \in BOOLEAN /\ hit' \in BOOLEAN /\ torn' \in BOOLEAN
    BY <1>14 DEF Reopen
  <2> QED
    BY <1>14, <2>1 DEF Reopen, RTypeOK, Writer, Offsets
<1>15. CASE UNCHANGED rvars
  BY <1>15 DEF rvars, RTypeOK, Writer, Room
<1> QED
  BY <1>1, <1>2, <1>3, <1>4, <1>5, <1>6, <1>7, <1>8, <1>9, <1>10, <1>11, <1>12,
     <1>13, <1>14, <1>15 DEF RNext

\* Every step that does not commit a unit feed has received over keeps the ring
\* sound.
LEMMA SoundNext == RInv /\ [RNext]_rvars /\ ~torn' => Sound'
<1> SUFFICES ASSUME RInv, [RNext]_rvars, ~torn' PROVE Sound'
  OBVIOUS
<1> USE RingConstants
<1>14. CASE Reopen
  <2>1. Used' = 0 /\ Pending' = 0 /\ rd' \in Offsets
    BY <1>14 DEF Reopen, Used, Dist, Pending, Offsets
  <2>3. Exact(ring', rd', 0, eaten') /\ Ordered(ring', rd', 0, Front')
    BY <2>1, NoBytes
  <2>4. Fits' /\ Contents' /\ Order'
    BY <2>1, <2>3 DEF Fits, Contents, Order
  <2>5. Lossless'
    BY <1>14, <2>1 DEF Reopen, Lossless, RInv, RTypeOK
  <2>6. Committed'
    BY <2>1, NoBytes DEF Committed
  <2> QED
    BY <2>4, <2>5, <2>6 DEF Sound
<1>t. SUFFICES ASSUME ~Reopen PROVE Sound'
  BY <1>14
<1>h. torn \in BOOLEAN /\ hit \in BOOLEAN
  BY DEF RInv, RTypeOK
<1>u. ~torn
  BY <1>h, <1>t DEF RNext, rvars, Update, FeedGet, FeedRecv, FeedNothing, SkipResync,
     SkipNoKeyFrame, bs_ring_write, RtpAppend, RtpCommit, RtpDrop, RtpGap, VpuRead, Primed
<1>a. /\ RTypeOK /\ Fits /\ Contents /\ Order /\ Committed /\ Writer /\ Lossless
      /\ Room = Size - 1 - Used /\ Used \in 0..Size-1
  BY <1>u, RoomIsRest DEF RInv, Sound
<1>l. ~cut => next = eaten + Used + (IF pc \in {"ring", "update"} THEN len ELSE 0)
  BY <1>a, <1>u DEF Lossless
<1>b. /\ rd \in Offsets /\ wr \in Offsets /\ ring \in [Offsets -> Nat]
      /\ eaten \in Nat /\ next \in Nat /\ len \in Nat /\ au_len \in Nat /\ Used \in Nat
      /\ Used = Dist(rd, wr)
  BY <1>a DEF RTypeOK, Used
<1>1. CASE Update
  <2>1. /\ len > 0 /\ (hit \/ au_len = 0) /\ pc = "update" /\ pc' = "idle" /\ hit' = hit
        /\ Used + len <= Size - 1 /\ Pending = len
    BY <1>1, <1>a DEF Update, Writer, Fits, Pending
  <2>2. ~Refused(len)
    BY <2>1, <1>a DEF Refused, RTypeOK, Used, Dist, Offsets
  <2>3. wr' = Advance(len) /\ wr' \in Offsets
    BY <1>1, <1>a, <2>1, <2>2 DEF Update, Advance, RTypeOK, Offsets
  <2>4. Used' = Used + len /\ Pending' = 0 /\ Front' = Front /\ Front = next
    BY <1>1, <1>a, <1>b, <2>1, <2>3 DEF Update, Advance, Used, Dist, Pending, RTypeOK, Offsets, Front
  <2>6. Used' + Pending' = Used + Pending
    BY <2>1, <2>4, <1>b
  <2>7. Fits' /\ Contents' /\ Order'
    BY <1>1, <1>a, <2>4, <2>6 DEF Update, Fits, Contents, Order
  <2>9. Committed'
    <3>1. Used' + Pending' = Used' /\ Front' = next'
      BY <1>1, <1>b, <2>1, <2>4 DEF Update, Front
    <3> QED
      BY <2>7, <3>1 DEF Order, Committed
  <2>8. Lossless'
    BY <1>l, <1>1, <1>a, <2>1, <2>4 DEF Update, Lossless, RTypeOK
  <2> QED
    BY <2>7, <2>8, <2>9 DEF Sound
<1>2. CASE FeedGet
  <2>1. Used' = Used /\ Pending' = Pending /\ Front' = Front /\ Room' = Room
    BY <1>2 DEF FeedGet, Used, Dist, Pending, Front, Room
  <2>3. Fits' /\ Contents' /\ Order'
    BY <1>2, <1>a, <2>1 DEF FeedGet, Fits, Contents, Order
  <2>5. Committed'
    BY <1>2, <1>a, <2>1 DEF FeedGet, Committed
  <2>4. Lossless'
    BY <1>l, <1>2, <1>a, <2>1 DEF FeedGet, Lossless, RTypeOK
  <2> QED
    BY <2>3, <2>4, <2>5 DEF Sound
<1>3. CASE FeedRecv
  <2>0. pc = "feed" /\ space <= Room
    BY <1>3, <1>a DEF FeedRecv, Writer
  <2>1. PICK n \in 1..Chunk :
          /\ n <= space /\ n <= Size - wr
          /\ ring' = Copy(Staged(n), wr, n, next) /\ len' = n /\ next' = next + n
    BY <1>3 DEF FeedRecv
  <2>2. n \in Nat /\ n > 0 /\ Used + n <= Size - 1
    BY <2>0, <2>1, <1>a DEF RTypeOK
  <2> DEFINE f == Staged(n)
  <2>f. f \in [Offsets -> Nat] /\ \A i \in Offsets : Dist(rd, i) < Used => f[i] = ring[i]
    <3>1. hit \/ Used + au_len <= Size - 1
      BY <1>a, <2>0 DEF Fits, Pending
    <3> QED
      BY <1>a, <2>2, <3>1, StagedKeeps
  <2> HIDE DEF f
  <2>3. IsCopy(ring', f, wr, n, next)
    BY <1>b, <2>1, <2>2, <2>f, CopyIsCopy DEF f
  <2>4. /\ Exact(f, rd, Used, eaten) /\ next = eaten + Used => Exact(ring', rd, Used + n, eaten)
        /\ Ordered(f, rd, Used, next) => Ordered(ring', rd, Used + n, next + n)
    BY <1>b, <2>2, <2>3, <2>f, CopyExtends
  <2>c. Ordered(f, rd, Used, next) /\ (~cut => Exact(f, rd, Used, eaten))
    <3>1. Ordered(ring, rd, Used, next)
      BY <1>a, <2>0 DEF Committed
    <3>2. Pending \in Nat /\ Used + Pending \in Nat /\ Used <= Used + Pending
      BY <1>b DEF Pending
    <3>3. ~cut => Exact(ring, rd, Used, eaten)
      BY <1>a, <1>b, <3>2, Fewer DEF Contents
    <3> QED
      BY <1>b, <2>f, <3>1, <3>3, SameBytes
  <2>5. /\ Used' = Used /\ Pending' = n /\ rd' = rd /\ eaten' = eaten /\ cut' = cut
        /\ Front' = next + n /\ pc' = "update" /\ Used' + Pending' = Used + n
    BY <1>3, <1>b, <2>0, <2>1, <2>2 DEF FeedRecv, Used, Dist, Pending, Front
  <2>7. Order'
    BY <2>4, <2>5, <2>c DEF Order
  <2>8. ~cut => next = eaten + Used
    BY <1>l, <1>b, <2>0
  <2>9. Contents'
    BY <2>4, <2>5, <2>8, <2>c DEF Contents
  <2>10. Fits'
    BY <2>2, <2>5 DEF Fits
  <2>11. Lossless'
    BY <1>b, <2>1, <2>2, <2>5, <2>8 DEF Lossless
  <2> QED
    BY <2>5, <2>7, <2>9, <2>10, <2>11 DEF Sound, Committed
<1>4. CASE FeedNothing
  <2>1. Used' = Used /\ Pending' = Pending /\ Front' = Front
    BY <1>4 DEF FeedNothing, Used, Dist, Pending, Front
  <2>3. Fits' /\ Contents' /\ Order'
    BY <1>4, <1>a, <2>1 DEF FeedNothing, Fits, Contents, Order
  <2>5. Committed'
    BY <1>4, <1>a, <2>1 DEF FeedNothing, Committed
  <2>4. Lossless'
    BY <1>l, <1>4, <1>a, <2>1 DEF FeedNothing, Lossless, RTypeOK
  <2> QED
    BY <2>3, <2>4, <2>5 DEF Sound
<1>5. CASE SkipResync
  <2>1. PICK total \in 1..Drain : \E start_at \in 0..total-1 :
          /\ next' = next + total /\ len' = total - start_at /\ eaten' = next + start_at
    BY <1>5 DEF SkipResync
  <2>2. PICK start_at \in 0..total-1 :
          /\ next' = next + total /\ len' = total - start_at /\ eaten' = next + start_at
    BY <2>1
  <2>3. /\ next' \in Nat /\ eaten' \in Nat /\ len' \in 1..Drain /\ len' <= next'
        /\ next' = eaten' + 0 + len'
    BY <2>2, <1>b
  <2>4. au_len' = 0 /\ rd' = 0 /\ wr' = 0 /\ pc' = "ring" /\ rd' \in Offsets
    BY <1>5, <1>a DEF SkipResync, Writer, Offsets
  <2>5. Used' = 0 /\ Pending' = 0
    BY <2>4 DEF Used, Dist, Pending
  <2>7. Exact(ring', rd', 0, eaten') /\ Ordered(ring', rd', 0, Front')
    BY <2>4, NoBytes
  <2>8. Fits' /\ Contents' /\ Order'
    BY <2>5, <2>7 DEF Fits, Contents, Order
  <2>10. Lossless'
    BY <1>l, <2>3, <2>4, <2>5 DEF Lossless
  <2> QED
    BY <2>4, <2>8, <2>10 DEF Sound, Committed
<1>6. CASE SkipNoKeyFrame
  <2>1. PICK total \in 1..Drain : next' = next + total /\ len' = total
    BY <1>6 DEF SkipNoKeyFrame
  <2>2. next' \in Nat /\ len' \in 1..Drain /\ len' <= next' /\ next' - len' = next
    BY <2>1, <1>b
  <2>3. /\ pc = "idle" /\ pc' = "ring" /\ au_len = 0 /\ au_len' = 0 /\ cut' = cut
        /\ rd' = rd /\ ring' = ring /\ eaten' = eaten
    BY <1>6, <1>a DEF SkipNoKeyFrame, Writer
  <2>4. Used' = Used /\ Pending' = Pending /\ Front' = Front
    BY <1>6, <1>b, <2>2, <2>3 DEF SkipNoKeyFrame, Used, Dist, Pending, Front
  <2>6. Fits' /\ Contents' /\ Order'
    BY <1>a, <2>3, <2>4 DEF Fits, Contents, Order
  <2>8. Lossless'
    BY <1>l, <1>a, <1>b, <2>1, <2>2, <2>3, <2>4 DEF Lossless
  <2> QED
    BY <2>3, <2>6, <2>8 DEF Sound, Committed
<1>7. CASE bs_ring_write
  <2> DEFINE n == IF len > Room THEN Room ELSE len
             q == next - len
  <2>0. /\ pc = "ring" /\ au_len = 0 /\ len > 0 /\ Pending = 0 /\ Front = q
        /\ Used + Pending = Used /\ q \in Nat
    BY <1>7, <1>a, <1>b DEF bs_ring_write, Writer, Pending, Front
  <2>1. n \in Nat /\ n <= len /\ Used + n <= Size - 1 /\ (n < len \/ n = len) /\ n \in 0..Size-1
    BY <1>a, <1>b
  <2>2. /\ ring' = Copy(ring, wr, n, q) /\ len' = n /\ cut' = (cut \/ n < len)
        /\ pc' = IF n > 0 THEN "update" ELSE "idle"
    BY <1>7 DEF bs_ring_write
  <2>3. /\ next' = next /\ au_len' = 0 /\ rd' = rd /\ wr' = wr /\ eaten' = eaten
        /\ hit' = hit
    BY <1>7, <2>0 DEF bs_ring_write
  <2> HIDE DEF n, q
  <2>4. IsCopy(ring', ring, wr, n, q)
    BY <1>b, <2>0, <2>1, <2>2, CopyIsCopy
  <2>5. /\ Exact(ring, rd, Used, eaten) /\ q = eaten + Used => Exact(ring', rd, Used + n, eaten)
        /\ Ordered(ring, rd, Used, q) => Ordered(ring', rd, Used + n, q + n)
    BY <1>b, <2>0, <2>1, <2>4, CopyExtends
  <2>6. Used' = Used /\ Pending' = n /\ Front' = next /\ Used' + Pending' = Used + n
    BY <1>b, <2>0, <2>1, <2>2, <2>3 DEF Used, Dist, Pending, Front
  <2>8. Order'
    <3>1. ring' \in [Offsets -> Nat] /\ Ordered(ring', rd, Used + n, q + n)
      BY <1>a, <2>0, <2>4, <2>5 DEF Order, IsCopy
    <3>2. q + n <= next /\ q + n \in Int /\ next \in Int /\ Used + n \in Nat
      BY <1>b, <2>0, <2>1 DEF q
    <3>3. Ordered(ring', rd, Used + n, next)
      BY <3>1, <3>2, LaterBound
    <3> QED
      BY <2>3, <2>6, <3>3 DEF Order
  <2>9. ~cut' => ~cut /\ n = len /\ q = eaten + Used
    <3>1. ~cut' => ~cut /\ ~(n < len)
      BY <2>2
    <3>2. ~cut => q = eaten + Used
      BY <1>l, <1>b, <2>0 DEF q
    <3> QED
      BY <2>1, <3>1, <3>2
  <2>10. Contents'
    BY <1>a, <2>0, <2>3, <2>5, <2>6, <2>9 DEF Contents
  <2>11. Fits'
    BY <2>1, <2>6 DEF Fits
  <2>13. Committed'
    <3>1. pc' \in {"idle", "feed"} => n = 0 /\ Used' + Pending' = Used'
      BY <1>b, <2>1, <2>2, <2>6
    <3> QED
      BY <2>3, <2>6, <2>8, <3>1 DEF Order, Committed
  <2>12. Lossless'
    <3>1. ASSUME ~cut' PROVE next = eaten + Used + n /\ pc' = "update"
      BY <1>b, <2>0, <2>1, <2>2, <2>9, <3>1 DEF q
    <3> QED
      BY <2>2, <2>3, <2>6, <3>1 DEF Lossless
  <2> QED
    BY <2>8, <2>10, <2>11, <2>12, <2>13 DEF Sound
<1>8. CASE RtpAppend
  <2>0. /\ pc = "idle" /\ pc' = "idle" /\ hit' = hit
        /\ Pending = (IF hit THEN 0 ELSE au_len) /\ Front = (IF hit THEN next ELSE next + au_len)
    BY <1>8 DEF RtpAppend, Pending, Front
  <2>1. /\ Used' = Used /\ rd' = rd /\ wr' = wr /\ eaten' = eaten /\ next' = next /\ len' = len
        /\ Pending' = (IF hit THEN 0 ELSE au_len') /\ cut' = cut
        /\ Front' = (IF hit THEN next ELSE next + au_len')
    BY <1>8, <2>0 DEF RtpAppend, Used, Dist, Pending, Front
  <2>2. Lossless'
    BY <1>l, <2>0, <2>1 DEF Lossless
  <2>3. PICK n \in 1..Chunk :
          IF au_len + n + MinSpace >= Room
             THEN au_bad' = TRUE /\ UNCHANGED <<ring, au_len>>
             ELSE /\ ring' = Copy(ring, IF wr + au_len >= Size THEN wr + au_len - Size
                                                              ELSE wr + au_len,
                                  n, next + au_len)
                  /\ au_len' = au_len + n
                  /\ UNCHANGED au_bad
    BY <1>8 DEF RtpAppend
  <2>4. CASE au_len + n + MinSpace >= Room
    <3>1. ring' = ring /\ au_len' = au_len /\ Pending' = Pending /\ Front' = Front
      BY <2>0, <2>1, <2>3, <2>4
    <3>3. Fits' /\ Contents' /\ Order'
      BY <1>a, <2>1, <3>1 DEF Fits, Contents, Order
    <3>4. Committed'
      BY <1>a, <2>0, <2>1, <3>1 DEF Committed
    <3> QED
      BY <3>3, <3>4, <2>2 DEF Sound
  <2>5. CASE ~(au_len + n + MinSpace >= Room)
    <3> DEFINE a == IF wr + au_len >= Size THEN wr + au_len - Size ELSE wr + au_len
               m == Used + au_len
               q == next + au_len
    <3>1. /\ n \in Nat /\ m \in Nat /\ q \in Nat /\ m + n <= Size - 1
          /\ m + n = Used + (au_len + n) /\ q + n = next + (au_len + n)
      BY <1>a, <1>b, <2>5
    <3>2. a \in Offsets /\ m = Dist(rd, a) /\ Used <= m
      BY <3>1, <1>a, <1>b DEF Dist, Offsets, Used
    <3>3. au_len' = au_len + n /\ ring' = Copy(ring, a, n, q)
      BY <2>3, <2>5
    <3>4. ~cut => q = eaten + m
      BY <1>l, <1>b, <2>0
    <3>5. ~hit => (~cut => Exact(ring, rd, m, eaten)) /\ Ordered(ring, rd, m, q)
      BY <1>a, <2>0 DEF Contents, Order
    <3>6. ~hit => Used' + Pending' = m + n /\ Front' = q + n
      BY <2>1, <3>1, <3>3
    <3>h. hit => /\ Used + Pending = Used /\ Used' + Pending' = Used
                 /\ Front = next /\ Front' = next
      BY <1>b, <2>0, <2>1
    <3> HIDE DEF a, m, q
    <3>7. IsCopy(ring', ring, a, n, q)
      BY <1>b, <3>1, <3>2, <3>3, CopyIsCopy
    <3>8. /\ Exact(ring, rd, m, eaten) /\ q = eaten + m => Exact(ring', rd, m + n, eaten)
          /\ Ordered(ring, rd, m, q) => Ordered(ring', rd, m + n, q + n)
      BY <1>b, <3>1, <3>2, <3>7, CopyExtends
    <3>9. \A i \in Offsets : Dist(rd, i) < Used => ring'[i] = ring[i]
      BY <1>b, <3>1, <3>2, <3>7, CopyKeeps
    <3>11. /\ Exact(ring, rd, Used, eaten) => Exact(ring', rd, Used, eaten)
           /\ Ordered(ring, rd, Used, next) => Ordered(ring', rd, Used, next)
      BY <1>b, <3>9, SameBytes
    <3>12. Committed' /\ Ordered(ring', rd, Used, next)
      BY <1>a, <2>0, <2>1, <3>11 DEF Committed
    <3>13. CASE hit
      <4>1. Fits'
        BY <1>a, <3>13, <3>h DEF Fits
      <4>2. Order'
        BY <2>1, <3>13, <3>h, <3>12 DEF Order
      <4>3. Contents'
        BY <1>a, <2>1, <3>13, <3>h, <3>11 DEF Contents
      <4> QED
        BY <4>1, <4>2, <4>3, <3>12, <2>2 DEF Sound
    <3>14. CASE ~hit
      <4>1. Fits' /\ Contents' /\ Order'
        BY <2>1, <3>1, <3>4, <3>5, <3>6, <3>8, <3>14 DEF Fits, Contents, Order
      <4> QED
        BY <4>1, <3>12, <2>2 DEF Sound
    <3> QED
      BY <3>13, <3>14
  <2> QED
    BY <2>4, <2>5
<1>9. CASE RtpCommit
  <2>1. pc = "idle" /\ au_len > 0 /\ ~hit /\ ~hit' /\ Pending = au_len
    BY <1>9 DEF RtpCommit, Pending
  <2>2. Used' = Used /\ Pending' = Pending /\ Front' = Front
    BY <1>9, <1>b, <2>1 DEF RtpCommit, Used, Dist, Pending, Front
  <2>4. Fits' /\ Contents' /\ Order'
    BY <1>9, <1>a, <2>2 DEF RtpCommit, Fits, Contents, Order
  <2>5. Lossless'
    BY <1>l, <1>9, <1>a, <2>1, <2>2 DEF RtpCommit, Lossless, RTypeOK
  <2> QED
    BY <1>9, <2>4, <2>5 DEF Sound, Committed, RtpCommit
<1>10. CASE RtpDrop
  <2>1. /\ pc = "idle" /\ Used' = Used /\ Pending' = 0 /\ Front' = next /\ Used' + Pending' = Used
        /\ Pending \in Nat /\ Used + Pending \in Nat /\ Used <= Used + Pending
    BY <1>10, <1>b DEF RtpDrop, Used, Dist, Pending, Front
  <2>3. Fits'
    BY <1>a, <1>b, <2>1 DEF Fits
  <2>4. Contents' /\ Ordered(ring, rd, Used, next)
    <3>2. ~cut => Exact(ring, rd, Used, eaten)
      BY <1>a, <1>b, <2>1, Fewer DEF Contents
    <3>3. Ordered(ring, rd, Used, next)
      BY <1>a, <2>1 DEF Committed
    <3> QED
      BY <1>10, <2>1, <3>2, <3>3 DEF RtpDrop, Contents
  <2>5. Order'
    BY <1>10, <2>1, <2>4 DEF RtpDrop, Order
  <2>7. Committed'
    BY <1>10, <2>1, <2>4 DEF RtpDrop, Committed
  <2>6. Lossless'
    BY <1>l, <1>10, <1>a, <2>1 DEF RtpDrop, Writer, Lossless
  <2> QED
    BY <2>3, <2>4, <2>5, <2>6, <2>7 DEF Sound
<1>11. CASE RtpGap
  <2>1. Used' = Used /\ Pending' = Pending /\ Front' = Front
    BY <1>11 DEF RtpGap, Used, Dist, Pending, Front
  <2>3. Fits' /\ Contents' /\ Order'
    BY <1>11, <1>a, <2>1 DEF RtpGap, Fits, Contents, Order
  <2>5. Committed'
    BY <1>11, <1>a, <2>1 DEF RtpGap, Committed
  <2>4. Lossless'
    BY <1>l, <1>11, <1>a, <2>1 DEF RtpGap, Lossless, RTypeOK
  <2> QED
    BY <2>3, <2>4, <2>5 DEF Sound
<1>12. CASE VpuRead
  <2>1. rd # wr /\ rd' \in Offsets /\ wr' = wr /\ rd' = (IF rd + 1 = Size THEN 0 ELSE rd + 1)
    BY <1>12, <1>a DEF VpuRead, RTypeOK, Offsets
  <2>2. Used' = Used - 1 /\ Pending' = Pending /\ Room' = Room + 1 /\ Front' = Front
    BY <1>12, <1>a DEF VpuRead, RTypeOK, Offsets, Used, Dist, Pending, Room, Front
  <2>4. Pending \in Nat /\ Used > 0
    BY <1>a, <1>b, <2>1 DEF Pending, Used, Dist, Offsets
  <2> DEFINE m == Used' + Pending'
  <2>5. m \in Nat /\ m + 1 = Used + Pending /\ m < Size - 1
    BY <1>a, <1>b, <2>2, <2>4 DEF Fits
  <2>6. Fits'
    BY <2>2, <2>4, <1>a DEF Fits
  <2>7. (~cut => Exact(ring, rd, m + 1, eaten)) /\ Ordered(ring, rd, m + 1, Front)
    BY <1>a, <2>5 DEF Contents, Order
  <2> HIDE DEF m
  <2>8. /\ Exact(ring, rd, m + 1, eaten) => Exact(ring, rd', m, eaten + 1)
        /\ Ordered(ring, rd, m + 1, Front) => Ordered(ring, rd', m, Front)
    BY <1>b, <2>1, <2>5, ReadShrinks
  <2>9. Contents' /\ Order'
    BY <1>12, <2>2, <2>7, <2>8 DEF VpuRead, Contents, Order, m
  <2>12. Committed'
    <3>1. Used' \in Nat /\ Used' + 1 = Used /\ Used' < Size - 1
      BY <1>a, <1>b, <2>2, <2>4
    <3>2. pc \in {"idle", "feed"} => Ordered(ring, rd, Used' + 1, next)
      BY <1>a, <3>1 DEF Committed
    <3>3. Ordered(ring, rd, Used' + 1, next) => Ordered(ring, rd', Used', next)
      BY <1>b, <2>1, <3>1, ReadShrinks
    <3> QED
      BY <1>12, <3>2, <3>3 DEF VpuRead, Committed
  <2>11. Lossless'
    BY <1>l, <2>2, <1>12, <1>a DEF VpuRead, Lossless, RTypeOK
  <2> QED
    BY <2>6, <2>9, <2>11, <2>12 DEF Sound
<1>13. CASE Primed
  <2>1. Used' = Used /\ Pending' = Pending /\ Front' = Front
    BY <1>13 DEF Primed, Used, Dist, Pending, Front
  <2>3. Fits' /\ Contents' /\ Order'
    BY <1>13, <1>a, <2>1 DEF Primed, Fits, Contents, Order
  <2>5. Committed'
    BY <1>13, <1>a, <2>1 DEF Primed, Committed
  <2>4. Lossless'
    BY <1>l, <1>13, <1>a, <2>1 DEF Primed, Lossless, RTypeOK
  <2> QED
    BY <2>3, <2>4, <2>5 DEF Sound
<1>15. CASE UNCHANGED rvars
  <2>1. Used' = Used /\ Pending' = Pending /\ Front' = Front /\ Room' = Room
    BY <1>15 DEF rvars, Used, Dist, Pending, Front, Room
  <2>3. Fits' /\ Contents' /\ Order'
    BY <1>15, <1>a, <2>1 DEF rvars, Fits, Contents, Order
  <2>5. Committed'
    BY <1>15, <1>a, <2>1 DEF rvars, Committed
  <2>4. Lossless'
    BY <1>l, <1>15, <1>a, <2>1 DEF rvars, Lossless, RTypeOK
  <2> QED
    BY <2>3, <2>4, <2>5 DEF Sound
<1> QED
  BY <1>1, <1>2, <1>3, <1>4, <1>5, <1>6, <1>7, <1>8, <1>9, <1>10, <1>11, <1>12,
     <1>13, <1>15, <1>t DEF RNext

\* Every step of the writers and of the VPU preserves the invariant.
LEMMA RNextInv == RInv /\ [RNext]_rvars => RInv'
  BY RTypeNext, SoundNext DEF RInv

\* What the invariant says of the ring.
LEMMA RInvSafe == RInv => RTypeOK /\ NoHole /\ Lossless /\ InOrder /\ CommitAccepted
<1> SUFFICES ASSUME RInv PROVE RTypeOK /\ NoHole /\ Lossless /\ InOrder /\ CommitAccepted
  OBVIOUS
<1>1. RTypeOK /\ Room = Size - 1 - Used /\ Used \in 0..Size-1
  BY RoomIsRest DEF RInv
<1>t. CASE torn
  BY <1>1, <1>t DEF NoHole, Lossless, InOrder, CommitAccepted
<1>s. CASE ~torn
  <2>1. Fits /\ Contents /\ Order /\ Lossless
    BY <1>s DEF RInv, Sound
  <2>2. Pending \in Nat
    BY <1>1, RingConstants DEF Pending, RTypeOK
  <2>3. \A i \in Offsets : Dist(rd, i) \in Nat
    BY <1>1, DistNat DEF RTypeOK
  <2>4. NoHole
    BY <1>1, <2>1, <2>2, <2>3 DEF Contents, Exact, NoHole
  <2>5. InOrder
    BY <1>1, <2>1, <2>2, <2>3 DEF Order, Ordered, InOrder
  <2>6. CommitAccepted
    <3> SUFFICES ASSUME pc = "update" PROVE ~Refused(len) /\ len <= Room
      BY DEF CommitAccepted
    <3>1. Used + len <= Size - 1
      BY <2>1 DEF Fits, Pending
    <3> QED
      BY <3>1, <1>1, RingConstants DEF Refused, RTypeOK, Used, Dist, Offsets
  <2> QED
    BY <1>1, <2>1, <2>4, <2>5, <2>6
<1> QED
  BY <1>t, <1>s

\* Whatever the sizes, and however the VPU's reads interleave with feed (which
\* the decode loop calls in RTP mode too), feed_skip_to_latest and the RTP writer:
\* the pointers stay in the buffer, and until the RTP receiver commits a unit that
\* feed has received over, the VPU reads the bytes of the stream in order, none
\* overwritten, without a hole or a loss as long as no drained chunk is cut off,
\* and no commit is refused.
THEOREM RingSafe == RSpec => [](RTypeOK /\ NoHole /\ Lossless /\ InOrder /\ CommitAccepted)
<1>1. RInit => RInv
  BY RInitInv
<1>2. RInv /\ [RNext]_rvars => RInv'
  BY RNextInv
<1>3. RInv => RTypeOK /\ NoHole /\ Lossless /\ InOrder /\ CommitAccepted
  BY RInvSafe
<1> QED
  BY <1>1, <1>2, <1>3, PTL DEF RSpec
=============================================================================
