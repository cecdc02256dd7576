------------------------------ MODULE RtpProofs ------------------------------
(***************************************************************************)
(* Proofs about the RTP receivers of module RtpDepacketizer, for every     *)
(* number of packets, faults and sequence numbers the module allows.       *)
(*                                                                         *)
(* The handlers are first brought to one form: what a packet's header does *)
(* (HeaderIs), and the seven outcomes of its payload (PayloadIs).  On them *)
(* rest three inductive invariants: CalmInv (the waiting ends), Untouched  *)
(* (a stream without faults) and SeqInv (what is staged has no hole).      *)
(***************************************************************************)
EXTENDS RtpDepacketizer, TLAPS

StType ==
  [have_seq : BOOLEAN, last_seq : 0..(SeqMod - 1), need_idr : BOOLEAN,
   au_have_ts : BOOLEAN, au_ts : 0..(TsMod - 1), au : SUBSET (Nat \X {1, 5, 7}),
   au_bad : BOOLEAN, au_has_idr : BOOLEAN, fu : SUBSET (Nat \X {1, 5, 7}),
   fu_active : BOOLEAN, cut : BOOLEAN]

TxType ==
  [seq : 0..(SeqMod - 1), ts : 0..(TsMod - 1), idx : Nat, class : {0, 1, 5}, fu : BOOLEAN]

\* What the packets of a stream look like.
PacketType ==
  {p \in [seq : 0..(SeqMod - 1), ts : 0..(TsMod - 1), idx : Nat \ {0}, class : {1, 5, 7},
          form : {"whole", "fu"}, nals : {<<1>>, <<5>>, <<7>>, <<7, 5>>},
          start : BOOLEAN, end : BOOLEAN, marker : BOOLEAN] :
     /\ p.form = "whole" => p.start /\ p.end
     /\ p.form = "fu" => p.class # 7 /\ p.nals = <<p.class>> /\ (p.marker => p.end)
                          /\ ~(p.start /\ p.end)
     /\ p.class # 5 => p.nals = <<p.class>>
     /\ p.class = 7 => p.marker
     /\ ~p.start => p.idx > 1
     /\ p.class = 5 /\ p.marker => p.nals # <<7>>
     /\ p.class = 5 => p.nals # <<1>>}

TxOk ==
  /\ tx \in TxType
  /\ tx.idx = 0 => ~tx.fu /\ tx.class = 0
  /\ tx.idx > 0 => tx.class \in {1, 5}
  /\ variant = "mpeg4" /\ tx.class = 1 => tx.fu

RtpTypeOK ==
  /\ variant \in {"rtsp", "rtp", "mpeg4"}
  /\ rtsp \in {"connect", "describe", "auth", "setup", "play", "stream", "closed"}
  /\ variant # "rtsp" => rtsp = "stream"
  /\ sprop \in BOOLEAN
  /\ TxOk
  /\ held \in SUBSET PacketType
  /\ variant = "rtsp" => held = {}
  /\ variant = "mpeg4" => \A h \in held : h.class = 1 /\ h.start => h.idx = 1
  /\ st \in StType
  /\ chain \in Int
  /\ lossy \in BOOLEAN
  /\ calm \in 0..3

InStep == st.have_seq => tx.seq = (st.last_seq + 1) % SeqMod

\* Fragments go on where they started, unless the receiver skips them.
FuFollowed == tx.fu => st.fu_active \/ variant = "mpeg4" \/ (st.need_idr /\ tx.class # 5)

CalmInv ==
  /\ rtsp \notin {"stream", "closed"} => calm = 0
  /\ calm >= 1 => /\ st.have_seq /\ InStep /\ FuFollowed
                  /\ tx.idx > 0 => st.au_have_ts /\ st.au_ts = tx.ts
  /\ calm >= 2 => /\ ~st.au_bad
                  /\ tx.idx = 0 => st.au = {}
                  /\ tx.fu /\ tx.class = 5 => st.au_has_idr
  /\ calm = 3 => ~st.need_idr

\* The state of a receiver whose stream was not disturbed.  The RTSP receiver may
\* have joined in the middle of an AU: until its first flush it may hold a part.
Untouched ==
  /\ held = {} /\ InStep
  /\ ~st.need_idr /\ ~st.au_bad
  /\ tx.idx = 0 => st.au = {}
  /\ ~tx.fu \/ variant # "rtsp" => st.fu = {}
  /\ st.au # {} => st.au_have_ts /\ st.au_ts = tx.ts
  /\ chain # Join => chain = Prev(tx.ts)
  /\ chain # Join \/ variant # "rtsp" =>
       /\ Indices(st.au \cup st.fu) = 1..tx.idx
       /\ tx.fu /\ variant # "mpeg4" => st.fu_active
  /\ tx.fu /\ ~st.fu_active /\ variant = "rtsp" => st.au = {} /\ st.fu = {}
  /\ rtsp \notin {"stream", "closed"} =>
       chain = Join /\ st.au = {} /\ st.fu = {} /\ ~st.fu_active /\ ~st.have_seq

TransInv == ~lossy => Untouched

-----------------------------------------------------------------------------
\* The next number, modulo m.
LEMMA ModSucc ==
  ASSUME NEW m \in Nat, NEW n \in 0..(m - 1)
  PROVE  (n + 1) % m = IF n + 1 = m THEN 0 ELSE n + 1
BY SMT

\* The timestamp before this one.
LEMMA PrevIs ==
  ASSUME NEW ts \in 0..(TsMod - 1)
  PROVE  Prev(ts) = IF ts = 0 THEN TsMod - 1 ELSE ts - 1
<1>1. TsMod \in Nat BY RtpConstants
<1>2. CASE ts = 0 BY <1>1, <1>2 DEF Prev
<1>3. CASE ts # 0 BY <1>1, <1>3 DEF Prev
<1>4. QED BY <1>2, <1>3

\* The NAL units of the packets of a stream.
LEMMA Ranges ==
  /\ \A n \in {1, 5, 7} : Range(<<n>>) = {n}
  /\ Range(<<7, 5>>) = {5, 7}
BY DEF Range

\* The packets of a well-formed stream.
LEMMA PacketsTyped ==
  ASSUME RtpTypeOK, NEW p \in Packets
  PROVE  /\ p \in PacketType
         /\ p.seq = tx.seq /\ p.ts = tx.ts /\ p.idx = tx.idx + 1 /\ ~Overdue
         /\ tx.idx > 0 => p.class = tx.class
         /\ tx.fu => p.form = "fu" /\ ~p.start
         /\ ~tx.fu => p.start
         /\ variant = "mpeg4" /\ p.end /\ p.nals # <<7>> => p.marker
         /\ variant = "mpeg4" /\ p.class = 1 /\ p.start => p.idx = 1
<1>1. PICK k \in {1, 5, 7} : /\ ~Overdue /\ (tx.idx # 0 => k = tx.class)
                             /\ \E b \in Bodies(k) : p = Packet(b, k)
  BY SMT DEF Packets, RtpTypeOK, TxOk, TxType
<1>2. PICK b \in Bodies(k) : p = Packet(b, k) BY <1>1
<1>3. /\ tx \in TxType /\ (tx.idx = 0 => ~tx.fu) /\ (tx.idx > 0 => tx.class \in {1, 5})
  BY DEF RtpTypeOK, TxOk
<1>4. tx.fu => k # 7 /\ tx.idx > 0 BY <1>1, <1>3 DEF TxType
<1>5. \/ /\ tx.fu /\ \E e, m \in BOOLEAN : b = Fragment(k, FALSE, e, m) /\ (m => e)
                                           /\ (variant = "mpeg4" /\ e => m)
      \/ /\ ~tx.fu /\ \E m \in BOOLEAN : b = Whole(<<k>>, m) /\ (variant = "mpeg4" \/ k = 7 => m)
      \/ /\ ~tx.fu /\ k # 7 /\ b = Fragment(k, TRUE, FALSE, FALSE)
      \/ /\ ~tx.fu /\ k = 5 /\ b = Whole(<<7>>, FALSE)
      \/ /\ ~tx.fu /\ k = 5 /\ \E m \in BOOLEAN : b = Whole(<<7, 5>>, m) /\ (variant = "mpeg4" => m)
  BY <1>2, <1>3, Zenon DEF Bodies, TxType
<1>6. p = [seq |-> tx.seq, ts |-> tx.ts, idx |-> tx.idx + 1, class |-> k,
           form |-> b.form, nals |-> b.nals, start |-> b.start, end |-> b.end,
           marker |-> b.marker]
  BY <1>2 DEF Packet
<1>7. tx.seq \in 0..(SeqMod - 1) /\ tx.ts \in 0..(TsMod - 1) /\ tx.idx \in Nat /\ tx.fu \in BOOLEAN
  BY <1>3 DEF TxType
<1>8. <<7>> # <<7, 5>> /\ <<5>> # <<7>> /\ <<1>> # <<7>> /\ <<5>> # <<1>> /\ <<1>> # <<7, 5>>
      /\ <<5>> # <<7, 5>>
  OBVIOUS
<1>14. variant = "mpeg4" /\ k = 1 /\ ~tx.fu => tx.idx = 0
  BY <1>1, <1>7 DEF RtpTypeOK, TxOk
<1>9. CASE tx.fu /\ \E e, m \in BOOLEAN : b = Fragment(k, FALSE, e, m) /\ (m => e)
                                          /\ (variant = "mpeg4" /\ e => m)
  <2>1. PICK e, m \in BOOLEAN : b = Fragment(k, FALSE, e, m) /\ (m => e)
                                /\ (variant = "mpeg4" /\ e => m)
    BY <1>9
  <2>2. p = [seq |-> tx.seq, ts |-> tx.ts, idx |-> tx.idx + 1, class |-> k, form |-> "fu",
             nals |-> <<k>>, start |-> FALSE, end |-> e, marker |-> m]
    BY <2>1, <1>6 DEF Fragment
  <2> QED BY <1>1, <1>4, <1>7, <1>8, <1>14, <1>9, <2>1, <2>2 DEF PacketType
<1>10. CASE ~tx.fu /\ \E m \in BOOLEAN : b = Whole(<<k>>, m) /\ (variant = "mpeg4" \/ k = 7 => m)
  <2>1. PICK m \in BOOLEAN : b = Whole(<<k>>, m) /\ (variant = "mpeg4" \/ k = 7 => m)
    BY <1>10
  <2>2. p = [seq |-> tx.seq, ts |-> tx.ts, idx |-> tx.idx + 1, class |-> k, form |-> "whole",
             nals |-> <<k>>, start |-> TRUE, end |-> TRUE, marker |-> m]
    BY <2>1, <1>6 DEF Whole
  <2> QED BY <1>1, <1>7, <1>8, <1>14, <1>10, <2>1, <2>2 DEF PacketType
<1>11. CASE ~tx.fu /\ k # 7 /\ b = Fragment(k, TRUE, FALSE, FALSE)
  <2>2. p = [seq |-> tx.seq, ts |-> tx.ts, idx |-> tx.idx + 1, class |-> k, form |-> "fu",
             nals |-> <<k>>, start |-> TRUE, end |-> FALSE, marker |-> FALSE]
    BY <1>11, <1>6 DEF Fragment
  <2> QED BY <1>1, <1>7, <1>8, <1>14, <1>11, <2>2 DEF PacketType
<1>12. CASE ~tx.fu /\ k = 5 /\ b = Whole(<<7>>, FALSE)
  <2>2. p = [seq |-> tx.seq, ts |-> tx.ts, idx |-> tx.idx + 1, class |-> k, form |-> "whole",
             nals |-> <<7>>, start |-> TRUE, end |-> TRUE, marker |-> FALSE]
    BY <1>12, <1>6 DEF Whole
  <2>3. p \in [seq : 0..(SeqMod - 1), ts : 0..(TsMod - 1), idx : Nat \ {0}, class : {1, 5, 7},
          form : {"whole", "fu"}, nals : {<<1>>, <<5>>, <<7>>, <<7, 5>>},
          start : BOOLEAN, end : BOOLEAN, marker : BOOLEAN]
    BY <1>7, <1>12, <2>2
  <2>4. p.class = 5 /\ p.form = "whole" /\ p.start /\ p.end /\ p.nals # <<1>>
        /\ (p.marker => p.nals # <<7>>)
    BY <1>8, <1>12, <2>2
  <2>5. p \in PacketType BY <2>3, <2>4 DEF PacketType
  <2> QED BY <1>1, <1>7, <1>8, <1>14, <1>12, <2>2, <2>5
<1>13. CASE ~tx.fu /\ k = 5 /\ \E m \in BOOLEAN : b = Whole(<<7, 5>>, m) /\ (variant = "mpeg4" => m)
  <2>1. PICK m \in BOOLEAN : b = Whole(<<7, 5>>, m) /\ (variant = "mpeg4" => m)
    BY <1>13
  <2>2. p = [seq |-> tx.seq, ts |-> tx.ts, idx |-> tx.idx + 1, class |-> k, form |-> "whole",
             nals |-> <<7, 5>>, start |-> TRUE, end |-> TRUE, marker |-> m]
    BY <2>1, <1>6 DEF Whole
  <2>3. p \in [seq : 0..(SeqMod - 1), ts : 0..(TsMod - 1), idx : Nat \ {0}, class : {1, 5, 7},
          form : {"whole", "fu"}, nals : {<<1>>, <<5>>, <<7>>, <<7, 5>>},
          start : BOOLEAN, end : BOOLEAN, marker : BOOLEAN]
    BY <1>7, <1>13, <2>1, <2>2
  <2>4. p.class = 5 /\ p.form = "whole" /\ p.start /\ p.end /\ p.nals # <<1>>
        /\ (p.marker => p.nals # <<7>>)
    BY <1>8, <1>13, <2>1, <2>2
  <2>5. p \in PacketType BY <2>3, <2>4 DEF PacketType
  <2> QED BY <1>1, <1>7, <1>8, <1>14, <1>13, <2>1, <2>2, <2>5
<1> QED BY <1>5, <1>9, <1>10, <1>11, <1>12, <1>13

\* The sender after a packet.
LEMMA SentTyped ==
  ASSUME RtpTypeOK, NEW p \in Packets, tx' = Sent(p), variant' = variant
  PROVE  /\ TxOk'
         /\ tx'.idx = 0 => ~tx'.fu
         /\ tx'.seq = (tx.seq + 1) % SeqMod
         /\ IF p.marker THEN tx'.idx = 0 /\ tx'.ts = (tx.ts + 1) % TsMod
                        ELSE /\ tx'.idx = p.idx /\ tx'.ts = tx.ts /\ tx'.class = p.class
                             /\ tx'.fu = (p.form = "fu" /\ ~p.end)
         /\ tx'.fu => p.form = "fu" /\ ~p.end
<1>1. tx \in TxType /\ SeqMod \in Nat /\ TsMod \in Nat BY RtpConstants DEF RtpTypeOK, TxOk
<1>2. (tx.seq + 1) % SeqMod \in 0..(SeqMod - 1) /\ (tx.ts + 1) % TsMod \in 0..(TsMod - 1)
  BY <1>1, ModSucc DEF TxType
<1>3. /\ p \in PacketType /\ p.idx = tx.idx + 1 /\ p.class \in {1, 5, 7}
      /\ (~p.marker => p.class \in {1, 5}) /\ p.marker \in BOOLEAN
      /\ variant = "mpeg4" /\ p.end /\ p.nals # <<7>> => p.marker
  BY PacketsTyped DEF PacketType
<1>4. /\ tx' \in TxType
      /\ tx'.idx = 0 => ~tx'.fu /\ tx'.class = 0
      /\ tx'.idx > 0 => tx'.class \in {1, 5}
      /\ tx'.seq = (tx.seq + 1) % SeqMod
      /\ p.marker => tx'.idx = 0 /\ tx'.ts = (tx.ts + 1) % TsMod /\ tx'.class = 0
      /\ ~p.marker => /\ tx'.idx = p.idx /\ tx'.ts = tx.ts /\ tx'.class = p.class
                      /\ tx'.fu = (p.form = "fu" /\ ~p.end)
      /\ tx'.fu => p.form = "fu" /\ ~p.end
  <2>0. /\ tx.ts \in 0..(TsMod - 1) /\ p.idx \in Nat \ {0} /\ p.form \in {"whole", "fu"}
        /\ p.end \in BOOLEAN
    BY <1>1, <1>3 DEF TxType, PacketType
  <2>1. CASE p.marker
    <3>1. tx' = [seq |-> (tx.seq + 1) % SeqMod, ts |-> (tx.ts + 1) % TsMod, idx |-> 0, class |-> 0,
                 fu |-> FALSE]
      BY <2>1 DEF Sent
    <3> QED BY <1>2, <2>1, <3>1 DEF TxType
  <2>2. CASE ~p.marker
    <3> DEFINE f == p.form = "fu" /\ ~p.end
    <3>1. tx' = [seq |-> (tx.seq + 1) % SeqMod, ts |-> tx.ts, idx |-> p.idx, class |-> p.class,
                 fu |-> f]
      BY <2>2 DEF Sent
    <3>2. f \in BOOLEAN OBVIOUS
    <3> HIDE DEF f
    <3>3. tx'.fu = f BY <3>1
    <3>4. tx'.fu = (p.form = "fu" /\ ~p.end) BY <3>3 DEF f
    <3>5. tx' \in TxType BY <1>2, <1>3, <2>0, <2>2, <3>1, <3>2 DEF TxType
    <3>6. tx'.seq = (tx.seq + 1) % SeqMod /\ tx'.idx = p.idx /\ tx'.ts = tx.ts /\ tx'.class = p.class
      BY <3>1
    <3> QED BY <1>3, <2>0, <2>2, <3>4, <3>5, <3>6
  <2> QED BY <1>3, <2>1, <2>2
<1>5. ASSUME variant = "mpeg4", tx'.class = 1 PROVE tx'.fu
  <2>1. ~p.marker /\ p.class = 1 BY <1>4, <1>5
  <2>2. p.nals = <<1>> BY <1>3, <2>1 DEF PacketType
  <2>3. p.nals # <<7>> BY <2>2
  <2>4. ~p.end BY <1>3, <1>5, <2>1, <2>3
  <2>5. p.form = "fu" BY <1>3, <2>4 DEF PacketType
  <2> QED BY <1>4, <2>1, <2>4, <2>5
<1> QED BY <1>3, <1>4, <1>5 DEF TxOk

Unfinished(p) == NewAu(p) /\ st.au_have_ts /\ st.au # {}

\* The state after the header of a packet, field by field.
LEMMA HeaderIs ==
  ASSUME st \in StType, NEW p, p.seq \in 0..(SeqMod - 1), p.ts \in 0..(TsMod - 1)
  PROVE  /\ Header(p) \in StType
         /\ Header(p).have_seq = TRUE /\ Header(p).last_seq = p.seq
         /\ Header(p).need_idr = (st.need_idr \/ SeqGap(p) \/ Unfinished(p))
         /\ Header(p).au_have_ts = TRUE /\ Header(p).au_ts = p.ts
         /\ Header(p).au = IF Unfinished(p) THEN {} ELSE st.au
         /\ Header(p).au_bad = ((st.au_bad /\ ~Unfinished(p)) \/ GapInAu(p))
         /\ Header(p).au_has_idr = (st.au_has_idr /\ ~Unfinished(p))
         /\ Header(p).fu = IF SeqGap(p) THEN {} ELSE st.fu
         /\ Header(p).fu_active = (st.fu_active /\ ~SeqGap(p))
         /\ Header(p).cut = st.cut
<1> DEFINE g == SeqGap(p)
           u == Unfinished(p)
           s == SeqSeen(p)
           t == TsSeen(s, p)
<1>1. g \in BOOLEAN /\ u \in BOOLEAN /\ GapInAu(p) \in BOOLEAN
  BY DEF SeqGap, Unfinished, GapInAu, NewAu
<1>2. s = [st EXCEPT !.have_seq = TRUE, !.last_seq = p.seq, !.fu_active = @ /\ ~g,
                     !.fu = IF g THEN {} ELSE @, !.need_idr = @ \/ g]
  BY DEF SeqSeen
<1> HIDE DEF g, s
<1>3. /\ s \in StType /\ s.have_seq = TRUE /\ s.last_seq = p.seq
      /\ s.fu_active = (st.fu_active /\ ~g) /\ s.fu = IF g THEN {} ELSE st.fu
      /\ s.need_idr = (st.need_idr \/ g) /\ s.au = st.au /\ s.au_bad = st.au_bad
      /\ s.au_has_idr = st.au_has_idr /\ s.cut = st.cut
      /\ s.au_have_ts = st.au_have_ts /\ s.au_ts = st.au_ts
  <2> DEFINE b == st.fu_active /\ ~g
             n == st.need_idr \/ g
             f == IF g THEN {} ELSE st.fu
  <2>1. b \in BOOLEAN /\ n \in BOOLEAN /\ f \in SUBSET (Nat \X {1, 5, 7}) BY <1>1 DEF StType
  <2>2. s = [st EXCEPT !.have_seq = TRUE, !.last_seq = p.seq, !.fu_active = b, !.fu = f,
                       !.need_idr = n]
    BY <1>2 DEF StType
  <2> HIDE DEF b, n, f
  <2>3. s \in StType BY <2>1, <2>2 DEF StType
  <2>4. /\ s.have_seq = TRUE /\ s.last_seq = p.seq /\ s.fu_active = b /\ s.fu = f
        /\ s.need_idr = n /\ s.au = st.au /\ s.au_bad = st.au_bad
        /\ s.au_has_idr = st.au_has_idr /\ s.cut = st.cut
        /\ s.au_have_ts = st.au_have_ts /\ s.au_ts = st.au_ts
    BY <2>2 DEF StType
  <2> QED BY <2>3, <2>4 DEF b, n, f
<1>4. u = (NewAu(p) /\ st.au_have_ts /\ s.au # {})
  BY <1>3 DEF Unfinished
<1>5. t = [(IF u THEN AuReset(s) ELSE s)
             EXCEPT !.need_idr = @ \/ u, !.au_have_ts = TRUE, !.au_ts = p.ts]
  BY <1>4 DEF TsSeen
<1>6. Header(p) = [t EXCEPT !.au_bad = @ \/ GapInAu(p)]
  BY DEF Header, s
<1> HIDE DEF u, t
<1>7. /\ t \in StType /\ t.have_seq = TRUE /\ t.last_seq = p.seq
      /\ t.fu_active = s.fu_active /\ t.fu = s.fu
      /\ t.need_idr = (s.need_idr \/ u) /\ t.au = (IF u THEN {} ELSE st.au)
      /\ t.au_bad = (st.au_bad /\ ~u)
      /\ t.au_has_idr = (st.au_has_idr /\ ~u) /\ t.cut = st.cut
      /\ t.au_have_ts = TRUE /\ t.au_ts = p.ts
  <2>1. CASE u
    <3>1. AuReset(s) \in StType BY <1>3 DEF StType, AuReset
    <3>2. t = [AuReset(s) EXCEPT !.need_idr = @ \/ u, !.au_have_ts = TRUE, !.au_ts = p.ts]
      BY <1>5, <2>1
    <3>3. /\ AuReset(s).au = {} /\ AuReset(s).au_bad = FALSE /\ AuReset(s).au_has_idr = FALSE
          /\ AuReset(s).have_seq = s.have_seq /\ AuReset(s).last_seq = s.last_seq
          /\ AuReset(s).fu_active = s.fu_active /\ AuReset(s).fu = s.fu
          /\ AuReset(s).need_idr = s.need_idr /\ AuReset(s).cut = s.cut
      BY <1>3 DEF StType, AuReset
    <3> DEFINE a == AuReset(s)
    <3> HIDE DEF a
    <3>4. t = [a EXCEPT !.need_idr = TRUE, !.au_have_ts = TRUE, !.au_ts = p.ts]
      BY <2>1, <3>1, <3>2 DEF a
    <3>5. /\ t \in StType /\ t.have_seq = a.have_seq /\ t.last_seq = a.last_seq
          /\ t.fu_active = a.fu_active /\ t.fu = a.fu /\ t.need_idr = TRUE /\ t.au = a.au
          /\ t.au_bad = a.au_bad /\ t.au_has_idr = a.au_has_idr /\ t.cut = a.cut
          /\ t.au_have_ts = TRUE /\ t.au_ts = p.ts
      BY <3>1, <3>4 DEF StType, a
    <3> QED BY <1>1, <1>3, <2>1, <3>3, <3>5 DEF a
  <2>2. CASE ~u
    <3>2. t = [s EXCEPT !.need_idr = @ \/ u, !.au_have_ts = TRUE, !.au_ts = p.ts]
      BY <1>5, <2>2
    <3>3. t = [s EXCEPT !.au_have_ts = TRUE, !.au_ts = p.ts]
      BY <1>3, <2>2, <3>2 DEF StType
    <3>4. t \in StType BY <1>3, <3>3 DEF StType
    <3>5. /\ t.have_seq = s.have_seq /\ t.last_seq = s.last_seq /\ t.fu_active = s.fu_active
          /\ t.fu = s.fu /\ t.need_idr = s.need_idr /\ t.au = s.au /\ t.au_bad = s.au_bad
          /\ t.au_has_idr = s.au_has_idr /\ t.cut = s.cut /\ t.au_have_ts = TRUE /\ t.au_ts = p.ts
      BY <1>3, <3>3 DEF StType
    <3>6. /\ t.need_idr = (s.need_idr \/ u) /\ t.au_bad = (st.au_bad /\ ~u)
          /\ t.au_has_idr = (st.au_has_idr /\ ~u)
      BY <1>3, <2>2, <3>5 DEF StType
    <3> QED BY <1>3, <2>2, <3>4, <3>5, <3>6
  <2> QED BY <2>1, <2>2, <1>1
<1> QED BY <1>1, <1>3, <1>6, <1>7 DEF StType, g, u

-----------------------------------------------------------------------------
\* What a receiver does with the payload of a packet.

Items == SUBSET (Nat \X {1, 5, 7})

\* t is s with got appended, of the items that should have been.
Appended(s, t, items, got) ==
  /\ got \subseteq items /\ t.au = s.au \cup got
  /\ t.au_bad = (s.au_bad \/ got # items) /\ t.cut = (s.cut \/ got # items)

SameHeader(s, t) ==
  /\ t.have_seq = s.have_seq /\ t.last_seq = s.last_seq
  /\ t.au_have_ts = s.au_have_ts /\ t.au_ts = s.au_ts

\* An append, field by field.
LEMMA StageIs ==
  ASSUME NEW s \in StType, NEW items \in Items, NEW short \in BOOLEAN,
         NEW t \in Stage(s, items, short)
  PROVE  /\ t \in StType /\ SameHeader(s, t)
         /\ t.need_idr = s.need_idr /\ t.au_has_idr = s.au_has_idr
         /\ t.fu = s.fu /\ t.fu_active = s.fu_active
         /\ \E got \in SUBSET items : Appended(s, t, items, got) /\ (~short => got = items)
<1>1. PICK got \in SUBSET items :
        /\ t = [s EXCEPT !.au = @ \cup got, !.au_bad = @ \/ got # items,
                         !.cut = @ \/ got # items]
        /\ ~short => got = items
  BY DEF Stage
<1>2. s.au \cup got \in SUBSET (Nat \X {1, 5, 7}) BY DEF StType, Items
<1> DEFINE x == got # items
<1>3. x \in BOOLEAN OBVIOUS
<1>4. t = [s EXCEPT !.au = @ \cup got, !.au_bad = @ \/ x, !.cut = @ \/ x] BY <1>1
<1> HIDE DEF x
<1>5. /\ t \in StType /\ SameHeader(s, t)
      /\ t.need_idr = s.need_idr /\ t.au_has_idr = s.au_has_idr
      /\ t.fu = s.fu /\ t.fu_active = s.fu_active
      /\ t.au = s.au \cup got /\ t.au_bad = (s.au_bad \/ x) /\ t.cut = (s.cut \/ x)
  <2> DEFINE b == s.au_bad \/ x
             c == s.cut \/ x
             a == s.au \cup got
  <2>1. b \in BOOLEAN /\ c \in BOOLEAN /\ a \in SUBSET (Nat \X {1, 5, 7})
    BY <1>2, <1>3 DEF StType
  <2>2. t = [s EXCEPT !.au = a, !.au_bad = b, !.cut = c] BY <1>4 DEF StType
  <2> HIDE DEF a, b, c
  <2>3. t \in StType BY <2>1, <2>2 DEF StType
  <2>4. /\ SameHeader(s, t) /\ t.need_idr = s.need_idr /\ t.au_has_idr = s.au_has_idr
        /\ t.fu = s.fu /\ t.fu_active = s.fu_active /\ t.au = a /\ t.au_bad = b /\ t.cut = c
    BY <2>2 DEF StType, SameHeader
  <2> QED BY <2>3, <2>4 DEF a, b, c
<1>6. Appended(s, t, items, got) BY <1>5 DEF Appended, x
<1> QED BY <1>1, <1>5, <1>6

\* Packet numbers and classes of a union.
LEMMA ItemUnion ==
  ASSUME NEW A, NEW B
  PROVE  /\ Indices(A \cup B) = Indices(A) \cup Indices(B)
         /\ Classes(A \cup B) = Classes(A) \cup Classes(B)
BY Zenon DEF Indices, Classes

\* Packet number and classes of the NAL units of one packet.
LEMMA ItemsFrom ==
  ASSUME NEW i, NEW R
  PROVE  /\ Classes({<<i, n>> : n \in R}) = R
         /\ i # 0 /\ R # {} => Indices({<<i, n>> : n \in R}) = {i}
<1> DEFINE A == {<<i, n>> : n \in R}
<1>1. \A a \in A : a[1] = i /\ a[2] \in R OBVIOUS
<1>2. \A n \in R : <<i, n>> \in A /\ <<i, n>>[2] = n OBVIOUS
<1> HIDE DEF A
<1>3. Classes(A) = R BY <1>1, <1>2 DEF Classes
<1>4. i # 0 /\ R # {} => Indices(A) = {i} BY <1>1, <1>2 DEF Indices
<1> QED BY <1>3, <1>4 DEF A

\* Out-of-band parameter sets have no packet number.
LEMMA SpropItems ==
  /\ Indices({}) = {} /\ Classes({}) = {}
  /\ Indices({SpropItem}) = {} /\ Classes({SpropItem}) = {7}
BY DEF Indices, Classes, SpropItem

\* The items of packet p: its number, and NAL units of its AU's class.
ItemsOf(p, items) ==
  /\ items \in Items /\ Indices(items) = {p.idx}
  /\ Classes(items) \subseteq (IF p.class = 5 THEN {5, 7} ELSE {p.class})
  /\ p.class = 5 /\ p.nals # <<7>> => 5 \in Classes(items)

\* The NAL units of a packet, with parameter sets ahead of an IDR.
LEMMA ItemsAre ==
  ASSUME NEW p \in PacketType, NEW sp \in {{}, {SpropItem}}, sp # {} => p.class = 5
  PROVE  ItemsOf(p, {<<p.idx, n>> : n \in Range(p.nals)} \cup sp)
<1> DEFINE items == {<<p.idx, n>> : n \in Range(p.nals)} \cup sp
<1>1. /\ p.idx \in Nat /\ p.idx # 0 /\ p.class \in {1, 5, 7}
      /\ p.nals \in {<<1>>, <<5>>, <<7>>, <<7, 5>>}
  BY DEF PacketType
<1>2. /\ Range(p.nals) # {} /\ Range(p.nals) \subseteq {1, 5, 7}
      /\ Range(p.nals) \subseteq (IF p.class = 5 THEN {5, 7} ELSE {p.class})
      /\ p.class = 5 /\ p.nals # <<7>> => 5 \in Range(p.nals)
  BY Ranges DEF PacketType
<1>3. items \in Items BY <1>1, <1>2 DEF Items, SpropItem
<1> DEFINE mine == {<<p.idx, n>> : n \in Range(p.nals)}
<1>4. Classes(mine) = Range(p.nals) /\ Indices(mine) = {p.idx} BY <1>1, <1>2, ItemsFrom
<1>5. Indices(sp) = {} /\ Classes(sp) = (IF sp = {} THEN {} ELSE {7}) BY SpropItems
<1> HIDE DEF mine
<1>6. /\ Indices(mine \cup sp) = {p.idx}
      /\ Classes(mine \cup sp) = Range(p.nals) \cup (IF sp = {} THEN {} ELSE {7})
  <2>1. /\ Indices(mine \cup sp) = Indices(mine) \cup Indices(sp)
        /\ Classes(mine \cup sp) = Classes(mine) \cup Classes(sp)
    BY ItemUnion, Zenon
  <2> QED BY <1>4, <1>5, <2>1
<1> USE DEF mine
<1> QED BY <1>2, <1>3, <1>6 DEF ItemsOf

\* What is not left out of a packet is appended to the AU.
Takes(s, p, short, t) ==
  \E items \in Items : \E got \in SUBSET items :
    ItemsOf(p, items) /\ Appended(s, t, items, got) /\ (~short => got = items)

\* The parameter sets ahead of a first fragment.
Ahead(p) == IF p.start THEN Sprop(Range(p.nals)) ELSE {}

\* Does packet p hold the start of a picture without references?
StartsIdr(p) == p.start /\ p.class = 5 /\ p.nals # <<7>>

\* The outcomes of a packet's payload: nothing of it is taken;
Skips(s, p, r) ==
  /\ \/ variant # "mpeg4" /\ s.need_idr /\ p.class = 1
     \/ variant = "mpeg4" /\ s.need_idr /\ p.class = 1 /\ p.start
     \/ variant # "mpeg4" /\ p.form = "fu" /\ SeqGap(p)
  /\ r.flush = TRUE /\ Appended(s, r.s, {}, {})
  /\ r.s.fu = s.fu /\ r.s.fu_active = s.fu_active
  /\ r.s.need_idr = s.need_idr /\ r.s.au_has_idr = s.au_has_idr

\* it is appended to the AU;
Stages(s, p, short, r) ==
  /\ variant # "mpeg4" => ~(s.need_idr /\ p.class = 1)
  /\ variant = "mpeg4" => ~(s.need_idr /\ p.class = 1 /\ p.start)
  /\ variant = "rtsp" => p.form = "whole"
  /\ r.flush = TRUE
  /\ r.s.fu = s.fu
  /\ IF variant = "rtp" /\ p.form = "fu"
     THEN (p.start \/ s.fu_active) /\ ~SeqGap(p) /\ r.s.fu_active = ~p.end
     ELSE r.s.fu_active = s.fu_active
  /\ r.s.need_idr = (s.need_idr /\ ~(variant = "mpeg4" /\ StartsIdr(p)))
  /\ r.s.au_has_idr = (s.au_has_idr \/ StartsIdr(p))
  /\ Takes(s, p, short, r.s)

\* it is a fragment without a start, in the direct receiver and in the other one;
Doubts(s, p, r) ==
  /\ variant = "rtp" /\ p.form = "fu" /\ ~p.start /\ ~s.fu_active
  /\ ~SeqGap(p) /\ ~(s.need_idr /\ p.class = 1)
  /\ r.flush = TRUE /\ r.s.au = s.au /\ r.s.au_bad = TRUE /\ r.s.cut = s.cut
  /\ r.s.fu = s.fu /\ r.s.fu_active = FALSE
  /\ r.s.need_idr = s.need_idr /\ r.s.au_has_idr = s.au_has_idr

Lacks(s, p, r) ==
  /\ variant = "rtsp" /\ p.form = "fu" /\ ~p.start /\ ~s.fu_active
  /\ ~SeqGap(p) /\ ~(s.need_idr /\ p.class = 1)
  /\ r.flush = FALSE /\ Appended(s, r.s, {}, {})
  /\ r.s.fu = s.fu /\ r.s.fu_active = FALSE
  /\ r.s.need_idr = s.need_idr /\ r.s.au_has_idr = s.au_has_idr

\* it overruns the fu buffer;
Overruns(s, p, short, r) ==
  /\ short /\ variant = "rtsp" /\ p.form = "fu" /\ (p.start \/ s.fu_active)
  /\ ~SeqGap(p) /\ ~(s.need_idr /\ p.class = 1)
  /\ r.flush = FALSE /\ r.s.fu_active = FALSE /\ r.s.cut = TRUE
  /\ r.s.need_idr = s.need_idr /\ r.s.au_has_idr = (s.au_has_idr \/ StartsIdr(p))
  /\ \E got \in SUBSET Ahead(p) :
       r.s.au = s.au \cup got /\ r.s.au_bad = (s.au_bad \/ got # Ahead(p))

\* it is gathered in the fu buffer, or ends the NAL unit there.
Gathers(s, p, short, r) ==
  /\ variant = "rtsp" /\ p.form = "fu" /\ (p.start \/ s.fu_active) /\ ~p.end
  /\ ~SeqGap(p) /\ ~(s.need_idr /\ p.class = 1)
  /\ r.flush = TRUE /\ r.s.fu_active = TRUE
  /\ r.s.fu = (IF p.start THEN {} ELSE s.fu) \cup {<<p.idx, p.nals[1]>>}
  /\ r.s.need_idr = s.need_idr /\ r.s.au_has_idr = (s.au_has_idr \/ StartsIdr(p))
  /\ \E got \in SUBSET Ahead(p) :
       Appended(s, r.s, Ahead(p), got) /\ (~short => got = Ahead(p))

Ends(s, p, short, r) ==
  /\ variant = "rtsp" /\ p.form = "fu" /\ s.fu_active /\ ~p.start /\ p.end
  /\ ~SeqGap(p) /\ ~(s.need_idr /\ p.class = 1)
  /\ r.flush = TRUE /\ r.s.fu_active = FALSE /\ r.s.fu = {}
  /\ r.s.need_idr = s.need_idr /\ r.s.au_has_idr = s.au_has_idr
  /\ \E got \in SUBSET (s.fu \cup {<<p.idx, p.nals[1]>>}) :
       /\ Appended(s, r.s, s.fu \cup {<<p.idx, p.nals[1]>>}, got)
       /\ ~short => got = s.fu \cup {<<p.idx, p.nals[1]>>}

\* Single NAL units and STAP-A: skipped, or appended.
LEMMA WholeIs ==
  ASSUME sprop \in BOOLEAN, NEW s \in StType, NEW p \in PacketType, p.form = "whole",
         NEW short \in BOOLEAN, NEW t \in WholeNals(s, p, short)
  PROVE  /\ t \in StType /\ SameHeader(s, t)
         /\ t.need_idr = s.need_idr /\ t.fu = s.fu /\ t.fu_active = s.fu_active
         /\ t.au_has_idr = (s.au_has_idr \/ StartsIdr(p))
         /\ \/ s.need_idr /\ p.class = 1 /\ Appended(s, t, {}, {})
            \/ /\ ~(s.need_idr /\ p.class = 1)
               /\ Takes(s, p, short, t)
<1> DEFINE kept == {n \in Range(p.nals) : ~s.need_idr \/ n # 1}
           s1 == [s EXCEPT !.au_has_idr = @ \/ 5 \in kept]
           items == {<<p.idx, n>> : n \in kept} \cup Sprop(kept)
<1>1. t \in Stage(s1, items, short) BY DEF WholeNals
<1>2. /\ p.idx \in Nat /\ p.idx # 0 /\ p.class \in {1, 5, 7}
      /\ Range(p.nals) \subseteq (IF p.class = 5 THEN {5, 7} ELSE {p.class})
      /\ (5 \in Range(p.nals)) = (p.class = 5 /\ p.nals # <<7>>)
      /\ 1 \in Range(p.nals) => Range(p.nals) = {1} /\ p.class = 1
      /\ p.class = 1 => Range(p.nals) = {1}
  BY Ranges DEF PacketType
<1>3. kept = IF s.need_idr /\ p.class = 1 THEN {} ELSE Range(p.nals)
  BY <1>2
<1>4. (5 \in kept) = StartsIdr(p) /\ (5 \in kept => p.class = 5)
  <2>1. p.start BY DEF PacketType
  <2> QED BY <1>2, <1>3, <2>1 DEF StartsIdr
<1> DEFINE five == 5 \in kept
<1>5. five \in BOOLEAN OBVIOUS
<1>6. s1 = [s EXCEPT !.au_has_idr = @ \/ five] OBVIOUS
<1>7. items \in Items BY <1>2 DEF Items, Sprop, SpropItem
<1>8. Sprop(kept) \in {{}, {SpropItem}} /\ (Sprop(kept) # {} => p.class = 5)
  BY <1>4 DEF Sprop
<1>9. ~(s.need_idr /\ p.class = 1) => ItemsOf(p, items)
  BY <1>3, <1>8, ItemsAre
<1>10. (s.need_idr /\ p.class = 1) => items = {}
  BY <1>3 DEF Sprop
<1> HIDE DEF items, five, kept
<1>11. /\ s1 \in StType /\ SameHeader(s, s1) /\ s1.need_idr = s.need_idr /\ s1.fu = s.fu
       /\ s1.fu_active = s.fu_active /\ s1.au = s.au /\ s1.au_bad = s.au_bad /\ s1.cut = s.cut
       /\ s1.au_has_idr = (s.au_has_idr \/ five)
  BY <1>5, <1>6 DEF StType, SameHeader
<1> HIDE DEF s1
<1>12. /\ t \in StType /\ SameHeader(s1, t)
       /\ t.need_idr = s1.need_idr /\ t.au_has_idr = s1.au_has_idr
       /\ t.fu = s1.fu /\ t.fu_active = s1.fu_active
       /\ \E got \in SUBSET items : Appended(s1, t, items, got) /\ (~short => got = items)
  BY <1>1, <1>7, <1>11, StageIs
<1>13. PICK got \in SUBSET items : Appended(s1, t, items, got) /\ (~short => got = items)
  BY <1>12
<1>14. Appended(s, t, items, got) BY <1>11, <1>13 DEF Appended
<1>15. SameHeader(s, t) BY <1>11, <1>12 DEF SameHeader
<1>16. t.au_has_idr = (s.au_has_idr \/ StartsIdr(p))
  BY <1>4, <1>11, <1>12 DEF five
<1>17. s.need_idr /\ p.class = 1 => Appended(s, t, {}, {})
  BY <1>10, <1>14 DEF Appended
<1>18. ~(s.need_idr /\ p.class = 1) => Takes(s, p, short, t)
  BY <1>7, <1>9, <1>13, <1>14 DEF Takes
<1> QED BY <1>11, <1>12, <1>15, <1>16, <1>17, <1>18

\* The items of a fragment.
LEMMA FragmentItems ==
  ASSUME sprop \in BOOLEAN, NEW p \in PacketType, p.form = "fu"
  PROVE  /\ p.nals[1] = p.class /\ Range(p.nals) = {p.class} /\ (p.nals = <<5>>) = (p.class = 5)
         /\ p.nals # <<7>> /\ p.class \in {1, 5}
         /\ Sprop(Range(p.nals)) \in {{}, {SpropItem}} /\ Sprop(Range(p.nals)) \in Items
         /\ Sprop(Range(p.nals)) = IF sprop /\ p.class = 5 THEN {SpropItem} ELSE {}
         /\ {<<p.idx, p.nals[1]>>} \in Items
         /\ ItemsOf(p, {<<p.idx, p.nals[1]>>})
         /\ ItemsOf(p, {<<p.idx, p.nals[1]>>} \cup Sprop(Range(p.nals)))
<1>1. p.nals = <<p.class>> /\ p.class \in {1, 5} /\ p.idx \in Nat BY DEF PacketType
<1>2. /\ p.nals[1] = p.class /\ Range(p.nals) = {p.class} /\ (p.nals = <<5>>) = (p.class = 5)
      /\ p.nals # <<7>>
  BY <1>1, Ranges
<1>3. Sprop(Range(p.nals)) = IF sprop /\ p.class = 5 THEN {SpropItem} ELSE {}
  BY <1>2 DEF Sprop
<1>4. {SpropItem} \in Items /\ {} \in Items /\ {<<p.idx, p.nals[1]>>} \in Items
  BY <1>1, <1>2 DEF Items, SpropItem
<1>5. {<<p.idx, n>> : n \in Range(p.nals)} = {<<p.idx, p.nals[1]>>} BY <1>2
<1>6. ItemsOf(p, {<<p.idx, n>> : n \in Range(p.nals)} \cup {})
  BY ItemsAre
<1>7. ItemsOf(p, {<<p.idx, n>> : n \in Range(p.nals)} \cup Sprop(Range(p.nals)))
  BY <1>3, ItemsAre
<1>8. {<<p.idx, n>> : n \in Range(p.nals)} \cup {} = {<<p.idx, n>> : n \in Range(p.nals)}
  OBVIOUS
<1> QED BY <1>1, <1>2, <1>3, <1>4, <1>5, <1>6, <1>7, <1>8

\* A fragment in handle_rtp_h264_direct.
LEMMA FuDirectIs ==
  ASSUME sprop \in BOOLEAN, variant = "rtp", NEW s \in StType, NEW p \in PacketType,
         p.form = "fu", ~SeqGap(p), ~(s.need_idr /\ p.class = 1),
         NEW short \in BOOLEAN, NEW t \in FuDirect(s, p, short),
         NEW r, r = [s |-> t, flush |-> TRUE]
  PROVE  /\ t \in StType /\ SameHeader(s, t)
         /\ Doubts(s, p, r) \/ Stages(s, p, short, r)
<1> DEFINE s1 == IF p.start
                 THEN [s EXCEPT !.fu_active = TRUE, !.au_has_idr = @ \/ p.nals = <<5>>]
                 ELSE s
           items == {<<p.idx, p.nals[1]>>} \cup (IF p.start THEN Sprop(Range(p.nals)) ELSE {})
           five == p.nals = <<5>>
<1>0. r.s = t /\ r.flush = TRUE OBVIOUS
<1>1. t \in IF s1.fu_active
            THEN {[a EXCEPT !.fu_active = @ /\ ~p.end] : a \in Stage(s1, items, short)}
            ELSE {[s1 EXCEPT !.au_bad = TRUE]}
  BY DEF FuDirect
<1>2. ItemsOf(p, items)
  <2>1. CASE p.start BY <2>1, FragmentItems
  <2>2. CASE ~p.start
    <3>1. items = {<<p.idx, p.nals[1]>>} BY <2>2
    <3> QED BY <3>1, FragmentItems
  <2> QED BY <2>1, <2>2
<1>3. items \in Items BY <1>2 DEF ItemsOf
<1>4. five \in BOOLEAN /\ (p.start /\ five) = StartsIdr(p)
  BY FragmentItems DEF StartsIdr, PacketType
<1>5. p.start \in BOOLEAN /\ p.end \in BOOLEAN BY DEF PacketType
<1> HIDE DEF items, five
<1>6. /\ s1 \in StType /\ SameHeader(s, s1) /\ s1.need_idr = s.need_idr /\ s1.fu = s.fu
      /\ s1.au = s.au /\ s1.au_bad = s.au_bad /\ s1.cut = s.cut
      /\ s1.fu_active = (p.start \/ s.fu_active)
      /\ s1.au_has_idr = (s.au_has_idr \/ (p.start /\ five))
  <2>1. CASE p.start
    <3>1. s1 = [s EXCEPT !.fu_active = TRUE, !.au_has_idr = @ \/ five] BY <2>1 DEF five
    <3> HIDE DEF s1
    <3> QED BY <1>4, <2>1, <3>1 DEF StType, SameHeader
  <2>2. CASE ~p.start
    <3>1. s1 = s BY <2>2
    <3> HIDE DEF s1
    <3> QED BY <2>2, <3>1 DEF StType, SameHeader
  <2> QED BY <2>1, <2>2
<1> HIDE DEF s1
<1>7. CASE s1.fu_active
  <2>1. PICK a \in Stage(s1, items, short) : t = [a EXCEPT !.fu_active = @ /\ ~p.end]
    BY <1>1, <1>7
  <2>2. /\ a \in StType /\ SameHeader(s1, a)
        /\ a.need_idr = s1.need_idr /\ a.au_has_idr = s1.au_has_idr
        /\ a.fu = s1.fu /\ a.fu_active = s1.fu_active
        /\ \E got \in SUBSET items : Appended(s1, a, items, got) /\ (~short => got = items)
    BY <1>3, <1>6, StageIs
  <2>3. PICK got \in SUBSET items : Appended(s1, a, items, got) /\ (~short => got = items)
    BY <2>2
  <2>4. /\ t \in StType /\ SameHeader(a, t) /\ t.need_idr = a.need_idr /\ t.fu = a.fu
        /\ t.au_has_idr = a.au_has_idr /\ t.au = a.au /\ t.au_bad = a.au_bad /\ t.cut = a.cut
        /\ t.fu_active = (a.fu_active /\ ~p.end)
    <3> DEFINE b == a.fu_active /\ ~p.end
    <3>1. b \in BOOLEAN BY <1>5, <2>2 DEF StType
    <3>2. t = [a EXCEPT !.fu_active = b] BY <2>1, <2>2 DEF StType
    <3> HIDE DEF b
    <3>3. /\ t \in StType /\ SameHeader(a, t) /\ t.need_idr = a.need_idr /\ t.fu = a.fu
          /\ t.au_has_idr = a.au_has_idr /\ t.au = a.au /\ t.au_bad = a.au_bad /\ t.cut = a.cut
          /\ t.fu_active = b
      BY <2>2, <3>1, <3>2 DEF StType, SameHeader
    <3> QED BY <3>3 DEF b
  <2>5. Appended(s, t, items, got) BY <1>6, <2>3, <2>4 DEF Appended
  <2>6. SameHeader(s, t) BY <1>6, <2>2, <2>4 DEF SameHeader
  <2>7. p.start \/ s.fu_active BY <1>6, <1>7
  <2>8. t.au_has_idr = (s.au_has_idr \/ StartsIdr(p)) BY <1>4, <1>6, <2>2, <2>4
  <2>9. t.fu_active = ~p.end BY <1>5, <1>6, <1>7, <2>2, <2>4 DEF StType
  <2>10. t.need_idr = s.need_idr /\ t.fu = s.fu BY <1>6, <2>2, <2>4
  <2>11. Takes(s, p, short, t) BY <1>2, <1>3, <2>3, <2>5 DEF Takes
  <2>12. t.need_idr = (s.need_idr /\ ~(variant = "mpeg4" /\ StartsIdr(p)))
    BY <2>10 DEF StType
  <2>13. variant # "mpeg4" /\ variant # "rtsp" OBVIOUS
  <2>14. Stages(s, p, short, r)
    BY <1>0, <2>7, <2>8, <2>9, <2>10, <2>11, <2>12, <2>13, Zenon DEF Stages
  <2> QED BY <2>4, <2>6, <2>14
<1>8. CASE ~s1.fu_active
  <2>1. t = [s1 EXCEPT !.au_bad = TRUE] BY <1>1, <1>8
  <2>2. /\ t \in StType /\ SameHeader(s1, t) /\ t.need_idr = s1.need_idr /\ t.fu = s1.fu
        /\ t.au_has_idr = s1.au_has_idr /\ t.au = s1.au /\ t.au_bad = TRUE /\ t.cut = s1.cut
        /\ t.fu_active = s1.fu_active
    BY <1>6, <2>1 DEF StType, SameHeader
  <2>3. SameHeader(s, t) BY <1>6, <2>2 DEF SameHeader
  <2>4. ~p.start /\ ~s.fu_active /\ t.fu_active = FALSE
    BY <1>5, <1>6, <1>8, <2>2 DEF StType
  <2>5. t.au_has_idr = s.au_has_idr BY <1>4, <1>6, <2>2, <2>4 DEF StType
  <2>6. Doubts(s, p, r) BY <1>0, <1>6, <2>2, <2>4, <2>5 DEF Doubts
  <2> QED BY <2>2, <2>3, <2>6
<1> QED BY <1>7, <1>8

\* A fragment in handle_rtp_h264.
LEMMA FuBufferedIs ==
  ASSUME sprop \in BOOLEAN, variant = "rtsp", NEW s \in StType, NEW p \in PacketType,
         p.form = "fu", ~SeqGap(p), ~(s.need_idr /\ p.class = 1),
         NEW short \in BOOLEAN, NEW r \in FuBuffered(s, p, short)
  PROVE  /\ r.s \in StType /\ SameHeader(s, r.s) /\ r.flush \in BOOLEAN
         /\ \/ Lacks(s, p, r) \/ Overruns(s, p, short, r)
            \/ Gathers(s, p, short, r) \/ Ends(s, p, short, r)
<1> DEFINE five == p.nals = <<5>>
           s1 == IF p.start
                 THEN [s EXCEPT !.fu = {}, !.fu_active = TRUE, !.au_has_idr = @ \/ p.nals = <<5>>]
                 ELSE s
           item == <<p.idx, p.nals[1]>>
           more(a) == IF p.end
                      THEN Stage([a EXCEPT !.fu = {}, !.fu_active = FALSE], a.fu \cup {item}, short)
                      ELSE {[a EXCEPT !.fu = @ \cup {item}]}
           over(a) == [a EXCEPT !.fu_active = FALSE, !.cut = @ \/ a.fu_active]
<1>1. PICK a \in (IF p.start THEN Stage(s1, Sprop(Range(p.nals)), short) ELSE {s1}) :
        \/ a.fu_active /\ \E b \in more(a) : r = [s |-> b, flush |-> TRUE]
        \/ (~a.fu_active \/ short) /\ r = [s |-> over(a), flush |-> FALSE]
  <2> DEFINE A == IF p.start THEN Stage(s1, Sprop(Range(p.nals)), short) ELSE {s1}
             set(a) == (IF a.fu_active THEN {[s |-> b, flush |-> TRUE] : b \in more(a)} ELSE {})
                       \cup (IF ~a.fu_active \/ short THEN {[s |-> over(a), flush |-> FALSE]}
                             ELSE {})
  <2>1. FuBuffered(s, p, short) = UNION {set(a) : a \in A} BY Zenon DEF FuBuffered
  <2> HIDE DEF A, set
  <2>2. PICK a \in A : r \in set(a) BY <2>1
  <2> HIDE DEF more, over, s1
  <2>3. \/ a.fu_active /\ \E b \in more(a) : r = [s |-> b, flush |-> TRUE]
        \/ (~a.fu_active \/ short) /\ r = [s |-> over(a), flush |-> FALSE]
    BY <2>2, Zenon DEF set
  <2> QED BY <2>2, <2>3, Zenon DEF A
<1>2. five \in BOOLEAN /\ (p.start /\ five) = StartsIdr(p) /\ {item} \in Items /\ Ahead(p) \in Items
  <2>1. {} \in Items BY DEF Items
  <2> QED BY <2>1, FragmentItems DEF Ahead, StartsIdr, PacketType
<1>3. p.start \in BOOLEAN /\ p.end \in BOOLEAN /\ ~(p.start /\ p.end) BY DEF PacketType
<1> HIDE DEF five, item
<1>4. /\ s1 \in StType /\ SameHeader(s, s1) /\ s1.need_idr = s.need_idr
      /\ s1.au = s.au /\ s1.au_bad = s.au_bad /\ s1.cut = s.cut
      /\ s1.fu = (IF p.start THEN {} ELSE s.fu)
      /\ s1.fu_active = (p.start \/ s.fu_active)
      /\ s1.au_has_idr = (s.au_has_idr \/ (p.start /\ five))
  <2>1. CASE p.start
    <3>1. s1 = [s EXCEPT !.fu = {}, !.fu_active = TRUE, !.au_has_idr = @ \/ five] BY <2>1 DEF five
    <3> HIDE DEF s1
    <3> QED BY <1>2, <2>1, <3>1 DEF StType, SameHeader
  <2>2. CASE ~p.start
    <3>1. s1 = s BY <2>2
    <3> HIDE DEF s1
    <3> QED BY <2>2, <3>1 DEF StType, SameHeader
  <2> QED BY <2>1, <2>2
<1>5. /\ a \in StType /\ SameHeader(s1, a)
      /\ a.need_idr = s1.need_idr /\ a.au_has_idr = s1.au_has_idr
      /\ a.fu = s1.fu /\ a.fu_active = s1.fu_active
      /\ \E got \in SUBSET Ahead(p) : Appended(s1, a, Ahead(p), got) /\ (~short => got = Ahead(p))
  <2>1. CASE p.start
    <3>1. a \in Stage(s1, Ahead(p), short) BY <1>1, <2>1 DEF Ahead
    <3> HIDE DEF s1
    <3> QED BY <1>2, <1>4, <3>1, StageIs
  <2>2. CASE ~p.start
    <3>1. a = s1 /\ Ahead(p) = {} BY <1>1, <2>2 DEF Ahead
    <3> HIDE DEF s1
    <3>2. Appended(s1, a, Ahead(p), {}) BY <1>4, <3>1 DEF Appended, StType
    <3> QED BY <1>4, <3>1, <3>2 DEF SameHeader
  <2> QED BY <2>1, <2>2
<1> HIDE DEF s1
<1>6. PICK got \in SUBSET Ahead(p) : Appended(s1, a, Ahead(p), got) /\ (~short => got = Ahead(p))
  BY <1>5
<1>7. /\ a.need_idr = s.need_idr /\ SameHeader(s, a)
      /\ a.au_has_idr = (s.au_has_idr \/ StartsIdr(p))
      /\ a.fu = (IF p.start THEN {} ELSE s.fu) /\ a.fu_active = (p.start \/ s.fu_active)
      /\ Appended(s, a, Ahead(p), got)
  <2>1. SameHeader(s, a) BY <1>4, <1>5 DEF SameHeader
  <2>2. Appended(s, a, Ahead(p), got) BY <1>4, <1>6 DEF Appended
  <2> QED BY <1>2, <1>4, <1>5, <2>1, <2>2
<1>8. CASE (~a.fu_active \/ short) /\ r = [s |-> over(a), flush |-> FALSE]
  <2>1. r.s = over(a) /\ r.flush = FALSE BY <1>8
  <2>2. /\ r.s \in StType /\ SameHeader(a, r.s) /\ r.s.need_idr = a.need_idr
        /\ r.s.au_has_idr = a.au_has_idr /\ r.s.fu_active = FALSE /\ r.s.fu = a.fu
        /\ r.s.cut = (a.cut \/ a.fu_active) /\ r.s.au = a.au /\ r.s.au_bad = a.au_bad
    BY <1>5, <2>1 DEF StType, SameHeader
  <2>3. SameHeader(s, r.s) BY <1>7, <2>2 DEF SameHeader
  <2>4. CASE a.fu_active
    <3>1. short /\ r.s.cut = TRUE BY <1>8, <2>2, <2>4
    <3>2. r.s.au = s.au \cup got /\ r.s.au_bad = (s.au_bad \/ got # Ahead(p))
      BY <1>7, <2>2 DEF Appended
    <3>3. p.start \/ s.fu_active BY <1>7, <2>4
    <3>4. Overruns(s, p, short, r) BY <1>7, <2>1, <2>2, <3>1, <3>2, <3>3 DEF Overruns
    <3> QED BY <2>1, <2>2, <2>3, <3>4
  <2>5. CASE ~a.fu_active
    <3>1. ~p.start /\ ~s.fu_active BY <1>7, <2>5
    <3>2. Ahead(p) = {} BY <3>1 DEF Ahead
    <3>3. got = {} BY <3>2
    <3>4. r.s.cut = a.cut BY <1>5, <2>2, <2>5 DEF StType
    <3>5. Appended(s, r.s, {}, {}) BY <1>7, <2>2, <3>2, <3>3, <3>4 DEF Appended
    <3>6. r.s.au_has_idr = s.au_has_idr BY <1>7, <2>2, <3>1 DEF StartsIdr, StType
    <3>7. r.s.fu = s.fu BY <1>7, <2>2, <3>1
    <3>8. Lacks(s, p, r) BY <1>7, <2>1, <2>2, <3>1, <3>5, <3>6, <3>7 DEF Lacks
    <3> QED BY <2>1, <2>2, <2>3, <3>8
  <2> QED BY <2>4, <2>5
<1>9. CASE a.fu_active /\ \E b \in more(a) : r = [s |-> b, flush |-> TRUE]
  <2>1. PICK b \in more(a) : r = [s |-> b, flush |-> TRUE] BY <1>9
  <2>2. r.s = b /\ r.flush = TRUE BY <2>1
  <2>3. p.start \/ s.fu_active BY <1>7, <1>9
  <2>4. CASE p.end
    <3> DEFINE c == [a EXCEPT !.fu = {}, !.fu_active = FALSE]
    <3>1. b \in Stage(c, a.fu \cup {item}, short) BY <2>1, <2>4
    <3>2. ~p.start /\ s.fu_active BY <1>3, <2>3, <2>4
    <3>3. a.fu = s.fu BY <1>7, <3>2
    <3>4. /\ c \in StType /\ SameHeader(a, c) /\ c.need_idr = a.need_idr
          /\ c.au_has_idr = a.au_has_idr /\ c.fu_active = FALSE /\ c.fu = {}
          /\ c.cut = a.cut /\ c.au = a.au /\ c.au_bad = a.au_bad
      BY <1>5 DEF StType, SameHeader
    <3>5. s.fu \cup {item} \in Items BY <1>2 DEF StType, Items
    <3> HIDE DEF c
    <3>6. /\ b \in StType /\ SameHeader(c, b)
          /\ b.need_idr = c.need_idr /\ b.au_has_idr = c.au_has_idr
          /\ b.fu = c.fu /\ b.fu_active = c.fu_active
          /\ \E all \in SUBSET (s.fu \cup {item}) :
               Appended(c, b, s.fu \cup {item}, all) /\ (~short => all = s.fu \cup {item})
      BY <3>1, <3>3, <3>4, <3>5, StageIs
    <3>7. PICK all \in SUBSET (s.fu \cup {item}) :
            Appended(c, b, s.fu \cup {item}, all) /\ (~short => all = s.fu \cup {item})
      BY <3>6
    <3>8. got = {} /\ Ahead(p) = {} BY <3>2 DEF Ahead
    <3>9. a.au = s.au /\ a.au_bad = s.au_bad /\ a.cut = s.cut
      BY <1>7, <3>8 DEF Appended, StType
    <3>10. Appended(s, b, s.fu \cup {item}, all) BY <3>4, <3>7, <3>9 DEF Appended
    <3>11. SameHeader(s, b) BY <1>7, <3>4, <3>6 DEF SameHeader
    <3>12. b.fu_active = FALSE /\ b.fu = {} /\ b.need_idr = s.need_idr
           /\ b.au_has_idr = (s.au_has_idr \/ StartsIdr(p))
      BY <1>7, <3>4, <3>6
    <3>13. r.s.au_has_idr = s.au_has_idr BY <2>2, <3>2, <3>12 DEF StartsIdr, StType
    <3>14. Ends(s, p, short, r)
      BY <2>2, <2>4, <3>2, <3>7, <3>10, <3>12, <3>13 DEF Ends, item
    <3> QED BY <2>2, <3>6, <3>11, <3>14
  <2>5. CASE ~p.end
    <3>1. b = [a EXCEPT !.fu = @ \cup {item}] BY <2>1, <2>5
    <3>2. a.fu \cup {item} \in SUBSET (Nat \X {1, 5, 7}) BY <1>2, <1>5 DEF StType, Items
    <3>3. /\ b \in StType /\ SameHeader(a, b) /\ b.need_idr = a.need_idr
          /\ b.au_has_idr = a.au_has_idr /\ b.fu_active = a.fu_active /\ b.fu = a.fu \cup {item}
          /\ b.cut = a.cut /\ b.au = a.au /\ b.au_bad = a.au_bad
      BY <1>5, <3>1, <3>2 DEF StType, SameHeader
    <3>4. SameHeader(s, b) BY <1>7, <3>3 DEF SameHeader
    <3>5. Appended(s, b, Ahead(p), got) BY <1>7, <3>3 DEF Appended
    <3>6. b.fu_active = TRUE BY <1>5, <1>9, <3>3 DEF StType
    <3>7. b.fu = (IF p.start THEN {} ELSE s.fu) \cup {<<p.idx, p.nals[1]>>}
      BY <1>7, <3>3 DEF item
    <3>8. Gathers(s, p, short, r)
      BY <1>6, <1>7, <2>2, <2>3, <2>5, <3>3, <3>5, <3>6, <3>7 DEF Gathers
    <3> QED BY <2>2, <3>3, <3>4, <3>8
  <2> QED BY <2>4, <2>5
<1> QED BY <1>1, <1>8, <1>9

\* A packet in handle_rtp_mpeg4_direct.
LEMMA Mpeg4Is ==
  ASSUME NEW s \in StType, NEW p \in PacketType, NEW short \in BOOLEAN,
         NEW r \in HandleMpeg4(s, p, short)
  PROVE  /\ r.s \in StType /\ SameHeader(s, r.s) /\ r.flush = TRUE
         /\ r.s.fu = s.fu /\ r.s.fu_active = s.fu_active
         /\ r.s.au_has_idr = (s.au_has_idr \/ StartsIdr(p))
         /\ r.s.need_idr = (s.need_idr /\ ~StartsIdr(p))
         /\ \/ s.need_idr /\ p.class = 1 /\ p.start /\ Appended(s, r.s, {}, {})
            \/ /\ ~(s.need_idr /\ p.class = 1 /\ p.start)
               /\ Takes(s, p, short, r.s)
<1> DEFINE s1 == IF HasIVop(p) THEN [s EXCEPT !.au_has_idr = TRUE, !.need_idr = FALSE] ELSE s
           items == {<<p.idx, n>> : n \in Range(p.nals)}
<1>1. p.form # "empty" /\ p.start \in BOOLEAN BY DEF PacketType
<1>2. /\ (5 \in Range(p.nals)) = (p.class = 5 /\ p.nals # <<7>>)
      /\ (1 \in Range(p.nals)) = (p.class = 1)
  BY Ranges DEF PacketType
<1>3. /\ HasIVop(p) = StartsIdr(p)
      /\ HasVop(p) = (p.start /\ (p.class = 1 \/ (p.class = 5 /\ p.nals # <<7>>)))
      /\ StartsIdr(p) \in BOOLEAN
  BY <1>1, <1>2 DEF HasIVop, HasVop, StartsIdr
<1>4. /\ s1 \in StType /\ SameHeader(s, s1) /\ s1.fu = s.fu /\ s1.fu_active = s.fu_active
      /\ s1.au = s.au /\ s1.au_bad = s.au_bad /\ s1.cut = s.cut
      /\ s1.au_has_idr = (s.au_has_idr \/ StartsIdr(p))
      /\ s1.need_idr = (s.need_idr /\ ~StartsIdr(p))
  <2>1. CASE StartsIdr(p)
    <3>1. s1 = [s EXCEPT !.au_has_idr = TRUE, !.need_idr = FALSE] BY <1>3, <2>1
    <3> HIDE DEF s1
    <3> QED BY <2>1, <3>1 DEF StType, SameHeader
  <2>2. CASE ~StartsIdr(p)
    <3>1. s1 = s BY <1>3, <2>2
    <3> HIDE DEF s1
    <3> QED BY <2>2, <3>1 DEF StType, SameHeader
  <2> QED BY <2>1, <2>2
<1>5. ItemsOf(p, items)
  <2>1. items = items \cup {} OBVIOUS
  <2>2. ItemsOf(p, items \cup {}) BY ItemsAre
  <2> QED BY <2>1, <2>2
<1>6. r \in Flushing(IF s1.need_idr /\ HasVop(p) THEN {s1} ELSE Stage(s1, items, short))
  <2>1. CASE s1.need_idr /\ HasVop(p)
    <3>1. HandleMpeg4(s, p, short) = Flushing({s1}) BY <1>1, <2>1, Zenon DEF HandleMpeg4
    <3> QED BY <2>1, <3>1
  <2>2. CASE ~(s1.need_idr /\ HasVop(p))
    <3>1. HandleMpeg4(s, p, short) = Flushing(Stage(s1, items, short))
      BY <1>1, <2>2, Zenon DEF HandleMpeg4
    <3> QED BY <2>2, <3>1
  <2> QED BY <2>1, <2>2
<1> HIDE DEF s1, items
<1>7. (s1.need_idr /\ HasVop(p)) <=> (s.need_idr /\ p.class = 1 /\ p.start)
  <2>1. CASE StartsIdr(p)
    <3>1. s1.need_idr = FALSE BY <1>4, <2>1
    <3>2. p.class = 5 BY <2>1 DEF StartsIdr
    <3> QED BY <3>1, <3>2
  <2>2. CASE ~StartsIdr(p)
    <3>1. s1.need_idr = s.need_idr BY <1>4, <2>2 DEF StType
    <3>2. HasVop(p) <=> p.start /\ p.class = 1 BY <1>3, <2>2 DEF StartsIdr
    <3> QED BY <3>1, <3>2
  <2> QED BY <2>1, <2>2
<1>8. CASE s1.need_idr /\ HasVop(p)
  <2>1. r.s = s1 /\ r.flush = TRUE BY <1>6, <1>8 DEF Flushing
  <2>2. Appended(s, s1, {}, {}) BY <1>4 DEF Appended, StType
  <2> QED BY <1>3, <1>4, <1>7, <1>8, <2>1, <2>2
<1>9. CASE ~(s1.need_idr /\ HasVop(p))
  <2>1. PICK t \in Stage(s1, items, short) : r.s = t /\ r.flush = TRUE
    BY <1>6, <1>9 DEF Flushing
  <2>2. items \in Items BY <1>5 DEF ItemsOf
  <2>3. /\ t \in StType /\ SameHeader(s1, t)
        /\ t.need_idr = s1.need_idr /\ t.au_has_idr = s1.au_has_idr
        /\ t.fu = s1.fu /\ t.fu_active = s1.fu_active
        /\ \E got \in SUBSET items : Appended(s1, t, items, got) /\ (~short => got = items)
    BY <1>4, <2>2, StageIs
  <2>4. PICK got \in SUBSET items : Appended(s1, t, items, got) /\ (~short => got = items)
    BY <2>3
  <2>5. Appended(s, t, items, got) BY <1>4, <2>4 DEF Appended
  <2>6. SameHeader(s, t) BY <1>4, <2>3 DEF SameHeader
  <2>7. /\ t.fu = s.fu /\ t.fu_active = s.fu_active
        /\ t.au_has_idr = (s.au_has_idr \/ StartsIdr(p))
        /\ t.need_idr = (s.need_idr /\ ~StartsIdr(p))
    BY <1>4, <2>3
  <2>8. ~(s.need_idr /\ p.class = 1 /\ p.start) BY <1>7, <1>9
  <2>9. Takes(s, p, short, t) BY <1>5, <2>2, <2>4, <2>5 DEF Takes
  <2> QED BY <1>3, <2>1, <2>3, <2>6, <2>7, <2>8, <2>9
<1> QED BY <1>8, <1>9

\* The handlers do one of these.
LEMMA PayloadIs ==
  ASSUME RtpTypeOK, NEW s \in StType, NEW p \in PacketType, NEW short \in BOOLEAN,
         NEW r \in Payload(s, p, short)
  PROVE  /\ r.s \in StType /\ SameHeader(s, r.s) /\ r.flush \in BOOLEAN
         /\ \/ Skips(s, p, r) \/ Stages(s, p, short, r) \/ Doubts(s, p, r) \/ Lacks(s, p, r)
            \/ Overruns(s, p, short, r) \/ Gathers(s, p, short, r) \/ Ends(s, p, short, r)
<1>1. sprop \in BOOLEAN /\ variant \in {"rtsp", "rtp", "mpeg4"} BY DEF RtpTypeOK, TxOk
<1>2. /\ p.form \in {"whole", "fu"} /\ p.start \in BOOLEAN /\ p.end \in BOOLEAN
      /\ p.form = "whole" => p.start
  BY DEF PacketType
<1>3. SeqGap(p) \in BOOLEAN BY DEF SeqGap
<1>4. CASE variant = "mpeg4"
  <2>1. r \in HandleMpeg4(s, p, short) BY <1>4 DEF Payload
  <2>2. /\ r.s \in StType /\ SameHeader(s, r.s) /\ r.flush = TRUE
        /\ r.s.fu = s.fu /\ r.s.fu_active = s.fu_active
        /\ r.s.au_has_idr = (s.au_has_idr \/ StartsIdr(p))
        /\ r.s.need_idr = (s.need_idr /\ ~StartsIdr(p))
        /\ \/ s.need_idr /\ p.class = 1 /\ p.start /\ Appended(s, r.s, {}, {})
           \/ /\ ~(s.need_idr /\ p.class = 1 /\ p.start)
              /\ Takes(s, p, short, r.s)
    BY <2>1, Mpeg4Is
  <2>3. CASE s.need_idr /\ p.class = 1 /\ p.start
    <3>1. StartsIdr(p) = FALSE BY <2>3 DEF StartsIdr
    <3>2. r.s.au_has_idr = s.au_has_idr /\ r.s.need_idr = s.need_idr
      BY <2>2, <3>1 DEF StType
    <3> QED BY <1>4, <2>2, <2>3, <3>2 DEF Skips
  <2>4. CASE ~(s.need_idr /\ p.class = 1 /\ p.start)
    <3>1. Stages(s, p, short, r) BY <1>4, <2>2, <2>4, Zenon DEF Stages
    <3> QED BY <2>2, <3>1
  <2> QED BY <2>3, <2>4
<1>5. CASE variant # "mpeg4" /\ p.form = "whole"
  <2>1. r \in Flushing(WholeNals(s, p, short))
    BY <1>1, <1>5 DEF Payload, HandleH264, HandleH264Direct
  <2>2. r.s \in WholeNals(s, p, short) /\ r.flush = TRUE BY <2>1 DEF Flushing
  <2>3. /\ r.s \in StType /\ SameHeader(s, r.s)
        /\ r.s.need_idr = s.need_idr /\ r.s.fu = s.fu /\ r.s.fu_active = s.fu_active
        /\ r.s.au_has_idr = (s.au_has_idr \/ StartsIdr(p))
        /\ \/ s.need_idr /\ p.class = 1 /\ Appended(s, r.s, {}, {})
           \/ /\ ~(s.need_idr /\ p.class = 1)
              /\ Takes(s, p, short, r.s)
    BY <1>1, <1>5, <2>2, WholeIs
  <2>4. CASE s.need_idr /\ p.class = 1
    <3>1. StartsIdr(p) = FALSE BY <2>4 DEF StartsIdr
    <3>2. r.s.au_has_idr = s.au_has_idr BY <2>3, <3>1 DEF StType
    <3> QED BY <1>5, <2>2, <2>3, <2>4, <3>2 DEF Skips
  <2>5. CASE ~(s.need_idr /\ p.class = 1)
    <3>1. r.s.need_idr = (s.need_idr /\ ~(variant = "mpeg4" /\ StartsIdr(p)))
      BY <1>5, <2>3 DEF StType
    <3>2. ~(variant = "rtp" /\ p.form = "fu") BY <1>5
    <3>3. Stages(s, p, short, r) BY <1>5, <2>2, <2>3, <2>5, <3>1, <3>2, Zenon DEF Stages
    <3> QED BY <2>2, <2>3, <3>3
  <2> QED BY <2>4, <2>5
<1>6. CASE variant # "mpeg4" /\ p.form = "fu"
  <2>1. /\ (p.nals = <<5>>) = (p.class = 5) /\ p.class \in {1, 5}
        /\ StartsIdr(p) = (p.start /\ p.class = 5) /\ StartsIdr(p) \in BOOLEAN
    BY <1>1, <1>2, <1>6, FragmentItems DEF StartsIdr
  <2>2. FuSkipped(s, p) <=> SeqGap(p) \/ (s.need_idr /\ p.class = 1)
    BY <2>1 DEF FuSkipped
  <2>3. CASE FuSkipped(s, p)
    <3>1. r \in Flushing({s})
      BY <1>1, <1>6, <2>3 DEF Payload, HandleH264, HandleH264Direct
    <3>2. r.s = s /\ r.flush = TRUE BY <3>1 DEF Flushing
    <3>3. Appended(s, s, {}, {}) BY DEF Appended, StType
    <3>4. SameHeader(s, s) BY DEF SameHeader
    <3> QED BY <1>6, <2>2, <2>3, <3>2, <3>3, <3>4 DEF Skips
  <2>4. CASE ~FuSkipped(s, p) /\ variant = "rtp"
    <3>1. r \in Flushing(FuDirect(s, p, short))
      BY <1>6, <2>4 DEF Payload, HandleH264Direct
    <3>2. PICK t \in FuDirect(s, p, short) : r = [s |-> t, flush |-> TRUE] BY <3>1 DEF Flushing
    <3>3. ~SeqGap(p) /\ ~(s.need_idr /\ p.class = 1) BY <2>2, <2>4
    <3> QED BY <1>1, <1>6, <2>4, <3>2, <3>3, FuDirectIs
  <2>5. CASE ~FuSkipped(s, p) /\ variant = "rtsp"
    <3>1. r \in FuBuffered(s, p, short)
      BY <1>6, <2>5 DEF Payload, HandleH264
    <3>2. ~SeqGap(p) /\ ~(s.need_idr /\ p.class = 1) BY <2>2, <2>5
    <3> QED BY <1>1, <1>6, <2>5, <3>1, <3>2, FuBufferedIs
  <2> QED BY <1>1, <1>6, <2>3, <2>4, <2>5
<1> QED BY <1>2, <1>4, <1>5, <1>6

-----------------------------------------------------------------------------
\* The state after the AU was flushed, and cut with it when it holds an IDR.
Flushed(t) == [Flush(t) EXCEPT !.cut = @ /\ ~(Complete(t) /\ t.au_has_idr)]

\* A flush, field by field.
LEMMA FlushedIs ==
  ASSUME NEW t \in StType
  PROVE  /\ Flushed(t) \in StType /\ SameHeader(t, Flushed(t))
         /\ Flushed(t).au = {} /\ Flushed(t).au_bad = FALSE /\ Flushed(t).au_has_idr = FALSE
         /\ Flushed(t).fu = t.fu /\ Flushed(t).fu_active = t.fu_active
         /\ Flushed(t).need_idr = (t.need_idr /\ ~(Complete(t) /\ t.au_has_idr))
         /\ Flushed(t).cut = (t.cut /\ ~(Complete(t) /\ t.au_has_idr))
<1> DEFINE d == Complete(t) /\ t.au_has_idr
           a == AuReset(t)
           f == Flush(t)
<1>1. d \in BOOLEAN BY DEF Complete
<1>2. f = [a EXCEPT !.need_idr = @ /\ ~d] BY DEF Flush
<1>3. Flushed(t) = [f EXCEPT !.cut = @ /\ ~d] BY DEF Flushed
<1>4. /\ a \in StType /\ SameHeader(t, a) /\ a.au = {} /\ a.au_bad = FALSE
      /\ a.au_has_idr = FALSE /\ a.fu = t.fu /\ a.fu_active = t.fu_active
      /\ a.need_idr = t.need_idr /\ a.cut = t.cut
  BY DEF AuReset, StType, SameHeader
<1> HIDE DEF d, a, f
<1>5. /\ f \in StType /\ SameHeader(a, f) /\ f.au = a.au /\ f.au_bad = a.au_bad
      /\ f.au_has_idr = a.au_has_idr /\ f.fu = a.fu /\ f.fu_active = a.fu_active
      /\ f.need_idr = (a.need_idr /\ ~d) /\ f.cut = a.cut
  BY <1>1, <1>2, <1>4 DEF StType, SameHeader
<1> DEFINE g == Flushed(t)
<1>6. g = [f EXCEPT !.cut = @ /\ ~d] BY <1>3
<1> HIDE DEF g
<1>7. /\ g \in StType /\ SameHeader(f, g) /\ g.au = f.au /\ g.au_bad = f.au_bad
      /\ g.au_has_idr = f.au_has_idr /\ g.fu = f.fu /\ g.fu_active = f.fu_active
      /\ g.need_idr = f.need_idr /\ g.cut = (f.cut /\ ~d)
  BY <1>1, <1>5, <1>6 DEF StType, SameHeader
<1>8. SameHeader(t, g) BY <1>4, <1>5, <1>7 DEF SameHeader
<1>9. /\ g.au = {} /\ g.au_bad = FALSE /\ g.au_has_idr = FALSE /\ g.fu = t.fu
      /\ g.fu_active = t.fu_active /\ g.need_idr = (t.need_idr /\ ~d) /\ g.cut = (t.cut /\ ~d)
  BY <1>4, <1>5, <1>7
<1> QED BY <1>7, <1>8, <1>9 DEF g, d

\* What a handler leaves, with t the state ahead of maybe_flush.
Finished(t, flush, p) ==
  /\ st' = IF flush THEN Flushed(t) ELSE t
  /\ IF flush /\ Complete(t) THEN Decoded(t, p) ELSE out' = {} /\ chain' = chain

\* A handler is its payload and maybe_flush.
LEMMA HandleIs ==
  ASSUME NEW p, NEW short, Handle(p, short)
  PROVE  \E r \in Payload(Header(p), p, short) : Finished(r.s, r.flush /\ p.marker, p)
<1>1. PICK r \in Payload(Header(p), p, short) :
        LET flush == r.flush /\ p.marker
            done == flush /\ Complete(r.s)
        IN /\ st' = IF flush
                    THEN [Flush(r.s) EXCEPT !.cut = @ /\ ~(done /\ r.s.au_has_idr)]
                    ELSE r.s
           /\ IF done THEN Decoded(r.s, p) ELSE out' = {} /\ chain' = chain
  BY Zenon DEF Handle
<1> DEFINE f == r.flush /\ p.marker
           c == Complete(r.s)
<1>2. /\ st' = IF f THEN [Flush(r.s) EXCEPT !.cut = @ /\ ~(f /\ c /\ r.s.au_has_idr)] ELSE r.s
      /\ IF f /\ c THEN Decoded(r.s, p) ELSE out' = {} /\ chain' = chain
  BY <1>1
<1>3. st' = IF f THEN Flushed(r.s) ELSE r.s
  <2>1. CASE f
    <3>1. (f /\ c /\ r.s.au_has_idr) <=> (c /\ r.s.au_has_idr) BY <2>1
    <3>2. [Flush(r.s) EXCEPT !.cut = @ /\ ~(f /\ c /\ r.s.au_has_idr)] = Flushed(r.s)
      BY <2>1, <3>1 DEF Flushed
    <3> QED BY <1>2, <2>1, <3>2
  <2>2. CASE ~f BY <1>2, <2>2
  <2> QED BY <2>1, <2>2
<1> QED BY <1>2, <1>3 DEF Finished

\* The fields a handler always sets.
LEMMA HandleTyped ==
  ASSUME RtpTypeOK, NEW p \in PacketType, NEW short \in BOOLEAN, Handle(p, short)
  PROVE  /\ st' \in StType /\ chain' \in Int
         /\ st'.have_seq = TRUE /\ st'.last_seq = p.seq
         /\ st'.au_have_ts = TRUE /\ st'.au_ts = p.ts
<1>1. PICK r \in Payload(Header(p), p, short) : Finished(r.s, r.flush /\ p.marker, p)
  BY HandleIs
<1>2. st \in StType /\ chain \in Int BY DEF RtpTypeOK, TxOk
<1>3. p.seq \in 0..(SeqMod - 1) /\ p.ts \in 0..(TsMod - 1) BY DEF PacketType
<1>4. /\ Header(p) \in StType /\ Header(p).have_seq = TRUE /\ Header(p).last_seq = p.seq
      /\ Header(p).au_have_ts = TRUE /\ Header(p).au_ts = p.ts
  BY <1>2, <1>3, HeaderIs
<1>5. r.s \in StType /\ SameHeader(Header(p), r.s) BY <1>4, PayloadIs
<1>6. Flushed(r.s) \in StType /\ SameHeader(r.s, Flushed(r.s)) BY <1>5, FlushedIs
<1>7. st' = Flushed(r.s) \/ st' = r.s BY <1>1 DEF Finished
<1>8. chain' \in {chain, p.ts, Broken} BY <1>1 DEF Finished, Decoded
<1>9. chain' \in Int BY <1>2, <1>3, <1>8 DEF Broken
<1>10. CASE st' = r.s BY <1>4, <1>5, <1>9, <1>10 DEF SameHeader
<1>11. CASE st' = Flushed(r.s) BY <1>4, <1>5, <1>6, <1>9, <1>11 DEF SameHeader
<1> QED BY <1>7, <1>10, <1>11

\* A packet without a NAL unit leaves what its header does.
LEMMA StrayIs ==
  ASSUME RtpTypeOK, NEW p \in Strays, Handle(p, FALSE)
  PROVE  /\ p.seq = tx.seq /\ p.ts = tx.ts /\ p.idx = tx.idx
         /\ st' = Header(p) /\ out' = {} /\ chain' = chain
<1>1. PICK r \in Payload(Header(p), p, FALSE) : Finished(r.s, r.flush /\ p.marker, p)
  BY HandleIs
<1>2. /\ p.seq = tx.seq /\ p.ts = tx.ts /\ p.idx = tx.idx /\ ~p.marker
      /\ p.form \in {"empty"} \cup (IF variant = "mpeg4" THEN {} ELSE {"other"})
  BY DEF Strays
<1>3. r.s = Header(p)
  <2>1. variant \in {"rtsp", "rtp", "mpeg4"} BY DEF RtpTypeOK, TxOk
  <2>2. CASE p.form = "empty"
    <3>1. Payload(Header(p), p, FALSE) = {[s |-> Header(p), flush |-> FALSE]}
      <4>1. HandleMpeg4(Header(p), p, FALSE) = {[s |-> Header(p), flush |-> FALSE]}
        <5>1. ~HasVop(p) BY DEF HasVop, Strays
        <5> QED BY <2>2, <5>1 DEF HandleMpeg4
      <4>2. HandleH264(Header(p), p, FALSE) = {[s |-> Header(p), flush |-> FALSE]}
        BY <2>2 DEF HandleH264
      <4>3. HandleH264Direct(Header(p), p, FALSE) = {[s |-> Header(p), flush |-> FALSE]}
        BY <2>2 DEF HandleH264Direct
      <4> QED BY <2>1, <4>1, <4>2, <4>3 DEF Payload
    <3>2. r = [s |-> Header(p), flush |-> FALSE] BY <1>1, <3>1
    <3> QED BY <3>2
  <2>3. CASE p.form = "other" /\ variant # "mpeg4"
    BY <2>1, <2>3 DEF Payload, HandleH264, HandleH264Direct
  <2> QED BY <1>2, <2>2, <2>3
<1> QED BY <1>1, <1>2, <1>3 DEF Finished

-----------------------------------------------------------------------------
\* The type invariant holds at first,
LEMMA TypeInit == RtpInit => RtpTypeOK
<1> SUFFICES ASSUME RtpInit PROVE RtpTypeOK OBVIOUS
<1>1. /\ SeqMod \in Nat /\ SeqMod > 0 /\ TsMod \in Nat /\ TsMod > 1
      /\ variant \in {"rtsp", "rtp", "mpeg4"}
  BY RtpConstants DEF RtpInit
<1>2. tx \in TxType /\ tx.idx = 0 /\ ~tx.fu /\ tx.class = 0 BY <1>1 DEF RtpInit, TxType
<1>3. st \in StType BY <1>1 DEF RtpInit, StType
<1>4. rtsp = IF variant = "rtsp" THEN "connect" ELSE "stream" BY DEF RtpInit
<1>5. chain \in Int /\ lossy \in BOOLEAN /\ calm \in 0..3 /\ held = {}
  <2>1. chain = Join /\ lossy = FALSE /\ calm = 0 /\ held = {} BY DEF RtpInit
  <2>2. lossy \in BOOLEAN BY <2>1, Zenon
  <2>3. chain \in Int /\ calm \in 0..3 BY <2>1 DEF Join
  <2> QED BY <2>1, <2>2, <2>3
<1>6. sprop \in BOOLEAN
  <2>1. sprop \in IF variant = "rtp" THEN BOOLEAN ELSE {FALSE} BY DEF RtpInit
  <2> QED BY <2>1, Zenon
<1> QED BY <1>1, <1>2, <1>3, <1>4, <1>5, <1>6 DEF RtpTypeOK, TxOk

\* The count of calm AUs is bounded.
LEMMA CalmerTyped ==
  ASSUME calm \in 0..3, NEW p
  PROVE  Calmer(p) \in 0..3
BY DEF Calmer, Calm

\* and every step keeps it.
LEMMA TypeStep ==
  ASSUME RtpTypeOK, [RtpNext]_vars
  PROVE  RtpTypeOK'
<1> USE DEF RtpTypeOK, TxOk
<1>1. CASE Connect BY <1>1 DEF Connect
<1>2. CASE Describe BY <1>2 DEF Describe
<1>3. CASE Setup BY <1>3 DEF Setup
<1>4. CASE Play BY <1>4 DEF Play
<1>5. CASE StreamEnd BY <1>5 DEF StreamEnd
<1>6. CASE Discard
  <2>1. PICK p \in Packets : tx' = Sent(p) BY <1>6 DEF Discard
  <2>2. TxOk'
    <3>1. variant' = variant BY <1>6 DEF Discard
    <3> QED BY <2>1, <3>1, SentTyped
  <2> QED BY <1>6, <2>2 DEF Discard
<1>7. CASE Deliver
  <2>1. PICK p \in Packets : Handle(p, FALSE) /\ tx' = Sent(p) /\ calm' = Calmer(p)
    BY <1>7 DEF Deliver
  <2>2. TxOk'
    <3>1. variant' = variant BY <1>7 DEF Deliver
    <3> QED BY <2>1, <3>1, SentTyped
  <2>3. st' \in StType /\ chain' \in Int BY <2>1, PacketsTyped, HandleTyped
  <2>4. calm' \in 0..3 BY <2>1, CalmerTyped
  <2> QED BY <1>7, <2>2, <2>3, <2>4 DEF Deliver
<1>8. CASE DeliverShort
  <2>1. PICK p \in Packets : Handle(p, TRUE) /\ tx' = Sent(p) BY <1>8 DEF DeliverShort
  <2>2. TxOk'
    <3>1. variant' = variant BY <1>8 DEF DeliverShort
    <3> QED BY <2>1, <3>1, SentTyped
  <2>3. st' \in StType /\ chain' \in Int BY <2>1, PacketsTyped, HandleTyped
  <2> QED BY <1>8, <2>2, <2>3 DEF DeliverShort
<1>9. CASE DeliverStray
  <2>1. PICK p \in Strays : Handle(p, FALSE) BY <1>9 DEF DeliverStray
  <2>2. p.seq = tx.seq /\ p.ts = tx.ts /\ st' = Header(p) /\ chain' = chain BY <2>1, StrayIs
  <2>3. p.seq \in 0..(SeqMod - 1) /\ p.ts \in 0..(TsMod - 1) BY <2>2 DEF TxType
  <2>4. st' \in StType BY <2>2, <2>3, HeaderIs
  <2>5. tx' = [tx EXCEPT !.seq = (tx.seq + 1) % SeqMod] BY <1>9 DEF DeliverStray, TxType
  <2>6. (tx.seq + 1) % SeqMod \in 0..(SeqMod - 1) BY RtpConstants, ModSucc DEF TxType
  <2>7. tx' \in TxType /\ tx'.idx = tx.idx /\ tx'.class = tx.class /\ tx'.fu = tx.fu
    BY <2>5, <2>6 DEF TxType
  <2> QED BY <1>9, <2>2, <2>4, <2>7 DEF DeliverStray
<1>10. CASE Lose
  <2>1. PICK p \in Packets : tx' = Sent(p) BY <1>10 DEF Lose
  <2>2. TxOk'
    <3>1. variant' = variant BY <1>10 DEF Lose
    <3> QED BY <2>1, <3>1, SentTyped
  <2> QED BY <1>10, <2>2 DEF Lose
<1>11. CASE Delay
  <2>1. PICK p \in Packets : held' = {p} /\ tx' = Sent(p) BY <1>11 DEF Delay
  <2>2. TxOk'
    <3>1. variant' = variant BY <1>11 DEF Delay
    <3> QED BY <2>1, <3>1, SentTyped
  <2>3. held' \in SUBSET PacketType BY <2>1, PacketsTyped
  <2>4. variant = "mpeg4" => \A h \in held' : h.class = 1 /\ h.start => h.idx = 1
    BY <2>1, PacketsTyped
  <2> QED BY <1>11, <2>2, <2>3, <2>4 DEF Delay
<1>12. CASE DeliverLate
  <2>1. PICK p \in held : Handle(p, FALSE) BY <1>12 DEF DeliverLate
  <2>2. st' \in StType /\ chain' \in Int BY <2>1, HandleTyped
  <2>3. held' \in {held, {}} BY <1>12 DEF DeliverLate
  <2>4. calm' = 0 /\ UNCHANGED <<variant, rtsp, sprop, tx, lossy>> BY <1>12 DEF DeliverLate
  <2> QED BY <2>2, <2>3, <2>4
<1>13. CASE UNCHANGED vars BY <1>13 DEF vars
<1> QED BY <1>1, <1>2, <1>3, <1>4, <1>5, <1>6, <1>7, <1>8, <1>9, <1>10, <1>11, <1>12, <1>13
        DEF RtpNext

-----------------------------------------------------------------------------
\* Resyncs.

\* The timestamp of the next AU.
LEMMA NextTs ==
  ASSUME NEW ts \in 0..(TsMod - 1)
  PROVE  /\ (ts + 1) % TsMod \in 0..(TsMod - 1) /\ (ts + 1) % TsMod # ts
         /\ Prev((ts + 1) % TsMod) = ts
<1>1. TsMod \in Nat /\ TsMod > 1 BY RtpConstants
<1>2. (ts + 1) % TsMod = IF ts + 1 = TsMod THEN 0 ELSE ts + 1 BY <1>1, ModSucc
<1>3. (ts + 1) % TsMod \in 0..(TsMod - 1) /\ (ts + 1) % TsMod # ts BY <1>1, <1>2
<1>4. Prev((ts + 1) % TsMod) = IF (ts + 1) % TsMod = 0 THEN TsMod - 1 ELSE ((ts + 1) % TsMod) - 1
  BY <1>3, PrevIs
<1> QED BY <1>1, <1>2, <1>3, <1>4

\* With room for it, all of a packet is appended.
LEMMA TakesAll ==
  ASSUME NEW s \in StType, NEW p \in PacketType, NEW t, Takes(s, p, FALSE, t)
  PROVE  /\ t.au # {} /\ (s.au_bad = t.au_bad) /\ (t.cut = s.cut)
         /\ \E items \in Items : ItemsOf(p, items) /\ t.au = s.au \cup items
<1>0. PICK items \in Items : \E got \in SUBSET items :
        ItemsOf(p, items) /\ Appended(s, t, items, got) /\ got = items
  BY DEF Takes
<1>1. PICK got \in SUBSET items : ItemsOf(p, items) /\ Appended(s, t, items, got) /\ got = items
  BY <1>0
<1>2. items # {}
  <2>1. Indices(items) = {p.idx} BY <1>1 DEF ItemsOf
  <2>2. p.idx \in {p.idx} OBVIOUS
  <2>3. items = {} => Indices(items) = {} BY SpropItems
  <2> QED BY <2>1, <2>2, <2>3
<1>3. t.au = s.au \cup items /\ t.au_bad = (s.au_bad \/ got # items) /\ t.cut = (s.cut \/ got # items)
  BY <1>1 DEF Appended
<1>4. t.au_bad = s.au_bad /\ t.cut = s.cut BY <1>1, <1>3 DEF StType
<1> QED BY <1>1, <1>2, <1>3, <1>4

\* An append that lacks nothing brings no doubt.
LEMMA NothingAppended ==
  ASSUME NEW s \in StType, NEW t, NEW X, Appended(s, t, X, X)
  PROVE  t.au = s.au \cup X /\ t.au_bad = s.au_bad /\ t.cut = s.cut
BY DEF Appended, StType

\* A packet in step with the sequence numbers, with room, reaches maybe_flush and
\* brings no doubt, when the fragments before it were taken.
LEMMA InStepPayload ==
  ASSUME RtpTypeOK, FuFollowed, NEW p \in Packets, ~SeqGap(p),
         NEW s \in StType, s.fu_active = st.fu_active, st.need_idr => s.need_idr,
         NEW r \in Payload(s, p, FALSE)
  PROVE  /\ r.s \in StType /\ SameHeader(s, r.s)
         /\ r.flush = TRUE /\ r.s.au_bad = s.au_bad
         /\ r.s.need_idr => s.need_idr
         /\ s.au_has_idr => r.s.au_has_idr
         /\ StartsIdr(p) => r.s.au_has_idr
         /\ p.marker /\ p.class = 5 => r.s.au # {}
         /\ p.form = "fu" /\ ~p.end =>
              r.s.fu_active \/ variant = "mpeg4" \/ (r.s.need_idr /\ p.class # 5)
<1>1. /\ p \in PacketType /\ (tx.idx > 0 => p.class = tx.class)
      /\ ~tx.fu => p.start
  BY PacketsTyped
<1>2. /\ r.s \in StType /\ SameHeader(s, r.s)
      /\ \/ Skips(s, p, r) \/ Stages(s, p, FALSE, r) \/ Doubts(s, p, r) \/ Lacks(s, p, r)
         \/ Overruns(s, p, FALSE, r) \/ Gathers(s, p, FALSE, r) \/ Ends(s, p, FALSE, r)
  BY <1>1, PayloadIs
<1>3. ~Doubts(s, p, r) /\ ~Lacks(s, p, r)
  <2> SUFFICES ASSUME ~p.start, ~s.fu_active, ~(s.need_idr /\ p.class = 1), p.form = "fu",
                      variant # "mpeg4"
               PROVE  FALSE
    BY Zenon DEF Doubts, Lacks
  <2>1. tx.fu BY <1>1
  <2>2. tx.idx > 0 BY <2>1 DEF RtpTypeOK, TxOk, TxType
  <2>3. s.need_idr /\ tx.class # 5 BY <2>1 DEF FuFollowed
  <2>4. p.class \in {1, 5} BY <1>1 DEF PacketType
  <2> QED BY <1>1, <2>2, <2>3, <2>4
<1>4. ~Overruns(s, p, FALSE, r) BY DEF Overruns
<1>5. p.class = 1 => ~StartsIdr(p) /\ p.class # 5 BY DEF StartsIdr
<1>6. CASE Skips(s, p, r)
  <2>1. p.class = 1 /\ r.flush = TRUE /\ r.s.need_idr = s.need_idr /\ s.need_idr
        /\ r.s.au_has_idr = s.au_has_idr
    BY <1>6 DEF Skips
  <2>2. r.s.au_bad = s.au_bad
    <3>1. Appended(s, r.s, {}, {}) BY <1>6, Zenon DEF Skips
    <3> QED BY <3>1, NothingAppended, Zenon
  <2> QED BY <1>2, <1>5, <2>1, <2>2
<1>7. CASE Stages(s, p, FALSE, r)
  <2>1. r.s.au # {} /\ r.s.au_bad = s.au_bad
    <3>1. Takes(s, p, FALSE, r.s) BY <1>7, Zenon DEF Stages
    <3>2. r.s.au # {} /\ s.au_bad = r.s.au_bad BY <1>1, <3>1, TakesAll, Zenon
    <3> QED BY <3>2
  <2>2. /\ r.flush = TRUE /\ (r.s.need_idr => s.need_idr)
        /\ s.au_has_idr \/ StartsIdr(p) => r.s.au_has_idr
    BY <1>7 DEF Stages
  <2>3. p.form = "fu" /\ ~p.end => r.s.fu_active \/ variant = "mpeg4"
    <3>1. p.form = "fu" => variant # "rtsp" BY <1>7 DEF Stages
    <3>2. variant = "rtp" /\ p.form = "fu" => r.s.fu_active = ~p.end BY <1>7 DEF Stages
    <3> QED BY <3>1, <3>2 DEF RtpTypeOK, TxOk
  <2> QED BY <1>2, <2>1, <2>2, <2>3
<1>8. CASE Gathers(s, p, FALSE, r)
  <2>1. PICK got \in SUBSET Ahead(p) : Appended(s, r.s, Ahead(p), got) /\ got = Ahead(p)
    BY <1>8 DEF Gathers
  <2>2. r.s.au_bad = s.au_bad BY <2>1, NothingAppended
  <2>3. /\ r.flush = TRUE /\ r.s.need_idr = s.need_idr /\ ~p.end /\ r.s.fu_active = TRUE
        /\ s.au_has_idr \/ StartsIdr(p) => r.s.au_has_idr
        /\ p.form = "fu"
    BY <1>8 DEF Gathers
  <2>4. ~p.marker BY <1>1, <2>3 DEF PacketType
  <2> QED BY <1>2, <2>2, <2>3, <2>4
<1>9. CASE Ends(s, p, FALSE, r)
  <2> DEFINE all == s.fu \cup {<<p.idx, p.nals[1]>>}
  <2>1. PICK got \in SUBSET all : Appended(s, r.s, all, got) /\ got = all
    BY <1>9 DEF Ends
  <2> HIDE DEF all
  <2>2. r.s.au_bad = s.au_bad /\ r.s.au = s.au \cup all BY <2>1, NothingAppended
  <2>3. /\ r.flush = TRUE /\ r.s.need_idr = s.need_idr /\ p.end
        /\ r.s.au_has_idr = s.au_has_idr /\ ~p.start
    BY <1>9 DEF Ends
  <2>4. ~StartsIdr(p) BY <2>3 DEF StartsIdr
  <2>5. r.s.au # {} BY <2>2 DEF all
  <2> QED BY <1>2, <2>2, <2>3, <2>4, <2>5
<1> QED BY <1>2, <1>3, <1>4, <1>6, <1>7, <1>8, <1>9

\* CalmInv: the next packet,
LEMMA CalmDeliver ==
  ASSUME RtpTypeOK, RtpTypeOK', CalmInv, Deliver
  PROVE  CalmInv'
<1>1. PICK p \in Packets : Handle(p, FALSE) /\ tx' = Sent(p) /\ calm' = Calmer(p)
  BY DEF Deliver
<1>2. rtsp = "stream" /\ rtsp' = "stream" /\ variant' = variant BY DEF Deliver
<1>3. /\ p \in PacketType /\ p.seq = tx.seq /\ p.ts = tx.ts /\ p.idx = tx.idx + 1
      /\ (tx.idx > 0 => p.class = tx.class) /\ (~tx.fu => p.start)
      /\ (tx.fu => p.form = "fu" /\ ~p.start)
  BY PacketsTyped
<1>4. /\ tx'.seq = (tx.seq + 1) % SeqMod
      /\ p.marker => tx'.idx = 0
      /\ ~p.marker => /\ tx'.idx = p.idx /\ tx'.ts = tx.ts /\ tx'.class = p.class
                      /\ tx'.fu = (p.form = "fu" /\ ~p.end)
      /\ tx'.fu => p.form = "fu" /\ ~p.end
  BY <1>1, <1>2, SentTyped
<1>5. /\ st'.have_seq = TRUE /\ st'.last_seq = p.seq
      /\ st'.au_have_ts = TRUE /\ st'.au_ts = p.ts
  BY <1>1, <1>3, HandleTyped
<1>6. st'.have_seq /\ InStep' BY <1>3, <1>4, <1>5 DEF InStep
<1>7. tx'.idx > 0 => st'.au_have_ts /\ st'.au_ts = tx'.ts BY <1>3, <1>4, <1>5
<1>8. tx'.idx = 0 => ~tx'.fu BY DEF RtpTypeOK, TxOk
<1>9. calm' \in 0..3 /\ calm \in 0..3 /\ p.marker \in BOOLEAN
  BY <1>3 DEF RtpTypeOK, TxOk, PacketType
<1>10. /\ calm' = 3 => calm = 3 \/ (calm = 2 /\ p.marker /\ p.class = 5)
       /\ calm' = 2 => calm = 2 \/ (calm = 1 /\ p.marker)
       /\ calm' = 1 => calm = 1 \/ (calm = 0 /\ p.marker)
  BY <1>1, <1>9 DEF Calmer, Calm
<1>11. CASE calm = 0
  <2>1. calm' <= 1 BY <1>9, <1>10, <1>11
  <2>2. calm' >= 1 => FuFollowed'
    BY <1>4, <1>8, <1>9, <1>10, <1>11 DEF FuFollowed
  <2> QED BY <1>2, <1>6, <1>7, <1>9, <2>1, <2>2 DEF CalmInv
<1>12. CASE calm >= 1
  <2>1. FuFollowed /\ st.have_seq /\ InStep
    BY <1>12 DEF CalmInv
  <2>2. ~SeqGap(p) BY <1>3, <2>1 DEF SeqGap, InStep
  <2>3. PICK r \in Payload(Header(p), p, FALSE) : Finished(r.s, r.flush /\ p.marker, p)
    BY <1>1, HandleIs
  <2>4. PICK s : s = Header(p) OBVIOUS
  <2>5. /\ s \in StType
        /\ s.need_idr = (st.need_idr \/ SeqGap(p) \/ Unfinished(p))
        /\ s.au_bad = ((st.au_bad /\ ~Unfinished(p)) \/ GapInAu(p))
        /\ s.au_has_idr = (st.au_has_idr /\ ~Unfinished(p))
        /\ s.fu_active = (st.fu_active /\ ~SeqGap(p))
    <3>1. st \in StType /\ p.seq \in 0..(SeqMod - 1) /\ p.ts \in 0..(TsMod - 1)
      BY <1>3 DEF RtpTypeOK, TxOk, TxType
    <3> QED BY <2>4, <3>1, HeaderIs
  <2>6. st.fu_active \in BOOLEAN /\ st.need_idr \in BOOLEAN BY DEF RtpTypeOK, TxOk, StType
  <2>7. s.fu_active = st.fu_active /\ (st.need_idr => s.need_idr) BY <2>2, <2>5, <2>6
  <2>8. r \in Payload(s, p, FALSE) BY <2>3, <2>4
  <2>9. /\ r.s \in StType /\ SameHeader(s, r.s)
        /\ r.flush = TRUE /\ r.s.au_bad = s.au_bad
        /\ r.s.need_idr => s.need_idr
        /\ s.au_has_idr => r.s.au_has_idr
        /\ StartsIdr(p) => r.s.au_has_idr
        /\ p.marker /\ p.class = 5 => r.s.au # {}
        /\ p.form = "fu" /\ ~p.end =>
             r.s.fu_active \/ variant = "mpeg4" \/ (r.s.need_idr /\ p.class # 5)
    BY <2>1, <2>2, <2>5, <2>7, <2>8, InStepPayload
  <2>10. st' = IF p.marker THEN Flushed(r.s) ELSE r.s
    BY <1>9, <2>3, <2>9 DEF Finished
  <2>11. PICK f : f = Flushed(r.s) OBVIOUS
  <2>12. /\ f.au = {} /\ f.au_bad = FALSE
         /\ f.need_idr = (r.s.need_idr /\ ~(Complete(r.s) /\ r.s.au_has_idr))
    BY <2>9, <2>11, FlushedIs
  <2>13. FuFollowed'
    <3>1. CASE p.marker BY <1>4, <1>8, <3>1 DEF FuFollowed
    <3>2. CASE ~p.marker
      <4>1. tx'.class = p.class /\ st' = r.s BY <1>4, <2>10, <3>2
      <4> QED BY <1>2, <1>4, <2>9, <4>1 DEF FuFollowed
    <3> QED BY <3>1, <3>2
  <2>14. calm' >= 2 => /\ ~st'.au_bad
                       /\ tx'.idx = 0 => st'.au = {}
                       /\ tx'.fu /\ tx'.class = 5 => st'.au_has_idr
    <3>1. CASE p.marker
      <4>1. st'.au = {} /\ st'.au_bad = FALSE BY <2>10, <2>11, <2>12, <3>1
      <4> QED BY <1>4, <1>8, <3>1, <4>1
    <3>2. CASE ~p.marker /\ calm >= 2
      <4>1. st' = r.s BY <2>10, <3>2
      <4>2. ~Unfinished(p)
        BY <1>3, <3>2 DEF Unfinished, NewAu, CalmInv, RtpTypeOK, TxOk, TxType
      <4>3. ~st.au_bad /\ ~GapInAu(p) BY <2>2, <3>2 DEF CalmInv, GapInAu
      <4>4. ~s.au_bad BY <2>5, <4>3
      <4>5. ~st'.au_bad BY <2>9, <4>1, <4>4
      <4>6. tx'.idx # 0 BY <1>3, <1>4, <3>2 DEF RtpTypeOK, TxOk, TxType
      <4>7. ASSUME tx'.fu, tx'.class = 5 PROVE st'.au_has_idr
        <5>1. p.class = 5 /\ p.form = "fu" BY <1>4, <3>2, <4>7
        <5>2. CASE p.start
          <6>1. p.nals = <<5>> BY <1>3, <5>1 DEF PacketType
          <6>2. p.nals # <<7>> BY <6>1
          <6>3. StartsIdr(p) BY <5>1, <5>2, <6>2 DEF StartsIdr
          <6> QED BY <2>9, <4>1, <6>3
        <5>3. CASE ~p.start
          <6>1. tx.fu BY <1>3, <5>3
          <6>2. tx.idx > 0 BY <6>1 DEF RtpTypeOK, TxOk, TxType
          <6>3. st.au_has_idr BY <1>3, <3>2, <5>1, <6>1, <6>2 DEF CalmInv
          <6>4. s.au_has_idr BY <2>5, <4>2, <6>3
          <6> QED BY <2>9, <4>1, <6>4
        <5> QED BY <5>2, <5>3
      <4> QED BY <4>5, <4>6, <4>7
    <3>3. ~p.marker /\ calm < 2 => calm' < 2 BY <1>9, <1>10
    <3> QED BY <1>9, <3>1, <3>2, <3>3
  <2>15. calm' = 3 => ~st'.need_idr
    <3> SUFFICES ASSUME calm' = 3 PROVE ~st'.need_idr OBVIOUS
    <3>1. calm >= 2 BY <1>9, <1>10
    <3>2. ~Unfinished(p)
      BY <1>3, <3>1 DEF Unfinished, NewAu, CalmInv, RtpTypeOK, TxOk, TxType
    <3>3. CASE calm = 3
      <4>1. ~st.need_idr BY <3>3 DEF CalmInv
      <4>2. ~s.need_idr BY <2>2, <2>5, <3>2, <4>1
      <4>3. ~r.s.need_idr BY <2>9, <4>2
      <4>4. ~f.need_idr BY <2>12, <4>3
      <4> QED BY <2>10, <2>11, <4>3, <4>4
    <3>4. CASE calm = 2 /\ p.marker /\ p.class = 5
      <4>1. r.s.au_has_idr
        <5>1. CASE p.start
          <6>1. p.nals # <<7>> BY <1>3, <3>4 DEF PacketType
          <6>2. StartsIdr(p) BY <3>4, <5>1, <6>1 DEF StartsIdr
          <6> QED BY <2>9, <6>2
        <5>2. CASE ~p.start
          <6>1. tx.fu BY <1>3, <5>2
          <6>2. tx.idx > 0 BY <6>1 DEF RtpTypeOK, TxOk, TxType
          <6>3. st.au_has_idr BY <1>3, <3>4, <6>1, <6>2 DEF CalmInv
          <6>4. s.au_has_idr BY <2>5, <3>2, <6>3
          <6> QED BY <2>9, <6>4
        <5> QED BY <5>1, <5>2
      <4>2. ~r.s.au_bad
        <5>1. ~st.au_bad /\ ~GapInAu(p) BY <2>2, <3>4 DEF CalmInv, GapInAu
        <5>2. ~s.au_bad BY <2>5, <5>1
        <5> QED BY <2>9, <5>2
      <4>3. Complete(r.s) BY <2>9, <3>4, <4>2 DEF Complete
      <4>4. ~f.need_idr BY <2>12, <4>1, <4>3
      <4> QED BY <2>10, <2>11, <3>4, <4>4
    <3> QED BY <1>10, <3>3, <3>4
  <2> QED BY <1>2, <1>6, <1>7, <2>13, <2>14, <2>15 DEF CalmInv
<1> QED BY <1>9, <1>11, <1>12

\* a stray one,
LEMMA CalmStray ==
  ASSUME RtpTypeOK, RtpTypeOK', CalmInv, DeliverStray
  PROVE  CalmInv'
<1>1. PICK p \in Strays : Handle(p, FALSE) BY DEF DeliverStray
<1>2. p.seq = tx.seq /\ p.ts = tx.ts /\ st' = Header(p) BY <1>1, StrayIs
<1>3. p.seq \in 0..(SeqMod - 1) /\ p.ts \in 0..(TsMod - 1) BY <1>2 DEF RtpTypeOK, TxOk, TxType
<1>4. /\ st'.have_seq = TRUE /\ st'.last_seq = p.seq
      /\ st'.need_idr = (st.need_idr \/ SeqGap(p) \/ Unfinished(p))
      /\ st'.au_have_ts = TRUE /\ st'.au_ts = p.ts
      /\ st'.au = (IF Unfinished(p) THEN {} ELSE st.au)
      /\ st'.au_bad = ((st.au_bad /\ ~Unfinished(p)) \/ GapInAu(p))
      /\ st'.au_has_idr = (st.au_has_idr /\ ~Unfinished(p))
      /\ st'.fu_active = (st.fu_active /\ ~SeqGap(p))
  BY <1>2, <1>3, HeaderIs DEF RtpTypeOK, TxOk
<1>5. /\ tx'.seq = (tx.seq + 1) % SeqMod /\ tx'.ts = tx.ts /\ tx'.idx = tx.idx
      /\ tx'.class = tx.class /\ tx'.fu = tx.fu
  BY DEF DeliverStray, RtpTypeOK, TxOk, TxType
<1>6. calm' = calm /\ rtsp = "stream" /\ rtsp' = "stream" /\ variant' = variant
  BY DEF DeliverStray
<1>7. st'.have_seq /\ InStep' BY <1>2, <1>4, <1>5 DEF InStep
<1>8. CASE calm = 0 BY <1>6, <1>8 DEF CalmInv
<1>9. CASE calm >= 1
  <2>1. ~SeqGap(p) BY <1>2, <1>9 DEF SeqGap, CalmInv, InStep
  <2>2. FuFollowed'
    <3>1. st.fu_active => st'.fu_active BY <1>4, <2>1
    <3>2. st.need_idr => st'.need_idr BY <1>4
    <3>3. FuFollowed BY <1>9 DEF CalmInv
    <3> QED BY <1>5, <1>6, <3>1, <3>2, <3>3 DEF FuFollowed
  <2>3. tx'.idx > 0 => st'.au_have_ts /\ st'.au_ts = tx'.ts BY <1>2, <1>4, <1>5
  <2>4. calm >= 2 => ~Unfinished(p)
    BY <1>2 DEF Unfinished, NewAu, CalmInv, RtpTypeOK, TxOk, TxType
  <2>5. calm >= 2 => ~st'.au_bad
    <3>1. ~GapInAu(p) BY <2>1 DEF GapInAu
    <3> QED BY <1>4, <3>1 DEF CalmInv
  <2>6. calm >= 2 => (tx'.idx = 0 => st'.au = {}) BY <1>4, <1>5, <2>4 DEF CalmInv
  <2>7. calm >= 2 => (tx'.fu /\ tx'.class = 5 => st'.au_has_idr)
    BY <1>4, <1>5, <2>4 DEF CalmInv
  <2>8. ASSUME calm = 3 PROVE ~st'.need_idr
    <3>1. ~st.need_idr /\ ~Unfinished(p) BY <2>4, <2>8 DEF CalmInv
    <3> QED BY <1>4, <2>1, <3>1
  <2> QED BY <1>6, <1>7, <2>2, <2>3, <2>5, <2>6, <2>7, <2>8 DEF CalmInv
<1> QED BY <1>8, <1>9 DEF RtpTypeOK, TxOk

\* and every step.
LEMMA CalmStep ==
  ASSUME RtpTypeOK, RtpTypeOK', CalmInv, [RtpNext]_vars
  PROVE  CalmInv'
<1> USE DEF CalmInv
<1>1. CASE Connect BY <1>1 DEF Connect, InStep, FuFollowed
<1>2. CASE Describe BY <1>2 DEF Describe, InStep, FuFollowed
<1>3. CASE Setup BY <1>3 DEF Setup, InStep, FuFollowed
<1>4. CASE Play BY <1>4 DEF Play, InStep, FuFollowed
<1>5. CASE StreamEnd BY <1>5 DEF StreamEnd, InStep, FuFollowed
<1>6. CASE Discard
  <2>1. calm' = 0 BY <1>6 DEF Discard
  <2> QED BY <2>1
<1>7. CASE Deliver BY <1>7, CalmDeliver
<1>8. CASE DeliverShort
  <2>1. calm' = 0 BY <1>8 DEF DeliverShort
  <2> QED BY <2>1
<1>9. CASE DeliverStray BY <1>9, CalmStray
<1>10. CASE Lose
  <2>1. calm' = 0 BY <1>10 DEF Lose
  <2> QED BY <2>1
<1>11. CASE Delay
  <2>1. calm' = 0 BY <1>11 DEF Delay
  <2> QED BY <2>1
<1>12. CASE DeliverLate
  <2>1. calm' = 0 BY <1>12 DEF DeliverLate
  <2> QED BY <2>1
<1>13. CASE UNCHANGED vars BY <1>13 DEF vars, InStep, FuFollowed
<1> QED BY <1>1, <1>2, <1>3, <1>4, <1>5, <1>6, <1>7, <1>8, <1>9, <1>10, <1>11, <1>12, <1>13
        DEF RtpNext

\* Waiting for an IDR ends: once the AU that a fault hit and another one went by
\* with no fault since, an AU with an IDR goes through rtp_au_flush or
\* rtp_direct_flush complete, and clears need_idr.
THEOREM WaitingEnds == RtpSpec => []Resyncs
<1>1. RtpInit => RtpTypeOK /\ CalmInv
  <2>1. RtpInit => calm = 0 BY DEF RtpInit
  <2> QED BY <2>1, TypeInit DEF CalmInv
<1>2. RtpTypeOK /\ CalmInv /\ [RtpNext]_vars => RtpTypeOK' /\ CalmInv'
  BY TypeStep, CalmStep
<1>3. CalmInv => Resyncs BY DEF CalmInv, Resyncs, Calm
<1> QED BY <1>1, <1>2, <1>3, PTL DEF RtpSpec

-----------------------------------------------------------------------------
\* Transparent.

\* One more packet number.
LEMMA NextInterval ==
  ASSUME NEW i \in Nat
  PROVE  1..(i + 1) = (1..i) \cup {i + 1}
OBVIOUS

\* Appending the items of the next packet.
LEMMA IndicesGrow ==
  ASSUME NEW A, NEW items, NEW i \in Nat, Indices(A) = 1..i, Indices(items) = {i + 1}
  PROVE  Indices(A \cup items) = 1..(i + 1)
<1>1. Indices(A \cup items) = Indices(A) \cup Indices(items) BY ItemUnion, Zenon
<1> QED BY <1>1, NextInterval

\* A flushed AU that starts or continues the chain.
LEMMA FlushChain ==
  ASSUME NEW t, NEW p, Decoded(t, p), chain = Join \/ (chain = Prev(p.ts) /\ Indices(t.au) = 1..p.idx)
  PROVE  chain' = p.ts
BY DEF Decoded

\* Untouched: the next packet,
LEMMA UntouchedDeliver ==
  ASSUME RtpTypeOK, RtpTypeOK', Untouched, Deliver
  PROVE  Untouched'
<1>1. PICK p \in Packets : Handle(p, FALSE) /\ tx' = Sent(p)
  BY DEF Deliver
<1>2. rtsp = "stream" /\ rtsp' = "stream" /\ variant' = variant /\ held' = held BY DEF Deliver
<1>3. /\ p \in PacketType /\ p.seq = tx.seq /\ p.ts = tx.ts /\ p.idx = tx.idx + 1
      /\ (~tx.fu => p.start) /\ (tx.fu => p.form = "fu" /\ ~p.start)
  BY PacketsTyped
<1>4. /\ tx'.seq = (tx.seq + 1) % SeqMod
      /\ p.marker => tx'.idx = 0 /\ tx'.ts = (tx.ts + 1) % TsMod
      /\ ~p.marker => /\ tx'.idx = p.idx /\ tx'.ts = tx.ts
                      /\ tx'.fu = (p.form = "fu" /\ ~p.end)
      /\ tx'.fu => p.form = "fu" /\ ~p.end
  BY <1>1, <1>2, SentTyped
<1>5. /\ st'.have_seq = TRUE /\ st'.last_seq = p.seq
      /\ st'.au_have_ts = TRUE /\ st'.au_ts = p.ts
  BY <1>1, <1>3, HandleTyped
<1>6. InStep' BY <1>3, <1>4, <1>5 DEF InStep
<1>7. /\ tx'.idx = 0 => ~tx'.fu
      /\ tx.idx = 0 => ~tx.fu
      /\ tx.idx \in Nat /\ tx.ts \in 0..(TsMod - 1) /\ tx.fu \in BOOLEAN
      /\ p.marker \in BOOLEAN /\ variant \in {"rtsp", "rtp", "mpeg4"}
  BY <1>3 DEF RtpTypeOK, TxOk, TxType, PacketType
<1>8. ~SeqGap(p) BY <1>3 DEF SeqGap, InStep, Untouched
<1>9. ~Unfinished(p) /\ ~GapInAu(p)
  BY <1>3, <1>8 DEF Unfinished, NewAu, GapInAu, Untouched
<1>10. PICK r \in Payload(Header(p), p, FALSE) : Finished(r.s, r.flush /\ p.marker, p)
  BY <1>1, HandleIs
<1>11. PICK s : s = Header(p) OBVIOUS
<1>12. /\ s \in StType
       /\ s.need_idr = (st.need_idr \/ SeqGap(p) \/ Unfinished(p))
       /\ s.au = (IF Unfinished(p) THEN {} ELSE st.au)
       /\ s.au_bad = ((st.au_bad /\ ~Unfinished(p)) \/ GapInAu(p))
       /\ s.fu = (IF SeqGap(p) THEN {} ELSE st.fu)
       /\ s.fu_active = (st.fu_active /\ ~SeqGap(p))
  <2>1. st \in StType /\ p.seq \in 0..(SeqMod - 1) /\ p.ts \in 0..(TsMod - 1)
    BY <1>3 DEF RtpTypeOK, TxOk, TxType
  <2> QED BY <1>11, <2>1, HeaderIs
<1>13. /\ s.au = st.au /\ s.fu = st.fu /\ ~s.need_idr /\ ~s.au_bad
       /\ s.fu_active <=> st.fu_active
  BY <1>8, <1>9, <1>12 DEF Untouched
<1>14. PICK t, flush : t = r.s /\ flush = r.flush OBVIOUS
<1>15. /\ t \in StType /\ flush \in BOOLEAN
       /\ \/ Skips(s, p, r) \/ Stages(s, p, FALSE, r) \/ Doubts(s, p, r) \/ Lacks(s, p, r)
          \/ Overruns(s, p, FALSE, r) \/ Gathers(s, p, FALSE, r) \/ Ends(s, p, FALSE, r)
  BY <1>3, <1>10, <1>11, <1>12, <1>14, PayloadIs
<1>16. ~Skips(s, p, r) BY <1>8, <1>13 DEF Skips
<1>17. ~Overruns(s, p, FALSE, r) BY DEF Overruns
<1>18. ~Doubts(s, p, r)
  <2> SUFFICES ASSUME variant = "rtp", ~p.start, ~s.fu_active PROVE FALSE BY DEF Doubts
  <2> QED BY <1>3, <1>13 DEF Untouched
<1>19. Finished(t, flush /\ p.marker, p) BY <1>10, <1>14
<1>20. PICK f : f = Flushed(t) OBVIOUS
<1>21. /\ f.au = {} /\ f.au_bad = FALSE /\ f.fu = t.fu /\ f.fu_active = t.fu_active
       /\ f.need_idr = (t.need_idr /\ ~(Complete(t) /\ t.au_has_idr))
  BY <1>15, <1>20, FlushedIs
<1> DEFINE joined == chain # Join \/ variant # "rtsp"
\* What the AU becomes when it goes on, and when it is flushed.
<1>22. SUFFICES
         \/ /\ flush = TRUE /\ (t.au # {} \/ (~p.marker /\ tx'.fu))
            /\ ~t.need_idr /\ ~t.au_bad
            /\ ~tx'.fu \/ variant # "rtsp" => t.fu = {}
            /\ joined => Indices(t.au \cup t.fu) = 1..p.idx
            /\ tx'.fu /\ variant # "mpeg4" => t.fu_active
         \/ /\ flush = FALSE /\ ~joined /\ t.au = {} /\ t.fu = {}
            /\ ~t.need_idr /\ ~t.au_bad /\ ~t.fu_active
  <2>1. CASE ~p.marker
    <3>1. st' = t /\ chain' = chain BY <1>19, <2>1 DEF Finished
    <3>2. ~st'.need_idr /\ ~st'.au_bad BY <1>22, <3>1
    <3>3. tx'.idx # 0 /\ tx'.ts = tx.ts /\ tx'.idx = p.idx BY <1>3, <1>4, <1>7, <2>1
    <3>4. ~tx'.fu \/ variant' # "rtsp" => st'.fu = {} BY <1>2, <1>22, <3>1
    <3>5. chain' # Join => chain' = Prev(tx'.ts) BY <3>1, <3>3 DEF Untouched
    <3>6. chain' # Join \/ variant' # "rtsp" =>
            /\ Indices(st'.au \cup st'.fu) = 1..tx'.idx
            /\ tx'.fu /\ variant' # "mpeg4" => st'.fu_active
      BY <1>2, <1>22, <3>1, <3>3
    <3>7. tx'.fu /\ ~st'.fu_active /\ variant' = "rtsp" => st'.au = {} /\ st'.fu = {}
      BY <1>2, <1>22, <3>1
    <3>8. held' = {} BY <1>2 DEF Untouched
    <3>9. st'.au # {} => st'.au_have_ts /\ st'.au_ts = tx'.ts BY <1>3, <1>5, <3>3
    <3>10. (Prev(tx.ts))' = Prev(tx'.ts) BY DEF Prev
    <3> QED BY <1>2, <1>6, <3>2, <3>3, <3>4, <3>5, <3>6, <3>7, <3>8, <3>9 DEF Untouched, Prev, Indices, Join
  <2>2. CASE p.marker /\ flush = TRUE
    <3>1. st' = f BY <1>19, <1>20, <2>2 DEF Finished
    <3>2. ~t.need_idr /\ ~t.au_bad /\ t.au # {} /\ t.fu = {}
          /\ (joined => Indices(t.au \cup t.fu) = 1..p.idx)
      <4>1. ~tx'.fu BY <1>4, <1>7, <2>2
      <4> QED BY <1>22, <2>2, <4>1
    <3>3. Complete(t) BY <3>2 DEF Complete
    <3>4. Decoded(t, p) BY <1>19, <2>2, <3>3 DEF Finished
    <3>5. t.au \cup t.fu = t.au BY <3>2
    <3>6. chain = Join \/ (chain = Prev(p.ts) /\ Indices(t.au) = 1..p.idx)
      BY <1>3, <3>2, <3>5 DEF Untouched
    <3>7. chain' = p.ts BY <3>4, <3>6, FlushChain
    <3>8. chain' = Prev(tx'.ts) BY <1>3, <1>4, <1>7, <2>2, <3>7, NextTs
    <3>9. st'.au = {} /\ st'.fu = {} /\ ~st'.need_idr /\ ~st'.au_bad BY <1>21, <3>1, <3>2
    <3>10. tx'.idx = 0 /\ ~tx'.fu BY <1>4, <1>7, <2>2
    <3>11. Indices(st'.au \cup st'.fu) = 1..tx'.idx
      <4>1. st'.au \cup st'.fu = {} BY <3>9
      <4>2. 1..tx'.idx = {} BY <3>10
      <4> QED BY <4>1, <4>2, SpropItems
    <3>12. held' = {} BY <1>2 DEF Untouched
    <3> QED BY <1>2, <1>6, <3>8, <3>9, <3>10, <3>11, <3>12 DEF Untouched, Prev, Indices
  <2>3. CASE p.marker /\ flush = FALSE
    <3>1. st' = t /\ chain' = chain BY <1>19, <2>3 DEF Finished
    <3>2. ~joined /\ st'.au = {} /\ st'.fu = {} /\ ~st'.need_idr /\ ~st'.au_bad /\ ~st'.fu_active
      BY <1>22, <2>3, <3>1
    <3>3. held' = {} BY <1>2 DEF Untouched
    <3> QED BY <1>2, <1>6, <3>1, <3>2, <3>3 DEF Untouched, Join
  <2> QED BY <1>7, <1>15, <2>1, <2>2, <2>3
<1>23. joined => Indices(st.au \cup st.fu) = 1..tx.idx BY DEF Untouched
<1>24. CASE Stages(s, p, FALSE, r)
  <2>1. /\ t.au # {} /\ (s.au_bad = t.au_bad)
        /\ \E items \in Items : ItemsOf(p, items) /\ t.au = s.au \cup items
    <3>1. Takes(s, p, FALSE, t) BY <1>14, <1>24 DEF Stages
    <3> QED BY <1>3, <1>12, <3>1, TakesAll
  <2>2. PICK items \in Items : ItemsOf(p, items) /\ t.au = st.au \cup items BY <1>13, <2>1
  <2>3. t.fu = st.fu /\ flush = TRUE /\ ~t.need_idr BY <1>13, <1>14, <1>24 DEF Stages
  <2>4. variant = "rtsp" => p.form # "fu" BY <1>24 DEF Stages
  <2>5. ~tx'.fu \/ variant # "rtsp" => t.fu = {}
    <3>1. variant = "rtsp" => ~tx.fu BY <1>3, <2>4
    <3> QED BY <2>3, <3>1 DEF Untouched
  <2>6. joined => Indices(t.au \cup t.fu) = 1..p.idx
    <3>1. t.au \cup t.fu = (st.au \cup st.fu) \cup items BY <2>2, <2>3
    <3>2. Indices(items) = {tx.idx + 1} BY <1>3, <2>2 DEF ItemsOf
    <3> QED BY <1>3, <1>7, <1>23, <3>1, <3>2, IndicesGrow
  <2>7. tx'.fu /\ variant # "mpeg4" => t.fu_active
    <3>1. variant = "rtp" /\ p.form = "fu" => t.fu_active = ~p.end
      BY <1>14, <1>24 DEF Stages
    <3> QED BY <1>4, <1>7, <2>4, <3>1
  <2> QED BY <1>13, <1>22, <2>1, <2>3, <2>5, <2>6, <2>7
<1>25. CASE Lacks(s, p, r)
  <2>1. variant = "rtsp" /\ p.form = "fu" /\ ~p.start /\ ~s.fu_active /\ flush = FALSE
        /\ t.fu = s.fu /\ t.fu_active = FALSE /\ t.need_idr = s.need_idr
        /\ Appended(s, t, {}, {})
    BY <1>14, <1>25 DEF Lacks
  <2>2. tx.fu /\ ~st.fu_active BY <1>3, <1>13, <2>1
  <2>3. st.au = {} /\ st.fu = {} /\ ~joined BY <2>1, <2>2 DEF Untouched
  <2>4. t.au = {} /\ t.au_bad = s.au_bad BY <1>12, <1>13, <2>1, <2>3, NothingAppended
  <2> QED BY <1>13, <1>22, <2>1, <2>3, <2>4
<1>26. CASE Gathers(s, p, FALSE, r)
  <2> DEFINE item == <<p.idx, p.nals[1]>>
  <2>1. /\ variant = "rtsp" /\ p.form = "fu" /\ ~p.end /\ flush = TRUE /\ t.fu_active = TRUE
        /\ t.need_idr = s.need_idr /\ t.fu = (IF p.start THEN {} ELSE s.fu) \cup {item}
        /\ \E got \in SUBSET Ahead(p) : Appended(s, t, Ahead(p), got) /\ got = Ahead(p)
    BY <1>14, <1>26 DEF Gathers
  <2>2. t.au = s.au \cup Ahead(p) /\ t.au_bad = s.au_bad BY <1>12, <2>1, NothingAppended
  <2>3. ~p.marker BY <1>3, <2>1 DEF PacketType
  <2>4. tx'.fu BY <1>4, <2>1, <2>3
  <2>5. Indices({item}) = {tx.idx + 1} /\ Indices(Ahead(p)) = {}
    <3>1. sprop \in BOOLEAN BY DEF RtpTypeOK, TxOk
    <3>2. ItemsOf(p, {item}) /\ Ahead(p) \in {{}, {SpropItem}}
      BY <1>3, <2>1, <3>1, FragmentItems DEF Ahead
    <3> QED BY <1>3, <3>2, SpropItems DEF ItemsOf
  <2>6. t.au \cup t.fu = ((st.au \cup st.fu) \cup Ahead(p)) \cup {item}
    <3>1. p.start => st.fu = {} BY <1>3 DEF Untouched
    <3> QED BY <1>13, <2>1, <2>2, <3>1
  <2>7. joined => Indices(t.au \cup t.fu) = 1..p.idx
    <3> SUFFICES ASSUME joined PROVE Indices(t.au \cup t.fu) = 1..p.idx OBVIOUS
    <3> DEFINE A == (st.au \cup st.fu) \cup Ahead(p)
    <3>1. Indices(A) = Indices(st.au \cup st.fu) \cup Indices(Ahead(p)) BY ItemUnion, Zenon
    <3>2. Indices(A) = 1..tx.idx BY <1>23, <2>5, <3>1
    <3> HIDE DEF A
    <3>3. Indices(A \cup {item}) = 1..(tx.idx + 1) BY <1>7, <2>5, <3>2, IndicesGrow
    <3> QED BY <1>3, <2>6, <3>3 DEF A
  <2> QED BY <1>13, <1>22, <2>1, <2>2, <2>3, <2>4, <2>7
<1>27. CASE Ends(s, p, FALSE, r)
  <2> DEFINE item == <<p.idx, p.nals[1]>>
             all == s.fu \cup {item}
  <2>1. /\ variant = "rtsp" /\ p.form = "fu" /\ p.end /\ flush = TRUE /\ t.fu_active = FALSE
        /\ t.need_idr = s.need_idr /\ t.fu = {}
        /\ \E got \in SUBSET all : Appended(s, t, all, got) /\ got = all
    BY <1>14, <1>27 DEF Ends
  <2>2. t.au = s.au \cup all /\ t.au_bad = s.au_bad BY <1>12, <2>1, NothingAppended
  <2>3. ~tx'.fu BY <1>4, <2>1
  <2>4. Indices({item}) = {tx.idx + 1}
    <3>1. sprop \in BOOLEAN BY DEF RtpTypeOK, TxOk
    <3>2. ItemsOf(p, {item}) BY <1>3, <2>1, <3>1, FragmentItems
    <3> QED BY <1>3, <3>2 DEF ItemsOf
  <2>5. t.au \cup t.fu = (st.au \cup st.fu) \cup {item} /\ t.au # {}
    BY <1>13, <2>1, <2>2
  <2>6. joined => Indices(t.au \cup t.fu) = 1..p.idx
    BY <1>3, <1>7, <1>23, <2>4, <2>5, IndicesGrow
  <2> QED BY <1>13, <1>22, <2>1, <2>2, <2>3, <2>5, <2>6
<1> QED BY <1>15, <1>16, <1>17, <1>18, <1>24, <1>25, <1>26, <1>27

\* a stray one,
LEMMA UntouchedStray ==
  ASSUME RtpTypeOK, RtpTypeOK', Untouched, DeliverStray
  PROVE  Untouched'
<1>1. PICK p \in Strays : Handle(p, FALSE) BY DEF DeliverStray
<1>2. p.seq = tx.seq /\ p.ts = tx.ts /\ st' = Header(p) /\ chain' = chain BY <1>1, StrayIs
<1>3. p.seq \in 0..(SeqMod - 1) /\ p.ts \in 0..(TsMod - 1) BY <1>2 DEF RtpTypeOK, TxOk, TxType
<1>4. /\ st'.have_seq = TRUE /\ st'.last_seq = p.seq
      /\ st'.need_idr = (st.need_idr \/ SeqGap(p) \/ Unfinished(p))
      /\ st'.au_have_ts = TRUE /\ st'.au_ts = p.ts
      /\ st'.au = (IF Unfinished(p) THEN {} ELSE st.au)
      /\ st'.au_bad = ((st.au_bad /\ ~Unfinished(p)) \/ GapInAu(p))
      /\ st'.fu = (IF SeqGap(p) THEN {} ELSE st.fu)
      /\ st'.fu_active = (st.fu_active /\ ~SeqGap(p))
  BY <1>2, <1>3, HeaderIs DEF RtpTypeOK, TxOk
<1>5. /\ tx'.seq = (tx.seq + 1) % SeqMod /\ tx'.ts = tx.ts /\ tx'.idx = tx.idx
      /\ tx'.class = tx.class /\ tx'.fu = tx.fu
  BY DEF DeliverStray, RtpTypeOK, TxOk, TxType
<1>6. held' = held /\ rtsp = "stream" /\ rtsp' = "stream" /\ variant' = variant
  BY DEF DeliverStray
<1>7. InStep' BY <1>2, <1>4, <1>5 DEF InStep
<1>8. ~SeqGap(p) BY <1>2 DEF SeqGap, InStep, Untouched
<1>9. ~Unfinished(p) /\ ~GapInAu(p)
  BY <1>2, <1>8 DEF Unfinished, NewAu, GapInAu, Untouched
<1>10. /\ st'.au = st.au /\ st'.fu = st.fu /\ ~st'.need_idr /\ ~st'.au_bad
       /\ st'.fu_active <=> st.fu_active
  BY <1>4, <1>8, <1>9 DEF Untouched
<1> QED BY <1>2, <1>4, <1>5, <1>6, <1>7, <1>10 DEF Untouched, Prev, Indices, Join

\* and every step while nothing was disturbed.
LEMMA TransStep ==
  ASSUME RtpTypeOK, RtpTypeOK', TransInv, [RtpNext]_vars
  PROVE  TransInv'
<1> USE DEF TransInv
<1> DEFINE same == UNCHANGED <<variant, tx, held, st, chain, lossy>>
<1>1. ASSUME same, rtsp' = rtsp \/ rtsp' \in {"stream", "closed"}
             \/ rtsp \notin {"stream", "closed"}
      PROVE  TransInv'
  BY <1>1 DEF Untouched, InStep, Prev, Indices, Join
<1>2. CASE Connect \/ Describe \/ Setup \/ Play \/ StreamEnd
  BY <1>1, <1>2 DEF Connect, Describe, Setup, Play, StreamEnd
<1>3. CASE Discard
  <2>1. UNCHANGED <<variant, rtsp, held, st, chain, lossy>> /\ rtsp = "play"
    BY <1>3 DEF Discard
  <2>2. variant = "rtsp" BY <2>1 DEF RtpTypeOK, TxOk
  <2> QED BY <2>1, <2>2 DEF Untouched, InStep, Prev, Join
<1>4. CASE Deliver
  <2>1. lossy' = lossy BY <1>4 DEF Deliver
  <2> QED BY <1>4, <2>1, UntouchedDeliver
<1>5. CASE DeliverStray
  <2>1. lossy' = lossy BY <1>5 DEF DeliverStray
  <2> QED BY <1>5, <2>1, UntouchedStray
<1>6. CASE DeliverShort \/ Lose \/ Delay
  BY <1>6 DEF DeliverShort, Lose, Delay
<1>7. CASE DeliverLate
  <2>1. held # {} /\ lossy' = lossy BY <1>7 DEF DeliverLate
  <2> QED BY <2>1 DEF Untouched
<1>8. CASE UNCHANGED vars
  BY <1>1, <1>8 DEF vars
<1> QED BY <1>2, <1>3, <1>4, <1>5, <1>6, <1>7, <1>8 DEF RtpNext

\* A stream that nothing disturbs passes untouched, of any length and with any
\* fragmentation: rtp_h264_seq_gap sees no gap, also where sequence numbers and
\* timestamps wrap, nothing is doubted, and every AU is flushed at its marker.
THEOREM StreamPasses == RtpSpec => []Transparent
<1>1. RtpInit => RtpTypeOK /\ TransInv
  <2> SUFFICES ASSUME RtpInit PROVE TransInv BY TypeInit
  <2>1. held = {} /\ chain = Join /\ tx.idx = 0 /\ ~tx.fu BY DEF RtpInit
  <2>2. st.au = {} /\ st.fu = {} /\ ~st.have_seq /\ ~st.need_idr /\ ~st.au_bad /\ ~st.fu_active
    BY DEF RtpInit
  <2>3. Indices(st.au \cup st.fu) = 1..tx.idx
    <3>1. st.au \cup st.fu = {} /\ 1..tx.idx = {} BY <2>1, <2>2
    <3> QED BY <3>1, SpropItems
  <2> QED BY <2>1, <2>2, <2>3 DEF TransInv, Untouched, InStep
<1>2. RtpTypeOK /\ TransInv /\ [RtpNext]_vars => RtpTypeOK' /\ TransInv'
  BY TypeStep, TransStep
<1>3. TransInv => Transparent BY DEF TransInv, Untouched, Transparent
<1> QED BY <1>1, <1>2, <1>3, PTL DEF RtpSpec

-----------------------------------------------------------------------------
\* NoHoles and ReferencesPresent.

\* The receivers whose references are followed, and the state in which they wait
\* for nothing and have dropped nothing.
Strict == variant = "rtp" \/ (variant = "rtsp" /\ sprop)
Clean(s) == ~s.need_idr /\ ~s.cut /\ chain # Join

\* What a receiver in state s holds of the AU, fragments in fu included.
Pending(s) == IF s.fu_active THEN s.fu ELSE {}
Staged(s) == s.au \cup Pending(s)
ClassSet(k) == IF k = 5 THEN {5, 7} ELSE {k}

\* After packet i of an AU of class k: what is staged has no hole.
Sound(s, i, k) ==
  /\ Staged(s) # {} /\ ~s.au_bad /\ ~(variant = "rtsp" /\ s.cut) =>
       /\ \E first \in 1..i : Indices(Staged(s)) = first..i
       /\ variant # "mpeg4" => /\ k = 1 => ~s.need_idr
                               /\ Classes(Staged(s)) \subseteq ClassSet(k)
  /\ variant = "rtsp" /\ s.fu_active => s.fu # {} /\ (k = 1 => ~s.need_idr)
  /\ Strict /\ s.au_has_idr /\ ~s.au_bad => s.au # {} /\ k = 5
  /\ variant # "rtsp" => s.fu = {}

\* The next packet goes on with a fragment, if fu.
Follow(s, fu) ==
  /\ variant = "rtsp" /\ s.fu_active => fu
  /\ variant = "rtsp" /\ fu /\ ~s.fu_active /\ ~s.au_bad /\ ~s.cut => s.au = {}
  /\ Strict /\ Clean(s) /\ fu => s.fu_active

\* The AU with timestamp ts is whole so far and so is the one before.
Linked(s, ts, i) ==
  Strict /\ Clean(s) => /\ ~s.au_bad /\ chain = Prev(ts)
                        /\ Indices(Staged(s)) = 1..i

\* The packet with this timestamp, after i packets of its AU, is the one that comes
\* after the last one seen, which was number j of an AU of class k, and its last if b.
After(ts, i, k1, j, k, b) ==
  IF b THEN i = 0 /\ st.au_ts = Prev(ts)
       ELSE ts = st.au_ts /\ i = j /\ k1 = k

NextOk(ts, i, k1, fu, j, k, b) == After(ts, i, k1, j, k, b) /\ Follow(st, fu)

Content(j, k, b) ==
  /\ Sound(st, j, k)
  /\ IF b
     THEN Strict /\ Clean(st) => ~st.au_bad /\ chain = st.au_ts /\ Staged(st) = {}
     ELSE Linked(st, st.au_ts, j)

\* b is d packets after a.
Dist(a, b, d) == b = a + d \/ b = a + d - SeqMod

KnownClass(i, class) == IF i = 0 THEN 0 ELSE class

Pos(d, j, k, b) ==
  /\ Dist(st.last_seq, tx.seq, d) /\ d <= faults + MaxLate + 1
  /\ Content(j, k, b)
  /\ d = 1 => NextOk(tx.ts, tx.idx, tx.class, tx.fu, j, k, b)
  /\ \A h \in held : Dist(st.last_seq, h.seq, 1) =>
       NextOk(h.ts, h.idx - 1, KnownClass(h.idx - 1, h.class), ~h.start, j, k, b)

\* The late packet, e packets before the next one to be sent.
LateAt(h, e) ==
  /\ Dist(h.seq, tx.seq, e)
  /\ e = 1 => IF h.marker
              THEN tx.idx = 0 /\ h.ts = Prev(tx.ts)
              ELSE /\ tx.ts = h.ts /\ tx.idx = h.idx /\ tx.class = h.class
                   /\ tx.fu = (h.form = "fu" /\ ~h.end)

\* Before the first packet.
Quiet ==
  /\ st.au = {} /\ st.fu = {} /\ ~st.fu_active /\ ~st.au_bad /\ ~st.cut
  /\ chain = Join /\ ~st.au_have_ts /\ ~st.need_idr /\ ~st.au_has_idr

SeqInv ==
  /\ \A h \in held : held = {h} /\ \E e \in 1..(MaxLate + 1) : LateAt(h, e)
  /\ faults \in 0..MaxFaults /\ (held # {} => faults >= 1)
  /\ rtsp \notin {"stream", "closed"} => ~st.have_seq /\ out = {}
  /\ ~st.have_seq => Quiet
  /\ st.have_seq => /\ st.au_have_ts
                    /\ \E d \in 1..SeqMod, j \in Nat, k \in {0, 1, 5, 7}, b \in BOOLEAN :
                         Pos(d, j, k, b)

\* The state of a receiver after a packet's header, or before the next packet:
\* after i packets of the AU with timestamp ts and class k.
HeadOk(s, ts, i, k, fu) == Sound(s, i, k) /\ Follow(s, fu) /\ Linked(s, ts, i)

\* A packet's header: after the packet before it, after a gap, or as the first one.
LEMMA HeadIs ==
  ASSUME RtpTypeOK, NEW p, p.seq \in 0..(SeqMod - 1), p.ts \in 0..(TsMod - 1),
         NEW i \in Nat, NEW c, NEW k1, NEW fu \in BOOLEAN,
         i = 0 => k1 = 0 /\ ~fu, i # 0 => c = k1,
         NEW j \in Nat, NEW k, NEW b \in BOOLEAN,
         st.have_seq => st.au_have_ts /\ Content(j, k, b),
         st.have_seq /\ ~SeqGap(p) => NextOk(p.ts, i, k1, fu, j, k, b),
         ~st.have_seq => Quiet
  PROVE  /\ HeadOk(Header(p), p.ts, i, c, fu)
         /\ SeqGap(p) => /\ Header(p).need_idr /\ ~Header(p).fu_active
                         /\ Header(p).au = {} \/ Header(p).au_bad
<1>1. st \in StType BY DEF RtpTypeOK
<1>2. PICK s : s = Header(p) OBVIOUS
<1>3. /\ s \in StType
      /\ s.need_idr <=> (st.need_idr \/ SeqGap(p) \/ Unfinished(p))
      /\ s.au = (IF Unfinished(p) THEN {} ELSE st.au)
      /\ s.au_bad <=> ((st.au_bad /\ ~Unfinished(p)) \/ GapInAu(p))
      /\ s.au_has_idr <=> (st.au_has_idr /\ ~Unfinished(p))
      /\ s.fu = (IF SeqGap(p) THEN {} ELSE st.fu)
      /\ s.fu_active <=> (st.fu_active /\ ~SeqGap(p))
      /\ s.cut = st.cut
  BY <1>1, <1>2, HeaderIs
<1>4. CASE ~st.have_seq
  <2>1. ~SeqGap(p) /\ ~Unfinished(p) /\ ~GapInAu(p)
    BY <1>4 DEF SeqGap, Unfinished, GapInAu, Quiet
  <2>2. /\ s.au = {} /\ s.fu = {} /\ ~s.fu_active /\ ~s.au_bad /\ ~s.cut /\ ~s.need_idr
        /\ ~s.au_has_idr /\ chain = Join
    BY <1>3, <1>4, <2>1 DEF Quiet
  <2>3. Staged(s) = {} BY <2>2 DEF Staged, Pending
  <2> QED BY <1>2, <1>4, <2>1, <2>2, <2>3 DEF HeadOk, Sound, Follow, Linked, Clean
<1>5. CASE st.have_seq /\ SeqGap(p)
  <2>1. s.need_idr /\ ~s.fu_active /\ s.fu = {} BY <1>3, <1>5
  <2>2. Staged(s) = s.au BY <2>1 DEF Staged, Pending
  <2>3. s.au = {} \/ s.au_bad
    BY <1>3, <1>5 DEF Unfinished, GapInAu
  <2>4. Strict /\ s.au_has_idr => s.au_bad
    <3> SUFFICES ASSUME Strict, s.au_has_idr, ~s.au_bad PROVE FALSE OBVIOUS
    <3>1. st.au_has_idr /\ ~Unfinished(p) /\ ~GapInAu(p) /\ ~st.au_bad BY <1>3
    <3>2. st.au = {} BY <1>5, <3>1 DEF Unfinished, GapInAu
    <3> QED BY <1>5, <3>1, <3>2 DEF Content, Sound
  <2>5. ~Clean(s) BY <2>1 DEF Clean
  <2>6. Sound(s, i, c) BY <2>1, <2>2, <2>3, <2>4 DEF Sound
  <2>7. Follow(s, fu) /\ Linked(s, p.ts, i) BY <2>1, <2>3, <2>5 DEF Follow, Linked
  <2> QED BY <1>2, <2>1, <2>3, <2>6, <2>7 DEF HeadOk
<1>6. CASE st.have_seq /\ ~SeqGap(p) /\ b
  <2>1. /\ i = 0 /\ ~fu /\ st.au_ts = Prev(p.ts) /\ Follow(st, fu) /\ Sound(st, j, k)
        /\ Strict /\ Clean(st) => ~st.au_bad /\ chain = st.au_ts /\ Staged(st) = {}
    BY <1>6 DEF NextOk, After, Content
  <2>2. NewAu(p)
    <3>1. TsMod \in Nat /\ TsMod > 1 BY RtpConstants
    <3>2. Prev(p.ts) # p.ts BY <3>1, PrevIs
    <3> QED BY <2>1, <3>2 DEF NewAu
  <2>3. ~GapInAu(p) /\ (Unfinished(p) <=> st.au # {})
    BY <1>6, <2>2 DEF GapInAu, Unfinished
  <2>4. /\ s.au = {} /\ s.fu = st.fu /\ (s.fu_active <=> st.fu_active)
        /\ (variant = "rtsp" => ~s.fu_active) /\ (variant # "rtsp" => s.fu = {})
    BY <1>3, <1>6, <2>1, <2>3 DEF Follow, Sound
  <2>5. Staged(s) = {} BY <2>4 DEF Staged, Pending
  <2>6. Strict /\ s.au_has_idr => s.au_bad
    <3> SUFFICES ASSUME Strict, s.au_has_idr, ~s.au_bad PROVE FALSE OBVIOUS
    <3>1. st.au_has_idr /\ ~Unfinished(p) /\ ~st.au_bad BY <1>3
    <3>2. st.au = {} BY <2>3, <3>1
    <3> QED BY <2>1, <3>1, <3>2 DEF Sound
  <2>7. Sound(s, i, c) BY <2>4, <2>5, <2>6 DEF Sound
  <2>8. Follow(s, fu) BY <2>1, <2>4 DEF Follow
  <2>9. Linked(s, p.ts, i)
    <3> SUFFICES ASSUME Strict, Clean(s)
                 PROVE  ~s.au_bad /\ chain = Prev(p.ts) /\ Indices(Staged(s)) = 1..i
      BY DEF Linked
    <3>1. Clean(st) /\ ~Unfinished(p) BY <1>3 DEF Clean
    <3>2. ~st.au_bad /\ chain = st.au_ts BY <2>1, <3>1
    <3>3. 1..i = {} BY <2>1
    <3> QED BY <1>3, <2>1, <2>3, <2>5, <3>1, <3>2, <3>3, SpropItems
  <2> QED BY <1>2, <1>6, <2>7, <2>8, <2>9 DEF HeadOk
<1>7. CASE st.have_seq /\ ~SeqGap(p) /\ ~b
  <2>1. /\ p.ts = st.au_ts /\ i = j /\ k1 = k /\ Follow(st, fu) /\ Sound(st, j, k)
        /\ Linked(st, st.au_ts, j)
    BY <1>7 DEF NextOk, After, Content
  <2>2. ~GapInAu(p) /\ ~Unfinished(p)
    BY <1>7, <2>1 DEF GapInAu, Unfinished, NewAu
  <2>3. /\ s.au = st.au /\ s.fu = st.fu /\ (s.fu_active <=> st.fu_active)
        /\ (s.au_bad <=> st.au_bad) /\ (s.au_has_idr <=> st.au_has_idr) /\ s.cut = st.cut
        /\ (s.need_idr <=> st.need_idr)
    BY <1>3, <1>7, <2>2
  <2>4. Staged(s) = Staged(st) BY <2>3 DEF Staged, Pending
  <2>5. Clean(s) <=> Clean(st) BY <2>3 DEF Clean
  <2>6. Follow(s, fu) BY <2>1, <2>3, <2>5 DEF Follow
  <2>7. Linked(s, p.ts, i) BY <2>1, <2>3, <2>4, <2>5 DEF Linked
  <2>8. Sound(s, i, k1) BY <2>1, <2>3, <2>4 DEF Sound
  <2>9. Sound(s, i, c)
    <3>1. CASE i = 0
      <4>1. ~(Staged(s) # {} /\ ~s.au_bad /\ ~(variant = "rtsp" /\ s.cut))
        BY <2>8, <3>1 DEF Sound
      <4>2. variant = "rtsp" => ~s.fu_active BY <2>6, <3>1 DEF Follow
      <4>3. Strict /\ s.au_has_idr => s.au_bad BY <2>8, <3>1 DEF Sound
      <4> QED BY <2>8, <4>1, <4>2, <4>3 DEF Sound
    <3>2. CASE i # 0 BY <2>8, <3>2
    <3> QED BY <3>1, <3>2
  <2> QED BY <1>2, <1>7, <2>6, <2>7, <2>9 DEF HeadOk
<1> QED BY <1>4, <1>5, <1>6, <1>7

\* After the payload of p, with t the state and flush whether maybe_flush is reached.
PayOk(p, t, flush) ==
  /\ HeadOk(t, p.ts, p.idx, p.class, p.form = "fu" /\ ~p.end)
  /\ Strict /\ Clean(t) => flush
  /\ Strict /\ p.marker /\ flush /\ Complete(t) /\ t.au_has_idr => 5 \in Classes(t.au)

\* Before it.
Begins(p, s) ==
  /\ HeadOk(s, p.ts, p.idx - 1, p.class, ~p.start)
  /\ SeqGap(p) => s.need_idr /\ ~s.fu_active /\ (s.au = {} \/ s.au_bad)
  /\ variant = "mpeg4" /\ p.class = 1 /\ p.start => p.idx = 1

\* The receiver takes the items of packet p, and lacks nothing.
Grows(p, s, t) ==
  /\ (t.au_bad <=> s.au_bad) /\ (t.cut <=> s.cut)
  /\ \E items \in Items : ItemsOf(p, items) /\ Staged(t) = Staged(s) \cup items

\* An AU without a hole has none after one more packet.
LEMMA GrowsSound ==
  ASSUME NEW s \in StType, NEW t \in StType, NEW p \in PacketType,
         Sound(s, p.idx - 1, p.class), Linked(s, p.ts, p.idx - 1), Grows(p, s, t),
         variant # "mpeg4" => ~(t.need_idr /\ p.class = 1) /\ (t.need_idr <=> s.need_idr)
  PROVE  /\ Staged(t) # {} /\ ~t.au_bad /\ ~(variant = "rtsp" /\ t.cut) =>
              /\ \E first \in 1..p.idx : Indices(Staged(t)) = first..p.idx
              /\ variant # "mpeg4" => /\ p.class = 1 => ~t.need_idr
                                      /\ Classes(Staged(t)) \subseteq ClassSet(p.class)
         /\ Linked(t, p.ts, p.idx)
         /\ p.marker /\ p.class = 5 => 5 \in Classes(Staged(t))
<1>1. PICK items \in Items : ItemsOf(p, items) /\ Staged(t) = Staged(s) \cup items
  BY DEF Grows
<1>2. /\ Indices(Staged(t)) = Indices(Staged(s)) \cup Indices(items)
      /\ Classes(Staged(t)) = Classes(Staged(s)) \cup Classes(items)
  <2>1. /\ Indices(Staged(s) \cup items) = Indices(Staged(s)) \cup Indices(items)
        /\ Classes(Staged(s) \cup items) = Classes(Staged(s)) \cup Classes(items)
    BY ItemUnion, Zenon
  <2> QED BY <1>1, <2>1
<1>3. /\ Indices(items) = {p.idx} /\ Classes(items) \subseteq ClassSet(p.class)
      /\ p.class = 5 /\ p.nals # <<7>> => 5 \in Classes(items)
  BY <1>1 DEF ItemsOf, ClassSet
<1>4. p.idx \in Nat /\ p.idx > 0 BY DEF PacketType
<1>5. ASSUME ~t.au_bad, ~(variant = "rtsp" /\ t.cut)
      PROVE  /\ \E first \in 1..p.idx : Indices(Staged(t)) = first..p.idx
             /\ variant # "mpeg4" => /\ p.class = 1 => ~t.need_idr
                                     /\ Classes(Staged(t)) \subseteq ClassSet(p.class)
  <2>1. CASE Staged(s) = {}
    <3>1. Indices(Staged(t)) = {p.idx} /\ Classes(Staged(t)) = Classes(items)
      BY <1>2, <1>3, <2>1, SpropItems
    <3>2. {p.idx} = p.idx..p.idx /\ p.idx \in 1..p.idx BY <1>4
    <3> QED BY <1>3, <3>1, <3>2
  <2>2. CASE Staged(s) # {}
    <3>1. /\ \E first \in 1..(p.idx - 1) : Indices(Staged(s)) = first..(p.idx - 1)
          /\ variant # "mpeg4" => Classes(Staged(s)) \subseteq ClassSet(p.class)
      BY <1>5, <2>2 DEF Sound, Grows
    <3>2. PICK first \in 1..(p.idx - 1) : Indices(Staged(s)) = first..(p.idx - 1) BY <3>1
    <3>3. first \in 1..p.idx /\ (first..(p.idx - 1)) \cup {p.idx} = first..p.idx BY <1>4
    <3>4. Indices(Staged(t)) = first..p.idx BY <1>2, <1>3, <3>2, <3>3
    <3> QED BY <1>2, <1>3, <3>1, <3>3, <3>4
  <2> QED BY <2>1, <2>2
<1>6. Linked(t, p.ts, p.idx)
  <2> SUFFICES ASSUME Strict, Clean(t)
               PROVE  ~t.au_bad /\ chain = Prev(p.ts) /\ Indices(Staged(t)) = 1..p.idx
    BY DEF Linked
  <2>1. Clean(s) BY DEF Clean, Strict, Grows
  <2>2. ~s.au_bad /\ chain = Prev(p.ts) /\ Indices(Staged(s)) = 1..(p.idx - 1)
    BY <2>1 DEF Linked
  <2>3. (1..(p.idx - 1)) \cup {p.idx} = 1..p.idx BY <1>4
  <2> QED BY <1>2, <1>3, <2>2, <2>3 DEF Grows
<1>7. p.marker /\ p.class = 5 => 5 \in Classes(Staged(t)) BY <1>2, <1>3 DEF PacketType
<1> QED BY <1>5, <1>6, <1>7

\* The outcomes of a payload, one by one.
LEMMA SkipsOk ==
  ASSUME RtpTypeOK, NEW s \in StType, NEW p \in PacketType, Begins(p, s),
         NEW r, r.s \in StType, Skips(s, p, r)
  PROVE  PayOk(p, r.s, r.flush)
<1>1. PICK t \in StType : t = r.s OBVIOUS
<1>2. /\ t.au = s.au /\ (t.au_bad <=> s.au_bad) /\ (t.cut <=> s.cut) /\ t.fu = s.fu
      /\ (t.fu_active <=> s.fu_active) /\ (t.need_idr <=> s.need_idr)
      /\ (t.au_has_idr <=> s.au_has_idr) /\ r.flush = TRUE
  <2>1. /\ Appended(s, t, {}, {}) /\ t.fu = s.fu /\ t.fu_active = s.fu_active
        /\ t.need_idr = s.need_idr /\ t.au_has_idr = s.au_has_idr /\ r.flush = TRUE
    BY <1>1, Zenon DEF Skips
  <2>2. t.au = s.au \cup {} /\ t.au_bad = s.au_bad /\ t.cut = s.cut BY <2>1, NothingAppended, Zenon
  <2>3. t.au = s.au BY <2>2
  <2> QED BY <2>1, <2>2, <2>3
<1>3. Staged(t) = Staged(s) BY <1>2 DEF Staged, Pending
<1>4. /\ s.need_idr /\ (p.class = 1 \/ SeqGap(p))
      /\ variant # "mpeg4" => p.class = 1 \/ (SeqGap(p) /\ p.form = "fu")
      /\ variant = "mpeg4" => p.class = 1 /\ p.start
  <2>1. SeqGap(p) => s.need_idr BY DEF Begins
  <2> QED BY <2>1 DEF Skips
<1>5. Sound(s, p.idx - 1, p.class) /\ p.idx \in Nat BY DEF Begins, HeadOk, PacketType
<1>6. ~(Staged(s) # {} /\ ~s.au_bad /\ ~(variant = "rtsp" /\ s.cut))
      /\ (variant = "rtsp" => ~s.fu_active)
  <2>1. CASE variant = "mpeg4"
    <3>1. p.idx - 1 = 0 BY <1>4, <2>1 DEF Begins
    <3> QED BY <1>5, <2>1, <3>1 DEF Sound
  <2>2. CASE variant # "mpeg4" /\ p.class = 1 BY <1>4, <1>5, <2>2 DEF Sound
  <2>3. CASE variant # "mpeg4" /\ SeqGap(p)
    <3>1. ~s.fu_active /\ (s.au = {} \/ s.au_bad) BY <2>3 DEF Begins
    <3>2. Staged(s) = s.au BY <3>1 DEF Staged, Pending
    <3> QED BY <3>1, <3>2
  <2> QED BY <1>4, <2>1, <2>2, <2>3
<1>7. ~Clean(t) BY <1>2, <1>4 DEF Clean
<1>8. Sound(t, p.idx, p.class) BY <1>2, <1>3, <1>5, <1>6 DEF Sound
<1>9. variant = "rtsp" /\ ~t.fu_active /\ ~t.au_bad /\ ~t.cut => t.au = {}
  BY <1>2, <1>3, <1>6 DEF Staged
<1>10. Follow(t, p.form = "fu" /\ ~p.end) BY <1>2, <1>6, <1>7, <1>9 DEF Follow
<1>11. Linked(t, p.ts, p.idx) BY <1>7 DEF Linked
<1>12. ~(Strict /\ Complete(t) /\ t.au_has_idr)
  <2> SUFFICES ASSUME Strict, Complete(t), t.au_has_idr PROVE FALSE OBVIOUS
  <2>1. p.class = 5 BY <1>8 DEF Sound, Complete
  <2>2. SeqGap(p) BY <1>4, <2>1
  <2> QED BY <1>2, <2>2 DEF Begins, Complete
<1> QED BY <1>1, <1>7, <1>8, <1>10, <1>11, <1>12 DEF PayOk, HeadOk

\* The packet is appended.
LEMMA StagesOk ==
  ASSUME RtpTypeOK, NEW s \in StType, NEW p \in PacketType, Begins(p, s),
         NEW short \in BOOLEAN, NEW r, r.s \in StType, Stages(s, p, short, r)
  PROVE  PayOk(p, r.s, r.flush)
<1>1. PICK t \in StType : t = r.s OBVIOUS
<1>2. /\ variant # "mpeg4" => ~(s.need_idr /\ p.class = 1) /\ (t.need_idr <=> s.need_idr)
      /\ variant = "rtsp" => p.form = "whole"
      /\ r.flush = TRUE /\ t.fu = s.fu
      /\ variant = "rtp" /\ p.form = "fu" => (t.fu_active <=> ~p.end)
      /\ variant # "rtp" => (t.fu_active <=> s.fu_active)
      /\ t.au_has_idr <=> (s.au_has_idr \/ StartsIdr(p))
      /\ Takes(s, p, short, t)
  <2>1. /\ variant # "mpeg4" => ~(s.need_idr /\ p.class = 1)
        /\ variant = "rtsp" => p.form = "whole"
        /\ r.flush = TRUE /\ t.fu = s.fu
        /\ variant = "rtp" /\ p.form = "fu" => t.fu_active = ~p.end
        /\ variant # "rtp" => t.fu_active = s.fu_active
        /\ t.need_idr = (s.need_idr /\ ~(variant = "mpeg4" /\ StartsIdr(p)))
        /\ t.au_has_idr = (s.au_has_idr \/ StartsIdr(p))
        /\ Takes(s, p, short, t)
    BY <1>1, Zenon DEF Stages
  <2> QED BY <2>1
<1>3. PICK items \in Items : \E got \in SUBSET items :
         ItemsOf(p, items) /\ Appended(s, t, items, got) /\ (~short => got = items)
  BY <1>2 DEF Takes
<1>4. PICK got \in SUBSET items : ItemsOf(p, items) /\ Appended(s, t, items, got)
  BY <1>3
<1>5. /\ Sound(s, p.idx - 1, p.class) /\ Follow(s, ~p.start) /\ Linked(s, p.ts, p.idx - 1)
      /\ p.form = "whole" => p.start
  BY DEF Begins, HeadOk, PacketType
<1>6. /\ variant = "rtsp" => ~s.fu_active /\ ~t.fu_active
      /\ variant # "rtsp" => s.fu = {} /\ t.fu = {}
  BY <1>2, <1>5 DEF Follow, Sound
<1>7. Staged(s) = s.au /\ Staged(t) = t.au BY <1>6 DEF Staged, Pending
<1>8. /\ t.au = s.au \cup got
      /\ t.au_bad <=> (s.au_bad \/ got # items)
      /\ t.cut <=> (s.cut \/ got # items)
  <2>1. /\ t.au = s.au \cup got /\ t.au_bad = (s.au_bad \/ got # items)
        /\ t.cut = (s.cut \/ got # items)
    BY <1>4, Zenon DEF Appended
  <2> QED BY <2>1
<1>9. Follow(t, p.form = "fu" /\ ~p.end)
  <2>1. variant = "rtp" /\ p.form = "fu" /\ ~p.end => t.fu_active BY <1>2
  <2> QED BY <1>2, <1>6, <2>1 DEF Follow, Strict
<1>10. CASE got # items
  <2>1. t.au_bad /\ t.cut BY <1>8, <1>10
  <2>2. ~Clean(t) /\ ~Complete(t) BY <2>1 DEF Clean, Complete
  <2>3. Sound(t, p.idx, p.class) BY <1>6, <2>1 DEF Sound
  <2>4. Linked(t, p.ts, p.idx) BY <2>2 DEF Linked
  <2> QED BY <1>1, <1>9, <2>2, <2>3, <2>4 DEF PayOk, HeadOk
<1>11. CASE got = items
  <2>1. Grows(p, s, t) BY <1>3, <1>4, <1>7, <1>8, <1>11 DEF Grows
  <2>2. /\ Staged(t) # {} /\ ~t.au_bad /\ ~(variant = "rtsp" /\ t.cut) =>
             /\ \E first \in 1..p.idx : Indices(Staged(t)) = first..p.idx
             /\ variant # "mpeg4" => /\ p.class = 1 => ~t.need_idr
                                     /\ Classes(Staged(t)) \subseteq ClassSet(p.class)
        /\ Linked(t, p.ts, p.idx)
        /\ p.marker /\ p.class = 5 => 5 \in Classes(Staged(t))
    BY <1>2, <1>5, <2>1, GrowsSound
  <2>3. items # {}
    <3>1. Indices(items) # {} BY <1>4 DEF ItemsOf
    <3> QED BY <3>1, SpropItems
  <2>4. Strict /\ t.au_has_idr /\ ~t.au_bad => t.au # {} /\ p.class = 5
    BY <1>2, <1>5, <1>8, <1>11, <2>3 DEF Sound, StartsIdr
  <2>5. Sound(t, p.idx, p.class) BY <1>6, <2>2, <2>4 DEF Sound
  <2>6. Strict /\ p.marker /\ Complete(t) /\ t.au_has_idr => 5 \in Classes(t.au)
    BY <1>7, <2>2, <2>4 DEF Complete
  <2> QED BY <1>1, <1>2, <1>9, <2>2, <2>5, <2>6 DEF PayOk, HeadOk
<1> QED BY <1>10, <1>11

\* It is a fragment without a start.
LEMMA LacksOk ==
  ASSUME RtpTypeOK, NEW s \in StType, NEW p \in PacketType, Begins(p, s),
         NEW r, r.s \in StType, Doubts(s, p, r) \/ Lacks(s, p, r)
  PROVE  PayOk(p, r.s, r.flush)
<1>1. PICK t \in StType : t = r.s OBVIOUS
<1>2. Sound(s, p.idx - 1, p.class) /\ Follow(s, ~p.start) BY DEF Begins, HeadOk
<1>3. ~p.start /\ ~s.fu_active BY DEF Doubts, Lacks
<1>4. ~(Strict /\ Clean(s)) BY <1>2, <1>3 DEF Follow
<1>5. CASE Doubts(s, p, r)
  <2>1. /\ variant = "rtp" /\ t.au_bad /\ t.cut = s.cut /\ t.fu = s.fu
        /\ t.need_idr = s.need_idr
    BY <1>1, <1>5 DEF Doubts
  <2>2. ~(Strict /\ Clean(t)) BY <1>4, <2>1 DEF Clean
  <2>3. Sound(t, p.idx, p.class) BY <1>2, <2>1 DEF Sound
  <2>4. Follow(t, p.form = "fu" /\ ~p.end) BY <2>1, <2>2 DEF Follow
  <2>5. Linked(t, p.ts, p.idx) BY <2>2 DEF Linked
  <2> QED BY <1>1, <2>1, <2>2, <2>3, <2>4, <2>5 DEF PayOk, HeadOk, Complete
<1>6. CASE Lacks(s, p, r)
  <2>1. /\ variant = "rtsp" /\ r.flush = FALSE /\ ~t.fu_active
        /\ t.need_idr = s.need_idr /\ t.au_has_idr = s.au_has_idr
        /\ Appended(s, t, {}, {})
    BY <1>1, <1>6 DEF Lacks
  <2>2. t.au = s.au \cup {} /\ t.au_bad = s.au_bad /\ t.cut = s.cut
    BY <2>1, NothingAppended, Zenon
  <2>3. t.au = s.au BY <2>2
  <2>4. ~(Strict /\ Clean(t)) BY <1>4, <2>1, <2>2 DEF Clean
  <2>5. ~t.au_bad /\ ~t.cut => t.au = {} BY <1>2, <1>3, <2>1, <2>2, <2>3 DEF Follow
  <2>6. Staged(t) = t.au BY <2>1 DEF Staged, Pending
  <2>7. Sound(t, p.idx, p.class) BY <1>2, <2>1, <2>2, <2>3, <2>5, <2>6 DEF Sound
  <2>8. Follow(t, p.form = "fu" /\ ~p.end) BY <2>1, <2>4, <2>5 DEF Follow
  <2>9. Linked(t, p.ts, p.idx) BY <2>4 DEF Linked
  <2> QED BY <1>1, <2>1, <2>4, <2>7, <2>8, <2>9 DEF PayOk, HeadOk
<1> QED BY <1>5, <1>6

\* The parameter sets ahead of an IDR in fragments.
LEMMA AheadIs ==
  ASSUME sprop \in BOOLEAN, NEW p \in PacketType, p.form = "fu"
  PROVE  Ahead(p) = IF p.start /\ sprop /\ p.class = 5 THEN {SpropItem} ELSE {}
BY FragmentItems DEF Ahead

\* It overruns the fu buffer, which cut remembers.
LEMMA OverrunsOk ==
  ASSUME RtpTypeOK, NEW s \in StType, NEW p \in PacketType, Begins(p, s),
         NEW short \in BOOLEAN, NEW r, r.s \in StType, Overruns(s, p, short, r)
  PROVE  PayOk(p, r.s, r.flush)
<1>1. PICK t \in StType : t = r.s OBVIOUS
<1>2. /\ variant = "rtsp" /\ p.form = "fu" /\ r.flush = FALSE /\ ~t.fu_active /\ t.cut
      /\ t.au_has_idr <=> (s.au_has_idr \/ StartsIdr(p))
  BY <1>1 DEF Overruns
<1>3. PICK got \in SUBSET Ahead(p) :
        t.au = s.au \cup got /\ t.au_bad = (s.au_bad \/ got # Ahead(p))
  BY <1>1 DEF Overruns
<1>4. Sound(s, p.idx - 1, p.class) BY DEF Begins, HeadOk
<1>5. ~Clean(t) BY <1>2 DEF Clean
<1>6. Strict /\ t.au_has_idr /\ ~t.au_bad => t.au # {} /\ p.class = 5
  <2> SUFFICES ASSUME Strict, t.au_has_idr, ~t.au_bad PROVE t.au # {} /\ p.class = 5
    OBVIOUS
  <2>1. ~s.au_bad /\ got = Ahead(p) BY <1>3
  <2>2. CASE s.au_has_idr BY <1>3, <1>4, <2>1, <2>2 DEF Sound
  <2>3. CASE StartsIdr(p)
    <3>1. p.start /\ p.class = 5 /\ sprop BY <1>2, <2>3 DEF StartsIdr, Strict
    <3>2. Ahead(p) = {SpropItem} BY <1>2, <3>1, AheadIs DEF RtpTypeOK
    <3> QED BY <1>3, <2>1, <3>1, <3>2
  <2> QED BY <1>2, <2>2, <2>3
<1>7. Sound(t, p.idx, p.class) BY <1>2, <1>6 DEF Sound
<1>8. Follow(t, p.form = "fu" /\ ~p.end) /\ Linked(t, p.ts, p.idx)
  BY <1>2, <1>5 DEF Follow, Linked
<1> QED BY <1>1, <1>2, <1>5, <1>7, <1>8 DEF PayOk, HeadOk

\* It is gathered in the fu buffer.
LEMMA GathersOk ==
  ASSUME RtpTypeOK, NEW s \in StType, NEW p \in PacketType, Begins(p, s),
         NEW short \in BOOLEAN, NEW r, r.s \in StType, Gathers(s, p, short, r)
  PROVE  PayOk(p, r.s, r.flush)
<1> DEFINE item == <<p.idx, p.nals[1]>>
<1>1. PICK t \in StType : t = r.s OBVIOUS
<1>2. /\ variant = "rtsp" /\ p.form = "fu" /\ r.flush = TRUE /\ t.fu_active /\ ~p.end
      /\ p.start \/ s.fu_active
      /\ ~(s.need_idr /\ p.class = 1)
      /\ t.fu = (IF p.start THEN {} ELSE s.fu) \cup {item}
      /\ t.need_idr = s.need_idr
      /\ t.au_has_idr <=> (s.au_has_idr \/ StartsIdr(p))
  BY <1>1 DEF Gathers
<1>3. PICK got \in SUBSET Ahead(p) : Appended(s, t, Ahead(p), got)
  BY <1>1 DEF Gathers
<1>4. /\ t.au = s.au \cup got
      /\ t.au_bad <=> (s.au_bad \/ got # Ahead(p))
      /\ t.cut <=> (s.cut \/ got # Ahead(p))
  <2>1. /\ t.au = s.au \cup got /\ t.au_bad = (s.au_bad \/ got # Ahead(p))
        /\ t.cut = (s.cut \/ got # Ahead(p))
    BY <1>3, Zenon DEF Appended
  <2> QED BY <2>1
<1>5. /\ Sound(s, p.idx - 1, p.class) /\ Follow(s, ~p.start) /\ Linked(s, p.ts, p.idx - 1)
      /\ p.marker => p.end
  BY <1>2 DEF Begins, HeadOk, PacketType
<1>6. Follow(t, p.form = "fu" /\ ~p.end) BY <1>2 DEF Follow
<1>7. t.fu # {} BY <1>2
<1>8. CASE got # Ahead(p)
  <2>1. t.au_bad /\ t.cut BY <1>4, <1>8
  <2>2. ~Clean(t) BY <2>1 DEF Clean
  <2>3. Sound(t, p.idx, p.class) BY <1>2, <1>7, <2>1 DEF Sound
  <2>4. Linked(t, p.ts, p.idx) BY <2>2 DEF Linked
  <2> QED BY <1>1, <1>2, <1>5, <1>6, <2>2, <2>3, <2>4 DEF PayOk, HeadOk
<1>9. CASE got = Ahead(p)
  <2> DEFINE items == {item} \cup Ahead(p)
  <2>1. sprop \in BOOLEAN BY DEF RtpTypeOK
  <2>2. ItemsOf(p, items)
    <3>1. CASE p.start BY <1>2, <2>1, <3>1, FragmentItems DEF Ahead
    <3>2. CASE ~p.start
      <4>1. items = {item} BY <3>2 DEF Ahead
      <4> QED BY <1>2, <2>1, <4>1, FragmentItems
    <3> QED BY <3>1, <3>2
  <2>3. Staged(t) = Staged(s) \cup items
    <3>1. Staged(t) = (s.au \cup Ahead(p)) \cup t.fu BY <1>2, <1>4, <1>9 DEF Staged, Pending
    <3>2. CASE p.start
      <4>1. ~s.fu_active BY <1>2, <1>5, <3>2 DEF Follow
      <4>2. Staged(s) = s.au /\ t.fu = {item} BY <1>2, <3>2, <4>1 DEF Staged, Pending
      <4> QED BY <3>1, <4>2
    <3>3. CASE ~p.start
      <4>1. Staged(s) = s.au \cup s.fu /\ t.fu = s.fu \cup {item}
        BY <1>2, <3>3 DEF Staged, Pending
      <4> QED BY <3>1, <4>1
    <3> QED BY <3>2, <3>3
  <2>4. items \in Items BY <2>2 DEF ItemsOf
  <2> HIDE DEF items
  <2>5. Grows(p, s, t)
    <3>1. (t.au_bad <=> s.au_bad) /\ (t.cut <=> s.cut) BY <1>4, <1>9
    <3> QED BY <2>2, <2>3, <2>4, <3>1 DEF Grows
  <2>6. /\ Staged(t) # {} /\ ~t.au_bad /\ ~(variant = "rtsp" /\ t.cut) =>
             /\ \E first \in 1..p.idx : Indices(Staged(t)) = first..p.idx
             /\ variant # "mpeg4" => /\ p.class = 1 => ~t.need_idr
                                     /\ Classes(Staged(t)) \subseteq ClassSet(p.class)
        /\ Linked(t, p.ts, p.idx)
    BY <1>2, <1>5, <2>5, GrowsSound
  <2>7. Strict /\ t.au_has_idr /\ ~t.au_bad => t.au # {} /\ p.class = 5
    <3> SUFFICES ASSUME Strict, t.au_has_idr, ~t.au_bad PROVE t.au # {} /\ p.class = 5
      OBVIOUS
    <3>1. CASE s.au_has_idr BY <1>4, <1>5, <3>1 DEF Sound
    <3>2. CASE StartsIdr(p)
      <4>1. p.start /\ p.class = 5 /\ sprop BY <1>2, <3>2 DEF StartsIdr, Strict
      <4>2. Ahead(p) = {SpropItem} BY <1>2, <2>1, <4>1, AheadIs
      <4> QED BY <1>4, <1>9, <4>1, <4>2
    <3> QED BY <1>2, <3>1, <3>2
  <2>8. Sound(t, p.idx, p.class) BY <1>2, <1>7, <2>6, <2>7 DEF Sound
  <2> QED BY <1>1, <1>2, <1>5, <1>6, <2>6, <2>8 DEF PayOk, HeadOk
<1> QED BY <1>8, <1>9

\* It ends the NAL unit in the fu buffer.
LEMMA EndsOk ==
  ASSUME RtpTypeOK, NEW s \in StType, NEW p \in PacketType, Begins(p, s),
         NEW short \in BOOLEAN, NEW r, r.s \in StType, Ends(s, p, short, r)
  PROVE  PayOk(p, r.s, r.flush)
<1> DEFINE item == <<p.idx, p.nals[1]>>
           all == s.fu \cup {item}
<1>1. PICK t \in StType : t = r.s OBVIOUS
<1>2. /\ variant = "rtsp" /\ p.form = "fu" /\ r.flush = TRUE /\ s.fu_active /\ p.end
      /\ ~t.fu_active /\ t.fu = {}
      /\ ~(s.need_idr /\ p.class = 1)
      /\ t.need_idr = s.need_idr /\ t.au_has_idr = s.au_has_idr
  BY <1>1 DEF Ends
<1>3. PICK got \in SUBSET all : Appended(s, t, all, got)
  BY <1>1 DEF Ends
<1>4. /\ t.au = s.au \cup got
      /\ t.au_bad <=> (s.au_bad \/ got # all)
      /\ t.cut <=> (s.cut \/ got # all)
  <2>1. /\ t.au = s.au \cup got /\ t.au_bad = (s.au_bad \/ got # all)
        /\ t.cut = (s.cut \/ got # all)
    BY <1>3, Zenon DEF Appended
  <2> QED BY <2>1
<1>5. Sound(s, p.idx - 1, p.class) /\ Linked(s, p.ts, p.idx - 1) BY DEF Begins, HeadOk
<1>6. Follow(t, p.form = "fu" /\ ~p.end) BY <1>2 DEF Follow
<1>7. Staged(t) = t.au /\ Staged(s) = s.au \cup s.fu BY <1>2 DEF Staged, Pending
<1>8. CASE got # all
  <2>1. t.au_bad /\ t.cut BY <1>4, <1>8
  <2>2. ~Clean(t) /\ ~Complete(t) BY <2>1 DEF Clean, Complete
  <2>3. Sound(t, p.idx, p.class) BY <1>2, <2>1 DEF Sound
  <2>4. Linked(t, p.ts, p.idx) BY <2>2 DEF Linked
  <2> QED BY <1>1, <1>6, <2>2, <2>3, <2>4 DEF PayOk, HeadOk
<1>9. CASE got = all
  <2>1. ItemsOf(p, {item}) BY <1>2, FragmentItems DEF RtpTypeOK
  <2>2. Staged(t) = Staged(s) \cup {item} BY <1>4, <1>7, <1>9
  <2>3. {item} \in Items BY <2>1 DEF ItemsOf
  <2>4. (t.au_bad <=> s.au_bad) /\ (t.cut <=> s.cut) BY <1>4, <1>9
  <2> HIDE DEF item
  <2>5. Grows(p, s, t) BY <2>1, <2>2, <2>3, <2>4 DEF Grows
  <2>6. /\ Staged(t) # {} /\ ~t.au_bad /\ ~(variant = "rtsp" /\ t.cut) =>
             /\ \E first \in 1..p.idx : Indices(Staged(t)) = first..p.idx
             /\ variant # "mpeg4" => /\ p.class = 1 => ~t.need_idr
                                     /\ Classes(Staged(t)) \subseteq ClassSet(p.class)
        /\ Linked(t, p.ts, p.idx)
        /\ p.marker /\ p.class = 5 => 5 \in Classes(Staged(t))
    BY <1>2, <1>5, <2>5, GrowsSound
  <2>7. Strict /\ t.au_has_idr /\ ~t.au_bad => t.au # {} /\ p.class = 5
    BY <1>2, <1>4, <1>5 DEF Sound
  <2>8. Sound(t, p.idx, p.class) BY <1>2, <2>6, <2>7 DEF Sound
  <2>9. Strict /\ p.marker /\ Complete(t) /\ t.au_has_idr => 5 \in Classes(t.au)
    BY <1>7, <2>6, <2>7 DEF Complete
  <2> QED BY <1>1, <1>2, <1>6, <2>6, <2>8, <2>9 DEF PayOk, HeadOk
<1> QED BY <1>8, <1>9

\* All of them together.
LEMMA PayloadOk ==
  ASSUME RtpTypeOK, NEW s \in StType, NEW p \in PacketType, Begins(p, s),
         NEW short \in BOOLEAN, NEW r \in Payload(s, p, short)
  PROVE  PayOk(p, r.s, r.flush)
<1>1. /\ r.s \in StType
      /\ \/ Skips(s, p, r) \/ Stages(s, p, short, r) \/ Doubts(s, p, r) \/ Lacks(s, p, r)
         \/ Overruns(s, p, short, r) \/ Gathers(s, p, short, r) \/ Ends(s, p, short, r)
  BY PayloadIs
<1> QED BY <1>1, SkipsOk, StagesOk, LacksOk, OverrunsOk, GathersOk, EndsOk

\* The stream's content after a packet, in the next state.
LEMMA HandleOk ==
  ASSUME RtpTypeOK, NEW p \in PacketType, NEW short \in BOOLEAN, Handle(p, short),
         Begins(p, Header(p)), variant' = variant, sprop' = sprop
  PROVE  /\ Content(p.idx, p.class, p.marker)'
         /\ Follow(st, p.form = "fu" /\ ~p.end)'
         /\ NoHoles' /\ ReferencesPresent'
<1>1. PICK r \in Payload(Header(p), p, short) : Finished(r.s, r.flush /\ p.marker, p)
  BY HandleIs
<1>2. st \in StType /\ p.seq \in 0..(SeqMod - 1) /\ p.ts \in 0..(TsMod - 1) /\ p.marker \in BOOLEAN
      /\ p.idx \in Nat /\ p.idx > 0 /\ (p.form = "fu" /\ p.marker => p.end)
  BY DEF RtpTypeOK, PacketType
<1>3. Header(p) \in StType BY <1>2, HeaderIs
<1>4. r.s \in StType /\ r.flush \in BOOLEAN BY <1>3, PayloadIs
<1>5. PayOk(p, r.s, r.flush) BY <1>3, PayloadOk
<1>6. PICK t \in StType : t = r.s BY <1>4
<1>7. /\ Sound(t, p.idx, p.class) /\ Follow(t, p.form = "fu" /\ ~p.end)
      /\ Linked(t, p.ts, p.idx)
      /\ Strict /\ Clean(t) => r.flush
      /\ Strict /\ p.marker /\ r.flush /\ Complete(t) /\ t.au_has_idr => 5 \in Classes(t.au)
  BY <1>5, <1>6 DEF PayOk, HeadOk
<1>8. st' \in StType /\ st'.au_ts = p.ts BY HandleTyped
<1>9. Strict' <=> Strict BY DEF Strict
<1>10. CASE ~(r.flush /\ p.marker)
  <2>1. st' = t /\ out' = {} /\ chain' = chain BY <1>1, <1>6, <1>10 DEF Finished
  <2>2. NoHoles' /\ ReferencesPresent' BY <2>1 DEF NoHoles, ReferencesPresent
  <2>3. Follow(st, p.form = "fu" /\ ~p.end)' BY <1>7, <1>9, <2>1 DEF Follow, Clean
  <2>4. Sound(st, p.idx, p.class)' BY <1>7, <1>9, <2>1 DEF Sound, Staged, Pending
  <2>5. CASE p.marker
    <3>1. ~(Strict /\ Clean(t)) BY <1>7, <1>10, <2>5
    <3>2. ~(Strict /\ Clean(st))' BY <1>9, <2>1, <3>1 DEF Clean
    <3> QED BY <2>2, <2>3, <2>4, <2>5, <3>2 DEF Content
  <2>6. CASE ~p.marker
    <3>1. Linked(st, st.au_ts, p.idx)'
      BY <1>7, <1>8, <1>9, <2>1 DEF Linked, Clean, Prev, Staged, Pending
    <3> QED BY <2>2, <2>3, <2>4, <2>6, <3>1 DEF Content
  <2> QED BY <2>5, <2>6
<1>11. CASE r.flush /\ p.marker
  <2>1. st' = Flushed(t) /\ IF Complete(t) THEN Decoded(t, p) ELSE out' = {} /\ chain' = chain
    BY <1>1, <1>6, <1>11 DEF Finished
  <2>2. /\ st'.au = {} /\ ~st'.au_bad /\ ~st'.au_has_idr
        /\ st'.fu = t.fu /\ st'.fu_active = t.fu_active
        /\ st'.need_idr <=> (t.need_idr /\ ~(Complete(t) /\ t.au_has_idr))
        /\ st'.cut <=> (t.cut /\ ~(Complete(t) /\ t.au_has_idr))
    BY <2>1, FlushedIs
  <2>3. /\ ~(p.form = "fu" /\ ~p.end)
        /\ variant = "rtsp" => ~t.fu_active
        /\ variant # "rtsp" => t.fu = {}
    BY <1>2, <1>7, <1>11 DEF Follow, Sound
  <2>4. Pending(t) = {} /\ Staged(t) = t.au BY <2>3 DEF Pending, Staged
  <2>5. Staged(st') = {} BY <2>2, <2>3 DEF Staged, Pending
  <2>6. Sound(st, p.idx, p.class)' BY <2>2, <2>3, <2>5 DEF Sound, Staged, Pending
  <2>7. Follow(st, p.form = "fu" /\ ~p.end)' BY <2>2, <2>3 DEF Follow
  <2>8. Complete(t) => /\ out' = {[items |-> t.au, last |-> p.idx, cut |-> t.cut,
                                  joins |-> chain = Join, follows |-> chain = Prev(p.ts)]}
                       /\ chain' = IF 5 \in Classes(t.au) \/ chain = Join
                                      \/ (chain = Prev(p.ts) /\ Indices(t.au) = 1..p.idx)
                                   THEN p.ts ELSE Broken
    BY <2>1 DEF Decoded
  <2>9. ASSUME Strict, Clean(st)' PROVE chain' = p.ts
    <3>1. CASE Complete(t) /\ t.au_has_idr BY <1>7, <1>11, <2>8, <3>1, <1>9, <2>9
    <3>2. CASE Complete(t) /\ ~t.au_has_idr
      <4>1. ~t.need_idr /\ ~t.cut BY <2>2, <2>9, <3>2 DEF Clean
      <4>2. CASE chain = Join BY <2>8, <3>2, <4>2
      <4>3. CASE chain # Join
        <5>1. Clean(t) BY <4>1, <4>3 DEF Clean
        <5>2. chain = Prev(p.ts) /\ Indices(t.au) = 1..p.idx
          BY <1>7, <2>4, <2>9, <5>1 DEF Linked
        <5> QED BY <2>8, <3>2, <5>2
      <4> QED BY <4>2, <4>3
    <3>3. CASE ~Complete(t)
      <4>1. Clean(t) BY <2>1, <2>2, <2>9, <3>3 DEF Clean
      <4>2. ~t.au_bad /\ Indices(t.au) = 1..p.idx BY <1>7, <2>4, <2>9, <4>1 DEF Linked
      <4>3. 1 \in 1..p.idx BY <1>2
      <4>4. t.au # {} BY <4>2, <4>3, SpropItems
      <4> QED BY <3>3, <4>2, <4>4 DEF Complete
    <3> QED BY <3>1, <3>2, <3>3
  <2>10. Content(p.idx, p.class, p.marker)'
    <3>1. (Strict /\ Clean(st) => ~st.au_bad /\ chain = st.au_ts /\ Staged(st) = {})'
      BY <1>8, <1>9, <2>2, <2>5, <2>9
    <3> QED BY <1>11, <2>6, <3>1 DEF Content
  <2>11. CASE ~Complete(t) BY <2>1, <2>7, <2>10, <2>11 DEF NoHoles, ReferencesPresent
  <2>12. CASE Complete(t)
    <3>1. t.au # {} /\ ~t.au_bad BY <2>12 DEF Complete
    <3> DEFINE o == [items |-> t.au, last |-> p.idx, cut |-> t.cut,
                     joins |-> chain = Join, follows |-> chain = Prev(p.ts)]
    <3>2. out' = {o} BY <2>8, <2>12
    <3>3. /\ o.items = t.au /\ o.last = p.idx /\ o.cut = t.cut
          /\ o.joins <=> (chain = Join)
          /\ o.follows <=> (chain = Prev(p.ts))
      OBVIOUS
    <3> HIDE DEF o
    <3>4. ~(variant = "rtsp" /\ t.cut) =>
             /\ \E first \in 1..p.idx : Indices(t.au) = first..p.idx
             /\ variant # "mpeg4" => /\ p.class = 1 => ~t.need_idr
                                     /\ Classes(t.au) \subseteq ClassSet(p.class)
      BY <1>7, <2>4, <3>1 DEF Sound
    <3>5. NoHoles' BY <3>2, <3>3, <3>4 DEF NoHoles, Indices
    <3>6. ASSUME Strict, 1 \in Classes(t.au), ~t.cut, chain # Join
          PROVE  chain = Prev(p.ts) /\ Indices(t.au) = 1..p.idx
      <4>1. p.class = 1 BY <3>4, <3>6 DEF ClassSet, Strict
      <4>2. Clean(t) BY <3>4, <3>6, <4>1 DEF Clean, Strict
      <4> QED BY <1>7, <2>4, <3>6, <4>2 DEF Linked
    <3>7. ReferencesPresent'
      <4>1. Strict /\ 1 \in Classes(o.items) /\ ~o.cut /\ ~o.joins
              => o.follows /\ Indices(o.items) = 1..o.last
        BY <3>3, <3>6
      <4>2. (variant = "rtp" \/ (variant = "rtsp" /\ sprop)) <=> Strict BY DEF Strict
      <4> QED BY <3>2, <4>1, <4>2 DEF ReferencesPresent, Indices, Classes
    <3> QED BY <2>7, <2>10, <3>5, <3>7
  <2> QED BY <2>11, <2>12
<1> QED BY <1>2, <1>4, <1>10, <1>11

\* Distances of sequence numbers: to the one after,
LEMMA DistNext ==
  ASSUME NEW x \in 0..(SeqMod - 1), NEW y \in 0..(SeqMod - 1), NEW d \in Nat,
         d + 1 <= SeqMod, Dist(x, y, d)
  PROVE  Dist(x, (y + 1) % SeqMod, d + 1)
<1>1. SeqMod \in Nat BY RtpConstants
<1>2. (y + 1) % SeqMod = IF y + 1 = SeqMod THEN 0 ELSE y + 1 BY <1>1, ModSucc
<1> QED BY <1>1, <1>2 DEF Dist

\* and the distance one is what rtp_h264_seq_gap tests.
LEMMA DistOne ==
  ASSUME NEW x \in 0..(SeqMod - 1), NEW y \in 0..(SeqMod - 1)
  PROVE  /\ y = (x + 1) % SeqMod <=> Dist(x, y, 1)
         /\ \A d \in 1..SeqMod : Dist(x, y, d) /\ Dist(x, y, 1) => d = 1
<1>1. SeqMod \in Nat BY RtpConstants
<1>2. (x + 1) % SeqMod = IF x + 1 = SeqMod THEN 0 ELSE x + 1 BY <1>1, ModSucc
<1> QED BY <1>1, <1>2 DEF Dist

\* Remainders of small numbers.
LEMMA Mods ==
  ASSUME NEW m \in Nat, NEW n \in 0..(m - 1)
  PROVE  n % m = n /\ (n + m) % m = n
BY SMT

\* The late packet is not overdue, so it is not one the receiver waits for.
LEMMA NotDue ==
  ASSUME RtpTypeOK, SeqInv, ~Overdue, NEW h \in held
  PROVE  /\ \E e \in 1..MaxLate : LateAt(h, e)
         /\ ~Dist(tx.seq, h.seq, 1)
<1>1. /\ SeqMod \in Nat /\ MaxLate \in Nat /\ MaxFaults \in Nat /\ SeqMod > MaxFaults + MaxLate
      /\ faults \in 0..MaxFaults /\ faults >= 1
  BY RtpConstants DEF SeqInv
<1>2. SeqMod > MaxLate + 1 BY <1>1
<1>3. h.seq \in 0..(SeqMod - 1) /\ tx.seq \in 0..(SeqMod - 1)
  BY DEF RtpTypeOK, TxOk, TxType, PacketType
<1>4. PICK e \in 1..(MaxLate + 1) : LateAt(h, e) BY DEF SeqInv
<1>5. Dist(h.seq, tx.seq, e) BY <1>4 DEF LateAt
<1>6. (tx.seq - h.seq + SeqMod) % SeqMod = e
  <2>1. e \in 0..(SeqMod - 1) BY <1>1, <1>2
  <2>2. tx.seq - h.seq + SeqMod \in {e, e + SeqMod} BY <1>1, <1>3, <1>5 DEF Dist
  <2> QED BY <1>1, <2>1, <2>2, Mods
<1>7. e \in 1..MaxLate BY <1>1, <1>6 DEF Overdue
<1>8. ~Dist(tx.seq, h.seq, 1) BY <1>1, <1>2, <1>3, <1>5, <1>7 DEF Dist
<1> QED BY <1>4, <1>7, <1>8

\* The late packets after another packet was sent.
LEMMA LateNext ==
  ASSUME RtpTypeOK, SeqInv, ~Overdue, NEW h \in held, tx'.seq = (tx.seq + 1) % SeqMod
  PROVE  \E e \in 1..(MaxLate + 1) : LateAt(h, e)'
<1>1. PICK e \in 1..MaxLate : LateAt(h, e) BY NotDue
<1>2. /\ SeqMod \in Nat /\ MaxLate \in Nat /\ MaxFaults \in Nat /\ SeqMod > MaxFaults + MaxLate
      /\ h.seq \in 0..(SeqMod - 1) /\ tx.seq \in 0..(SeqMod - 1)
  BY RtpConstants DEF RtpTypeOK, TxOk, TxType, PacketType
<1>3. Dist(h.seq, (tx.seq + 1) % SeqMod, e + 1) BY <1>1, <1>2, DistNext DEF LateAt
<1>4. Dist(h.seq, tx.seq, e + 1)' BY <1>3 DEF Dist
<1>5. e + 1 \in 1..(MaxLate + 1) /\ e + 1 # 1 BY <1>2
<1>6. LateAt(h, e + 1)' BY <1>4, <1>5 DEF LateAt
<1> QED BY <1>5, <1>6

\* What the invariant says of the next packet, and of a late one.
LEMMA BeginsNext ==
  ASSUME RtpTypeOK, SeqInv, NEW p \in Packets
  PROVE  Begins(p, Header(p))
<1>1. /\ p \in PacketType /\ p.seq = tx.seq /\ p.ts = tx.ts /\ p.idx = tx.idx + 1
      /\ tx.idx > 0 => p.class = tx.class
      /\ tx.fu => ~p.start
      /\ ~tx.fu => p.start
      /\ variant = "mpeg4" /\ p.class = 1 /\ p.start => p.idx = 1
  BY PacketsTyped
<1>2. /\ tx.idx \in Nat /\ tx.fu \in BOOLEAN /\ (tx.idx = 0 => tx.class = 0 /\ ~tx.fu)
      /\ tx.seq \in 0..(SeqMod - 1) /\ tx.ts \in 0..(TsMod - 1) /\ st.last_seq \in 0..(SeqMod - 1)
      /\ p.idx - 1 = tx.idx /\ ((~p.start) <=> tx.fu)
  BY <1>1 DEF RtpTypeOK, TxOk, TxType, StType
<1>3. \E j \in Nat, k \in {0, 1, 5, 7}, b \in BOOLEAN :
        /\ st.have_seq => st.au_have_ts /\ Content(j, k, b)
        /\ st.have_seq /\ ~SeqGap(p) => NextOk(p.ts, tx.idx, tx.class, tx.fu, j, k, b)
  <2>1. CASE st.have_seq
    <3>1. st.au_have_ts BY <2>1 DEF SeqInv
    <3>2. PICK d \in 1..SeqMod, j \in Nat, k \in {0, 1, 5, 7}, b \in BOOLEAN : Pos(d, j, k, b)
      BY <2>1 DEF SeqInv
    <3>3. ~SeqGap(p) => d = 1
      <4>1. ~SeqGap(p) => Dist(st.last_seq, tx.seq, 1)
        BY <1>1, <1>2, <2>1, DistOne DEF SeqGap
      <4> QED BY <1>2, <3>2, <4>1, DistOne DEF Pos
    <3> QED BY <1>1, <3>1, <3>2, <3>3 DEF Pos
  <2>2. CASE ~st.have_seq BY <2>2
  <2> QED BY <2>1, <2>2
<1>4. PICK j \in Nat, k \in {0, 1, 5, 7}, b \in BOOLEAN :
        /\ st.have_seq => st.au_have_ts /\ Content(j, k, b)
        /\ st.have_seq /\ ~SeqGap(p) => NextOk(p.ts, tx.idx, tx.class, tx.fu, j, k, b)
  BY <1>3
<1>5. ~st.have_seq => Quiet BY DEF SeqInv
<1>6. tx.idx # 0 => p.class = tx.class BY <1>1, <1>2
<1>7. /\ HeadOk(Header(p), p.ts, tx.idx, p.class, tx.fu)
      /\ SeqGap(p) => /\ Header(p).need_idr /\ ~Header(p).fu_active
                      /\ Header(p).au = {} \/ Header(p).au_bad
  <2>1. /\ p.seq \in 0..(SeqMod - 1) /\ p.ts \in 0..(TsMod - 1)
        /\ tx.idx = 0 => tx.class = 0 /\ ~tx.fu
        /\ tx.idx \in Nat /\ tx.fu \in BOOLEAN
    BY <1>1, <1>2
  <2>2. PICK i, k1, fu, c : i = tx.idx /\ k1 = tx.class /\ fu = tx.fu /\ c = p.class
    OBVIOUS
  <2>3. /\ i = 0 => k1 = 0 /\ ~fu
        /\ i # 0 => c = k1
        /\ st.have_seq /\ ~SeqGap(p) => NextOk(p.ts, i, k1, fu, j, k, b)
    BY <1>4, <1>6, <2>1, <2>2
  <2>4. i \in Nat /\ fu \in BOOLEAN BY <2>1, <2>2
  <2>5. st.have_seq => st.au_have_ts /\ Content(j, k, b) BY <1>4
  <2>6. /\ HeadOk(Header(p), p.ts, i, c, fu)
        /\ SeqGap(p) => /\ Header(p).need_idr /\ ~Header(p).fu_active
                        /\ Header(p).au = {} \/ Header(p).au_bad
    BY <1>5, <2>1, <2>3, <2>4, <2>5, HeadIs, ZenonT(30)
  <2> QED BY <2>2, <2>6
<1>8. HeadOk(Header(p), p.ts, p.idx - 1, p.class, ~p.start)
  <2>1. PICK s : s = Header(p) OBVIOUS
  <2>2. Sound(s, tx.idx, p.class) /\ Follow(s, tx.fu) /\ Linked(s, p.ts, tx.idx)
    BY <1>7, <2>1 DEF HeadOk
  <2>3. Follow(s, ~p.start) BY <1>2, <2>2 DEF Follow
  <2> QED BY <1>2, <2>1, <2>2, <2>3 DEF HeadOk
<1> QED BY <1>1, <1>7, <1>8 DEF Begins

\* The late packet, in or out of step.
LEMMA BeginsLate ==
  ASSUME RtpTypeOK, SeqInv, NEW p \in held
  PROVE  Begins(p, Header(p))
<1>1. /\ p \in PacketType /\ st.last_seq \in 0..(SeqMod - 1)
      /\ variant = "mpeg4" /\ p.class = 1 /\ p.start => p.idx = 1
  BY DEF RtpTypeOK, StType
<1>2. /\ p.idx - 1 \in Nat /\ (~p.start) \in BOOLEAN /\ (p.idx - 1 = 0 => p.start)
      /\ p.seq \in 0..(SeqMod - 1) /\ p.ts \in 0..(TsMod - 1)
  BY <1>1 DEF PacketType
<1> DEFINE k1 == KnownClass(p.idx - 1, p.class)
<1>3. \E j \in Nat, k \in {0, 1, 5, 7}, b \in BOOLEAN :
        /\ st.have_seq => st.au_have_ts /\ Content(j, k, b)
        /\ st.have_seq /\ ~SeqGap(p) => NextOk(p.ts, p.idx - 1, k1, ~p.start, j, k, b)
  <2>1. CASE st.have_seq
    <3>1. st.au_have_ts BY <2>1 DEF SeqInv
    <3>2. PICK d \in 1..SeqMod, j \in Nat, k \in {0, 1, 5, 7}, b \in BOOLEAN : Pos(d, j, k, b)
      BY <2>1 DEF SeqInv
    <3>3. ~SeqGap(p) => Dist(st.last_seq, p.seq, 1)
      BY <1>1, <1>2, <2>1, DistOne DEF SeqGap
    <3> QED BY <3>1, <3>2, <3>3 DEF Pos
  <2>2. CASE ~st.have_seq BY <2>2
  <2> QED BY <2>1, <2>2
<1>4. PICK j \in Nat, k \in {0, 1, 5, 7}, b \in BOOLEAN :
        /\ st.have_seq => st.au_have_ts /\ Content(j, k, b)
        /\ st.have_seq /\ ~SeqGap(p) => NextOk(p.ts, p.idx - 1, k1, ~p.start, j, k, b)
  BY <1>3
<1>5. ~st.have_seq => Quiet BY DEF SeqInv
<1>6. (p.idx - 1 = 0 => k1 = 0) /\ (p.idx - 1 # 0 => p.class = k1) BY DEF KnownClass
<1> HIDE DEF k1
<1>7. /\ HeadOk(Header(p), p.ts, p.idx - 1, p.class, ~p.start)
      /\ SeqGap(p) => /\ Header(p).need_idr /\ ~Header(p).fu_active
                      /\ Header(p).au = {} \/ Header(p).au_bad
  BY <1>2, <1>4, <1>5, <1>6, HeadIs, ZenonT(30)
<1> QED BY <1>1, <1>7 DEF Begins

\* Where a packet that was just handled leaves the receiver.
LEMMA Delivered ==
  ASSUME RtpTypeOK, SeqInv, NEW p \in Packets, NEW short \in BOOLEAN,
         Handle(p, short), tx' = Sent(p), rtsp = "stream",
         UNCHANGED <<variant, rtsp, sprop, held>>,
         faults' \in 0..MaxFaults, faults' >= faults
  PROVE  SeqInv' /\ NoHoles' /\ ReferencesPresent'
<1>1. /\ p \in PacketType /\ p.seq = tx.seq /\ p.ts = tx.ts /\ ~Overdue
      /\ p.form = "fu" /\ p.marker => p.end
      /\ p.idx \in Nat /\ p.class \in {0, 1, 5, 7} /\ p.marker \in BOOLEAN
  BY PacketsTyped DEF PacketType
<1>2. /\ tx'.seq = (tx.seq + 1) % SeqMod
      /\ tx'.idx = 0 => ~tx'.fu
      /\ p.marker => tx'.idx = 0 /\ tx'.ts = (tx.ts + 1) % TsMod
      /\ ~p.marker => /\ tx'.idx = p.idx /\ tx'.ts = tx.ts /\ tx'.class = p.class
                      /\ tx'.fu <=> (p.form = "fu" /\ ~p.end)
  BY SentTyped
<1>3. /\ Content(p.idx, p.class, p.marker)' /\ Follow(st, p.form = "fu" /\ ~p.end)'
      /\ NoHoles' /\ ReferencesPresent'
  BY <1>1, BeginsNext, HandleOk
<1>4. /\ st'.have_seq = TRUE /\ st'.last_seq = p.seq /\ st'.au_have_ts = TRUE /\ st'.au_ts = p.ts
  BY <1>1, HandleTyped
<1>5. /\ tx.seq \in 0..(SeqMod - 1) /\ tx.ts \in 0..(TsMod - 1) /\ tx'.seq \in 0..(SeqMod - 1)
      /\ SeqMod \in Nat /\ MaxLate \in Nat /\ MaxFaults \in Nat
      /\ SeqMod > MaxFaults + MaxLate /\ faults \in 0..MaxFaults
  <2>1. tx.seq \in 0..(SeqMod - 1) /\ tx.ts \in 0..(TsMod - 1) BY DEF RtpTypeOK, TxOk, TxType
  <2> QED BY <1>2, <2>1, RtpConstants, ModSucc DEF SeqInv
<1>6. Dist(st.last_seq, tx.seq, 1)'
  <2>1. Dist(tx.seq, tx'.seq, 1) BY <1>2, <1>5, DistOne
  <2> QED BY <1>1, <1>4, <2>1 DEF Dist
<1>7. NextOk(tx.ts, tx.idx, tx.class, tx.fu, p.idx, p.class, p.marker)'
  <2>1. After(tx.ts, tx.idx, tx.class, p.idx, p.class, p.marker)'
    <3>1. CASE p.marker
      <4>1. Prev(tx'.ts) = p.ts BY <1>1, <1>2, <1>5, <3>1, NextTs
      <4> QED BY <1>2, <1>4, <3>1, <4>1 DEF After, Prev
    <3>2. CASE ~p.marker BY <1>1, <1>2, <1>4, <3>2 DEF After
    <3> QED BY <3>1, <3>2
  <2>2. tx'.fu <=> (p.form = "fu" /\ ~p.end) BY <1>1, <1>2
  <2>3. Follow(st, tx.fu)' BY <1>3, <2>2 DEF Follow
  <2> QED BY <2>1, <2>3 DEF NextOk
<1>8. \A h \in held : ~Dist(st.last_seq, h.seq, 1)'
  <2>1. \A h \in held : ~Dist(tx.seq, h.seq, 1) BY <1>1, NotDue
  <2> QED BY <1>1, <1>4, <2>1 DEF Dist
<1>11. faults' \in 0..MaxFaults /\ (held' # {} => faults' >= 1) BY <1>5 DEF SeqInv
<1>9. Pos(1, p.idx, p.class, p.marker)'
  <2>1. PICK f \in Nat : f = faults' BY <1>5
  <2>2. 1 <= f + MaxLate + 1 BY <1>5
  <2> QED BY <1>3, <1>6, <1>7, <1>8, <2>1, <2>2 DEF Pos
<1>10. \A h \in held' : held' = {h} /\ \E e \in 1..(MaxLate + 1) : LateAt(h, e)'
  BY <1>1, <1>2, LateNext DEF SeqInv
<1>12. 1 \in 1..SeqMod BY <1>5
<1>13. SeqInv' BY <1>1, <1>4, <1>9, <1>10, <1>11, <1>12 DEF SeqInv
<1> QED BY <1>3, <1>13

\* A stray packet.
LEMMA Strayed ==
  ASSUME RtpTypeOK, SeqInv, DeliverStray
  PROVE  SeqInv' /\ NoHoles' /\ ReferencesPresent'
<1>1. PICK p \in Strays : Handle(p, FALSE) BY DEF DeliverStray
<1>2. p.seq = tx.seq /\ p.ts = tx.ts /\ st' = Header(p) /\ out' = {} /\ chain' = chain
  BY <1>1, StrayIs
<1>3. /\ tx.idx \in Nat /\ tx.fu \in BOOLEAN /\ (tx.idx = 0 => tx.class = 0 /\ ~tx.fu)
      /\ tx.seq \in 0..(SeqMod - 1) /\ tx.ts \in 0..(TsMod - 1) /\ st.last_seq \in 0..(SeqMod - 1)
      /\ tx.class \in {0, 1, 5, 7} /\ st \in StType
  BY DEF RtpTypeOK, TxOk, TxType, StType
<1>4. /\ tx'.seq = (tx.seq + 1) % SeqMod /\ tx'.ts = tx.ts /\ tx'.idx = tx.idx
      /\ tx'.class = tx.class /\ tx'.fu = tx.fu
  BY DEF DeliverStray, RtpTypeOK, TxOk, TxType
<1>5. /\ UNCHANGED <<variant, rtsp, sprop, held>> /\ rtsp = "stream" /\ ~Overdue
      /\ faults < MaxFaults /\ faults' = faults + 1
  BY DEF DeliverStray
<1>6. \E j \in Nat, k \in {0, 1, 5, 7}, b \in BOOLEAN :
        /\ st.have_seq => st.au_have_ts /\ Content(j, k, b)
        /\ st.have_seq /\ ~SeqGap(p) => NextOk(p.ts, tx.idx, tx.class, tx.fu, j, k, b)
  <2>1. CASE st.have_seq
    <3>1. st.au_have_ts BY <2>1 DEF SeqInv
    <3>2. PICK d \in 1..SeqMod, j \in Nat, k \in {0, 1, 5, 7}, b \in BOOLEAN : Pos(d, j, k, b)
      BY <2>1 DEF SeqInv
    <3>3. ~SeqGap(p) => d = 1
      <4>1. ~SeqGap(p) => Dist(st.last_seq, tx.seq, 1)
        BY <1>2, <1>3, <2>1, DistOne DEF SeqGap
      <4> QED BY <1>3, <3>2, <4>1, DistOne DEF Pos
    <3> QED BY <1>2, <3>1, <3>2, <3>3 DEF Pos
  <2>2. CASE ~st.have_seq BY <2>2
  <2> QED BY <2>1, <2>2
<1>7. PICK j \in Nat, k \in {0, 1, 5, 7}, b \in BOOLEAN :
        /\ st.have_seq => st.au_have_ts /\ Content(j, k, b)
        /\ st.have_seq /\ ~SeqGap(p) => NextOk(p.ts, tx.idx, tx.class, tx.fu, j, k, b)
  BY <1>6
<1>8. HeadOk(Header(p), p.ts, tx.idx, tx.class, tx.fu)
  <2>1. PICK i, k1, fu : i = tx.idx /\ k1 = tx.class /\ fu = tx.fu OBVIOUS
  <2>2. /\ i \in Nat /\ fu \in BOOLEAN /\ (i = 0 => k1 = 0 /\ ~fu) /\ (i # 0 => k1 = k1)
        /\ p.seq \in 0..(SeqMod - 1) /\ p.ts \in 0..(TsMod - 1)
    BY <1>2, <1>3, <2>1
  <2>3. /\ st.have_seq => st.au_have_ts /\ Content(j, k, b)
        /\ st.have_seq /\ ~SeqGap(p) => NextOk(p.ts, i, k1, fu, j, k, b)
    BY <1>7, <2>1
  <2>4. ~st.have_seq => Quiet BY DEF SeqInv
  <2>5. HeadOk(Header(p), p.ts, i, k1, fu) BY <2>2, <2>3, <2>4, HeadIs
  <2> QED BY <2>1, <2>5
<1>9. /\ Sound(st', tx.idx, tx.class) /\ Follow(st', tx.fu) /\ Linked(st', tx.ts, tx.idx)
  BY <1>2, <1>8 DEF HeadOk
<1>10. st'.have_seq = TRUE /\ st'.last_seq = tx.seq /\ st'.au_have_ts = TRUE /\ st'.au_ts = tx.ts
  BY <1>2, <1>3, HeaderIs
<1>11. (Strict' <=> Strict) /\ (Clean(st)' <=> Clean(st')) /\ (Staged(st)' = Staged(st'))
  BY <1>2, <1>5 DEF Strict, Clean, Staged, Pending
<1>12. Follow(st, tx.fu)' BY <1>4, <1>5, <1>9, <1>11 DEF Follow
<1>13. Content(tx.idx, tx.class, FALSE)'
  <2>1. Sound(st, tx.idx, tx.class)' BY <1>4, <1>5, <1>9, <1>11 DEF Sound
  <2>2. Linked(st, st.au_ts, tx.idx)' BY <1>2, <1>4, <1>9, <1>10, <1>11 DEF Linked, Prev
  <2> QED BY <2>1, <2>2 DEF Content
<1>14. /\ SeqMod \in Nat /\ MaxLate \in Nat /\ MaxFaults \in Nat
       /\ SeqMod > MaxFaults + MaxLate /\ faults \in 0..MaxFaults
       /\ tx'.seq \in 0..(SeqMod - 1)
  BY <1>3, <1>4, RtpConstants, ModSucc DEF SeqInv
<1>15. Dist(st.last_seq, tx.seq, 1)'
  <2>1. Dist(tx.seq, tx'.seq, 1) BY <1>3, <1>4, <1>14, DistOne
  <2> QED BY <1>10, <2>1 DEF Dist
<1>16. NextOk(tx.ts, tx.idx, tx.class, tx.fu, tx.idx, tx.class, FALSE)'
  BY <1>4, <1>10, <1>12 DEF NextOk, After
<1>17. \A h \in held : ~Dist(st.last_seq, h.seq, 1)'
  <2>1. \A h \in held : ~Dist(tx.seq, h.seq, 1) BY <1>5, NotDue
  <2> QED BY <1>10, <2>1 DEF Dist
<1>18. Pos(1, tx.idx, tx.class, FALSE)'
  <2>1. 1 <= faults' + MaxLate + 1 BY <1>5, <1>14
  <2> QED BY <1>5, <1>13, <1>15, <1>16, <1>17, <2>1 DEF Pos
<1>19. \A h \in held' : held' = {h} /\ \E e \in 1..(MaxLate + 1) : LateAt(h, e)'
  BY <1>4, <1>5, LateNext DEF SeqInv
<1>20. faults' \in 0..MaxFaults /\ (held' # {} => faults' >= 1) BY <1>5, <1>14
<1>21. 1 \in 1..SeqMod /\ tx'.idx \in Nat /\ tx'.class \in {0, 1, 5, 7} BY <1>3, <1>4, <1>14
<1>22. SeqInv' BY <1>5, <1>10, <1>18, <1>19, <1>20, <1>21 DEF SeqInv
<1> QED BY <1>2, <1>22 DEF NoHoles, ReferencesPresent

\* A packet that is sent and not delivered now: the receiver falls behind by one.
LEMMA NotDelivered ==
  ASSUME RtpTypeOK, SeqInv, NEW p \in Packets, tx' = Sent(p), rtsp = "stream",
         UNCHANGED <<variant, rtsp, sprop, st, chain>>,
         faults' = faults + 1, faults < MaxFaults,
         held' = held \/ (held = {} /\ held' = {p}), out' = {}
  PROVE  SeqInv' /\ NoHoles' /\ ReferencesPresent'
<1>1. /\ p \in PacketType /\ p.seq = tx.seq /\ p.ts = tx.ts /\ p.idx = tx.idx + 1 /\ ~Overdue
      /\ tx.idx > 0 => p.class = tx.class
      /\ tx.fu => ~p.start
      /\ ~tx.fu => p.start
  BY PacketsTyped
<1>2. /\ tx'.seq = (tx.seq + 1) % SeqMod
      /\ p.marker => tx'.idx = 0 /\ tx'.ts = (tx.ts + 1) % TsMod
      /\ ~p.marker => /\ tx'.idx = p.idx /\ tx'.ts = tx.ts /\ tx'.class = p.class
                      /\ tx'.fu = (p.form = "fu" /\ ~p.end)
  BY SentTyped
<1>3. /\ tx.seq \in 0..(SeqMod - 1) /\ tx.ts \in 0..(TsMod - 1) /\ tx'.seq \in 0..(SeqMod - 1)
      /\ st.last_seq \in 0..(SeqMod - 1) /\ tx.idx \in Nat /\ (tx.idx = 0 => tx.class = 0)
      /\ SeqMod \in Nat /\ MaxLate \in Nat /\ MaxFaults \in Nat
      /\ SeqMod > MaxFaults + MaxLate /\ faults \in 0..MaxFaults
  <2>1. /\ tx.seq \in 0..(SeqMod - 1) /\ tx.ts \in 0..(TsMod - 1)
        /\ st.last_seq \in 0..(SeqMod - 1) /\ tx.idx \in Nat /\ (tx.idx = 0 => tx.class = 0)
    BY DEF RtpTypeOK, TxOk, TxType, StType
  <2> QED BY <1>2, <2>1, RtpConstants, ModSucc DEF SeqInv
<1>4. ASSUME NEW d \in 1..SeqMod, NEW j \in Nat, NEW k \in {0, 1, 5, 7}, NEW b \in BOOLEAN,
             Pos(d, j, k, b)
      PROVE  d + 1 \in 1..SeqMod /\ Pos(d + 1, j, k, b)'
  <2>1. /\ Dist(st.last_seq, tx.seq, d) /\ d <= faults + MaxLate + 1 /\ Content(j, k, b)
        /\ d = 1 => NextOk(tx.ts, tx.idx, tx.class, tx.fu, j, k, b)
        /\ \A h \in held : Dist(st.last_seq, h.seq, 1) =>
             NextOk(h.ts, h.idx - 1, KnownClass(h.idx - 1, h.class), ~h.start, j, k, b)
    BY <1>4 DEF Pos
  <2>2. d + 1 \in 1..SeqMod /\ d + 1 # 1 /\ d + 1 <= faults' + MaxLate + 1
    BY <1>3, <2>1
  <2>3. Dist(st.last_seq, tx.seq, d + 1)'
    <3>1. Dist(st.last_seq, (tx.seq + 1) % SeqMod, d + 1) BY <1>3, <2>1, <2>2, DistNext
    <3> QED BY <1>2, <3>1 DEF Dist
  <2>4. Content(j, k, b)'
    BY <2>1 DEF Content, Sound, Linked, Strict, Clean, Staged, Pending, Indices, Classes, Prev
  <2>5. ASSUME NEW h \in held', Dist(st.last_seq, h.seq, 1)'
        PROVE  NextOk(h.ts, h.idx - 1, KnownClass(h.idx - 1, h.class), ~h.start, j, k, b)
    <3>1. Dist(st.last_seq, h.seq, 1) BY <2>5 DEF Dist
    <3>2. CASE h \in held BY <2>1, <3>1, <3>2
    <3>3. CASE h = p
      <4>1. d = 1 BY <1>1, <1>3, <2>1, <3>1, <3>3, DistOne
      <4>2. NextOk(tx.ts, tx.idx, tx.class, tx.fu, j, k, b) BY <2>1, <4>1
      <4>3. h.idx - 1 = tx.idx /\ KnownClass(h.idx - 1, h.class) = tx.class
        BY <1>1, <1>3, <3>3 DEF KnownClass
      <4>4. tx.fu <=> ~h.start BY <1>1, <3>3
      <4>5. After(tx.ts, tx.idx, tx.class, j, k, b) /\ Follow(st, tx.fu) BY <4>2 DEF NextOk
      <4>6. Follow(st, ~h.start) BY <4>4, <4>5 DEF Follow
      <4> QED BY <1>1, <3>3, <4>3, <4>5, <4>6 DEF NextOk
    <3> QED BY <2>5, <3>2, <3>3
  <2>6. \A h \in held' : Dist(st.last_seq, h.seq, 1)' =>
          NextOk(h.ts, h.idx - 1, KnownClass(h.idx - 1, h.class), ~h.start, j, k, b)'
    BY <2>5 DEF NextOk, After, Follow, Strict, Clean, Prev, KnownClass
  <2> QED BY <2>2, <2>3, <2>4, <2>6 DEF Pos
<1>5. \A h \in held' : held' = {h} /\ \E e \in 1..(MaxLate + 1) : LateAt(h, e)'
  <2>1. CASE held' = held BY <1>1, <1>2, <2>1, LateNext DEF SeqInv
  <2>2. CASE held' = {p}
    <3>1. Dist(p.seq, tx.seq, 1)'
      <4>1. Dist(tx.seq, tx'.seq, 1) BY <1>2, <1>3, DistOne
      <4> QED BY <1>1, <4>1 DEF Dist
    <3>2. p.marker => p.ts = Prev(tx'.ts) BY <1>1, <1>2, <1>3, NextTs
    <3>3. LateAt(p, 1)'
      <4>1. CASE p.marker BY <1>2, <3>1, <3>2, <4>1 DEF LateAt, Prev
      <4>2. CASE ~p.marker BY <1>1, <1>2, <3>1, <4>2 DEF LateAt
      <4> QED BY <4>1, <4>2
    <3>4. 1 \in 1..(MaxLate + 1) BY <1>3
    <3> QED BY <2>2, <3>3, <3>4
  <2> QED BY <2>1, <2>2
<1>6. faults' \in 0..MaxFaults /\ faults' >= 1 BY <1>3
<1>7. ~st'.have_seq => Quiet' BY DEF SeqInv, Quiet
<1>8. st'.have_seq => /\ st'.au_have_ts
                      /\ \E d \in 1..SeqMod, j \in Nat, k \in {0, 1, 5, 7}, b \in BOOLEAN :
                           Pos(d, j, k, b)'
  BY <1>4 DEF SeqInv
<1>9. SeqInv' BY <1>5, <1>6, <1>7, <1>8 DEF SeqInv
<1> QED BY <1>9 DEF NoHoles, ReferencesPresent

\* The late packet comes: the receiver falls back to where it was sent.
LEMMA DeliveredLate ==
  ASSUME RtpTypeOK, SeqInv, DeliverLate
  PROVE  SeqInv' /\ NoHoles' /\ ReferencesPresent'
<1>1. PICK p \in held : Handle(p, FALSE) BY DEF DeliverLate
<1>2. /\ UNCHANGED <<variant, rtsp, sprop, tx>>
      /\ \/ held' = {} /\ faults' = faults
         \/ held' = held /\ faults < MaxFaults /\ faults' = faults + 1
  BY DEF DeliverLate
<1>3. /\ p \in PacketType /\ p.idx \in Nat /\ p.class \in {0, 1, 5, 7} /\ p.marker \in BOOLEAN
      /\ p.seq \in 0..(SeqMod - 1) /\ (p.form = "fu" /\ p.marker => p.end)
      /\ rtsp = "stream" /\ held = {p}
  <2>1. p \in PacketType /\ rtsp = "stream" BY DEF RtpTypeOK
  <2> QED BY <2>1 DEF PacketType, SeqInv
<1>4. /\ Content(p.idx, p.class, p.marker)' /\ Follow(st, p.form = "fu" /\ ~p.end)'
      /\ NoHoles' /\ ReferencesPresent'
  BY <1>1, <1>2, <1>3, BeginsLate, HandleOk
<1>5. /\ st'.have_seq = TRUE /\ st'.last_seq = p.seq /\ st'.au_have_ts = TRUE /\ st'.au_ts = p.ts
  BY <1>1, <1>3, HandleTyped
<1>6. PICK e \in 1..(MaxLate + 1) : LateAt(p, e) BY DEF SeqInv
<1>7. /\ SeqMod \in Nat /\ MaxLate \in Nat /\ MaxFaults \in Nat
      /\ SeqMod > MaxFaults + MaxLate /\ faults \in 0..MaxFaults /\ faults >= 1
      /\ tx.idx = 0 => ~tx.fu
  BY RtpConstants DEF SeqInv, RtpTypeOK, TxOk
<1>8. /\ faults' \in 0..MaxFaults /\ faults' >= 1 /\ e <= faults' + MaxLate + 1
      /\ e \in 1..SeqMod
  BY <1>2, <1>7
<1>9. Dist(st.last_seq, tx.seq, e)' BY <1>2, <1>5, <1>6 DEF LateAt, Dist
<1>10. ASSUME e = 1
       PROVE  NextOk(tx.ts, tx.idx, tx.class, tx.fu, p.idx, p.class, p.marker)'
  <2>1. /\ p.marker => tx.idx = 0 /\ p.ts = Prev(tx.ts)
        /\ ~p.marker => /\ tx.ts = p.ts /\ tx.idx = p.idx /\ tx.class = p.class
                        /\ tx.fu <=> (p.form = "fu" /\ ~p.end)
    BY <1>6, <1>10 DEF LateAt
  <2>2. After(tx.ts, tx.idx, tx.class, p.idx, p.class, p.marker)'
    <3>1. CASE p.marker BY <1>2, <1>5, <2>1, <3>1 DEF After, Prev
    <3>2. CASE ~p.marker BY <1>2, <1>5, <2>1, <3>2 DEF After
    <3> QED BY <3>1, <3>2
  <2>3. tx'.fu <=> (p.form = "fu" /\ ~p.end) BY <1>2, <1>3, <1>7, <2>1
  <2>4. Follow(st, tx.fu)' BY <1>4, <2>3 DEF Follow
  <2> QED BY <2>2, <2>4 DEF NextOk
<1>11. \A h \in held' : h = p /\ ~Dist(st.last_seq, h.seq, 1)'
  <2>1. ~Dist(p.seq, p.seq, 1) BY <1>3, <1>7 DEF Dist
  <2> QED BY <1>2, <1>3, <1>5, <2>1 DEF Dist
<1>12. Pos(e, p.idx, p.class, p.marker)' BY <1>4, <1>8, <1>9, <1>10, <1>11 DEF Pos
<1>13. \A h \in held' : held' = {h} /\ \E x \in 1..(MaxLate + 1) : LateAt(h, x)'
  <2>1. LateAt(p, e)' BY <1>2, <1>6 DEF LateAt, Dist, Prev
  <2> QED BY <1>2, <1>3, <1>11, <2>1
<1>14. SeqInv' BY <1>2, <1>3, <1>5, <1>8, <1>12, <1>13 DEF SeqInv
<1> QED BY <1>4, <1>14

\* Steps that leave the receiver and the network alone.
LEMMA Elsewhere ==
  ASSUME SeqInv, NoHoles, ReferencesPresent,
         UNCHANGED <<variant, held, st, out, chain, faults>>,
         \/ UNCHANGED <<sprop, tx>> /\ (rtsp' = rtsp \/ rtsp' \in {"stream", "closed"})
         \/ held = {} /\ rtsp \notin {"stream", "closed"}
  PROVE  SeqInv' /\ NoHoles' /\ ReferencesPresent'
<1>1. CASE UNCHANGED <<sprop, tx>> /\ (rtsp' = rtsp \/ rtsp' \in {"stream", "closed"})
  <2>1. \A h \in held, e \in 1..(MaxLate + 1) : LateAt(h, e) => LateAt(h, e)'
    BY <1>1 DEF LateAt, Dist, Prev
  <2>2. ~st'.have_seq => Quiet' BY DEF SeqInv, Quiet
  <2>3. \A d \in 1..SeqMod, j \in Nat, k \in {0, 1, 5, 7}, b \in BOOLEAN :
          Pos(d, j, k, b) => Pos(d, j, k, b)'
    BY <1>1 DEF Pos, Dist, Content, Sound, Linked, NextOk, After, Follow, Strict, Clean, Staged,
                Pending, Indices, Classes, Prev, KnownClass
  <2>4. SeqInv' BY <1>1, <2>1, <2>2, <2>3 DEF SeqInv
  <2> QED BY <1>1, <2>4 DEF NoHoles, ReferencesPresent, Indices, Classes
<1>2. CASE held = {} /\ rtsp \notin {"stream", "closed"}
  <2>1. ~st.have_seq /\ out = {} BY <1>2 DEF SeqInv
  <2>2. Quiet' BY <2>1 DEF SeqInv, Quiet
  <2>3. SeqInv' BY <1>2, <2>1, <2>2 DEF SeqInv
  <2> QED BY <2>1, <2>3 DEF NoHoles, ReferencesPresent
<1> QED BY <1>1, <1>2

\* Every step keeps what is handed to the decoder whole.
LEMMA SeqStep ==
  ASSUME RtpTypeOK, SeqInv, NoHoles, ReferencesPresent, [RtpNext]_vars
  PROVE  SeqInv' /\ NoHoles' /\ ReferencesPresent'
<1>1. variant # "rtsp" => rtsp = "stream" BY DEF RtpTypeOK
<1>2. variant = "rtsp" => held = {} BY DEF RtpTypeOK
<1>3. CASE Connect \/ Describe \/ Setup \/ Discard \/ Play
  <2>1. rtsp \in {"connect", "describe", "auth", "setup", "play"}
    BY <1>3 DEF Connect, Describe, Setup, Discard, Play
  <2>2. held = {} /\ rtsp \notin {"stream", "closed"} BY <1>1, <1>2, <2>1
  <2>3. UNCHANGED <<variant, held, st, out, chain, faults>>
    BY <1>3 DEF Connect, Describe, Setup, Discard, Play
  <2> QED BY <2>2, <2>3, Elsewhere
<1>4. CASE StreamEnd \/ UNCHANGED vars
  <2>1. /\ UNCHANGED <<variant, held, st, out, chain, faults>>
        /\ UNCHANGED <<sprop, tx>> /\ (rtsp' = rtsp \/ rtsp' \in {"stream", "closed"})
    BY <1>4 DEF StreamEnd, vars
  <2> QED BY <2>1, Elsewhere
<1>5. faults \in 0..MaxFaults /\ MaxFaults \in Nat BY RtpConstants DEF SeqInv
<1>6. CASE Deliver
  <2>1. PICK p \in Packets : Handle(p, FALSE) /\ tx' = Sent(p) BY <1>6 DEF Deliver
  <2>2. rtsp = "stream" /\ UNCHANGED <<variant, rtsp, sprop, held>> /\ faults' = faults
    BY <1>6 DEF Deliver
  <2>3. faults' \in 0..MaxFaults /\ faults' >= faults BY <1>5, <2>2
  <2> QED BY <2>1, <2>2, <2>3, Delivered
<1>7. CASE DeliverShort
  <2>1. PICK p \in Packets : Handle(p, TRUE) /\ tx' = Sent(p) BY <1>7 DEF DeliverShort
  <2>2. /\ rtsp = "stream" /\ UNCHANGED <<variant, rtsp, sprop, held>>
        /\ faults < MaxFaults /\ faults' = faults + 1
    BY <1>7 DEF DeliverShort
  <2>3. faults' \in 0..MaxFaults /\ faults' >= faults BY <1>5, <2>2
  <2> QED BY <2>1, <2>2, <2>3, Delivered
<1>8. CASE DeliverStray BY <1>8, Strayed
<1>9. CASE Lose
  <2>1. PICK p \in Packets : tx' = Sent(p) BY <1>9 DEF Lose
  <2>2. /\ rtsp = "stream" /\ UNCHANGED <<variant, rtsp, sprop, st, chain>>
        /\ faults < MaxFaults /\ faults' = faults + 1 /\ out' = {} /\ held' = held
    BY <1>9 DEF Lose
  <2> QED BY <2>1, <2>2, NotDelivered
<1>10. CASE Delay
  <2>1. PICK p \in Packets : held' = {p} /\ tx' = Sent(p) BY <1>10 DEF Delay
  <2>2. /\ rtsp = "stream" /\ UNCHANGED <<variant, rtsp, sprop, st, chain>>
        /\ faults < MaxFaults /\ faults' = faults + 1 /\ out' = {} /\ held = {}
    BY <1>1, <1>10 DEF Delay
  <2> QED BY <2>1, <2>2, NotDelivered
<1>11. CASE DeliverLate BY <1>11, DeliveredLate
<1> QED BY <1>3, <1>4, <1>6, <1>7, <1>8, <1>9, <1>10, <1>11 DEF RtpNext

\* Whatever was lost, repeated, late or dropped for lack of room, an AU that
\* rtp_au_flush or rtp_direct_flush hands to the decoder has no hole, and the H.264
\* receivers hand it no dependent picture whose references it did not get
\* (rtp_h264_seq_gap, and need_idr in handle_rtp_h264 and handle_rtp_h264_direct).
THEOREM OnlyWholeAus == RtpSpec => [](NoHoles /\ ReferencesPresent)
<1>1. RtpInit => RtpTypeOK /\ SeqInv /\ NoHoles /\ ReferencesPresent
  <2> SUFFICES ASSUME RtpInit PROVE SeqInv /\ NoHoles /\ ReferencesPresent BY TypeInit
  <2>1. held = {} /\ out = {} /\ ~st.have_seq BY DEF RtpInit
  <2>2. Quiet BY DEF RtpInit, Quiet
  <2>3. faults \in 0..MaxFaults BY RtpConstants DEF RtpInit
  <2>4. SeqInv BY <2>1, <2>2, <2>3 DEF SeqInv
  <2> QED BY <2>1, <2>4 DEF NoHoles, ReferencesPresent
<1>2. RtpTypeOK /\ SeqInv /\ NoHoles /\ ReferencesPresent /\ [RtpNext]_vars
        => RtpTypeOK' /\ SeqInv' /\ NoHoles' /\ ReferencesPresent'
  BY TypeStep, SeqStep
<1> QED BY <1>1, <1>2, PTL DEF RtpSpec
=============================================================================
