--------------------------- MODULE RtpDepacketizer ---------------------------
(***************************************************************************)
(* The RTP input of apps/vpu_stream.c: rtsp_thread_main with the buffered  *)
(* H.264 receiver (handle_rtp_h264), and rtp_feed_direct with the two      *)
(* receivers that write into the VPU ring (handle_rtp_h264_direct,         *)
(* handle_rtp_mpeg4_direct).  The sender and the network are external: a   *)
(* well-formed stream of access units (AUs), of which packets are lost,    *)
(* and over UDP also duplicated and delivered late.                        *)
(*                                                                         *)
(* A NAL unit, or for MPEG-4 a VOP, is its class: 1 a picture that depends *)
(* on the one before, 5 one that does not (IDR, I-VOP), 7 parameter sets.  *)
(***************************************************************************)
EXTENDS Integers, Functions

CONSTANTS
  Variants,    \* receivers to check, of {"rtsp", "rtp", "mpeg4"}
  SeqMod,      \* number of RTP sequence numbers (2^16)
  TsMod,       \* number of RTP timestamps (2^32)
  MaxPkts,     \* bound on the packets of an AU
  MaxLate,     \* bound on the packets a late one is overtaken by
  MaxFaults    \* bound on the faults of network and memory

ASSUME RtpConstants ==
  /\ Variants \subseteq {"rtsp", "rtp", "mpeg4"}
  /\ SeqMod \in Nat /\ TsMod \in Nat /\ MaxPkts \in Nat /\ MaxFaults \in Nat /\ MaxLate \in Nat
  /\ MaxPkts > 1
  /\ SeqMod > MaxFaults + MaxLate /\ TsMod > MaxFaults + 1

VARIABLES
  variant,   \* which receiver runs; fixed
  rtsp,      \* where rtsp_thread_main is; "stream" throughout for the others
  sprop,     \* were parameter sets given out of band (spspps_len > 0)?
  tx,        \* sender: next seq, ts, packets of the AU so far, its class, in a fragment?
  held,      \* the packet the network delivers late, if any
  st,        \* struct h264_rtp_state
  out,       \* ghost: the AU the last packet flushed to the decoder, if it did
  chain,     \* ghost: ts of the last AU that reached the decoder with its references,
             \* or Join, or Broken
  faults,    \* faults so far
  lossy,     \* ghost: was there a fault that the stream's content saw?
  calm       \* ghost: AUs since the last such fault, the last with an IDR

vars == <<variant, rtsp, sprop, tx, held, st, out, chain, faults, lossy, calm>>

Broken == -1
Join == -2                \* chain before the first AU
SpropItem == <<0, 7>>     \* the out-of-band parameter sets, ahead of a picture

-----------------------------------------------------------------------------
\* The sender.  A packet holds whole NAL units (single or STAP-A) or a fragment
\* (FU-A; for MPEG-4 a part of a VOP, the first with its start code).
Whole(nals, marker) ==
  [form |-> "whole", nals |-> nals, start |-> TRUE, end |-> TRUE, marker |-> marker]
Fragment(n, start, end, marker) ==
  [form |-> "fu", nals |-> <<n>>, start |-> start, end |-> end, marker |-> marker]

\* What can follow in an AU of class k.  An AU ends with a packet that ends a
\* picture; MPEG-4 has one VOP for each AU.
Bodies(k) ==
  LET markers == IF variant = "mpeg4" \/ k = 7 THEN {TRUE} ELSE BOOLEAN
      bodies == IF tx.fu
                THEN {Fragment(k, FALSE, FALSE, FALSE)}
                     \cup {Fragment(k, FALSE, TRUE, m) : m \in markers}
                ELSE {Whole(<<k>>, m) : m \in markers}
                     \cup (IF k = 7 THEN {} ELSE {Fragment(k, TRUE, FALSE, FALSE)})
                     \cup (IF k # 5 THEN {} ELSE
                            {Whole(<<7>>, FALSE)} \cup {Whole(<<7, 5>>, m) : m \in markers})
  IN {b \in bodies : b.marker \/ tx.idx + 1 < MaxPkts}

Packet(b, k) ==
  [seq |-> tx.seq, ts |-> tx.ts, idx |-> tx.idx + 1, class |-> k,
   form |-> b.form, nals |-> b.nals, start |-> b.start, end |-> b.end, marker |-> b.marker]

Overdue == \E p \in held : (tx.seq - p.seq + SeqMod) % SeqMod > MaxLate

Packets ==
  UNION {{Packet(b, k) : b \in Bodies(k)} :
           k \in IF Overdue THEN {} ELSE IF tx.idx = 0 THEN {1, 5, 7} ELSE {tx.class}}

\* The sender after packet p.
Sent(p) ==
  IF p.marker
  THEN [seq |-> (tx.seq + 1) % SeqMod, ts |-> (tx.ts + 1) % TsMod, idx |-> 0, class |-> 0,
        fu |-> FALSE]
  ELSE [seq |-> (tx.seq + 1) % SeqMod, ts |-> tx.ts, idx |-> p.idx, class |-> p.class,
        fu |-> p.form = "fu" /\ ~p.end]

\* Packets with no payload, or without a NAL unit the H.264 receivers know.
Strays ==
  {[seq |-> tx.seq, ts |-> tx.ts, idx |-> tx.idx, class |-> 0, form |-> f,
    nals |-> <<>>, start |-> FALSE, end |-> FALSE, marker |-> FALSE] :
      f \in {"empty"} \cup (IF variant = "mpeg4" THEN {} ELSE {"other"})}

-----------------------------------------------------------------------------
\* A gap test that forgets that sequence numbers wrap.
SeqGap_nowrap(p) == st.have_seq /\ p.seq # st.last_seq + 1

\* rtp_h264_seq_gap, its answer
SeqGap(p) == st.have_seq /\ p.seq # (st.last_seq + 1) % SeqMod

\* rtp_h264_seq_gap, its effect: a gap gives up the NAL unit in fragments and
\* starts to wait for an IDR.
SeqSeen(p) ==
  [st EXCEPT !.have_seq = TRUE, !.last_seq = p.seq,
             !.fu_active = @ /\ ~SeqGap(p), !.fu = IF SeqGap(p) THEN {} ELSE @,
             !.need_idr = @ \/ SeqGap(p)]

\* rtp_au_reset, rtp_direct_reset
AuReset(s) == [s EXCEPT !.au = {}, !.au_bad = FALSE, !.au_has_idr = FALSE]

NewAu(p) == ~st.au_have_ts \/ st.au_ts # p.ts

\* An AU whose marker never came is given up when the timestamp changes.
TsSeen(s, p) ==
  LET unfinished == NewAu(p) /\ st.au_have_ts /\ s.au # {}
  IN [(IF unfinished THEN AuReset(s) ELSE s)
        EXCEPT !.need_idr = @ \/ unfinished, !.au_have_ts = TRUE, !.au_ts = p.ts]

\* A receiver that doubts the AU after the gap and not the one it is in.
GapInAu_next(p) == SeqGap(p) /\ NewAu(p)

GapInAu(p) == SeqGap(p) /\ ~NewAu(p)

\* The header of a packet, in the three handlers alike.
Header(p) == [TsSeen(SeqSeen(p), p) EXCEPT !.au_bad = @ \/ GapInAu(p)]

\* The appends of rtp_au_append, rtp_au_append_bytes, rtp_direct_append and
\* rtp_direct_append_nal: when room is short each of them may fail.
Stage(s, items, short) ==
  {[s EXCEPT !.au = @ \cup got, !.au_bad = @ \/ got # items, !.cut = @ \/ got # items] :
     got \in IF short THEN SUBSET items ELSE {items}}

Sprop(nals) == IF sprop /\ 5 \in nals THEN {SpropItem} ELSE {}

\* Single NAL units and STAP-A, in both H.264 receivers: while an IDR is waited
\* for only IDR slices and parameter sets are taken.
WholeNals(s, p, short) ==
  LET kept == {n \in Range(p.nals) : ~s.need_idr \/ n # 1}
      s1 == [s EXCEPT !.au_has_idr = @ \/ 5 \in kept]
  IN Stage(s1, {<<p.idx, n>> : n \in kept} \cup Sprop(kept), short)

FuSkipped(s, p) == SeqGap(p) \/ (s.need_idr /\ p.nals # <<5>>)

\* FU-A in handle_rtp_h264: fragments are gathered in fu, and a fragment that
\* does not fit, or has no start, ends the handler without a flush.
FuBuffered(s, p, short) ==
  LET s1 == IF p.start
            THEN [s EXCEPT !.fu = {}, !.fu_active = TRUE, !.au_has_idr = @ \/ p.nals = <<5>>]
            ELSE s
      item == <<p.idx, p.nals[1]>>
      more(a) == IF p.end
                 THEN Stage([a EXCEPT !.fu = {}, !.fu_active = FALSE], a.fu \cup {item}, short)
                 ELSE {[a EXCEPT !.fu = @ \cup {item}]}
  IN UNION {
       (IF a.fu_active THEN {[s |-> b, flush |-> TRUE] : b \in more(a)} ELSE {})
       \cup (IF ~a.fu_active \/ short
             THEN {[s |-> [a EXCEPT !.fu_active = FALSE, !.cut = @ \/ a.fu_active],
                    flush |-> FALSE]}
             ELSE {}) :
       a \in IF p.start THEN Stage(s1, Sprop(Range(p.nals)), short) ELSE {s1}}

\* FU-A in handle_rtp_h264_direct: fragments go into the ring as they come.
FuDirect(s, p, short) ==
  LET s1 == IF p.start
            THEN [s EXCEPT !.fu_active = TRUE, !.au_has_idr = @ \/ p.nals = <<5>>]
            ELSE s
      items == {<<p.idx, p.nals[1]>>} \cup (IF p.start THEN Sprop(Range(p.nals)) ELSE {})
  IN IF s1.fu_active
     THEN {[a EXCEPT !.fu_active = @ /\ ~p.end] : a \in Stage(s1, items, short)}
     ELSE {[s1 EXCEPT !.au_bad = TRUE]}

Flushing(states) == {[s |-> s, flush |-> TRUE] : s \in states}

\* handle_rtp_h264, from the payload to maybe_flush: the states it may leave and
\* whether it gets to maybe_flush.
HandleH264(s, p, short) ==
  CASE p.form = "empty" -> {[s |-> s, flush |-> FALSE]}
    [] p.form = "other" -> {[s |-> s, flush |-> TRUE]}
    [] p.form = "whole" -> Flushing(WholeNals(s, p, short))
    [] p.form = "fu" -> IF FuSkipped(s, p) THEN Flushing({s}) ELSE FuBuffered(s, p, short)

\* handle_rtp_h264_direct
HandleH264Direct(s, p, short) ==
  CASE p.form = "empty" -> {[s |-> s, flush |-> FALSE]}
    [] p.form = "other" -> {[s |-> s, flush |-> TRUE]}
    [] p.form = "whole" -> Flushing(WholeNals(s, p, short))
    [] p.form = "fu" -> Flushing(IF FuSkipped(s, p) THEN {s} ELSE FuDirect(s, p, short))

\* mpeg4_payload_has_vop, mpeg4_payload_has_i_vop: a start code in the payload.
HasVop(p) == p.start /\ Range(p.nals) \cap {1, 5} # {}
HasIVop(p) == p.start /\ 5 \in Range(p.nals)

\* handle_rtp_mpeg4_direct: an I-VOP's start ends the waiting at once.
HandleMpeg4(s, p, short) ==
  LET s1 == IF HasIVop(p) THEN [s EXCEPT !.au_has_idr = TRUE, !.need_idr = FALSE] ELSE s
  IN CASE p.form = "empty" -> {[s |-> s, flush |-> FALSE]}
       [] s1.need_idr /\ HasVop(p) -> Flushing({s1})
       [] OTHER -> Flushing(Stage(s1, {<<p.idx, n>> : n \in Range(p.nals)}, short))

Payload(s, p, short) ==
  CASE variant = "rtsp" -> HandleH264(s, p, short)
    [] variant = "rtp" -> HandleH264Direct(s, p, short)
    [] variant = "mpeg4" -> HandleMpeg4(s, p, short)

-----------------------------------------------------------------------------
Complete(s) == s.au # {} /\ ~s.au_bad

\* A flush that ends the waiting for an IDR with any AU.
Flush_any(s) == [AuReset(s) EXCEPT !.need_idr = @ /\ ~Complete(s)]

\* A flush that never ends the waiting.
Flush_never(s) == AuReset(s)

\* rtp_au_flush, rtp_direct_flush: the AU goes to the decoder, an IDR ends the
\* waiting, and the next AU starts empty.
Flush(s) == [AuReset(s) EXCEPT !.need_idr = @ /\ ~(Complete(s) /\ s.au_has_idr)]

Indices(items) == {i[1] : i \in items} \ {0}
Classes(items) == {i[2] : i \in items}
Prev(ts) == (ts + TsMod - 1) % TsMod

\* The decoder after an AU was flushed to it.  An IDR starts a new chain of references.
Decoded(s, p) ==
  /\ out' = {[items |-> s.au, last |-> p.idx, cut |-> s.cut,
             joins |-> chain = Join, follows |-> chain = Prev(p.ts)]}
  /\ chain' = IF 5 \in Classes(s.au) \/ chain = Join
                 \/ (chain = Prev(p.ts) /\ Indices(s.au) = 1..p.idx)
              THEN p.ts ELSE Broken

\* A packet is handed to the receiver; if short, there may be no room for it.
Handle(p, short) ==
  \E r \in Payload(Header(p), p, short) :
    LET flush == r.flush /\ p.marker
        done == flush /\ Complete(r.s)
    IN /\ st' = IF flush
                THEN [Flush(r.s) EXCEPT !.cut = @ /\ ~(done /\ r.s.au_has_idr)]
                ELSE r.s
       /\ IF done THEN Decoded(r.s, p) ELSE out' = {} /\ chain' = chain

-----------------------------------------------------------------------------
\* rtsp_thread_main up to the read loop, and what ends the thread.

\* tcp_connect_host, then DESCRIBE is sent; an error ends the thread.
Connect ==
  /\ rtsp = "connect"
  /\ rtsp' \in {"describe", "closed"}
  /\ UNCHANGED <<variant, sprop, tx, held, st, out, chain, faults, lossy, calm>>

\* The answer to DESCRIBE: refused once with a digest challenge it is sent again
\* with credentials; a description may hold parameter sets (sdp_parse_h264).
Describe ==
  /\ rtsp \in {"describe", "auth"}
  /\ \/ rtsp = "describe" /\ rtsp' = "auth" /\ sprop' = sprop
     \/ rtsp' = "setup" /\ sprop' \in BOOLEAN
     \/ rtsp' = "closed" /\ sprop' = sprop
  /\ UNCHANGED <<variant, tx, held, st, out, chain, faults, lossy, calm>>

\* SETUP: without a Session header the thread gives up.
Setup ==
  /\ rtsp = "setup"
  /\ rtsp' \in {"play", "closed"}
  /\ UNCHANGED <<variant, sprop, tx, held, st, out, chain, faults, lossy, calm>>

\* PLAY: packets that come ahead of the answer are thrown away
\* (rtsp_discard_interleaved).
Discard ==
  /\ rtsp = "play"
  /\ \E p \in Packets : tx' = Sent(p)
  /\ UNCHANGED <<variant, rtsp, sprop, held, st, out, chain, faults, lossy, calm>>

Play ==
  /\ rtsp = "play"
  /\ rtsp' \in {"stream", "closed"}
  /\ UNCHANGED <<variant, sprop, tx, held, st, out, chain, faults, lossy, calm>>

\* A short read, a bad length or a failed write ends the read loop.
StreamEnd ==
  /\ variant = "rtsp" /\ rtsp = "stream"
  /\ rtsp' = "closed"
  /\ UNCHANGED <<variant, sprop, tx, held, st, out, chain, faults, lossy, calm>>

-----------------------------------------------------------------------------
Calm == 3
Calmer(p) ==
  CASE ~p.marker -> calm
    [] p.marker /\ calm < Calm - 1 -> calm + 1
    [] OTHER -> IF p.class = 5 THEN Calm ELSE calm

\* rtp_feed_direct, or the read loop of rtsp_thread_main: the next packet, with
\* or without room for it.  The receiver is taken to be the socket's only reader; a
\* datagram that main's feed(h, 1) takes from a UDP source is to it one that is lost,
\* and what feed does to the bytes appended so far is BitRing's matter.
Deliver ==
  /\ rtsp = "stream"
  /\ \E p \in Packets : Handle(p, FALSE) /\ tx' = Sent(p) /\ calm' = Calmer(p)
  /\ UNCHANGED <<variant, rtsp, sprop, held, faults, lossy>>

DeliverShort ==
  /\ rtsp = "stream" /\ faults < MaxFaults
  /\ \E p \in Packets : Handle(p, TRUE) /\ tx' = Sent(p)
  /\ faults' = faults + 1
  /\ lossy' = TRUE /\ calm' = 0
  /\ UNCHANGED <<variant, rtsp, sprop, held>>

DeliverStray ==
  /\ rtsp = "stream" /\ faults < MaxFaults /\ ~Overdue
  /\ \E p \in Strays : Handle(p, FALSE)
  /\ tx' = [tx EXCEPT !.seq = (@ + 1) % SeqMod]
  /\ faults' = faults + 1
  /\ UNCHANGED <<variant, rtsp, sprop, held, lossy, calm>>

\* The network, the sender of an RTSP stream, or feed(h, 1) in the decode loop takes
\* a packet away.
Lose ==
  /\ rtsp = "stream" /\ faults < MaxFaults
  /\ \E p \in Packets : tx' = Sent(p)
  /\ faults' = faults + 1
  /\ lossy' = TRUE /\ calm' = 0
  /\ out' = {}
  /\ UNCHANGED <<variant, rtsp, sprop, held, st, chain>>

\* UDP: a packet is kept back, and then comes late, perhaps more than once.
Delay ==
  /\ variant # "rtsp" /\ held = {} /\ faults < MaxFaults
  /\ \E p \in Packets : held' = {p} /\ tx' = Sent(p)
  /\ faults' = faults + 1
  /\ lossy' = TRUE /\ calm' = 0
  /\ out' = {}
  /\ UNCHANGED <<variant, rtsp, sprop, st, chain>>

DeliverLate ==
  /\ \E p \in held : Handle(p, FALSE)
  /\ \/ held' = {} /\ faults' = faults
     \/ held' = held /\ faults < MaxFaults /\ faults' = faults + 1
  /\ calm' = 0
  /\ UNCHANGED <<variant, rtsp, sprop, tx, lossy>>

-----------------------------------------------------------------------------
RtpInit ==
  /\ variant \in Variants
  /\ rtsp = IF variant = "rtsp" THEN "connect" ELSE "stream"
  /\ sprop \in IF variant = "rtp" THEN BOOLEAN ELSE {FALSE}
  /\ tx = [seq |-> SeqMod - 1, ts |-> 0, idx |-> 0, class |-> 0, fu |-> FALSE]
  /\ held = {}
  /\ st = [have_seq |-> FALSE, last_seq |-> 0, need_idr |-> FALSE,
           au_have_ts |-> FALSE, au_ts |-> 0, au |-> {}, au_bad |-> FALSE,
           au_has_idr |-> FALSE, fu |-> {}, fu_active |-> FALSE, cut |-> FALSE]
  /\ out = {} /\ chain = Join
  /\ faults = 0 /\ lossy = FALSE /\ calm = 0

RtpNext ==
  \/ Connect \/ Describe \/ Setup \/ Discard \/ Play \/ StreamEnd
  \/ Deliver \/ DeliverShort \/ DeliverStray \/ Lose \/ Delay \/ DeliverLate

RtpSpec == RtpInit /\ [][RtpNext]_vars

-----------------------------------------------------------------------------
\* An AU that is flushed to the decoder (rtp_au_flush, rtp_direct_flush) has no
\* hole: from the first packet of it that was taken, every packet up to the
\* marker is in it, whatever was lost, repeated or late.  Left out: a NAL unit
\* that overruns the fu buffer of the RTSP receiver, which is skipped silently.
NoHoles ==
  \A o \in out : ~(variant = "rtsp" /\ o.cut) =>
    \E first \in 1..o.last : Indices(o.items) = first..o.last

\* After a loss the H.264 receivers feed no dependent picture until an IDR: one
\* that reaches the decoder is whole and the AU before it got there too.  Left
\* out: AUs dropped for lack of room, after which the code does not wait, and
\* RTSP without sprop, where au_has_idr can outlive its AU; the first AU is taken
\* as it comes.
ReferencesPresent ==
  \A o \in out :
    /\ variant = "rtp" \/ (variant = "rtsp" /\ sprop)
    /\ 1 \in Classes(o.items) /\ ~o.cut /\ ~o.joins
    => o.follows /\ Indices(o.items) = 1..o.last

\* A stream that nothing disturbs, with all its packets left to the receiver, passes
\* untouched: no AU is doubted, and when the sender is between two AUs the last one
\* has reached the decoder.
Transparent ==
  ~lossy => /\ ~st.need_idr /\ ~st.au_bad
            /\ tx.idx = 0 /\ chain # Join => chain = Prev(tx.ts)

\* Waiting for an IDR is over once, with no fault since, the AU that was hit and
\* another one went by and then one with an IDR.
Resyncs == calm = Calm => ~st.need_idr
=============================================================================
