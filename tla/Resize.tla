------------------------------- MODULE Resize -------------------------------
(***************************************************************************)
(* The resize tables that the driver (kernel/mxc_vpu.c) computes for the   *)
(* two eMMA blocks: the post-processor PP (pp_scale_0d, pp_scale_1d,       *)
(* pp_build_resize and the checks of pp_convert) and the pre-processor PrP *)
(* (prp_scale_build, prp_scale and the checks of prp_convert).             *)
(*                                                                         *)
(* A table is a sequence of entries [w, n, o]: blend the pixel at hand     *)
(* with weight w with the one after it, if o output the result, and go on  *)
(* by n pixels.  The hardware repeats the table to the end of the line.    *)
(* The empty table stands for an error code.                               *)
(***************************************************************************)
EXTENDS Integers, Sequences, SequencesExt

None == <<>>

PpTblMax == 40       \* PP_TBL_MAX
PpSzNxt == 4         \* PP_SZ_NXT
PpSzCoef == 32       \* PP_SZ_COEF
PrpTblMax == 20      \* MAX_TBL
PrpSzCoef == 8       \* SZ_COEF
ScaleRetry == 16     \* SCALE_RETRY

Entry(w, n, o) == [w |-> w, n |-> n, o |-> o]

\* The common divisor of pp_gcd and prp_gcd.
Gcd[x \in Nat, y \in Nat] == IF x % y = 0 THEN y ELSE Gcd[y, x % y]

-----------------------------------------------------------------------------
\* pp_scale_0d, its weight: in 32nds, rounded; 1 does not exist and 31 means 32.
PpWeight(coeff, base) ==
  LET w == (coeff * PpSzCoef + base \div 2) \div base
  IN IF w >= PpSzCoef - 1 THEN w - 1 ELSE IF w = 1 THEN 2 ELSE w

\* pp_scale_0d: one output; an advance too large for an entry is spread over
\* entries of PP_SKIP = 1 that output nothing.
Pp0d(coeff, base, nxt) ==
  LET w == PpWeight(coeff, base)
  IN IF nxt < PpSzNxt
     THEN <<Entry(w, nxt, TRUE)>>
     ELSE <<Entry(w, 1, TRUE)>> \o [i \in 1..nxt-1 |-> Entry(0, 1, FALSE)]

\* pp_scale_1d, the loop for more output than input.
PpUp[v \in Nat, inv \in Nat, outv \in Nat] ==
  LET wraps == v + inv >= outv
      next == IF wraps THEN v + inv - outv ELSE v + inv
  IN Pp0d(outv - v, outv, IF wraps THEN 1 ELSE 0)
       \o (IF next = 0 THEN None ELSE PpUp[next, inv, outv])

\* pp_scale_1d and prp_scale_build, the inner loop of a scale-down by less than 2:
\* the input pixels to go on by until the one after is at or beyond the output.
Advance[v \in Nat, pos \in Nat, inc \in Nat] ==
  IF v < pos THEN 1 + Advance[v + inc, pos, inc] ELSE 0

\* pp_scale_1d, the loop for a scale-down by less than 2; carry is the distance
\* to the start of the pattern.
PpDown[v \in Nat, pos \in Nat, carry \in Int, inv \in Nat, outv \in Nat] ==
  LET nxt == Advance[v, pos + 2 * inv, 2 * outv]
      carry1 == carry + 2 * inv - nxt * 2 * outv
  IN Pp0d(v - pos, 2 * outv, nxt)
       \o (IF carry1 = inv - outv THEN None
           ELSE PpDown[v + nxt * 2 * outv, pos + 2 * inv, carry1, inv, outv])

\* A scale-down that starts a whole output pixel in.
Pp1d_shifted(inv, outv) ==
  CASE inv = outv -> Pp0d(1, 1, 1)
    [] inv < outv -> PpUp[0, inv, outv]
    [] inv >= 2 * outv -> IF inv \in {2 * outv, 4 * outv}
                          THEN Pp0d(1, 2, inv \div outv) ELSE None
    [] OTHER -> PpDown[5 * outv, 3 * inv, inv - outv, inv, outv]

\* pp_scale_1d for a reduced ratio.  Of the scale-downs by 2 and more only 2:1
\* and 4:1 are exact, and their loop runs once.
Pp1d(inv, outv) ==
  CASE inv = outv -> Pp0d(1, 1, 1)
    [] inv < outv -> PpUp[0, inv, outv]
    [] inv >= 2 * outv -> IF inv \in {2 * outv, 4 * outv}
                          THEN Pp0d(1, 2, inv \div outv) ELSE None
    [] OTHER -> PpDown[3 * outv, inv, inv - outv, inv, outv]

\* The ratio limits of pp_build_resize, for one direction.
PpRatioOk(n, d) == d <= 4 * n /\ (n <= 2 * d \/ n = 4 * d)

\* pp_build_resize: the table of the width, then that of the height unless the
\* ratio is the same; both have to fit in PP_TBL_MAX entries.
PpBuildResize(sw, sh, dw, dh) ==
  LET hn == sw \div Gcd[sw, dw]
      hd == dw \div Gcd[sw, dw]
      vn == sh \div Gcd[sh, dh]
      vd == dh \div Gcd[sh, dh]
      h == Pp1d(hn, hd)
      v == Pp1d(vn, vd)
      same == hn = vn /\ hd = vd
  IN IF PpRatioOk(hn, hd) /\ PpRatioOk(vn, vd)
     THEN IF h # None /\ v # None /\ (IF same THEN Len(h) ELSE Len(h) + Len(v)) <= PpTblMax
          THEN [h |-> h, v |-> v] ELSE [h |-> None, v |-> None]
     ELSE [h |-> None, v |-> None]

\* The sizes that pp_convert builds a table for, on a 16-line-aligned layout with
\* a stride that fits.
PpGeometry(sw, sh, dw, dh) ==
  /\ sw >= 32 /\ sh >= 32 /\ dw >= 8 /\ dh >= 8
  /\ sw % 8 = 0 /\ sh % 8 = 0
  /\ dw % 2 = 0 /\ dh % 2 = 0

\* The checks of pp_convert: 4-byte pixels cannot be resized.
PpAccepts(sw, sh, dw, dh, bpp) ==
  /\ bpp = 32 => sw = dw /\ sh = dh
  /\ PpGeometry(sw, sh, dw, dh)
  /\ PpBuildResize(sw, sh, dw, dh).h # None

-----------------------------------------------------------------------------
\* prp_ave_coeff: the weights, in 8ths, that average n pixels into one.
AveCoeff == <<
  <<7>>, <<4,4>>, <<2,4,2>>, <<2,2,2,2>>, <<1,2,2,2,1>>, <<1,1,2,2,1,1>>,
  <<1,1,1,2,1,1,1>>, <<1,1,1,1,1,1,1,1>>, <<1,1,1,1,1,1,1,1,0>>,
  <<0,1,1,1,1,1,1,1,1,0>>, <<0,1,1,1,1,0,1,1,1,1,0>>, <<0,1,1,0,1,1,1,1,0,1,1,0>>,
  <<0,1,1,0,1,1,0,1,1,0,1,1,0>>, <<0,1,1,0,1,1,0,1,1,0,1,0,1,0>>,
  <<0,1,0,1,0,1,1,0,1,1,0,1,0,1,0>>, <<1,0,1,0,1,0,1,0,1,0,1,0,1,0,1,0>>,
  <<0,1,0,1,0,1,0,1,0,1,0,1,0,1,0,1,0>>, <<0,1,0,1,0,1,0,1,0,0,1,0,1,0,1,0,1,0>>,
  <<0,1,0,1,0,1,0,1,0,0,1,0,1,0,1,0,0,1,0>>, <<0,1,0,0,1,0,1,0,1,0,0,1,0,1,0,1,0,0,1,0>> >>

\* prp_scale_ave: n entries, of which the last outputs the sum.
PrpAve(n) == [i \in 1..n |-> Entry(AveCoeff[n][i], 1, i = n)]

\* prp_ave_scale: the input is shared out among outv outputs, with the groups
\* that are one larger in the middle.
PrpAveScale(inv, outv) ==
  LET rest == inv % outv
      from == (outv - rest) \div 2
      group(v) == inv \div outv + (IF v >= from /\ v < from + rest THEN 1 ELSE 0)
  IN FlattenSeq([v \in 1..outv |-> PrpAve(group(v - 1))])

\* prp_scale_bilinear: one output and nxt - 1 pixels passed over.
PrpBilinear(coeff, base, nxt) ==
  LET w == (coeff * PrpSzCoef + base \div 2) \div base
  IN <<Entry(IF w >= PrpSzCoef - 1 THEN w - 1 ELSE w, 1, TRUE)>>
       \o [i \in 1..nxt-1 |-> Entry(0, 1, FALSE)]

\* prp_scale_build, the bilinear loop.
PrpDown[v \in Nat, pos \in Nat, carry \in Int, inv \in Nat, outv \in Nat] ==
  LET nxt == Advance[v, pos + 2 * inv, 2 * outv]
      carry1 == carry + 2 * inv - nxt * 2 * outv
  IN PrpBilinear(v - pos, 2 * outv, nxt)
       \o (IF carry1 = inv - outv THEN None
           ELSE PrpDown[v + nxt * 2 * outv, pos + 2 * inv, carry1, inv, outv])

\* prp_scale_build: bilinear below 2:1, else averages; no scale-up.
PrpBuild(inv, outv) ==
  CASE inv < outv -> None
    [] inv = outv -> PrpAve(1)
    [] outv < inv /\ inv < 2 * outv -> PrpDown[3 * outv, inv, inv - outv, inv, outv]
    [] OTHER -> PrpAveScale(inv, outv)

\* prp_scale: while the ratio has no table of PrpTblMax entries the output is made
\* a pixel larger.  The size that comes out is that of the last try.
PrpScale[din \in Nat, dout \in Nat, retry \in Nat] ==
  LET num == din \div Gcd[din, dout]
      den == dout \div Gcd[din, dout]
      tbl == IF num > PrpTblMax THEN None ELSE PrpBuild(num, den)
  IN IF tbl # None /\ Len(tbl) <= PrpTblMax THEN [tbl |-> tbl, out |-> (din \div num) * den]
     ELSE IF retry > 0 THEN PrpScale[din, dout + 1, retry - 1]
     ELSE [tbl |-> None, out |-> 0]

\* The checks of prp_convert; the caller has made sure that allow_prp is on.
PrpAccepts(sw, sh, dw, dh) ==
  /\ sw >= 32 /\ sh >= 32 /\ dw >= 8 /\ dh >= 8
  /\ sw >= dw /\ sh >= dh
  /\ PrpScale[sw, dw, ScaleRetry].tbl # None
  /\ PrpScale[sh, dh, ScaleRetry].tbl # None

-----------------------------------------------------------------------------
\* What a table means: where the pattern is before each entry, and the entries
\* that output.
Position(t, k) == FoldLeft(LAMBDA a, e : a + e.n, 0, SubSeq(t, 1, k - 1))
Outputs(t) == SelectSeq([k \in 1..Len(t) |-> [p |-> Position(t, k), w |-> t[k].w, o |-> t[k].o]],
                        LAMBDA e : e.o)

\* Sampling by definition: for output i of outv from inv pixels, the left one of
\* the two pixels it lies between and the left one's weight as a fraction.  A
\* scale-up aligns the first pixels, a scale-down the centres of all pixels.
Sample(i, inv, outv) ==
  IF inv <= outv
  THEN [p |-> (i * inv) \div outv, c |-> outv - ((i * inv) % outv), base |-> outv]
  ELSE LET right(p) == (2 * p + 3) * outv - (2 * i + 1) * inv
           p == CHOOSE q \in 0..inv : right(q) >= 0 /\ (q > 0 => right(q - 1) < 0)
       IN [p |-> p, c |-> right(p), base |-> 2 * outv]

\* A PP table for a reduced ratio samples the line by the definition, and the
\* next round of the pattern starts where this one ends.  4:1 takes the first
\* two pixels of four.
PpSamples(t, inv, outv) ==
  LET outs == Outputs(t)
  IN /\ Len(outs) = outv
     /\ Position(t, Len(t) + 1) = inv
     /\ \A k \in 1..Len(t) : t[k].n \in 0..PpSzNxt-1 /\ t[k].w \in {0} \cup 2..PpSzCoef-1
     /\ inv # 4 * outv =>
          \A i \in 1..outv :
            LET s == Sample(i - 1, inv, outv)
            IN outs[i].p = s.p /\ outs[i].w = PpWeight(s.c, s.base)

\* A PrP table covers the input once; it samples by the definition, or averages
\* with weights that make a whole (a single 7 is taken for 8).
PrpSamples(t, inv, outv) ==
  LET outs == Outputs(t)
      sum == FoldLeft(LAMBDA a, e : a + (IF e.w = PrpSzCoef - 1 THEN PrpSzCoef ELSE e.w), 0, t)
  IN /\ Len(t) = inv
     /\ Len(outs) = outv
     /\ IF inv = outv \/ inv >= 2 * outv
        THEN sum = PrpSzCoef * outv
        ELSE \A i \in 1..outv : outs[i].p = Sample(i - 1, inv, outv).p
=============================================================================
