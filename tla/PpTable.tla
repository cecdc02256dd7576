------------------------------ MODULE PpTable ------------------------------
(***************************************************************************)
(* How the driver computes the resize table of the PP, iteration by        *)
(* iteration: pp_build_resize of kernel/mxc_vpu.c with pp_gcd, pp_scale_1d *)
(* and pp_scale_0d, as pp_convert calls it.  Resize has the same loops as  *)
(* functions; here each iteration is a step, so that what a table samples  *)
(* is an invariant and can be proved for every size of picture.            *)
(*                                                                         *)
(* The two tables, of the width "h" and of the height "v", stand one after *)
(* the other in the array tbl.  at and cur are history: where in the line  *)
(* the pattern is, and how many pixels it has output, before each entry    *)
(* and after the last one.                                                 *)
(*                                                                         *)
(* Integers are exact: with at most PpTblMax rounds of a loop no int of    *)
(* the code overflows as long as the sizes are below 2^24.                 *)
(***************************************************************************)
EXTENDS Resize

CONSTANT Calls       \* the sizes that pp_convert is called with

ASSUME CallsAssumption == Calls \subseteq [sw : Nat, sh : Nat, dw : Nat, dh : Nat]

VARIABLES
  pc,                \* where pp_build_resize is
  c,                 \* the sizes of this call
  dir,               \* the direction at hand
  x, y,              \* pp_gcd
  num, den,          \* hn, vn and hd, vd: the reduced ratios
  v, out_pos, carry, \* pp_scale_1d: input position, output position, distance
  coeff, base, nxt,  \* pp_scale_0d: a weight as a fraction, and an advance
  tbl,               \* the entries written so far
  hlen, index,       \* the entries of the width; the index register
  at, cur            \* positions before each entry, and now

ratio == <<num, den>>
regs == <<v, out_pos, carry, coeff, base, nxt>>
table == <<tbl, at, cur>>
vars == <<pc, c, dir, x, y, ratio, regs, table, hlen, index>>

Dirs == {"h", "v"}
Src(d) == IF d = "h" THEN c.sw ELSE c.sh
Dst(d) == IF d = "h" THEN c.dw ELSE c.dh
N == num[dir]        \* inv, the first size in pp_scale_1d
D == den[dir]        \* outv

Start == [p |-> 0, i |-> 0]
NoSizes == [sw |-> 0, sh |-> 0, dw |-> 0, dh |-> 0]
NoIndex == [hend |-> 0, vstart |-> 0, vend |-> 0]

Init ==
  /\ pc = "idle" /\ c = NoSizes /\ dir = "h" /\ x = 0 /\ y = 0
  /\ num = [d \in Dirs |-> 0] /\ den = [d \in Dirs |-> 0]
  /\ v = 0 /\ out_pos = 0 /\ carry = 0 /\ coeff = 0 /\ base = 0 /\ nxt = 0
  /\ tbl = <<>> /\ at = <<>> /\ cur = Start
  /\ hlen = 0 /\ index = NoIndex

-----------------------------------------------------------------------------
\* pp_gcd begins: the larger number first.
GcdOf(a, b) ==
  /\ x' = IF a < b THEN b ELSE a
  /\ y' = IF a < b THEN a ELSE b

\* pp_convert has checked the sizes and calls pp_build_resize.
Build(g) ==
  /\ pc = "idle"
  /\ PpGeometry(g.sw, g.sh, g.dw, g.dh)
  /\ pc' = "gcd" /\ c' = g /\ dir' = "h"
  /\ GcdOf(g.sw, g.dw)
  /\ UNCHANGED <<ratio, regs, table, hlen, index>>

\* pp_gcd, one round.
GcdStep ==
  /\ pc = "gcd"
  /\ x % y # 0
  /\ x' = y /\ y' = x % y
  /\ UNCHANGED <<pc, c, dir, ratio, regs, table, hlen, index>>

\* pp_gcd returns y, and the ratio is reduced: the width first, then the height.
GcdDone ==
  /\ pc = "gcd"
  /\ x % y = 0
  /\ num' = [num EXCEPT ![dir] = Src(dir) \div y]
  /\ den' = [den EXCEPT ![dir] = Dst(dir) \div y]
  /\ IF dir = "h" THEN pc' = "gcd" /\ dir' = "v" /\ GcdOf(c.sh, c.dh)
     ELSE pc' = "ratio" /\ dir' = "h" /\ UNCHANGED <<x, y>>
  /\ UNCHANGED <<c, regs, table, hlen, index>>

\* pp_build_resize, the limits of the block.
CheckRatio ==
  /\ pc = "ratio"
  /\ pc' = IF \A d \in Dirs : PpRatioOk(num[d], den[d]) THEN "scale" ELSE "fail"
  /\ UNCHANGED <<c, dir, x, y, ratio, regs, table, hlen, index>>

-----------------------------------------------------------------------------
\* pp_scale_1d, up to the loop of its branch.
Scale1d ==
  /\ pc = "scale"
  /\ \/ /\ N = D
        /\ coeff' = 1 /\ base' = 1 /\ nxt' = 1
        /\ pc' = "emit" /\ UNCHANGED <<v, out_pos, carry>>
     \/ /\ N < D
        /\ v' = 0
        /\ pc' = "loop" /\ UNCHANGED <<out_pos, carry, coeff, base, nxt>>
     \/ /\ N >= 2 * D
        /\ v' = 0
        /\ pc' = IF N \in {2 * D, 4 * D} THEN "loop" ELSE "fail"
        /\ UNCHANGED <<out_pos, carry, coeff, base, nxt>>
     \/ /\ D < N /\ N < 2 * D
        /\ v' = D + 2 * D /\ out_pos' = N /\ carry' = N - D
        /\ pc' = "loop" /\ UNCHANGED <<coeff, base, nxt>>
  /\ UNCHANGED <<c, dir, x, y, ratio, table, hlen, index>>

\* A round that does not go on when it lands on the next pixel.
LoopUp_strict ==
  /\ pc = "loop" /\ N < D
  /\ coeff' = D - v /\ base' = D
  /\ v' = IF v + N > D THEN v + N - D ELSE v + N
  /\ nxt' = IF v + N > D THEN 1 ELSE 0
  /\ pc' = "emit"
  /\ UNCHANGED <<c, dir, x, y, ratio, out_pos, carry, table, hlen, index>>

\* One round of the loop for more output than input.
LoopUp ==
  /\ pc = "loop" /\ N < D
  /\ coeff' = D - v /\ base' = D
  /\ v' = IF v + N >= D THEN v + N - D ELSE v + N
  /\ nxt' = IF v + N >= D THEN 1 ELSE 0
  /\ pc' = "emit"
  /\ UNCHANGED <<c, dir, x, y, ratio, out_pos, carry, table, hlen, index>>

\* A round of the loop for 2:1 and 4:1, up to its inner loop.
LoopExact ==
  /\ pc = "loop" /\ N >= 2 * D
  /\ coeff' = 1 /\ base' = 2
  /\ v' = v + N - 2 * D /\ nxt' = 2
  /\ pc' = "advance"
  /\ UNCHANGED <<c, dir, x, y, ratio, out_pos, carry, table, hlen, index>>

\* A round of the loop for a scale-down by less than 2, up to its inner loop.
LoopDown ==
  /\ pc = "loop" /\ D < N /\ N < 2 * D
  /\ coeff' = v - out_pos /\ base' = 2 * D
  /\ out_pos' = out_pos + 2 * N /\ carry' = carry + 2 * N /\ nxt' = 0
  /\ pc' = "advance"
  /\ UNCHANGED <<c, dir, x, y, ratio, v, table, hlen, index>>

\* The inner loops: the pixels to go on by.
AdvanceExact ==
  /\ pc = "advance" /\ N >= 2 * D
  /\ IF v >= D THEN v' = v - D /\ nxt' = nxt + 1 /\ pc' = pc
     ELSE pc' = "emit" /\ UNCHANGED <<v, nxt>>
  /\ UNCHANGED <<c, dir, x, y, ratio, out_pos, carry, coeff, base, table, hlen, index>>

\* An inner loop that forgets the position.
AdvanceDown_still ==
  /\ pc = "advance" /\ N < 2 * D
  /\ IF v < out_pos
     THEN v' = v /\ carry' = carry - 2 * D /\ nxt' = nxt + 1 /\ pc' = pc
     ELSE pc' = "emit" /\ UNCHANGED <<v, carry, nxt>>
  /\ UNCHANGED <<c, dir, x, y, ratio, out_pos, coeff, base, table, hlen, index>>

AdvanceDown ==
  /\ pc = "advance" /\ N < 2 * D
  /\ IF v < out_pos
     THEN v' = v + 2 * D /\ carry' = carry - 2 * D /\ nxt' = nxt + 1 /\ pc' = pc
     ELSE pc' = "emit" /\ UNCHANGED <<v, carry, nxt>>
  /\ UNCHANGED <<c, dir, x, y, ratio, out_pos, coeff, base, table, hlen, index>>

-----------------------------------------------------------------------------
\* A limit that is one too low.
Full_early == Len(tbl) >= PpTblMax - 1

Full == Len(tbl) >= PpTblMax

\* tbl[k++] = e
Push(e) ==
  /\ tbl' = Append(tbl, e)
  /\ at' = Append(at, cur)
  /\ cur' = [p |-> cur.p + e.n, i |-> cur.i + (IF e.o THEN 1 ELSE 0)]

NoRoom ==
  /\ Full
  /\ pc' = "fail"
  /\ UNCHANGED <<table, nxt>>

\* pp_scale_0d: the entry that outputs.
Emit ==
  /\ pc = "emit"
  /\ \/ NoRoom
     \/ /\ ~Full
        /\ nxt < PpSzNxt
        /\ Push(Entry(PpWeight(coeff, base), nxt, TRUE))
        /\ pc' = "while" /\ UNCHANGED nxt
     \/ /\ ~Full
        /\ nxt >= PpSzNxt
        /\ Push(Entry(PpWeight(coeff, base), 1, TRUE))
        /\ pc' = "skip" /\ nxt' = nxt - 1
  /\ UNCHANGED <<c, dir, x, y, ratio, v, out_pos, carry, coeff, base, hlen, index>>

\* pp_scale_0d: an entry that passes over one more pixel.
Skip ==
  /\ pc = "skip"
  /\ \/ NoRoom
     \/ /\ ~Full
        /\ Push(Entry(0, 1, FALSE))
        /\ nxt' = nxt - 1
        /\ pc' = IF nxt > 1 THEN "skip" ELSE "while"
  /\ UNCHANGED <<c, dir, x, y, ratio, v, out_pos, carry, coeff, base, hlen, index>>

\* The conditions of the loops of pp_scale_1d; 1:1 has none.
More ==
  CASE N = D -> FALSE
    [] N < D -> v # 0
    [] N >= 2 * D -> v # 0
    [] OTHER -> carry # N - D

While ==
  /\ pc = "while"
  /\ pc' = IF More THEN "loop" ELSE "return"
  /\ UNCHANGED <<c, dir, x, y, ratio, regs, table, hlen, index>>

SameRatio == num["h"] = num["v"] /\ den["h"] = den["v"]

\* pp_build_resize when pp_scale_1d is back: the height uses the table of the
\* width if the ratios are the same, else its own behind that.  pp_scale_1d has
\* written at least one entry, so the checks for none never refuse.
Return ==
  /\ pc = "return"
  /\ \/ /\ dir = "h" /\ SameRatio
        /\ hlen' = Len(tbl)
        /\ index' = [hend |-> Len(tbl) - 1, vstart |-> 0, vend |-> Len(tbl) - 1]
        /\ pc' = "done" /\ UNCHANGED <<dir, cur>>
     \/ /\ dir = "h" /\ ~SameRatio
        /\ hlen' = Len(tbl)
        /\ pc' = "scale" /\ dir' = "v" /\ cur' = Start /\ UNCHANGED index
     \/ /\ dir = "v"
        /\ index' = [hend |-> hlen - 1, vstart |-> hlen, vend |-> Len(tbl) - 1]
        /\ pc' = "done" /\ UNCHANGED <<dir, cur, hlen>>
  /\ UNCHANGED <<c, x, y, ratio, regs, tbl, at>>

\* pp_convert is over; the table was a local of it.
Leave ==
  /\ pc \in {"done", "fail"}
  /\ pc' = "idle" /\ c' = NoSizes /\ dir' = "h" /\ x' = 0 /\ y' = 0
  /\ num' = [d \in Dirs |-> 0] /\ den' = [d \in Dirs |-> 0]
  /\ v' = 0 /\ out_pos' = 0 /\ carry' = 0 /\ coeff' = 0 /\ base' = 0 /\ nxt' = 0
  /\ tbl' = <<>> /\ at' = <<>> /\ cur' = Start
  /\ hlen' = 0 /\ index' = NoIndex

Step ==
  \/ GcdStep \/ GcdDone \/ CheckRatio \/ Scale1d
  \/ LoopUp \/ LoopExact \/ LoopDown \/ AdvanceExact \/ AdvanceDown
  \/ Emit \/ Skip \/ While \/ Return \/ Leave

Next == Step \/ \E g \in Calls : Build(g)

Spec == Init /\ [][Next]_vars

-----------------------------------------------------------------------------
Entries == [w : Nat, n : Nat, o : BOOLEAN]
Positions == [p : Nat, i : Nat]

\* What the variables of pp_build_resize range over.
TableTypeOK ==
  /\ pc \in {"idle", "gcd", "ratio", "scale", "loop", "advance", "emit", "skip",
             "while", "return", "done", "fail"}
  /\ c \in [sw : Nat, sh : Nat, dw : Nat, dh : Nat]
  /\ dir \in Dirs
  /\ x \in Nat /\ y \in Nat
  /\ num \in [Dirs -> Nat] /\ den \in [Dirs -> Nat]
  /\ v \in Nat /\ out_pos \in Nat /\ carry \in Int
  /\ coeff \in Nat /\ base \in Nat /\ nxt \in Nat
  /\ tbl \in Seq(Entries) /\ at \in Seq(Positions) /\ cur \in Positions
  /\ hlen \in Nat
  /\ index \in [hend : Nat, vstart : Nat, vend : Nat]

\* The direction that entry j is for, and the position after it.
DirOf(j) == IF hlen = 0 \/ j <= hlen THEN "h" ELSE "v"
After(j) == [p |-> at[j].p + tbl[j].n, i |-> at[j].i + (IF tbl[j].o THEN 1 ELSE 0)]

\* The ratio of direction d is known.
Known(d) == pc # "idle" /\ (pc = "gcd" => d = "h" /\ dir = "v")

\* Ratios that are known are those of the sizes, in lowest terms.
LowestTerms ==
  \A d \in Dirs : Known(d) =>
    /\ num[d] * Dst(d) = den[d] * Src(d)
    /\ \A k \in 1..num[d] : num[d] % k = 0 /\ den[d] % k = 0 => k = 1

\* The table stays within the array of pp_convert, and every field of an entry has a
\* value that the block knows and that does not reach into the next field.
EntriesValid ==
  /\ Len(tbl) <= PpTblMax
  /\ \A j \in 1..Len(tbl) : tbl[j].n \in 0..PpSzNxt-1 /\ tbl[j].w \in {0} \cup 2..PpSzCoef-1

\* Where the PP has output i of d from n pixels: by the definition, except that 4:1
\* blends the first two pixels of four.
PpSample(i, n, d) == IF n = 4 * d THEN [p |-> i * n, c |-> 1, base |-> 2] ELSE Sample(i, n, d)

\* Each entry goes on where the one before it ends, and one that outputs samples the
\* line where that output lies and with the weight that belongs there.
Sampled ==
  \A j \in 1..Len(tbl) :
    /\ at[j] = IF j \in {1, hlen + 1} THEN Start ELSE After(j - 1)
    /\ tbl[j].o => LET s == PpSample(at[j].i, num[DirOf(j)], den[DirOf(j)])
                   IN at[j].p = s.p /\ tbl[j].w = PpWeight(s.c, s.base)

\* The index register delimits two whole patterns: one of the width and one of
\* the height, each with as many outputs and as much input as its ratio says.
WholePattern ==
  pc = "done" =>
    /\ index.hend < Len(tbl) /\ index.vstart <= index.vend /\ index.vend < Len(tbl)
    /\ at[1] = Start /\ at[index.vstart + 1] = Start
    /\ After(index.hend + 1) = [p |-> num["h"], i |-> den["h"]]
    /\ After(index.vend + 1) = [p |-> num["v"], i |-> den["v"]]

\* What pp_scale_1d and pp_scale_0d write, and pp_build_resize delimits, resizes the
\* picture: within the array and the fields, each output pixel from the right place of
\* the line, and over whole patterns, so that the block can repeat them to the end of
\* the line without a shift.
TableCorrect == EntriesValid /\ Sampled /\ WholePattern

\* The entries that direction d takes: one for each output, and four for 4:1.
Needed(d) == IF num[d] = 4 * den[d] THEN 4 ELSE den[d]
TotalNeeded == Needed("h") + (IF SameRatio THEN 0 ELSE Needed("v"))

\* A call is refused only if the block cannot do the ratio or the two patterns
\* do not fit into its table together; and no entry is wasted on one that fits.
RefusedRightly ==
  /\ pc = "fail" => \/ \E d \in Dirs : ~PpRatioOk(num[d], den[d])
                    \/ TotalNeeded > PpTblMax
  /\ pc = "done" => Len(tbl) = TotalNeeded

\* pp_build_resize refuses no picture that the block could resize: pp_gcd brings the
\* ratios to their lowest terms, and the loops end after the shortest pattern for them,
\* so that -ENOSPC means that no table of PP_TBL_MAX entries would do.
RefusalJust == LowestTerms /\ RefusedRightly

\* How far a call has still to go, the most significant first: the part of
\* pp_build_resize, the entries there is room for, the place in a round of a loop,
\* and the rounds of pp_gcd or of an inner loop.
Part ==
  CASE pc = "idle" -> 0
    [] pc \in {"done", "fail"} -> 1
    [] pc = "gcd" -> IF dir = "h" THEN 6 ELSE 5
    [] pc = "ratio" -> 4
    [] OTHER -> IF dir = "h" THEN 3 ELSE 2
Place ==
  CASE pc \in {"scale", "while"} -> 4
    [] pc = "loop" -> 3
    [] pc = "advance" -> 2
    [] pc \in {"emit", "skip"} -> 1
    [] OTHER -> 0
Rounds ==
  CASE pc = "gcd" -> y
    [] pc = "advance" /\ N >= 2 * D -> v
    [] pc = "advance" /\ N < 2 * D /\ v < out_pos -> out_pos - v
    [] OTHER -> 0
Rank == <<Part, PpTblMax - Len(tbl), Place, Rounds>>

\* a comes before b in the lexicographic order of four naturals, which has no
\* infinite descent.
Lower(a, b) ==
  /\ \A k \in 1..4 : a[k] \in Nat /\ b[k] \in Nat
  /\ \E k \in 1..4 : a[k] < b[k] /\ \A j \in 1..k-1 : a[j] = b[j]

\* Every step of a call brings it nearer to its end, whatever the sizes are: no loop of
\* pp_gcd, pp_scale_1d or pp_scale_0d goes on for ever, although each of them runs until
\* some remainder or distance comes round again.
Progress == [][pc # "idle" => Lower(Rank', Rank)]_vars

=============================================================================
