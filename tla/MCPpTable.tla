----------------------------- MODULE MCPpTable -----------------------------
(* Sizes for model checking PpTable. *)
EXTENDS PpTable

\* Widths from 32 to 64 onto 8 to 130, with heights that are kept, enlarged,
\* reduced by less than 2, by 2 and by 4; and sizes the block refuses.
MCCalls ==
  {[sw |-> 8 * a, dw |-> 2 * b, sh |-> h[1], dh |-> h[2]] :
     a \in 4..8, b \in 4..65,
     h \in {<<32, 32>>, <<40, 46>>, <<64, 40>>, <<48, 24>>, <<32, 8>>, <<40, 8>>}}
=============================================================================
