------------------------------ MODULE PagePool ------------------------------
(***************************************************************************)
(* What the driver's DMA memory promises its clients: a buffer is a        *)
(* non-empty set of pages, and a page is never part of two buffers at the  *)
(* same time.  How pages are chosen, tracked and recovered is left to the  *)
(* implementation (module VpuPool).                                        *)
(***************************************************************************)
CONSTANTS Clients, Page

VARIABLE granted    \* granted[c]: the buffers (sets of pages) client c may DMA to

TypeOK == granted \in [Clients -> SUBSET (SUBSET Page)]

Taken == UNION {UNION granted[c] : c \in Clients}

Init == granted = [c \in Clients |-> {}]

\* A buffer of pages that no client has is given to client c.
Grant(c) ==
  \E P \in SUBSET Page :
     /\ P # {}
     /\ P \cap Taken = {}
     /\ granted' = [granted EXCEPT ![c] = @ \cup {P}]

\* Client c gives some of its buffers back, or loses them all when it closes.
Drop(c) ==
  \E S \in SUBSET granted[c] : granted' = [granted EXCEPT ![c] = @ \ S]

Next == \E c \in Clients : Grant(c) \/ Drop(c)

Spec == Init /\ [][Next]_granted
=============================================================================
