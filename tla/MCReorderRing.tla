--------------------------- MODULE MCReorderRing ---------------------------
(* Model-checking instances of ReorderRing.  A packet is inserted ahead of  *)
(* another when three are buffered, so that the ring has five slots: it     *)
(* wraps, fills, and packets are shifted across the end of the array.      *)
EXTENDS ReorderRing

\* Two lines of the last frame before the number wraps, and the frame after it.
AroundTheWrap ==
    {[frame |-> SeqMod - 1, line |-> 0], [frame |-> SeqMod - 1, line |-> 1],
     [frame |-> 0, line |-> 0]}
=============================================================================
