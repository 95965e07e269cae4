--------------------------- MODULE MCBadRectangle ---------------------------
(* A bitmap of two pixels that a server sends runs for. *)
EXTENDS Rle
MCBitmaps == {[width |-> 2, height |-> 1, bpp |-> 16, orders |-> 2, runs |-> {1, 2}]}
=============================================================================
