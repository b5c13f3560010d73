---------------------------- MODULE MCRingBuffer -----------------------------
(* RingBufferSync on a ring of three or four slots, two byte values, and data *)
(* from one byte up to one more than fits.                                *)
EXTENDS RingBufferSync

CONSTANT MaxData     \* the longest data given to one write

MCData == UNION {[1 .. n -> Bytes] : n \in 1 .. MaxData}
=============================================================================
