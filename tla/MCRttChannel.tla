---------------------------- MODULE MCRttChannel -----------------------------
(* RttChannel with data from one byte up to more than the buffer holds.    *)
EXTENDS RttChannel

CONSTANT MaxData     \* the longest data given to one write_all

MCData == UNION {[1 .. n -> Bytes] : n \in 1 .. MaxData}
=============================================================================
