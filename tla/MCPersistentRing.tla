--------------------------- MODULE MCPersistentRing ---------------------------
(* PersistentRing on a ring of four slots, with ECC words of two bytes of  *)
(* data, a header of two words, and the feature on wherever there is ECC.   *)
EXTENDS PersistentRing

CONSTANT MaxData     \* the longest data given to one write

MCData == UNION {[1 .. n -> Bytes] : n \in 1 .. MaxData}

MCBuilds == {[ram |-> "plain", ecc |-> FALSE],
             [ram |-> "plain", ecc |-> TRUE],
             [ram |-> "ecc32", ecc |-> TRUE],
             [ram |-> "ecc64", ecc |-> TRUE]}
=============================================================================
