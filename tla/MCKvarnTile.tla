---------------------------- MODULE MCKvarnTile ----------------------------
EXTENDS KvarnTile, TLC
CONSTANTS l1, l2, b1, b2, b3, s1, s2, s3

MCPresets ==
  [k4v2_g4 |-> [key_bits |-> 4, value_bits |-> 2, group |-> 4],
   k4v4_g4 |-> [key_bits |-> 4, value_bits |-> 4, group |-> 4],
   k4v2_g6 |-> [key_bits |-> 4, value_bits |-> 2, group |-> 6]]
MCLayers == <<l1, l2>>
\* Best at once, late, twice over, and never again.
MCImbalance ==
  [x \in (1 .. MaxStamp) \X {"K", "V"} |->
     IF x[2] = "K" THEN (IF x[1] = 1 THEN <<5, 3, 3>> ELSE <<4, 6, 5>>)
     ELSE (IF x[1] = 1 THEN <<5, 2, 4>> ELSE <<3, 2, 1>>)]
Same == Permutations({s1, s2, s3}) \cup Permutations({b1, b2, b3})
=============================================================================
