----------------------------- MODULE PagedCache -----------------------------
(***************************************************************************)
(* What a layer may expect of its KV cache, whatever backs it: a cell (one *)
(* token position of one block) that a forward pass of the layer has       *)
(* written is what the layer's next launch reads there, until the engine   *)
(* creates a new cache.  Pools, mirrors, tiles, flushes, resizes, captured *)
(* graphs and changes of ownership do not exist at this level.             *)
(***************************************************************************)
CONSTANTS Layers, Cells

VARIABLES
  ran,      \* [Layers -> SUBSET Cells]: cells a forward pass has written
  stored    \* [Layers -> SUBSET Cells]: cells whose data the layer would read

Init ==
  /\ ran = [l \in Layers |-> {}]
  /\ stored = [l \in Layers |-> {}]

Write(l, c) ==
  /\ ran' = [ran EXCEPT ![l] = @ \cup {c}]
  /\ stored' = [stored EXCEPT ![l] = @ \cup {c}]

\* A new KV cache starts empty.
Renew ==
  /\ ran' = [l \in Layers |-> {}]
  /\ stored' = [l \in Layers |-> {}]

Next == Renew \/ \E l \in Layers, c \in Cells : Write(l, c)

Spec == Init /\ [][Next]_<<ran, stored>>
=============================================================================
