---------------------------- MODULE MCKvarnPool ----------------------------
(* Instances of KvarnPool for TLC.                                         *)
EXTENDS KvarnPool, TLC

CONSTANTS PromptLen, Turn

\* Every request continues the same conversation.
MCPrompt == [r \in Reqs |-> PromptLen]
MCStream == [r \in Reqs |-> Turn]
MCTurn   == <<"k0", "k1", "k2">>
MCKeys   == {"k0", "k1", "k2"}

Symmetry == Permutations(Blocks) \cup Permutations(Reqs)

\* Slots are interchangeable: a state is told apart by what each block holds.
Content(b) == IF dict_map[b] = NoSlot THEN <<FALSE, {}>>
              ELSE <<TRUE, poolFresh[dict_map[b]]>>
SlotView ==
  <<phase, pass, scheduler, batch, labels, needed, tileFresh,
    [b \in Blocks |-> Content(b)], SlotPartition, TypeOK>>
=============================================================================
