----------------------------- MODULE MCLabTools -----------------------------
(***************************************************************************)
(* The small programs of the laboratory, checked by one run.  A behaviour  *)
(* is one of KvarnSizing (alone, or with the budget of KvarnMemory),       *)
(* Exl3Load, DraftVocab, SuffixLookup or ContainerHealth, and leaves the   *)
(* variables of the others alone; only the first two share anything.       *)
(***************************************************************************)
EXTENDS KvarnMemory, ContainerHealth, SuffixLookup, DraftVocab, Exl3Load

VARIABLE program      \* the one that runs

\* Slots, enough for any budget of KvarnBudget.
MCBudgets == 0 .. 150

\* A sharded checkpoint, a second copy in one file, a third in bins; two
\* models: a hybrid one with a drafter, and one with sliding windows.
Shards == {"model-1", "model-2"}
MCHolds == [f \in Shards \cup {"model", "consolidated", "bin-1", "bin-2"} |->
              CASE f \in {"model-1", "bin-1"} -> {1, 2} [] f \in {"model-2", "bin-2"} -> {3} [] OTHER -> 1 .. 3]
MCSafetensors == Shards \cup {"model", "consolidated"}
MCBins    == {"bin-1", "bin-2"}
MCIndex   == [f \in {"safetensors.index", "bin.index"} |-> IF f = "bin.index" THEN MCBins ELSE Shards]
MCIndexOf == <<"safetensors.index", "bin.index">>
MCSingles == <<"model", "consolidated">>
MCModels  == {[full |-> 2, sliding |-> 0, linear |-> 3, draft |-> 1],
              [full |-> 1, sliding |-> 1, linear |-> 0, draft |-> 0]}

Y(kind, leaf, sizes, widths, markers, given) ==
  [kind |-> kind, leaf |-> leaf, sizes |-> sizes, widths |-> widths, markers |-> markers, given |-> given]
MCModel ==
  [qkv     |-> Y("linear", "qkv_proj", <<2, 1, 1>>, <<48, 56, 48>>, {}, TRUE),
   gate_up |-> Y("linear", "gate_up_proj", <<1, 1>>, <<48, 56>>, {"mul1"}, TRUE),
   qkvz    |-> Y("linear", "in_proj_qkvz", <<3, 1>>, <<56, 40>>, {"mcg"}, TRUE),
   down    |-> Y("linear", "down_proj", <<2>>, <<64>>, {"mcg"}, TRUE),
   head    |-> Y("head", "lm_head", <<2>>, <<96>>, {"mul1"}, FALSE),
   embed   |-> Y("embed", "embed_tokens", <<2>>, <<0>>, {}, FALSE)]

MCDraftRow == <<1, 2>>
MCTargets  == {<<0, 3>>, <<1, 2>>, <<2, 1>>, <<3, 0>>}

U(size, counted, heldout) == [size |-> size, tokens |-> counted, held |-> heldout]
F(top, units) == [top |-> top, generated |-> FALSE, units |-> units]
Trees ==
  [cap |-> 5, dir_cap |-> 3, docs |-> FALSE,
   files |-> <<F("a", <<U(2, {2}, FALSE)>>), [top |-> "a", generated |-> TRUE, units |-> <<U(2, {7}, FALSE)>>],
               F("a", <<U(2, {3}, FALSE)>>), F("a", <<U(1, {4}, FALSE)>>), F("b", <<U(2, {5}, TRUE)>>)>>]
Dumps ==
  [cap |-> 4, dir_cap |-> 0, docs |-> TRUE,
   files |-> <<F("a", <<U(3, {3, 6}, FALSE), U(2, {2}, FALSE), U(2, {7}, FALSE)>>)>>]
MCSources == <<Trees, Dumps>>
MCTensors == <<<<"token_embd", 5>>, <<"head", 27>>, <<"norm", 2>>>>

\* As in the modules, whose tuples TLC does not expand in UNCHANGED.
sizing_vars == <<max_slots, batch, max_seqs, pool_size, seqs, tokens, demand>>

\* A program that does not run rests in one state.
Unless(p, init, rest) == IF program = p THEN init ELSE rest

MCInit ==
  /\ program \in {"sizing", "budget", "load", "vocab", "lookup", "health"}
  /\ Unless("budget", MemoryInit,
       /\ repo = Shards /\ snapshot = {} /\ util = 60 /\ degree = 1 /\ quant_sliding = FALSE
       /\ layers \in {m \in Models : m.draft = 0}
       /\ max_slots \in IF program = "sizing" THEN {8, 19, 40, 70} ELSE {8}
       /\ Init)
  /\ program \in {"sizing", "budget"} \/ (batch = 8 /\ max_seqs = 1)
  /\ Unless("load", LoadInit,
       /\ layer = "embed" /\ forms = <<"dense">> /\ lost = {} /\ manifest = FALSE /\ load_stage = "start"
       /\ patched = FALSE /\ method = "none" /\ pending = {} /\ shards = <<>> /\ loaded = <<>>)
  /\ VocabInit
  /\ Unless("lookup", LookupInit, history = <<1>> /\ drafted = <<>>)
  /\ HealthInit /\ (program = "health" \/ state = "created")

MCNext ==
  \/ /\ program = "sizing" /\ Next
     /\ UNCHANGED <<program, budget_vars, load_vars, vocab_vars, lookup_vars, health_vars>>
  \/ /\ program = "load" /\ LoadNext
     /\ UNCHANGED <<program, sizing_vars, budget_vars, vocab_vars, lookup_vars, health_vars>>
  \/ /\ program = "vocab" /\ VocabNext
     /\ UNCHANGED <<program, sizing_vars, budget_vars, load_vars, lookup_vars, health_vars>>
  \/ /\ program = "lookup" /\ LookupNext
     /\ UNCHANGED <<program, sizing_vars, budget_vars, load_vars, vocab_vars, health_vars>>
  \/ /\ program = "health" /\ HealthNext
     /\ UNCHANGED <<program, sizing_vars, budget_vars, load_vars, vocab_vars, lookup_vars>>

MCSpec ==
  /\ MCInit
  /\ [][MCNext]_<<program, sizing_vars, budget_vars, load_vars, vocab_vars, lookup_vars, health_vars>>
  /\ program = "health" => HealthFairness

=============================================================================
