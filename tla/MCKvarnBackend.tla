--------------------------- MODULE MCKvarnBackend ---------------------------
(***************************************************************************)
(* Two sides of the KVarN attention backend that share no state, checked   *)
(* by one run: who builds for which layer and what its graphs launch on    *)
(* (KvarnOwnership), and which positions a step attends to (KvarnAttend).  *)
(*                                                                         *)
(* The target model has two KV-cache groups of one shape; the drafter's    *)
(* layer d is in the first one.                                            *)
(***************************************************************************)
EXTENDS KvarnOwnership, KvarnAttend

CONSTANT h256

MCTargets == {{"a", "d"}, {"b"}}
MCDrafts  == {{"d"}}
MCShape   == [l \in {"a", "b", "d"} |-> h256]

\* The shipped settings, and each variable that changes a route.
Shipped == [fused_verify |-> TRUE, fused_decode |-> TRUE, shared |-> FALSE,
            split |-> "auto", flash |-> TRUE]
MCOptions ==
  {Shipped, [Shipped EXCEPT !.shared = TRUE], [Shipped EXCEPT !.flash = FALSE],
   [Shipped EXCEPT !.split = "on"], [Shipped EXCEPT !.fused_verify = FALSE]}

----------------------------------------------------------------------------
VARIABLE side  \* "registry" or "attend": the one that runs

MCInit ==
  /\ side \in {"registry", "attend"}
  /\ Init /\ AttendInit
  /\ side = "registry" => option = Shipped /\ causal
  /\ side = "attend" => lookup_upper_bound = 0

MCNext ==
  \/ side = "registry" /\ Next /\ UNCHANGED <<side, attend_vars>>
  \/ side = "attend" /\ AttendNext /\ UNCHANGED <<side, vars>>

MCSpec == MCInit /\ [][MCNext]_<<side, vars, attend_vars>>
=============================================================================
