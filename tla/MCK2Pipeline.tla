---------------------------- MODULE MCK2Pipeline ----------------------------
(***************************************************************************)
(* The pipeline of the K2 drafter's data: transcripts are mined, the       *)
(* prompts are the input of the jobs, and the miner's memory is gone.      *)
(***************************************************************************)
EXTENDS Regeneration, SessionMining

Q(i, id)      == [type |-> "assistant", size |-> i, calls |-> << [id |-> id, name |-> "read", args |-> {<<"path", "string">>}] >>]
Say(i)        == [type |-> "assistant", size |-> i, calls |-> <<>>]
User(i)       == [type |-> "user", size |-> i, meta |-> FALSE]
Meta          == [type |-> "user", size |-> 2, meta |-> TRUE]
Other         == [type |-> "other"]
Results(cs)   == [type |-> "results", results |-> [i \in DOMAIN cs |-> [size |-> 4, call |-> cs[i]]]]

\* A turn streamed in three blocks; a context that the limit cuts within a
\* tool's turn; one too long to be used: all name their turns s1-1 and s1-4.
\* And two files with one beginning of a name, whose turns are both s1-1.
Streamed == <<User(2), Say(1), Q(1, "c1"), Other, Q(1, "c2"), Results(<<"c1", "c2">>), Meta, Say(1)>>
Longer   == <<User(5), Q(2, "d1"), Results(<<"d1">>), User(2), Say(3)>>
Huge     == <<User(8), Other, Say(1), User(13), Say(1)>>
Brief    == <<User(1), Say(1), User(1)>>
File(rest, lines) == [name |-> <<"s1", rest>>, lines |-> lines]
MCSessions ==
  {<<File("a", Streamed)>>, <<File("a", Longer), File("b", <<User(1), Say(1)>>)>>, <<File("a", Huge)>>,
   <<File("a", Brief), File("b", Brief)>>}
MCPublic == <<[id |-> 7, first |-> 0], [id |-> 8, first |-> 3], [id |-> 9, first |-> 2]>>
MCLegacy == <<[id |-> <<"s1", 1>>, finish |-> "stop", usable |-> FALSE], [id |-> <<"pub", 8>>, finish |-> "length", usable |-> FALSE]>>

MCInit == Init /\ MineInit

\* The prompts are built once; what the miner held is dropped with its process.
HandOver ==
  /\ prompts # NotBuilt
  /\ Deliver([n \in DOMAIN prompts |-> prompts[n].id])
  /\ sessions' = <<>> /\ file' = 1 /\ line' = 1 /\ msgs' = <<>> /\ tools' = NoTools
  /\ rows' = <<>> /\ prompts' = <<>>

MCNext ==
  \/ MineNext /\ UNCHANGED vars
  \/ HandOver
  \/ input # <<>> /\ Next /\ UNCHANGED mine_vars

MCSpec == MCInit /\ [][MCNext]_<<vars, mine_vars>> /\ Fairness
=============================================================================
