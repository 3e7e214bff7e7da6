---------------------------- MODULE SuffixLookup ----------------------------
(***************************************************************************)
(* mtp_suffix_lookup.py: the CPU reference of the suffix lookup drafter,   *)
(* inside the loop it is written for.  The MTP head drafts a few tokens,   *)
(* the lookup finds what followed an earlier occurrence of the history's   *)
(* last tokens, arbitrate fuses the two, and the target verifies either    *)
(* the short or the full block and appends what it accepts.                *)
(*                                                                         *)
(* Positions are counted from 1. A probability is a whole number of parts  *)
(* of One.                                                                 *)
(***************************************************************************)
EXTENDS Integers, Sequences, FiniteSetsExt, Functions

CONSTANTS
  Tokens,       \* the vocabulary, without 0
  DraftSteps, VerifySteps,            \* MTP_DRAFT_STEPS, MAX_VERIFY_STEPS
  NMin, NMax, NStrong, AgreeMin, NMinTail,
  SearchMax,    \* how far back a match may end, 0 for anywhere
  MaxHistory,   \* bound: length of a history
  DraftRow,     \* [Tokens -> Nat], the distribution the MTP head draws from
  Targets       \* distributions of the target to check against

ASSUME LookupAssumption ==
  /\ {DraftSteps, VerifySteps} \subseteq Nat /\ DraftSteps <= VerifySteps
  /\ IsFiniteSet(Tokens) /\ DraftRow \in [Tokens -> Nat] /\ Targets \subseteq [Tokens -> Nat]

VARIABLES
  history,      \* tokens accepted so far
  drafted       \* tokens of the MTP head, <<>> between two steps

lookup_vars == <<history, drafted>>

Absent == 0       \* a row without a token

-----------------------------------------------------------------------------
(* find_suffix_match.                                                      *)

\* How many tokens up to end agree with the end of the history.
MatchLength(h, end) ==
  Max({n \in 0 .. Min({NMax, end}) : \A i \in 0 .. n - 1 : h[end - i] = h[Len(h) - i]})

FirstEnd(h) ==
  Max({NMin, Len(h) - (IF SearchMax = 0 THEN Len(h) ELSE SearchMax) + 1})

\* The candidates in ascending order; 0 for none.
BestEnd(h) ==
  LET best[e \in 0 .. Len(h) - 1] ==
        IF e < FirstEnd(h) THEN 0
        ELSE LET b == best[e - 1]
                 n == MatchLength(h, e)
             IN IF n >= NMin /\ (b = 0 \/ n > MatchLength(h, b) \/ e > b) THEN e ELSE b
  IN best[Len(h) - 1]

NoProposal == [tokens |-> [i \in 1 .. VerifySteps |-> Absent], match |-> 0, valid |-> 0, end |-> 0]

FindSuffixMatch(h) ==
  IF Len(h) < NMin + 2 \/ BestEnd(h) = 0 THEN NoProposal
  ELSE LET end   == BestEnd(h)
           valid == Min({VerifySteps, Len(h) - end})
       IN [tokens |-> [i \in 1 .. VerifySteps |-> IF i <= valid THEN h[end + i] ELSE Absent],
           match |-> MatchLength(h, end), valid |-> valid, end |-> end]

-----------------------------------------------------------------------------
(* arbitrate.                                                              *)

\* The leading positions on which both drafters agree.
Agreement(d, l) ==
  Max({n \in 0 .. Min({DraftSteps, l.valid}) : \A i \in 1 .. n : d[i] = l.tokens[i]})

StrongOrConfirmed(d, l) ==
  /\ l.valid > 0
  /\ l.match >= NStrong \/ (l.match >= NMin /\ Agreement(d, l) >= AgreeMin)

FullTail(l) == l.valid >= VerifySteps

UseTail(d, l) == StrongOrConfirmed(d, l) /\ FullTail(l) /\ l.match >= NMinTail

LookupUsed(d, l) ==
  [i \in 1 .. VerifySteps |->
     IF i <= DraftSteps THEN StrongOrConfirmed(d, l) /\ i <= l.valid ELSE UseTail(d, l)]

Arbitrate(d, l) ==
  [used |-> LookupUsed(d, l),
   tokens |-> [i \in 1 .. VerifySteps |->
                 IF LookupUsed(d, l)[i] THEN l.tokens[i]
                 ELSE IF i <= DraftSteps THEN d[i] ELSE Absent],
   verify |-> IF UseTail(d, l) THEN VerifySteps ELSE DraftSteps]

-----------------------------------------------------------------------------
(* rewrite_proposal_distributions, and one step of rejection sampling.     *)

SumOver(f) == MapThenSumSet(LAMBDA x : f[x], DOMAIN f)
Product(f) ==
  MapThenFoldSet(LAMBDA a, b : a * b, 1, LAMBDA x : f[x], LAMBDA S : CHOOSE x \in S : TRUE, DOMAIN f)
One == SumOver(DraftRow)

\* A distribution of the target has as many parts as the drafter's.
ASSUME TargetAssumption == \A p \in Targets : SumOver(p) = One

PointMass(t) == [x \in Tokens |-> IF x = t THEN One ELSE 0]

\* Only the tail, which MTP has no row for, is rewritten (a mutant).
RewriteTail(a) == [i \in 1 .. VerifySteps |-> IF a.used[i] /\ i > DraftSteps THEN PointMass(a.tokens[i]) ELSE DraftRow]
RewriteRows(a) == [i \in 1 .. VerifySteps |-> IF a.used[i] THEN PointMass(a.tokens[i]) ELSE DraftRow]

\* A token drawn from drawn is kept with probability min(1, p / q), and
\* otherwise replaced by one from the residual max(p - q, 0). Whether the
\* token that results has distribution p, in whole numbers: fractions p / q
\* are over the product of the q, the residual over its sum.
Lossless(drawn, p, q) ==
  LET whole      == [x \in Tokens |-> IF q[x] = 0 THEN 1 ELSE q[x]]
      product    == Product(whole)
      kept       == [x \in Tokens |-> drawn[x] * (product \div whole[x]) * Min({p[x], whole[x]})]
      rejected   == One * product - SumOver(kept)
      residual   == [x \in Tokens |-> Max({p[x] - q[x], 0})]
      mass       == SumOver(residual)
  IN IF mass = 0 THEN \A x \in Tokens : kept[x] = p[x] * product
     ELSE \A x \in Tokens : kept[x] * mass + rejected * residual[x] = p[x] * product * mass

-----------------------------------------------------------------------------
(* The loop.                                                               *)

Proposal == FindSuffixMatch(history)
Decision == Arbitrate(drafted, Proposal)

LookupInit == \E t \in Tokens : history = <<t>> /\ drafted = <<>>

Draft ==
  /\ drafted = <<>> /\ Len(history) + VerifySteps < MaxHistory
  /\ drafted' \in [1 .. DraftSteps -> {t \in Tokens : DraftRow[t] > 0}]
  /\ UNCHANGED history

\* The target keeps a prefix of the block and adds a token of its own.
Verify ==
  /\ drafted # <<>>
  /\ \E k \in 0 .. Decision.verify, t \in Tokens :
       history' = history \o SubSeq(Decision.tokens, 1, k) \o <<t>>
  /\ drafted' = <<>>

LookupNext == Draft \/ Verify
LookupSpec == LookupInit /\ [][LookupNext]_lookup_vars

-----------------------------------------------------------------------------
(* Properties.                                                             *)

\* Whatever the drafters propose, a row of the block leaves the target's
\* distribution as it is: the rows of q say how its token was really chosen.
OutputIsTheTargets ==
  drafted # <<>> =>
    \A i \in 1 .. Decision.verify, p \in Targets :
      Lossless(IF Decision.used[i] THEN PointMass(Decision.tokens[i]) ELSE DraftRow,
               p, RewriteRows(Decision)[i])

\* mtp_suffix_lookup.py:66-70: "Find the longest recent continuation of the
\* history's terminal suffix. [...] Ties prefer the most recent candidate."
LongestMatch ==
  Proposal.end # 0 =>
    \A e \in FirstEnd(history) .. Len(history) - 1 :
      /\ MatchLength(history, e) <= Proposal.match
      /\ MatchLength(history, e) = Proposal.match => e <= Proposal.end
=============================================================================
