----------------------------- MODULE PlicSelect -----------------------------
(***************************************************************************)
(* The loop of selectClaimableSource (plic/gateway.ts), one iteration per  *)
(* step.  The caller holds the gateway lock, so the pending and enable     *)
(* bits, the priorities and the threshold stay as they are while it runs:  *)
(* they are chosen once, arbitrarily.                                      *)
(***************************************************************************)
EXTENDS Integers

CONSTANTS PLIC_MAX_SOURCE,  \* 31 in plic/layout.ts
          Priorities        \* values of a priority or threshold word

ASSUME SelectAssumption ==
  /\ PLIC_MAX_SOURCE \in Nat \ {0}
  /\ Priorities \subseteq Nat

Sources == 1 .. PLIC_MAX_SOURCE

VARIABLES candidates,    \* sources both pending and enabled in the context
          priority, threshold,
          source,        \* the loop counter
          bestSource, bestPriority

inputs == <<candidates, priority, threshold>>
vars   == <<inputs, source, bestSource, bestPriority>>
-----------------------------------------------------------------------------
Init ==
  /\ candidates \in SUBSET Sources
  /\ priority \in [Sources -> Priorities]
  /\ threshold \in Priorities
  /\ source = 1
  /\ bestSource = 0
  /\ bestPriority = 0

\* The tests of the loop body that continue with the next source.
Skipped(s) == s \notin candidates \/ priority[s] <= threshold

\* Mutated form of Beats: a later source wins a tie.
BeatsOnTie(s) == bestSource = 0 \/ priority[s] >= bestPriority

\* The test under which the current source replaces the best so far.
Beats(s) ==
  \/ bestSource = 0
  \/ priority[s] > bestPriority
  \/ priority[s] = bestPriority /\ s < bestSource

Take(s) ==
  /\ ~Skipped(s) /\ Beats(s)
  /\ bestSource' = s
  /\ bestPriority' = priority[s]

Pass(s) ==
  /\ Skipped(s) \/ ~Beats(s)
  /\ UNCHANGED <<bestSource, bestPriority>>

Iterate ==
  /\ source <= PLIC_MAX_SOURCE
  /\ Take(source) \/ Pass(source)
  /\ source' = source + 1
  /\ UNCHANGED inputs

Next == Iterate

Spec == Init /\ [][Next]_vars
-----------------------------------------------------------------------------
Returned == source > PLIC_MAX_SOURCE

\* What the loop has looked at and may return.
Eligible(limit) == {s \in candidates : s < limit /\ priority[s] > threshold}

\* s wins among E: highest priority, ties to the lowest id.
IsBest(s, E) ==
  /\ s \in E
  /\ \A r \in E : \/ priority[r] < priority[s]
                  \/ priority[r] = priority[s] /\ s <= r

\* The variables keep their types (locals of selectClaimableSource).
TypeOK ==
  /\ candidates \subseteq Sources
  /\ priority \in [Sources -> Priorities]
  /\ threshold \in Priorities
  /\ source \in 1 .. PLIC_MAX_SOURCE + 1
  /\ bestSource \in {0} \cup Sources
  /\ bestPriority \in {0} \cup Priorities

\* The function returns 0 exactly when nothing is claimable, and otherwise the
\* claimable source of highest priority, ties to the lowest id ("Tie-break:
\* lowest source id wins", gateway.ts:122).
SelectsBest ==
  Returned =>
    IF bestSource = 0 THEN Eligible(source) = {} ELSE IsBest(bestSource, Eligible(source))

\* The inductive form: the same of the sources already looked at.
BestSoFar ==
  /\ bestSource = 0 => bestPriority = 0 /\ Eligible(source) = {}
  /\ bestSource # 0 => /\ IsBest(bestSource, Eligible(source))
                       /\ bestPriority = priority[bestSource]
=============================================================================
