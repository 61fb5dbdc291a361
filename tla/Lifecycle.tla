----------------------------- MODULE Lifecycle -----------------------------
(***************************************************************************)
(* The evidence-gated strategy state machine of factory/lifecycle.py: the  *)
(* promotion ladder, the failure, recovery and retirement branches and the *)
(* verdict of check_transition on one proposed move.                       *)
(***************************************************************************)
EXTENDS Naturals, Sequences, FiniteSets

Ladder == << "DRAFT", "PARSED", "VALIDATED", "BACKTESTED", "ROBUSTNESS_PASS",
             "OOS_SURVIVOR", "SHADOW", "DEMO", "LIVE_SMALL", "LIVE" >>

\* Required[k] is the run type that PROMOTIONS asks for to leave Ladder[k].
Required == << "parse", "schema", "backtest", "robustness", "oos",
               "shadow_entry", "shadow_evidence", "demo_evidence",
               "live_small_evidence" >>

Rungs == 1..Len(Required)
OnLadder == {Ladder[k] : k \in 1..Len(Ladder)}
RankOf(s) == CHOOSE k \in 1..Len(Ladder) : Ladder[k] = s

TerminalStates == {"REJECTED", "RETIRED"}
ExecutionStates == {"SHADOW", "DEMO", "LIVE_SMALL", "LIVE"}
ObservationStates == ExecutionStates \cup {"DEGRADED", "PAUSED"}
AllStates == OnLadder \cup TerminalStates \cup {"DEGRADED", "PAUSED"}

Promotes(cur, tgt) == \E k \in Rungs : cur = Ladder[k] /\ tgt = Ladder[k + 1]

FailureMoves ==
    {<<Ladder[k], "REJECTED">> : k \in 1..6}
        \cup {<<"SHADOW", "DEGRADED">>, <<"LIVE", "DEGRADED">>,
              <<"DEMO", "PAUSED">>, <<"LIVE_SMALL", "PAUSED">>}

RecoveryMoves ==
    {<<"PAUSED", "DEMO">>, <<"PAUSED", "LIVE_SMALL">>, <<"DEGRADED", "SHADOW">>}

\* Mutant: the retirement branch is asked first, and of any state.
CheckTransitionRetiresAnything(cur, tgt, refs, actor) ==
    IF actor = "" \/ cur = tgt THEN "refused"
    ELSE IF tgt = "RETIRED" THEN "retire"
    ELSE IF cur \in TerminalStates THEN "refused"
    ELSE IF Promotes(cur, tgt) THEN IF refs # {} THEN "promote" ELSE "refused"
    ELSE IF <<cur, tgt>> \in FailureMoves THEN "fail"
    ELSE IF <<cur, tgt>> \in RecoveryMoves THEN IF refs # {} THEN "recover" ELSE "refused"
    ELSE "refused"

\* check_transition: the kind of the accepted event, or "refused".  The order
\* of the branches is the order of the code.
CheckTransition(cur, tgt, refs, actor) ==
    IF actor = "" \/ cur \in TerminalStates \/ cur = tgt THEN "refused"
    ELSE IF tgt = "RETIRED" THEN
            IF cur \in ObservationStates THEN "retire" ELSE "refused"
    ELSE IF Promotes(cur, tgt) THEN IF refs # {} THEN "promote" ELSE "refused"
    ELSE IF <<cur, tgt>> \in FailureMoves THEN "fail"
    ELSE IF <<cur, tgt>> \in RecoveryMoves THEN IF refs # {} THEN "recover" ELSE "refused"
    ELSE "refused"

RequiredEvidence(cur, tgt) == {Required[k] : k \in {j \in Rungs :
                                    cur = Ladder[j] /\ tgt = Ladder[j + 1]}}
=============================================================================
