--------------------------- MODULE MCEngineState ---------------------------
(***************************************************************************)
(* EngineState for TLC.  Three equity levels with limits of 5% and 15%:    *)
(* from 100, 90 breaches the daily limit only, 80 breaches both, and from  *)
(* 90, 80 breaches the daily limit only.                                   *)
(***************************************************************************)
EXTENDS EngineState

MCEquity == {80, 90, 100}

\* For the runs where the state space is larger: one level above and one below
\* both limits, or below the daily limit only.
MCTwoLevels == {80, 100}
MCDailyLevels == {90, 100}
=============================================================================
