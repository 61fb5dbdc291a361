------------------------------ MODULE FailSafe ------------------------------
(***************************************************************************)
(* The promise of the fail-safe state machine, as the Python seed model    *)
(* python/mql5bot/failsafe.py states it: a pair (engine state, trip        *)
(* reason), the only transitions it may ever make, and a reset that is     *)
(* served once per rising edge of its input.  Nothing here knows of        *)
(* equity, of days or of storage; EngineState, the Expert Advisor's        *)
(* implementation with its persistence and its restarts, is checked to     *)
(* refine this module.                                                     *)
(***************************************************************************)
VARIABLES
    state,      \* ENUM_ENGINE_STATE
    reason,     \* ENUM_STATE_REASON
    ack         \* reset_ack: 1 while the reset that was asked for is served

fsVars == <<state, reason, ack>>

EngineStates == {"NORMAL", "NO_NEW_TRADES", "HALT"}

\* REASON_ADOPTED (failsafe.py:38) is declared by the code and set nowhere.
Reasons == {"NONE", "MANUAL", "MAX_DRAWDOWN", "DAILY_LOSS", "SL_GUARD"}

Become(s, r) == state' = s /\ reason' = r

FailSafeInit == state = "NORMAL" /\ reason = "NONE" /\ ack = 0

\* trip_drawdown, trip_sl_guard and the manual trip: harden any state.
Trip ==
    /\ \E r \in {"MAX_DRAWDOWN", "SL_GUARD", "MANUAL"} : Become("HALT", r)
    /\ UNCHANGED ack

\* pause_daily: a daily breach pauses a NORMAL engine and softens nothing.
PauseDaily ==
    /\ state = "NORMAL" /\ Become("NO_NEW_TRADES", "DAILY_LOSS")
    /\ UNCHANGED ack

\* The guard pause of the EA (closed > 0), from NORMAL only.
PauseGuard ==
    /\ state = "NORMAL" /\ Become("NO_NEW_TRADES", "SL_GUARD")
    /\ UNCHANGED ack

\* day_rollover_transition and guard_pause_may_clear: a pause ends at a
\* boundary; HALT does not.
ClearPause ==
    /\ state = "NO_NEW_TRADES" /\ reason \in {"DAILY_LOSS", "SL_GUARD"}
    /\ Become("NORMAL", "NONE")
    /\ UNCHANGED ack

\* explicit_reset: the only way out of HALT, once per edge.
ExplicitReset == ack = 0 /\ ack' = 1 /\ Become("NORMAL", "NONE")

\* The input is withdrawn: the next edge will be served again.
Disarm == ack = 1 /\ ack' = 0 /\ UNCHANGED <<state, reason>>

FailSafeNext ==
    Trip \/ PauseDaily \/ PauseGuard \/ ClearPause \/ ExplicitReset \/ Disarm

FailSafeSpec == FailSafeInit /\ [][FailSafeNext]_fsVars
=============================================================================
