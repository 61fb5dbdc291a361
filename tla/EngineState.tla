----------------------------- MODULE EngineState -----------------------------
(***************************************************************************)
(* The persisted fail-safe engine of the Expert Advisor: CRiskManager's    *)
(* state, its equity baselines, the GlobalVariables that carry the hot     *)
(* state (StateStore.mqh), the restore and one-shot reset of OnInit, and   *)
(* the steps of OnTimer that change them, in program order: day rollover,  *)
(* equity limits, stop-loss guard verdict.                                 *)
(*                                                                         *)
(* MQL5 runs the handlers of one EA one at a time, so a handler's memory   *)
(* effects are atomic; what is not atomic is HotStateSave, five separate   *)
(* GlobalVariableSet calls.  They are queued in "todo" and reach the       *)
(* terminal one by one (WriteNext) before the handler goes on; the process *)
(* may die between any two of them.  The terminal keeps GlobalVariables in *)
(* memory and writes them to disk when it sees fit (the code never calls   *)
(* GlobalVariablesFlush): "disk" is the copy a killed terminal comes back  *)
(* with.                                                                   *)
(***************************************************************************)
EXTENDS Integers, Sequences, FiniteSets

CONSTANTS
    Equity,          \* equity levels the account can show, in money
    DailyLossPct,    \* InpDailyLossPct, 0 disables the limit
    MaxDrawdownPct,  \* InpMaxDrawdownPct, 0 disables the limit
    Days,            \* number of distinct day keys; they recur cyclically
    MaxRestarts,     \* bound on the number of OnInit calls
    KillAllowed      \* may the terminal die without writing its variables?

ASSUME EquityAssumption == Equity \subseteq Nat \ {0} /\ Equity # {}
ASSUME PctAssumption == DailyLossPct \in 0..99 /\ MaxDrawdownPct \in 0..99
ASSUME DaysAssumption == Days \in Nat \ {0, 1}
ASSUME RestartsAssumption == MaxRestarts \in Nat
ASSUME KillAssumption == KillAllowed \in BOOLEAN

VARIABLES
    pc,         \* where the EA is: "down", between handlers ("idle"), or
                \* the next step of the OnTimer pass under way
    eng,        \* CRiskManager: m_state, m_stateReason, m_dayStartEquity,
                \* m_peakEquity
    dailyHit,   \* g_dailyHit
    lastDay,    \* g_lastDayKey
    gv,         \* the GlobalVariables, in the terminal's memory
    disk,       \* the GlobalVariables as last written to disk
    todo,       \* GlobalVariableSet calls the running handler has yet to make
    snap,       \* the values those calls write
    equity,     \* ACCOUNT_EQUITY (already fallen back to the balance)
    today,      \* CurrentDayKey of the server clock
    restarts,   \* number of OnInit calls so far
    resetPeak,  \* history: highest equity the EA saw since the explicit reset
                \* of this run, 0 when this run began without one
    pauseDay    \* history: the day on which the last daily pause began

vars == <<pc, eng, dailyHit, lastDay, gv, disk, todo, snap,
          equity, today, restarts, resetPeak, pauseDay>>
memory == <<eng, dailyHit, lastDay>>
history == <<resetPeak, pauseDay>>
world == <<equity, today>>

EngineStates == {"NORMAL", "NO_NEW_TRADES", "HALT"}
Reasons == {"NONE", "MANUAL", "MAX_DRAWDOWN", "DAILY_LOSS", "SL_GUARD"}
Level == Equity \union {0}      \* a baseline; 0 is "never set"
Day == 0 .. Days - 1

Engine == [state : EngineStates, reason : Reasons,
           dayStart : Level, peak : Level]
Hot == [state : EngineStates \union {"ABSENT"}, reason : Reasons,
        dayKey : Day, dayStart : Level, peak : Level, ack : {0, 1}]

\* A freshly constructed CRiskManager.
Blank == [state |-> "NORMAL", reason |-> "NONE", dayStart |-> 0, peak |-> 0]

\* A terminal that never ran the EA: GlobalVariableCheck(GV_KILL_STATE) fails
\* and GlobalVariableGet of an absent variable is 0.
NoHot == [state |-> "ABSENT", reason |-> "NONE", dayKey |-> 0,
          dayStart |-> 0, peak |-> 0, ack |-> 0]

\* The calls of HotStateSave, in their order.
SaveOrderNoPeak == <<"state", "reason", "dayKey", "dayStart">>       \* mutant
SaveOrder == <<"state", "reason", "dayKey", "dayStart", "peak">>

HotFields == {"state", "reason", "dayKey", "dayStart", "peak", "ack"}

\* Does the running handler still have to write the variable f?
Pending(f) == \E i \in DOMAIN todo : todo[i] = f

TypeOK ==
    /\ pc \in {"down", "idle", "clear", "limits", "guard"}
    /\ eng \in Engine
    /\ dailyHit \in BOOLEAN
    /\ lastDay \in Day
    /\ gv \in Hot
    /\ disk \in Hot
    /\ todo \in Seq(HotFields)
    /\ snap \in Hot
    /\ equity \in Equity
    /\ today \in Day
    /\ restarts \in 0..MaxRestarts
    /\ resetPeak \in Level
    /\ pauseDay \in Day

Init ==
    /\ pc = "down" /\ eng = Blank /\ dailyHit = FALSE /\ lastDay = 0
    /\ gv = NoHot /\ disk = NoHot /\ todo = <<>> /\ snap = NoHot
    /\ equity \in Equity /\ today = 0 /\ restarts = 0
    /\ resetPeak = 0 /\ pauseDay = 0

-----------------------------------------------------------------------------
(* Helpers                                                                  *)

HigherKeepsOld(a, b) == a                                            \* mutant
Higher(a, b) == IF a > b THEN a ELSE b

\* equity <= base * (1 - pct / 100), with the limit enabled
DailyBreach(e, base) ==
    DailyLossPct > 0 /\ e * 100 <= base * (100 - DailyLossPct)
DrawdownBreach(e, base) ==
    MaxDrawdownPct > 0 /\ e * 100 <= base * (100 - MaxDrawdownPct)

\* The values HotStateSave writes for the engine e; "ack" is not among them.
Values(e) == [state |-> e.state, reason |-> e.reason, dayKey |-> today,
              dayStart |-> e.dayStart, peak |-> e.peak, ack |-> gv.ack]

HotStateSave(e) == todo' = SaveOrder /\ snap' = Values(e)
NoSave == UNCHANGED <<todo, snap>>

SetStateEmptyReason(e, s, r) ==                                      \* mutant
    [e EXCEPT !.state = s, !.reason = IF s = "NORMAL" THEN "" ELSE r]
\* SetState: the reason of NORMAL is always REASON_NONE.
SetState(e, s, r) ==
    [e EXCEPT !.state = s, !.reason = IF s = "NORMAL" THEN "NONE" ELSE r]

MayPauseAnything(e) == TRUE                                          \* mutant
\* A pause is only ever laid over NORMAL: it softens no other state.
MayPause(e) == e.state = "NORMAL"

RolledOverNothing(e) == e                                            \* mutant
RolledOverEverything(e) == SetState(e, "NORMAL", "NONE")             \* mutant
\* The state part of OnNewDay: the daily-loss pause expires.
RolledOver(e) ==
    IF e.state = "NO_NEW_TRADES" /\ e.reason = "DAILY_LOSS"
    THEN SetState(e, "NORMAL", "NONE") ELSE e

\* OnTimer's gate for the pauses that are left after a rollover.
PauseMayClear(e, secured) ==
    e.state = "NO_NEW_TRADES" /\ e.reason \in {"DAILY_LOSS", "SL_GUARD"} /\ secured

KeepDailyHit == UNCHANGED dailyHit                                   \* mutant
ClearDailyHit == dailyHit' = FALSE

\* The handler under way has made all its GlobalVariableSet calls.
Ready(step) == pc = step /\ todo = <<>>

-----------------------------------------------------------------------------
(* OnInit and OnDeinit                                                      *)

\* InitAfterSpec restores the hot state, serves the explicit reset on the
\* FALSE -> TRUE edge of InpResetKillSwitch (GV_RESET_ACK remembers that it
\* was served) and adopts the result.  AdoptState keeps a stored baseline
\* that is positive, so the ones ResetDayAndPeak has just taken survive only
\* where nothing was stored.
OnInit(input) ==
    LET loaded == gv.state # "ABSENT"
        reset  == input /\ gv.ack = 0
        fresh  == [Blank EXCEPT !.dayStart = equity, !.peak = equity]
        base   == IF ~loaded \/ reset THEN fresh ELSE Blank
        stored == IF loaded /\ ~reset
                  THEN [base EXCEPT !.state = gv.state, !.reason = gv.reason]
                  ELSE base
        adopted ==
            [stored EXCEPT
                !.dayStart = IF gv.dayStart > 0 THEN gv.dayStart ELSE @,
                !.peak     = IF gv.peak > 0 THEN gv.peak ELSE @]
    IN /\ pc = "down" /\ restarts < MaxRestarts
       /\ eng' = IF loaded THEN adopted ELSE stored
       /\ dailyHit' = (stored.state = "NO_NEW_TRADES" /\
                       stored.reason = "DAILY_LOSS")
       /\ lastDay' = today
       /\ todo' = (IF loaded THEN <<>> ELSE SaveOrder) \o
                  (IF reset THEN <<"ack">> \o SaveOrder
                   ELSE IF ~input /\ gv.ack = 1 THEN <<"ack">> ELSE <<>>)
       /\ snap' = [Values(base) EXCEPT !.ack = IF input THEN 1 ELSE 0]
       /\ pc' = "idle"
       /\ restarts' = restarts + 1
       /\ resetPeak' = IF reset THEN equity ELSE 0
       /\ UNCHANGED <<gv, disk, world, pauseDay>>

\* OnDeinit, then the end of the run: the terminal keeps its variables.
OnDeinit ==
    /\ Ready("idle")
    /\ pc' = "down" /\ eng' = Blank /\ dailyHit' = FALSE /\ resetPeak' = 0
    /\ UNCHANGED <<lastDay, gv, disk, todo, snap, world, restarts, pauseDay>>

-----------------------------------------------------------------------------
(* The steps of one OnTimer pass                                            *)

\* The day rollover and CRiskManager::OnNewDay.
TimerRollover ==
    /\ Ready("idle")
    /\ IF today = lastDay
       THEN pc' = "limits" /\ NoSave /\ UNCHANGED memory
       ELSE LET rebased == [eng EXCEPT !.dayStart = equity,
                                       !.peak = Higher(@, equity)]
                rolled == RolledOver(rebased)
            IN /\ pc' = "clear"
               /\ lastDay' = today /\ ClearDailyHit
               /\ eng' = rolled
               /\ HotStateSave(rolled)
    /\ resetPeak' = IF resetPeak > 0 /\ today # lastDay
                    THEN Higher(resetPeak, equity) ELSE resetPeak
    /\ UNCHANGED <<gv, disk, world, restarts, pauseDay>>

\* The rest of the rollover branch: a pause that is still there clears when
\* every managed position is secured (AllManagedSecured, an input here).
TimerClearPause(secured) ==
    /\ Ready("clear")
    /\ pc' = "limits"
    /\ IF PauseMayClear(eng, secured)
       THEN LET cleared == SetState(eng, "NORMAL", "NONE")
            IN eng' = cleared /\ HotStateSave(cleared)
       ELSE NoSave /\ UNCHANGED eng
    /\ UNCHANGED <<dailyHit, lastDay, gv, disk, world, restarts, history>>

\* CheckLimits and the two reactions of OnTimer to it.
TimerLimits ==
    LET daily    == DailyBreach(equity, eng.dayStart)
        drawdown == DrawdownBreach(equity, eng.peak)
        raised   == [eng EXCEPT !.peak = Higher(@, equity)]
        pause    == daily /\ ~drawdown /\ ~dailyHit /\ MayPause(eng)
        after    == IF drawdown THEN SetState(raised, "HALT", "MAX_DRAWDOWN")
                    ELSE IF pause
                    THEN SetState(raised, "NO_NEW_TRADES", "DAILY_LOSS")
                    ELSE raised
    IN /\ Ready("limits")
       /\ pc' = "guard"
       /\ eng' = after
       /\ dailyHit' = (dailyHit \/ pause)
       /\ IF drawdown \/ pause \/ equity > eng.peak
          THEN HotStateSave(after)
          ELSE NoSave
       /\ resetPeak' = IF resetPeak > 0 THEN Higher(resetPeak, equity) ELSE 0
       /\ pauseDay' = IF pause THEN today ELSE pauseDay
       /\ UNCHANGED <<lastDay, gv, disk, world, restarts>>

\* The outcome of CSlGuard::Pump: an escalation halts, a close pauses a
\* NORMAL engine.  Both counters are inputs here.
TimerGuard(escalated, closed) ==
    LET halted == IF escalated THEN SetState(eng, "HALT", "SL_GUARD") ELSE eng
        after  == IF closed /\ MayPause(halted)
                  THEN SetState(halted, "NO_NEW_TRADES", "SL_GUARD")
                  ELSE halted
    IN /\ Ready("guard")
       /\ pc' = "idle"
       /\ eng' = after
       /\ IF escalated \/ after # eng THEN HotStateSave(after) ELSE NoSave
       /\ UNCHANGED <<dailyHit, lastDay, gv, disk, world, restarts, history>>

\* The 8d safety test of OnNewBar, behind its AllowsNewTrades gate.
TestTrip ==
    /\ Ready("idle") /\ eng.state = "NORMAL"
    /\ LET tripped == SetState(eng, "HALT", "MANUAL")
       IN eng' = tripped /\ HotStateSave(tripped)
    /\ UNCHANGED <<pc, dailyHit, lastDay, gv, disk, world, restarts, history>>

-----------------------------------------------------------------------------
(* The terminal and the world                                               *)

\* One GlobalVariableSet of the running handler.
WriteNext ==
    /\ todo # <<>>
    /\ gv' = [f \in HotFields |-> IF f = Head(todo) THEN snap[f] ELSE gv[f]]
    /\ todo' = Tail(todo)
    /\ UNCHANGED <<pc, memory, disk, snap, world, restarts, history>>

\* The terminal writes its variables to disk.
Flush ==
    /\ KillAllowed /\ disk # gv
    /\ disk' = gv
    /\ UNCHANGED <<pc, memory, gv, todo, snap, world, restarts, history>>

\* The terminal dies: the variables are what the disk has.
Kill ==
    /\ KillAllowed /\ pc # "down"
    /\ pc' = "down" /\ eng' = Blank /\ dailyHit' = FALSE /\ resetPeak' = 0
    /\ gv' = disk /\ todo' = <<>>
    /\ UNCHANGED <<lastDay, disk, snap, world, restarts, pauseDay>>

EquityMoves ==
    /\ equity' \in Equity \ {equity}
    /\ UNCHANGED <<pc, memory, gv, disk, todo, snap, today, restarts, history>>

\* The timer runs every second (EventSetTimer(1)): a running EA has seen one
\* day key before the next one comes.
DayPasses ==
    /\ pc = "down" \/ today = lastDay
    /\ today' = (today + 1) % Days
    /\ UNCHANGED <<pc, memory, gv, disk, todo, snap, equity, restarts, history>>

Timer ==
    \/ TimerRollover
    \/ \E secured \in BOOLEAN : TimerClearPause(secured)
    \/ TimerLimits
    \/ \E escalated, closed \in BOOLEAN : TimerGuard(escalated, closed)

Next ==
    \/ \E input \in BOOLEAN : OnInit(input)
    \/ OnDeinit
    \/ Timer \/ TestTrip \/ WriteNext
    \/ Flush \/ Kill
    \/ EquityMoves \/ DayPasses

Spec == Init /\ [][Next]_vars

\* A running EA's handlers go on (the terminal's event loop) and days pass;
\* nothing says that a stopped EA is ever started again.
Fairness == WF_vars(Timer) /\ WF_vars(WriteNext) /\ WF_vars(DayPasses)

FairSpec == Spec /\ Fairness

-----------------------------------------------------------------------------
(* Properties                                                               *)

\* The engine a reader outside the EA would call the current one: the one in
\* memory, or the one the next start will restore.
StoredState == IF gv.state = "ABSENT" THEN "NORMAL" ELSE gv.state
CurState  == IF pc = "down" THEN StoredState ELSE eng.state
CurReason == IF pc = "down"
             THEN IF gv.state = "ABSENT" THEN "NONE" ELSE gv.reason
             ELSE eng.reason

\* Between handlers the persisted state and baselines are the ones in memory,
\* so that stopping the EA there loses nothing: "a restart NEVER resets the
\* daily loss or forgets the drawdown peak" (StateStore.mqh:8).  A run that
\* began with an explicit reset is excepted: see ResetIsAWayOut.
MemoryPersisted ==
    Ready("idle") /\ resetPeak = 0 =>
        /\ gv.state = eng.state /\ gv.reason = eng.reason
        /\ gv.dayStart = eng.dayStart /\ gv.peak = eng.peak

\* The day's starting equity never lies above the peak, so the drawdown limit
\* is measured from at least the level the daily limit is measured from.
PeakCoversDay == pc # "down" => eng.peak >= eng.dayStart /\ eng.dayStart > 0

\* g_dailyHit silences the daily limit for the rest of the day; it may only do
\* so while the engine is already stopped (Mql5Bot.mq5:968).
SilencedOnlyWhenStopped == pc # "down" /\ dailyHit => eng.state # "NORMAL"

\* HALT is left by the explicit reset and by nothing else, across handlers,
\* rollovers and restarts (DECISIONS.md: "cleared ONLY by an explicit
\* one-shot reset ... never by equity recovery and never by a rollover").
HaltIsSticky ==
    [][CurState = "HALT" /\ CurState' # "HALT" =>
       OnInit(TRUE) /\ gv.ack = 0]_vars

\* A timer pass that sees equity at or below a limit leaves the engine
\* stopped, whatever pause, reset or restart came before it.
BreachStops ==
    [][TimerLimits /\ (\/ DailyBreach(equity, eng.dayStart)
                       \/ DrawdownBreach(equity, eng.peak)) =>
       eng'.state # "NORMAL"]_vars

\* A daily pause of an EA that keeps running ends.
DailyPaused == pc # "down" /\ eng.state = "NO_NEW_TRADES" /\
               eng.reason = "DAILY_LOSS"
DailyPauseEnds == DailyPaused ~> ~DailyPaused

\* What the Python seed model promises is what the EA does.
CurAck == IF Pending("ack") THEN snap.ack ELSE gv.ack
FS == INSTANCE FailSafe WITH state <- CurState, reason <- CurReason, ack <- CurAck
ImplementsFailSafe == FS!FailSafeSpec

\* Claims of the documentation that the code does not keep.

\* "the daily-loss pause expires at the server day rollover" (failsafe.py:11):
\* a pause the EA holds, having seen today's key, began today.
DailyPauseIsTodays ==
    Ready("idle") /\ DailyPaused /\ lastDay = today => pauseDay = today

\* "The only way out of ENGINE_HALT: an explicit, acknowledged reset"
\* (failsafe.py:69): after it, the drawdown limit trips on a drawdown from the
\* peak since the reset, not on the one the reset was given for.
ResetIsAWayOut ==
    [][TimerLimits /\ resetPeak > 0 /\ eng.state = "NORMAL" /\
       eng'.reason = "MAX_DRAWDOWN" => DrawdownBreach(equity, resetPeak)]_vars

\* "a restart always sees the kill-switch state" (StateStore.mqh:6): the state
\* a start restores is HALT whenever the last one that was saved is.
SavedHaltSurvives ==
    [][pc # "down" /\ pc' = "down" /\ gv.state = "HALT" =>
       gv'.state = "HALT"]_vars
=============================================================================
