------------------------ MODULE SafetyAuthorities ------------------------
(***************************************************************************)
(* The authorities that can only take risk away (discovery/safety.py,      *)
(* governance.py, governor.py, entry_chain.py): the kill switch of a       *)
(* process, decay and ramp, the allocation governor, the circuit breaker   *)
(* over what it recommends, and the chain an entry has to pass.  Weights   *)
(* and multipliers are percents.  A caller rebalances and asks for entries; *)
(* the repository's callers are its tests.                                 *)
(***************************************************************************)
EXTENDS Integers, Sequences, FiniteSets, FiniteSetsExt, Functions, TLC

CONSTANTS GovIds, Candidates, \* strategies; what may be known of one at a rebalance
          TripSets,           \* sets of kill-switch triggers an observation may show
          GrossTarget, MaxDelta,            \* governor: target band, per-strategy change
          MaxJump, MaxDrop, MaxCandidates, Cooldown, \* breaker policy
          RiskBudget,         \* the chain's risk budget
          MaxRebalances, MaxSignals \* bounds on rebalances and on kill-switch events

ASSUME GovernorAssumption ==
    /\ GrossTarget \in 0..100 /\ MaxDelta \in Nat \ {0} /\ Cooldown \in Nat \ {0} /\ RiskBudget \in Nat
    /\ IsFiniteSet(GovIds)
    /\ \A c \in Candidates : c.score \in Int /\ IsFiniteSet(c.signals)

VARIABLES switch,   \* process -> its kill switch; a restart is a new object
          breaker,  \* the circuit breaker
          advice,   \* the governor's last answer
          applied,  \* what the breaker let through: weights and status
          entry,    \* the last entry decision, with the facts it was taken on
          rebalances, signals

authorityVars == <<switch, breaker, advice, applied, entry, rebalances, signals>>

Processes == {"console", "phone"}
Severe == {"equity below floor", "impossible position state", "total DD"}

(* Kill switch. *)
Evaluated(state, trips) ==
    IF state = "EMERGENCY_HALT" THEN state
    ELSE IF trips \cap Severe # {} THEN "EMERGENCY_HALT"
    ELSE IF trips # {} THEN "NO_NEW_TRADES"
    ELSE "NORMAL"

\* The sum of f over a finite set of its domain.
Summed(f, S) ==
    LET sum[T \in SUBSET S] ==
            IF T = {} THEN 0 ELSE LET x == CHOOSE y \in T : TRUE IN f[x] + sum[T \ {x}]
    IN  sum[S]

(* Decay and ramp: multipliers that only demote. *)
Bands == <<100, 80, 55, 25, 0>>
Penalties(c) == Summed([s \in c.signals |-> IF s \in {"expectancy", "drawdown"} THEN 2 ELSE 1], c.signals)
Decay(c) ==
    IF c.breach THEN Bands[Len(Bands)]
    ELSE IF c.trades < 10 THEN Bands[1]
    ELSE Bands[Min({Penalties(c), Len(Bands) - 1}) + 1]
\* factor, live trades needed, live drawdown allowed; the slippage bound is the same on every step
RampSteps == << <<25, 0, 4>>, <<40, 20, 4>>, <<60, 40, 5>>, <<80, 60, 6>>, <<100, 100, 8>> >>
Ramp(c, haltOn, frozen) ==
    LET qualified == {k \in DOMAIN RampSteps : c.trades >= RampSteps[k][2] /\ c.dd <= RampSteps[k][3]}
        factor == IF qualified = {} THEN 0 ELSE RampSteps[Max(qualified)][1]
    IN  IF haltOn \/ frozen THEN 0 ELSE IF c.degraded THEN factor \div 2 ELSE factor

(* Governor. *)
LiveStates == {"SHADOW", "DEMO", "LIVE_SMALL", "LIVE"}
Eligible(c) == c.state \in LiveStates /\ c.approved /\ c.gates /\ c.evidence

\* Mutant: a demotion is smoothed like any other change.
DeltaCappedSmoothly(c, w, prev) ==
    IF w > prev + MaxDelta THEN prev + MaxDelta ELSE IF w < prev - MaxDelta THEN prev - MaxDelta ELSE w

\* §79: the change is bounded, but a strategy that is not eligible is zero at once.
DeltaCapped(c, w, prev) ==
    IF ~Eligible(c) THEN 0
    ELSE IF w > prev + MaxDelta THEN prev + MaxDelta
    ELSE IF w < prev - MaxDelta THEN prev - MaxDelta
    ELSE w

GrossOf(f) == Summed(f, GovIds)
\* What each strategy is worth, the multiplier taken twice; the change is bounded afterwards.
Worth(cands, state, frozen) ==
    LET mult == [i \in GovIds |-> (Decay(cands[i]) * Ramp(cands[i], state # "NORMAL", frozen)) \div 100]
        raw == [i \in GovIds |->
                   IF Eligible(cands[i]) THEN (Max({cands[i].score, 0}) * mult[i]) \div 100 ELSE 0]
        share == [i \in GovIds |-> IF GrossOf(raw) > 0 THEN (raw[i] * GrossTarget) \div GrossOf(raw) ELSE 0]
    IN  [i \in GovIds |-> Min({(share[i] * mult[i]) \div 100, GrossTarget})]

Recommend(cands, state, frozen, prev) ==
    LET worth == Worth(cands, state, frozen)
    IN  IF state # "NORMAL" THEN [status |-> "KILL_SWITCH", weights |-> <<>>, gross |-> 0]
        ELSE [status |-> "OK", gross |-> GrossOf(worth),
              weights |-> [i \in GovIds |-> DeltaCapped(cands[i], worth[i], prev[i])]]

(* Circuit breaker. *)
Held(w, i) == IF i \in DOMAIN w THEN w[i] ELSE 0
Magnitude(x) == Max({x, -x})
Anomalous(w, gross, prevGross, explosion) ==
    \/ Magnitude(gross - prevGross) > MaxJump
    \/ explosion > MaxCandidates
    \/ DOMAIN breaker.lastSafe # {} /\ Cardinality(DOMAIN breaker.lastSafe) - Cardinality(DOMAIN w) >= MaxDrop
    \/ \E i \in DOMAIN w : Magnitude(w[i] - Held(breaker.lastSafe, i)) > 75

Reviewed(w, gross, prevGross, explosion) ==
    IF breaker.cooldown > 0 THEN [breaker EXCEPT !.cooldown = @ - 1]
    ELSE IF Anomalous(w, gross, prevGross, explosion)
    THEN [breaker EXCEPT !.frozen = TRUE, !.cooldown = Cooldown]
    ELSE [frozen |-> FALSE, cooldown |-> 0, lastSafe |-> w]

(* The entry chain: the layers in order, the first veto owns the refusal. *)
Chain(e) ==
    << <<"origin-authority", e.origin = "strategy">>, <<"market-data", e.data>>,
       <<"lifecycle", Eligible(e.facts)>>, <<"regime", e.regime>>, <<"meta", e.weight > 0>>,
       <<"portfolio", e.portfolio>>, <<"risk", e.risk > 0>>,
       <<"circuit-breaker", ~e.frozen>>, <<"kill-switch", e.state = "NORMAL">> >>
VetoOwner(e) ==
    LET veto == {k \in DOMAIN Chain(e) : ~Chain(e)[k][2]}
    IN  IF veto = {} THEN "none" ELSE Chain(e)[Min(veto)][1]
ApprovedRisk(e) == Min({100 * e.risk, e.weight * RiskBudget})
GovernEntry(e) == [asked |-> e, allowed |-> VetoOwner(e) = "none", owner |-> VetoOwner(e),
                   risk |-> IF VetoOwner(e) \in {"none", "circuit-breaker", "kill-switch"}
                            THEN ApprovedRisk(e) ELSE 0]

NoEntry == [allowed |-> FALSE, owner |-> "never asked"]
AuthorityInit ==
    /\ switch = [p \in Processes |-> "NORMAL"]
    /\ breaker = [frozen |-> FALSE, cooldown |-> 0, lastSafe |-> <<>>]
    /\ advice = [status |-> "never", weights |-> <<>>, gross |-> 0]
    /\ applied = [weights |-> <<>>, status |-> "never"]
    /\ entry = NoEntry /\ rebalances = 0 /\ signals = 0

Forget == entry' = NoEntry \* a decision belongs to the moment it was taken
SetSwitch(p, s) == switch' = [switch EXCEPT ![p] = s]
Signalled == signals < MaxSignals /\ signals' = signals + 1

Evaluate(p, trips) ==
    /\ Signalled /\ SetSwitch(p, Evaluated(switch[p], trips)) /\ Forget
    /\ UNCHANGED <<breaker, advice, applied, rebalances>>

\* POST /safety/killswitch/reset: actor and reason are required; the console's own switch.
KillswitchReset ==
    /\ Signalled /\ SetSwitch("console", "NORMAL") /\ Forget
    /\ UNCHANGED <<breaker, advice, applied, rebalances>>

\* Nothing is persisted: create_app and telegram_ops.main each build a new switch.
RestartProcess(p) ==
    /\ Signalled /\ SetSwitch(p, "NORMAL") /\ Forget
    /\ breaker' = IF p = "console" THEN [frozen |-> FALSE, cooldown |-> 0, lastSafe |-> <<>>] ELSE breaker
    /\ UNCHANGED <<advice, applied, rebalances>>

BreakerReset ==
    /\ Signalled /\ breaker.frozen /\ Forget
    /\ breaker' = [breaker EXCEPT !.frozen = FALSE, !.cooldown = 0]
    /\ UNCHANGED <<switch, advice, applied, rebalances>>

\* A caller asks the governor and hands the answer to the breaker.
Rebalance ==
    /\ rebalances < MaxRebalances
    /\ \E cands \in [GovIds -> Candidates], explosion \in {0, MaxCandidates + 1} :
          LET answer == Recommend(cands, switch["console"], breaker.frozen,
                                  [i \in GovIds |-> Held(breaker.lastSafe, i)])
              after == Reviewed(answer.weights, answer.gross, advice.gross, explosion)
          IN  /\ advice' = [status |-> answer.status, weights |-> answer.weights, gross |-> answer.gross,
                            facts |-> cands]
              /\ breaker' = after
              /\ applied' = [status |-> IF after.frozen \/ breaker.cooldown > 0
                                        THEN "FROZEN_KEEP_LAST_SAFE" ELSE "APPLIED",
                             weights |-> IF after.frozen \/ breaker.cooldown > 0
                                         THEN breaker.lastSafe ELSE answer.weights]
    /\ rebalances' = rebalances + 1 /\ Forget
    /\ UNCHANGED <<switch, signals>>

\* An entry is asked for on the weight in force and on what the authorities say at that moment.
AskEntry ==
    /\ applied.status # "never"
    /\ \E i \in GovIds, c \in Candidates, missing \in {"none", "origin", "data", "regime", "portfolio", "risk"} :
          entry' = GovernEntry([origin |-> IF missing = "origin" THEN "llm" ELSE "strategy",
                                data |-> missing # "data", facts |-> c, regime |-> missing # "regime",
                                weight |-> Held(applied.weights, i), portfolio |-> missing # "portfolio",
                                risk |-> IF missing = "risk" THEN 0 ELSE 5,
                                frozen |-> breaker.frozen, state |-> switch["console"]])
    /\ UNCHANGED <<switch, breaker, advice, applied, rebalances, signals>>

AuthorityNext ==
    \/ \E t \in TripSets : Evaluate("console", t)
    \/ KillswitchReset \/ BreakerReset \/ Rebalance \/ AskEntry
    \/ RestartProcess("console")

-----------------------------------------------------------------------------
(* What must hold. *)

\* entry_chain.py, governor.py, safety.py: under a halt, a frozen breaker or without eligibility no
\* entry is allowed although the breaker still hands out the last safe weights.
EntryNeedsEveryAuthority ==
    entry.allowed =>
        /\ entry.asked.state = "NORMAL" /\ ~entry.asked.frozen
        /\ Eligible(entry.asked.facts) /\ entry.asked.origin = "strategy"

\* entry_chain.govern_entry: what is allowed never exceeds the weight's share of the risk budget.
RiskWithinShare == entry.allowed => entry.risk <= entry.asked.weight * RiskBudget

\* AllocationGovernor.recommend: a strategy that failed a gate since the last rebalance is zero in
\* the next answer; the change limit never smooths it back.
DemotedIsZero ==
    \A i \in DOMAIN advice.weights : ~Eligible(advice.facts[i]) => advice.weights[i] = 0

\* AllocationCircuitBreaker.review: while it cools down, and after an anomaly, what is in force is
\* the last proposal that passed, and it thaws only by passing one or by a reset.
FrozenKeepsLastSafe ==
    [][breaker.frozen /\ rebalances' # rebalances /\ breaker.cooldown > 0 =>
          applied'.weights = breaker.lastSafe /\ breaker'.frozen]_authorityVars

\* KillSwitch.evaluate: in a running process EMERGENCY_HALT ends by an explicit reset only, in
\* whatever order evaluations, stops from the phone and rebalances arrive.
HaltNeedsReset ==
    [][\A p \in Processes : switch[p] = "EMERGENCY_HALT" /\ switch'[p] # "EMERGENCY_HALT" =>
          KillswitchReset \/ RestartProcess(p)]_authorityVars

\* The governor, the breaker, the kill switch and the entry chain between them (governor.py,
\* safety.py, entry_chain.py): no entry without every authority, a demoted strategy at zero, frozen
\* weights the last safe ones, a halt that ends by a reset only.
AuthoritySound ==
    /\ [](EntryNeedsEveryAuthority /\ RiskWithinShare /\ DemotedIsZero)
    /\ FrozenKeepsLastSafe /\ HaltNeedsReset
=============================================================================
