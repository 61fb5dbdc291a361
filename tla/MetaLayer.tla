----------------------------- MODULE MetaLayer -----------------------------
(***************************************************************************)
(* The meta layer (meta_layer.py): eligibility before any score, five      *)
(* factors, the budget, the modes and the change limit, the attribution    *)
(* book, the activation ladder and the state that survives a restart.      *)
(* Weights are counted in parts of ONE, factor values in the parts each    *)
(* factor names; strategy ids are integers so that "<" is the id order.    *)
(***************************************************************************)
EXTENDS Integers, FiniteSets, FiniteSetsExt, Functions, Sequences, TLC

CONSTANTS MetaIds,      \* strategy ids
          ONE,          \* parts of weight 1.0
          Views,        \* what a decision may be told: id -> view of the strategy
          CorrViews,    \* correlation snapshots: pair -> {percent}, {} when too short
          MetaConfigs,  \* configurations the layer may be built with
          SymbolOf,     \* id -> symbol
          Redistributions, \* passes of the cap redistribution (100 in the code)
          MaxDecisions, MaxRestores \* bounds on decisions, on activation moves and restarts

ASSUME MetaAssumption ==
    MetaIds \subseteq Nat /\ IsFiniteSet(MetaIds) /\ ONE \in Nat \ {0} /\ Redistributions \in Nat

\* MetaConfig.__post_init__ refuses a cap, an exposure or a change outside (0, 1]; statistics and
\* correlations are finite numbers, a correlation is one number or missing.
ASSUME MetaInputs ==
    /\ \A cfg \in MetaConfigs : cfg.cap \in 1..ONE /\ cfg.gross \in 1..ONE /\ cfg.change \in 1..ONE
    /\ \A view \in Views : /\ DOMAIN view = MetaIds
                           /\ \A i \in MetaIds : view[i].trades \in Nat /\ view[i].mean \in Int
    /\ \A corr \in CorrViews : \A p \in DOMAIN corr : corr[p] = {} \/ \E c \in -100..100 : corr[p] = {c}

VARIABLES config,       \* MetaConfig of the running layer
          layer,        \* the layer: activation, weights and zeroed of the last decision
          decision,     \* the last decision, NoDecision before it
          stateFile,    \* the persisted MetaState: no file, a broken one or a state
          past,         \* history: every decision computed, and which one its state was of
          decided, restores

metaVars == <<config, layer, decision, stateFile, past, decided, restores>>

Activations == <<"DISABLED", "SHADOW", "DEMO", "LIVE_SMALL", "ACTIVE">>
Rung(a) == CHOOSE i \in DOMAIN Activations : Activations[i] = a
CanTransitionTo(a, b) == a # b /\ Rung(b) \in Rung(a) - 1 .. Rung(a) + 1

(* Eligibility: the first hard block, in the code's order. *)
GateWeight == [c \in {"VERIFIED", "EMPIRICAL_VALIDATION_PENDING", "SOFTWARE_PASS"} |->
                 IF c = "VERIFIED" THEN 2 ELSE 1]
DriftMild == 10
DriftBlock == 50

Blocks(v, today) ==
    << <<v.kill, "KILL_SWITCH">>, <<~v.enabled, "DISABLED">>,
       <<v.signal \notin {-1, 0, 1}, "CONFIG_INVALID">>,
       <<v.drift \ 0..100 # {}, "CONFIG_INVALID">>,
       <<v.cert = "none", "UNCERTIFIED">>,
       <<v.cert \in {"FAILED", "NOT_ELIGIBLE"}, "CERT_FAILED">>,
       <<v.cert \notin DOMAIN GateWeight, "UNCERTIFIED">>,
       <<v.regime = "forbidden", "REGIME_FORBIDDEN">>,
       <<v.regime = "unknown", "REGIME_UNKNOWN">>,
       <<today < v.cooldownUntil, "COOLDOWN">>, <<v.stale, "STALE_DATA">>,
       <<\E d \in v.drift : d >= DriftBlock, "DRIFT_BLOCK">> >>

\* The order matters beyond the reason: a later block may read what an earlier one rules out.
Reason(v, today) ==
    LET hit(k) == Blocks(v, today)[k][1]
        first == {k \in 1..12 : /\ \A j \in 1..(k - 1) : ~hit(j)
                                /\ hit(k)}
    IN  IF first = {} THEN "ELIGIBLE" ELSE Blocks(v, today)[CHOOSE k \in first : TRUE][2]

(* Factors: gate in halves, performance and drift in percent, penalty in tenths. *)
Clip(x, lo, hi) == Min({Max({x, lo}), hi})

\* Per-trade expectancy in per mille, winsorized at 20, shrunk towards 0 by 20 trades.
Performance(v) ==
    IF v.trades = 0 THEN 50
    ELSE Clip((500 + (5 * v.trades * Clip(v.mean, -20, 20)) \div (v.trades + 20)) \div 10, 10, 100)

Drift(v) ==
    LET d == CHOOSE x \in v.drift : TRUE
    IN  IF v.drift = {} THEN 50
        ELSE IF d < DriftMild THEN 100
        ELSE 100 - ((d - DriftMild) * 50) \div (DriftBlock - DriftMild)

\* A correlation view has no pairs (no return streams) or each pair's percent, {} if too short.
ValidPair(corr, ids, a, b) == a # b /\ b \in ids /\ {a, b} \in DOMAIN corr /\ corr[{a, b}] # {}
CorrDown(corr, ids) ==
    /\ DOMAIN corr # {} /\ Cardinality(ids) >= 2
    /\ \A a, b \in ids : ~ValidPair(corr, ids, a, b)

\* The sum of f over a finite set of its domain.
Sums(f, S) ==
    LET sum[T \in SUBSET S] ==
            IF T = {} THEN 0 ELSE LET x == CHOOSE y \in T : TRUE IN f[x] + sum[T \ {x}]
    IN  sum
Total(f, S) == Sums(f, S)[S]

\* Each id's penalty is one pass over the others, weighted by the previous weights.
Penalty(corr, ids, prev, a) ==
    LET held == {i \in ids : i \in DOMAIN prev}
        mass == Total(prev, held)
        prior(i) == IF held = ids /\ mass > 0 THEN <<prev[i], mass>> ELSE <<1, Cardinality(ids)>>
        others == {b \in ids : ValidPair(corr, ids, a, b)}
        drop(b) == (prior(b)[1] * Max(corr[{a, b}] \cup {0})) \div (10 * prior(b)[2])
    IN  Max({10 - Total([b \in others |-> drop(b)], others), 1})

RawScore(cfg, view, corr, ids, prev, i) ==
    IF cfg.policy = "equal_weight" THEN 1
    ELSE GateWeight[view[i].cert] * Performance(view[i]) * Penalty(corr, ids, prev, i) * Drift(view[i])

\* The first source that is down for every eligible strategy; only META falls back on it.
GlobalFailure(view, corr, ids) ==
    IF CorrDown(corr, ids) THEN "correlation"
    ELSE IF \A i \in ids : view[i].trades = 0 THEN "performance"
    ELSE IF \A i \in ids : view[i].drift = {} THEN "drift"
    ELSE "none"

Shares(cfg, view, corr, ids, prev) ==
    IF cfg.policy = "meta" /\ GlobalFailure(view, corr, ids) # "none"
    THEN [i \in ids |-> ONE \div Cardinality(ids)]
    ELSE LET raw == [i \in ids |-> RawScore(cfg, view, corr, ids, prev, i)]
         IN  [i \in ids |-> (ONE * raw[i]) \div Total(raw, ids)]

(* The budget: caps, redistribution into the uncapped, gross, max_positions. *)
\* One pass of the redistribution.  The mass is what the capped ones lost to the cap, every time.
Redistribute(pre, cap, s) ==
    LET open == DOMAIN pre \ s.capped
        mass == Total([i \in s.capped |-> pre[i] - s.assigned[i]], s.capped)
        base == Total(pre, open)
        add(i) == IF base > 0 THEN (mass * pre[i]) \div base ELSE mass \div Cardinality(open)
        take(i) == Max({Min({add(i), cap - s.assigned[i]}), 0})
        assigned == [i \in DOMAIN pre |-> IF i \in open THEN s.assigned[i] + take(i) ELSE s.assigned[i]]
    IN  IF s.capped = {} \/ open = {} THEN [s EXCEPT !.moving = FALSE]
        ELSE [assigned |-> assigned,
              capped |-> s.capped \cup {i \in open : assigned[i] >= cap},
              moving |-> \E i \in open : take(i) > 0]

CutOff(pre, cap) == [i \in DOMAIN pre |-> Min({pre[i], cap})]
Passes(pre, cap) ==
    LET clipped == CutOff(pre, cap)
        pass[n \in 0..Redistributions] ==
            IF n = 0 THEN [assigned |-> clipped, moving |-> TRUE,
                           capped |-> {i \in DOMAIN pre : clipped[i] < pre[i]}]
            ELSE LET before == pass[n - 1]
                 IN  IF before.moving THEN Redistribute(pre, cap, before) ELSE before
    IN  pass
Capped(pre, cap) ==
    IF CutOff(pre, cap) = pre THEN pre ELSE Passes(pre, cap)[Redistributions].assigned

Zero(reason) == [weight |-> 0, zero |-> reason]

\* ids ranked by weight, ties by id.
Before(w, a, b) == w[a] > w[b] \/ (w[a] = w[b] /\ a < b)

ApplyBudget(cfg, pre) ==
    LET assigned == Capped(pre, cfg.cap)
        w == [i \in DOMAIN pre |-> (assigned[i] * cfg.gross) \div ONE]
        rank(i) == Cardinality({j \in DOMAIN pre : w[j] > 0 /\ Before(w, j, i)})
    IN  [i \in DOMAIN pre |-> IF w[i] > 0 /\ \E n \in cfg.positions : rank(i) >= n
                              THEN Zero("MAX_POSITIONS") ELSE [weight |-> w[i], zero |-> "none"]]

(* The modes, then the change limit; a zero with a reason is immediate. *)
BestOfRegime(cfg, w, raw) ==
    LET best == CHOOSE i \in DOMAIN raw : \A j \in DOMAIN raw \ {i} : Before(raw, i, j)
    IN  [i \in DOMAIN w |-> IF i = best THEN [weight |-> (cfg.cap * cfg.gross) \div ONE, zero |-> "none"]
                            ELSE Zero("BEST_OF_REGIME_LOSER")]

Limited(cfg, prev, i, w) ==
    IF w.weight = 0 /\ w.zero # "none" THEN w
    ELSE IF i \in DOMAIN prev /\ cfg.change < ONE
    THEN [w EXCEPT !.weight = Clip(w.weight, Max({prev[i] - cfg.change, 0}),
                                   Min({prev[i] + cfg.change, ONE}))]
    ELSE w

\* Mutant: the change limit comes before the mode.
ApplyModesLimitFirst(cfg, w, raw, prev) ==
    LET limited == [i \in DOMAIN w |-> Limited(cfg, prev, i, w[i])]
    IN  IF cfg.mode = "best_of_regime" /\ DOMAIN raw # {} THEN BestOfRegime(cfg, limited, raw) ELSE limited

ApplyModes(cfg, w, raw, prev) ==
    LET chosen == IF cfg.mode = "best_of_regime" /\ DOMAIN raw # {} THEN BestOfRegime(cfg, w, raw) ELSE w
    IN  [i \in DOMAIN w |-> Limited(cfg, prev, i, chosen[i])]

(* The book: legs per strategy, the net and, in VOTE, the vote of a symbol. *)
Legs(w, view) == {i \in DOMAIN w : w[i].weight > 0 /\ view[i].signal # 0}
Mass(w, view, s, d) ==
    LET side == {i \in Legs(w, view) : SymbolOf[i] = s /\ view[i].signal = d}
    IN  Total([i \in side |-> w[i].weight], side)
Vote(cfg, w, view, s) ==
    LET up == Mass(w, view, s, 1)
        down == Mass(w, view, s, -1)
        agree == Max({up, down})
    IN  IF cfg.mode = "vote" /\ up # down /\ 100 * agree >= cfg.threshold * (up + down)
        THEN (IF up > down THEN 1 ELSE -1) ELSE 0
BuildBook(cfg, w, view) ==
    LET symbols == {SymbolOf[i] : i \in MetaIds}
    IN  [legs |-> Legs(w, view),
         net |-> [s \in symbols |-> Mass(w, view, s, 1) - Mass(w, view, s, -1)],
         vote |-> [s \in symbols |-> Vote(cfg, w, view, s)]]

\* What MetaLayer.decide returns; decided inputs are kept for the properties.
Decided(cfg, activation, prev, view, corr, today) ==
    LET ids == {i \in DOMAIN view : Reason(view[i], today) = "ELIGIBLE"}
        pre == Shares(cfg, view, corr, ids, prev)
        scored == ~(cfg.policy = "meta" /\ GlobalFailure(view, corr, ids) # "none")
        raw == [i \in (IF scored THEN ids ELSE {}) |-> RawScore(cfg, view, corr, ids, prev, i)]
        chosen == IF ids = {} THEN <<>> ELSE ApplyModes(cfg, ApplyBudget(cfg, pre), raw, prev)
        w == [i \in DOMAIN view |-> IF i \in ids THEN chosen[i] ELSE Zero(Reason(view[i], today))]
    IN  [kind |-> IF ids = {} THEN "none_eligible" ELSE IF scored THEN "scored" ELSE "equal_weight",
         activation |-> activation, day |-> today, weights |-> w, pre |-> IF ids = {} THEN <<>> ELSE pre,
         eligible |-> ids, prev |-> prev, book |-> BuildBook(cfg, w, view)]

NoDecision == [kind |-> "never"]
\* safe_decision's answer to any failure: no weights, no book.
FailureSafe(activation, today) ==
    [kind |-> "failure_safe", activation |-> activation, day |-> today, weights |-> <<>>, pre |-> <<>>,
     eligible |-> {}, prev |-> <<>>, book |-> [legs |-> {}, net |-> <<>>, vote |-> <<>>]]

\* "after" is history: the decision the state was left by, 0 for none.
FreshLayer(activation) ==
    [up |-> TRUE, activation |-> activation, weights |-> <<>>, recorded |-> "none", after |-> 0]

MetaInit ==
    /\ config \in MetaConfigs
    /\ layer = FreshLayer("DISABLED")
    /\ decision = NoDecision /\ stateFile = [kind |-> "none"] /\ past = <<>>
    /\ decided = 0 /\ restores = 0

\* decide() and _advance_state: the state takes the weights and the activation of the moment.
Decide(today) ==
    /\ layer.up /\ decided < MaxDecisions /\ decided' = decided + 1
    /\ \E view \in Views, corr \in CorrViews :
          decision' = Decided(config, layer.activation, layer.weights, view, corr, today)
    /\ layer' = [layer EXCEPT !.weights = [i \in DOMAIN decision'.weights |-> decision'.weights[i].weight],
                              !.recorded = layer.activation, !.after = Len(past) + 1]
    /\ past' = Append(past, [config |-> config, activation |-> layer.activation,
                             weights |-> decision'.weights, from |-> layer.after])
    /\ UNCHANGED <<config, stateFile, restores>>

\* safe_decision around a failing decide(): a duplicate id, an unreadable frame.  No state advances.
SafeHold(today) ==
    /\ layer.up /\ decided < MaxDecisions /\ decided' = decided + 1
    /\ decision' = FailureSafe(layer.activation, today)
    /\ UNCHANGED <<config, layer, stateFile, past, restores>>

\* transition(): the operator moves the layer one rung; only the next decision records it.
Transition(target) ==
    /\ layer.up /\ restores < MaxRestores
    /\ CanTransitionTo(layer.activation, target)
    /\ layer' = [layer EXCEPT !.activation = target]
    /\ restores' = restores + 1
    /\ UNCHANGED <<config, decision, stateFile, past, decided>>

\* The caller writes MetaState.serialize() of the layer's state somewhere.
SaveState ==
    /\ layer.up
    /\ stateFile' = [kind |-> "state", hash |-> config, weights |-> layer.weights,
                     activation |-> layer.recorded, after |-> layer.after]
    /\ UNCHANGED <<config, layer, decision, past, decided, restores>>

CorruptState ==
    /\ stateFile.kind = "state" /\ stateFile' = [kind |-> "broken"]
    /\ UNCHANGED <<config, layer, decision, past, decided, restores>>

\* MetaState.deserialize: anything but a whole state of this version raises.
Loadable(f) == f.kind # "broken"

\* Mutant: the state of whatever configuration is taken over.
RestoredFromAny(cfg, f) ==
    IF f.kind = "none" THEN FreshLayer("DISABLED")
    ELSE IF ~Loadable(f) THEN [FreshLayer("DISABLED") EXCEPT !.up = FALSE]
    ELSE [up |-> TRUE, weights |-> f.weights, recorded |-> f.activation, after |-> f.after,
          activation |-> IF f.activation = "none" THEN "DISABLED" ELSE f.activation]

\* MetaLayer(config, state): another configuration's state is refused, a recorded activation wins.
Restored(cfg, f) ==
    IF f.kind = "none" THEN FreshLayer("DISABLED")
    ELSE IF ~Loadable(f) \/ f.hash # cfg THEN [FreshLayer("DISABLED") EXCEPT !.up = FALSE]
    ELSE [up |-> TRUE, weights |-> f.weights, recorded |-> f.activation, after |-> f.after,
          activation |-> IF f.activation = "none" THEN "DISABLED" ELSE f.activation]

\* The process ends and another builds the layer, under this or another configuration.
RestartLayer(cfg) ==
    /\ restores < MaxRestores
    /\ config' = cfg /\ layer' = Restored(cfg, stateFile)
    /\ restores' = restores + 1
    /\ decision' = NoDecision
    /\ UNCHANGED <<stateFile, past, decided>>

MetaNext(today) ==
    \/ Decide(today) \/ SafeHold(today)
    \/ \E a \in Range(Activations) : Transition(a)
    \/ SaveState \/ CorruptState
    \/ \E cfg \in MetaConfigs : RestartLayer(cfg)
=============================================================================
