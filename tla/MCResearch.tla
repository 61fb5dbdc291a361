----------------------------- MODULE MCResearch -----------------------------
(***************************************************************************)
(* Research as TLC explores it: the funnel and its single look, the folds  *)
(* of cross-validation and of the walk-forward, the studies of the meta    *)
(* policy, certification, the sizer (it keeps nothing, so one request a    *)
(* run), the two backtest engines on the same bars, the dataset store.     *)
(* They share no state, so each is explored while the others rest.         *)
(***************************************************************************)
EXTENDS OneLook, WalkForward, MetaStudies, Certification, FastEngine, DatasetStore

VARIABLE part

vars == <<part, lookVars, fold, walk, studyVars, certVars, sized, engineVars, dataVars>>

\* The funnel: two contents, of which one has a configuration that only leads
\* the screen and the other an old look.
SomeScreened == [c1 |-> {"a", "b"}, c2 |-> {"a"}]
SomeSurvivors == [c1 |-> {"a"}, c2 |-> {}]
SomeSelected == [c \in {"c1", "c2"} |-> [s \in (SUBSET {"a", "b"}) \ {{}} |-> CHOOSE x \in s : TRUE]]
SomeOldLooks == {{<<"c2", "s">>}}

\* Studies: eight bars on five days, one to three contexts, four trades.
EightBars == [b \in 1..8 |-> (b + 1) \div 2]
Context(id, symbol, engine) ==
    [id |-> id, symbol |-> symbol, engine |-> engine, clean |-> TRUE, conversion |-> TRUE, aligned |-> TRUE]
SomeOffers == {<<Context("a", "x", "e1")>>, <<Context("a", "x", "e1"), Context("a", "y", "e2")>>,
               <<Context("a", "x", "e1"), [Context("b", "x", "e1") EXCEPT !.clean = FALSE], Context("b", "y", "e2")>>}
FourCloses == <<1, 3, 4, 6>>

\* Certification: two regimes at two models.
TwoRegimes == <<"r1", "r2">>
TwoModels == <<"m1", "tick">>
Answer(ok, trades, spread) == [ok |-> ok, trades |-> trades, spread |-> spread]
SomeOutcomes == {Answer(TRUE, 30, {2}), Answer(TRUE, 5, {2}), Answer(TRUE, 30, {}), Answer(FALSE, 0, {})}

\* Sizing: each mode at, below and above every limit, with and without a margin callback; an unknown mode.
SomeOrders ==
    [mode : SizingModes, value : {0, 1, 30}, equity : {0, 700, 10000}, balance : {-1, 1000}, stop : {0, 2, 5},
     maxLots : {0, 7, 20}, kellyOn : BOOLEAN, kelly : {0, 40}, finite : {TRUE}, margin : {{}, {3}}, free : {{}, {25}}]
        \cup [mode : SizingModes \cup {"martingale"}, value : {1}, equity : {700}, balance : {1000}, stop : {2},
              maxLots : {0}, kellyOn : {TRUE}, kelly : {40}, finite : BOOLEAN, margin : {{}}, free : {{}}]

\* Walk-forward: up to three windows, with and without warmup, embargo, purge.
SomeWalks == [bars : {20, 23}, windows : 0..3, tenths : {4, 5, 10}, warmup : {0, 2}, embargo : 0..2, purge : {0, 2}]
SomeGrids == {<<{1}, {2}>>, <<{}, {1}>>, <<{}, {}>>}

\* Downloads: nothing, a clean one with a gap, and each kind of damage.
Quote(at, form) == [at |-> at, form |-> form]
Frame(columns, bars) == [columns |-> columns, bars |-> bars]
SomeDownloads ==
    {Frame(TRUE, <<>>), Frame(FALSE, <<Quote(1, "plain")>>), Frame(TRUE, <<Quote(1, "plain"), Quote(2, "impossible_ohlc")>>),
     Frame(TRUE, <<Quote(1, "nonpositive_price"), Quote(1, "plain"), Quote(2, "plain")>>),
     Frame(TRUE, <<Quote(1, "plain"), Quote(2, "plain"), Quote(3, "plain"), Quote(9, "plain")>>),
     Frame(TRUE, <<Quote(2, "plain"), Quote(1, "nonfinite_price")>>)}

\* The engines: one line on the subset both run, or two lines on one symbol.
Line(symbol, strategy) == [symbol |-> symbol, strategy |-> strategy]
OneOrTwo == {<<Line("s", "a")>>, <<Line("s", "a"), Line("s", "b")>>}
Plain == [mode |-> "netting", basis |-> "mid", order |-> "stop_first", spread |-> 2, slippage |-> 1,
          commission |-> 1, commissionMin |-> 0, swapLong |-> 0, swapShort |-> 0, maxGap |-> {}, mask |-> FALSE,
          short |-> TRUE, sizing |-> "risk_percent_equity", risk |-> 1, maxLots |-> 16, weight |-> 100,
          maxBooks |-> 2, maxPerStrategy |-> {}, caps |-> {}, trail |-> 0, breakeven |-> 0, beOffset |-> 0,
          partial |-> 0, maxBars |-> 0, signalExit |-> TRUE, daily |-> 0, drawdown |-> 0, warmup |-> 0]
FastConfigs == {[Plain EXCEPT !.partial = 1, !.breakeven = 1, !.trail = 2],
                [Plain EXCEPT !.daily = 2, !.drawdown = 3, !.signalExit = FALSE, !.maxBars = 2]}
RichConfigs == {[Plain EXCEPT !.swapLong = 1, !.swapShort = 2, !.partial = 1, !.daily = 2],
                [Plain EXCEPT !.mode = "hedging", !.drawdown = 2, !.maxGap = {5}, !.mask = TRUE, !.weight = 50,
                              !.commissionMin = 8, !.maxPerStrategy = {1}],
                [Plain EXCEPT !.basis = "bid", !.order = "mt5_ohlc", !.slippage = 0, !.signalExit = FALSE,
                              !.caps = {[code |-> "heat", symbols |-> {"s"}, share |-> 24]}]}
SomeConfigs == FastConfigs \cup RichConfigs
Candle(o, h, l, c, atr) == [o |-> o, h |-> h, l |-> l, c |-> c, atr |-> atr, rejects |-> FALSE]
SomeBars == {Candle(100, 104, 99, 103, 4), Candle(100, 101, 90, 92, 4), Candle(92, 100, 91, 98, 3),
             [Candle(108, 112, 106, 110, 4) EXCEPT !.rejects = TRUE]}
StartAt == [s |-> Candle(100, 100, 100, 100, 4)]
RestEngine ==
    IF part = "engine" THEN (Len(run.lines) = 1) = (run.cfg \in FastConfigs)
    ELSE Len(run.lines) = 1 /\ run.desired = <<0>> /\ run.cfg = CHOOSE c \in FastConfigs : TRUE

Init ==
    /\ part \in {"look", "folds", "study", "certify", "sizing", "engine", "walk", "data"}
    /\ LookInit /\ WalkInit /\ DataInit /\ CvInit /\ StudyInit /\ CertInit /\ SizingInit
    /\ EngineInit /\ RestEngine

Next ==
    \/ part = "look" /\ LookNext /\ UNCHANGED <<part, fold, studyVars, certVars, sized, engineVars, walk, dataVars>>
    \/ part = "folds" /\ CvNext /\ UNCHANGED <<part, lookVars, studyVars, certVars, sized, engineVars, walk, dataVars>>
    \/ part = "study" /\ StudyNext /\ UNCHANGED <<part, lookVars, fold, certVars, sized, engineVars, walk, dataVars>>
    \/ part = "certify" /\ CertNext /\ UNCHANGED <<part, lookVars, fold, studyVars, sized, engineVars, walk, dataVars>>
    \/ part = "sizing" /\ sized.asked = {} /\ SizingNext /\ UNCHANGED <<part, lookVars, fold, studyVars, certVars, engineVars, walk, dataVars>>
    \/ part = "engine" /\ EngineNext /\ UNCHANGED <<part, lookVars, fold, studyVars, certVars, sized, walk, dataVars>>
    \/ part = "walk" /\ WalkNext /\ UNCHANGED <<part, lookVars, fold, studyVars, certVars, sized, engineVars, dataVars>>
    \/ part = "data" /\ DataNext /\ UNCHANGED <<part, lookVars, fold, walk, studyVars, certVars, sized, engineVars>>

Spec == Init /\ [][Next]_vars
=============================================================================
