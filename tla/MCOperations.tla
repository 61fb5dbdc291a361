---------------------------- MODULE MCOperations ----------------------------
(***************************************************************************)
(* What runs beside the terminal, as TLC explores it: the meta layer and   *)
(* its allocation file, the safety authorities, the owner's phone, staged  *)
(* campaigns, scored runs and the books built of them, headless tester     *)
(* runs.  They share no state but the kill switch, so each is explored     *)
(* while the others rest; the phone and the authorities act on the switch  *)
(* of their own process.                                                   *)
(***************************************************************************)
EXTENDS AllocationFile, TelegramOperator, Campaigns, ResearchBook, TesterRun

VARIABLE part

vars == <<part, metaVars, allocationVars, authorityVars, phoneVars, campaignVars, bookVars, testerVars>>

\* The meta layer: three strategies on two symbols, healthy, decayed, blocked or silent.
Healthy == [kill |-> FALSE, enabled |-> TRUE, signal |-> 1, cert |-> "VERIFIED", regime |-> "allowed",
            cooldownUntil |-> 0, stale |-> FALSE, drift |-> {5}, trades |-> 60, mean |-> 20]
Decayed == [Healthy EXCEPT !.signal = -1, !.cert = "SOFTWARE_PASS", !.mean = -20, !.drift = {30}]
Killed == [Healthy EXCEPT !.kill = TRUE]
Silent == [Healthy EXCEPT !.signal = 0, !.trades = 0, !.drift = {}]
SomeViews == {<<Healthy, Healthy, Healthy>>, <<Healthy, Decayed, Healthy>>, <<Decayed, Decayed, Silent>>,
              <<Killed, Healthy, Decayed>>, <<Silent, Silent, Killed>>, <<Killed, Killed, Killed>>}
SomeCorr == {<<>>, [p \in {{1, 2}, {1, 3}, {2, 3}} |->
                       IF p = {1, 2} THEN {90} ELSE IF p = {1, 3} THEN {} ELSE {-20}]}
Weighted == [policy |-> "meta", mode |-> "weighted_netting", cap |-> 100, gross |-> 100,
             change |-> 100, positions |-> {}, threshold |-> 60]
Narrow == [Weighted EXCEPT !.cap = 40, !.gross = 80]
SomeConfigs == {Weighted, Narrow,
                [Weighted EXCEPT !.mode = "best_of_regime", !.change = 20],
                [Weighted EXCEPT !.policy = "equal_weight", !.positions = {2}],
                [Weighted EXCEPT !.mode = "vote", !.cap = 50]}
OnSymbols == <<"A", "A", "B">>

\* The authorities: a degraded strategy in force, a better one without approval.
Known(state, approved, score, trades, old, breach, degraded, dd) ==
    [dd |-> dd, state |-> state, approved |-> approved, gates |-> TRUE, evidence |-> TRUE, score |-> score,
     trades |-> trades, signals |-> old, breach |-> breach, degraded |-> degraded]
SomeCandidates == {Known("LIVE", TRUE, 80, 110, {}, FALSE, TRUE, 7),
                   Known("LIVE", FALSE, 90, 120, {}, FALSE, FALSE, 3)}
SomeTrips == {{}, {"daily DD"}, {"total DD"}}
TwoAlerts == <<"stale", "down">>

\* Campaigns and books.
ThreeKinds == <<"EMA", "SMA", "WMA">>
SmallGrid == [EMA |-> 2, SMA |-> 1, WMA |-> 1]
ThreeSymbols == <<"EURUSD", "XAUUSD", "US30">>
SmallBudget == <<2, 2, 1, 3, 2>>
Offer(symbol, direction, class, weight, score) ==
    [symbol |-> symbol, direction |-> direction, class |-> class, weight |-> weight, score |-> score]
FourEntries == [a |-> Offer("EURUSD", "both", "fx", 2, 80), b |-> Offer("EURUSD", "short", "fx", 1, 70),
                c |-> Offer("XAUUSD", "long", "metal", 3, 60), d |-> Offer("US30", "short", "index", 1, 50)]
\* a and b are near-duplicates, c costs a score, d has no returns.
FourCorr == [p \in {"a", "b", "c", "d"} \X {"a", "b", "c", "d"} |->
                IF "d" \in {p[1], p[2]} THEN {} ELSE IF {p[1], p[2]} = {"a", "b"} THEN {96}
                ELSE IF {p[1], p[2]} = {"a", "c"} THEN {90} ELSE {40}]
SomeLimits == [strategy |-> 30, symbol |-> 15, direction |-> 18, class |-> 20, redundant |-> 95, strength |-> 25]
SomeMeasurements == [oos : {{0}, {100}}, pf : {{90}, {250}}, dd : {{3}, {20}}, trades : {{500}}, pbo : {{}, {0}, {80}}]

ThreePlaces == <<"run directory", "tester", "installation">>

Init ==
    /\ part \in {"meta", "allocation", "authority", "phone", "campaign", "book", "tester"}
    /\ MetaInit /\ AllocationInit /\ (part = "allocation" => config \in {Weighted, Narrow})
    /\ (part \notin {"meta", "allocation"} => config = Weighted)
    /\ AuthorityInit /\ PhoneInit /\ CampaignsInit /\ BookInit /\ TesterInit

Next ==
    \/ /\ part = "meta" /\ (decided < 2 \/ config.change < ONE \/ UNCHANGED decided) /\ MetaNext(day)
       /\ UNCHANGED <<part, allocationVars, authorityVars, phoneVars, campaignVars, bookVars, testerVars>>
    \/ /\ part = "allocation" /\ (decided = 0 \/ UNCHANGED decided) /\ AllocationNext
       /\ UNCHANGED <<part, authorityVars, phoneVars, campaignVars, bookVars, testerVars>>
    \/ /\ part = "authority" /\ AuthorityNext
       /\ UNCHANGED <<part, metaVars, allocationVars, phoneVars, campaignVars, bookVars, testerVars>>
    \/ /\ part = "phone" /\ PhoneNext
       /\ UNCHANGED <<part, metaVars, allocationVars, campaignVars, bookVars, testerVars>>
    \/ /\ part = "campaign" /\ CampaignsNext
       /\ UNCHANGED <<part, metaVars, allocationVars, authorityVars, phoneVars, bookVars, testerVars>>
    \/ /\ part = "book" /\ BookNext
       /\ UNCHANGED <<part, metaVars, allocationVars, authorityVars, phoneVars, campaignVars, testerVars>>
    \/ /\ part = "tester" /\ TesterNext
       /\ UNCHANGED <<part, metaVars, allocationVars, authorityVars, phoneVars, campaignVars, bookVars>>

Spec == Init /\ [][Next]_vars
=============================================================================
