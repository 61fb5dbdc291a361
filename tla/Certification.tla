--------------------------- MODULE Certification ---------------------------
(***************************************************************************)
(* The certification ladder (certify.py): every regime at every tester     *)
(* model, run by a terminal that may be missing, refuse or raise, then the *)
(* verdict, the withholding for want of reconciliation, and the status a   *)
(* reader sees (status.py).  An optional value is a set of at most one.    *)
(***************************************************************************)
EXTENDS Integers, Sequences, FiniteSets, SequencesExt

CONSTANTS Regimes,         \* sequence of sample windows
          Ladder,          \* sequence of tester models, the M1-OHLC baseline first
          Offered,     \* strategies offered
          EaStrategies,    \* those of the EA's enum
          Outcomes,        \* what the runner may return: ok, and of the report trades and spread
          MinTrades, SpreadFloor

\* REGIMES and MODEL_LADDER name no window and no model twice.
ASSUME LadderAssumption ==
    /\ SpreadFloor \in Nat
    /\ Regimes \in Seq(ToSet(Regimes)) /\ Ladder \in Seq(ToSet(Ladder)) /\ Ladder # <<>>
    /\ \A i, j \in DOMAIN Regimes : Regimes[i] = Regimes[j] => i = j
    /\ \A i, j \in DOMAIN Ladder : Ladder[i] = Ladder[j] => i = j

VARIABLES ladder,          \* the certification under way
          certificate      \* the last report

certVars == <<ladder, certificate>>

NoLadder == [pc |-> "idle", legs |-> <<>>]
CertInit == ladder = NoLadder /\ certificate = [status |-> "none"]

\* tester_plan: regime by regime, grade by grade.
Plan == [k \in 1..(Len(Regimes) * Len(Ladder)) |->
            <<Regimes[(k - 1) \div Len(Ladder) + 1], Ladder[((k - 1) % Len(Ladder)) + 1]>>]

StartCertification ==
    /\ ladder.pc = "idle" /\ certificate.status = "none" \* bound: one certification
    /\ \E s \in Offered, runner \in BOOLEAN, rec \in {{}, {FALSE}, {TRUE}} :
          ladder' = [pc |-> "legs", strategy |-> s, runner |-> runner, reconciled |-> rec, legs |-> <<>>]
    /\ UNCHANGED certificate

Silent == [ok |-> FALSE, trades |-> 0, spread |-> {}]
Leg(at, ran, o) == [regime |-> at[1], model |-> at[2], ran |-> ran, ok |-> o.ok,
                    trades |-> o.trades, spread |-> o.spread]
\* A strategy outside the EA's enum never reaches the runner; a runner that raises did not run.
RunLeg ==
    /\ ladder.pc = "legs" /\ Len(ladder.legs) < Len(Plan)
    /\ LET at == Plan[Len(ladder.legs) + 1]
           runs == ladder.strategy \in EaStrategies /\ ladder.runner
       IN  \E leg \in {Leg(at, FALSE, Silent)} \cup {Leg(at, TRUE, o) : o \in IF runs THEN Outcomes ELSE {}} :
              ladder' = [ladder EXCEPT !.legs = Append(@, leg)]
    /\ UNCHANGED certificate

FloorMet(leg) == SpreadFloor = 0 \/ \E x \in leg.spread : x >= SpreadFloor
\* Mutant: the number of trades is not asked.
PassesThin(leg) == leg.ran /\ leg.ok /\ FloorMet(leg)
\* Mutant: the spread floor is not asked.
PassesTight(leg) == leg.ran /\ leg.ok /\ leg.trades >= MinTrades

Passes(leg) == leg.ran /\ leg.ok /\ leg.trades >= MinTrades /\ FloorMet(leg)
Verdict(legs) == IF legs # <<>> /\ \A k \in DOMAIN legs : Passes(legs[k]) THEN "VERIFIED" ELSE "NOT_VERIFIED"

\* certify_status_model on the verdict after withholding.
StatusModel(verdict, ran, ok, withheld) ==
    IF verdict = "VERIFIED" THEN [status |-> "VERIFIED", mt5 |-> "VERIFIED", reason |-> "none"]
    ELSE IF ran > ok THEN [status |-> "FAILED", mt5 |-> "NOT_VERIFIED", reason |-> "leg_failed"]
    ELSE [status |-> "EMPIRICAL_VALIDATION_PENDING", mt5 |-> "NOT_VERIFIED",
          reason |-> IF ran > 0 /\ withheld THEN "withheld" ELSE "did_not_run"]

\* Tick grades against the M1-OHLC leg of their own regime, where both ran and passed.
Passed(legs, regime, model) ==
    \E k \in DOMAIN legs : legs[k].regime = regime /\ legs[k].model = model /\ legs[k].ran /\ legs[k].ok
Degradation(legs) ==
    {row \in [regime : ToSet(Regimes), model : ToSet(Ladder) \ {Ladder[1]}] :
        Passed(legs, row.regime, Ladder[1]) /\ Passed(legs, row.regime, row.model)}

\* The verdict, withheld for want of a recorded reconciliation, and the status a reader sees.
CertificateOf(of) ==
    LET legs == of.legs
        ran == {k \in DOMAIN legs : legs[k].ran}
        withheld == Verdict(legs) = "VERIFIED" /\ of.reconciled # {TRUE}
        final == IF withheld THEN "NOT_VERIFIED" ELSE Verdict(legs)
        model == StatusModel(final, Cardinality(ran), Cardinality({k \in ran : legs[k].ok}), withheld)
    IN  [status |-> model.status, mt5 |-> model.mt5, reason |-> model.reason, verdict |-> final,
         withheld |-> withheld, of |-> of, degradation |-> Degradation(legs)]
Conclude ==
    /\ ladder.pc = "legs" /\ Len(ladder.legs) = Len(Plan)
    /\ certificate' = CertificateOf(ladder)
    /\ ladder' = NoLadder

CertNext == StartCertification \/ RunLeg \/ Conclude

-----------------------------------------------------------------------------
(* What must hold. *)

\* certify.run_certification: VERIFIED means every regime at every grade ran in the terminal for a
\* strategy the EA executes, with the trades asked for and, where a floor is set, a reported spread
\* that meets it, and was reconciled; FAILED means a leg ran and
\* failed; whatever regime and grade the degradation table shows, their legs and the baseline's passed.
CertificateIsEarned ==
    certificate.status # "none" =>
        LET legs == certificate.of.legs IN
        /\ (certificate.status = "VERIFIED") = (certificate.verdict = "VERIFIED")
        /\ certificate.status = "VERIFIED" =>
              /\ {<<legs[k].regime, legs[k].model>> : k \in DOMAIN legs} = ToSet(Regimes) \X ToSet(Ladder)
              /\ certificate.of.strategy \in EaStrategies /\ certificate.of.reconciled = {TRUE}
              /\ \A k \in DOMAIN legs : legs[k].ran /\ legs[k].ok /\ legs[k].trades >= MinTrades
                                       /\ (SpreadFloor > 0 => \E x \in legs[k].spread : x >= SpreadFloor)
        /\ certificate.status = "FAILED" => \E k \in DOMAIN legs : legs[k].ran /\ ~legs[k].ok
        /\ \A row \in certificate.degradation, k \in DOMAIN legs :
              legs[k].regime = row.regime /\ legs[k].model \in {Ladder[1], row.model} => legs[k].ran /\ legs[k].ok

\* status.py:134 "a failing verdict with at least one required leg that RAN is FAILED", the
\* withheld verdict apart.
FailedVerdictIsFailed ==
    certificate.status # "none" =>
        (certificate.verdict = "NOT_VERIFIED" /\ ~certificate.withheld
         /\ (\E k \in DOMAIN certificate.of.legs : certificate.of.legs[k].ran)
         => certificate.status = "FAILED")
=============================================================================
