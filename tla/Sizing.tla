------------------------------- MODULE Sizing -------------------------------
(***************************************************************************)
(* Position sizing (sizer.py) over the broker's grids (symbolspec.py).     *)
(* Volumes are whole units, a step being VolumeStep of them; distances are *)
(* ticks; money is whole.  An optional input is a set of at most one.      *)
(***************************************************************************)
EXTENDS Integers, FiniteSets, FiniteSetsExt

CONSTANTS VolumeMin, VolumeMax, VolumeStep, VolumeLimit, \* grid; limit 0 is none
          StopsLevel,      \* broker minimum stop distance
          TickLoss, TickProfit, \* tick values of one unit
          KellyHardCap,    \* percent
          Orders           \* the requests checked

ASSUME GridAssumption ==
    /\ VolumeStep \in Nat \ {0} /\ VolumeMin \in Nat \ {0} /\ TickLoss \in Nat \ {0}
    /\ VolumeMax \in Int /\ VolumeLimit \in Int /\ StopsLevel \in Int /\ KellyHardCap \in Int
ASSUME OrdersAssumption ==
    \A o \in Orders :
        /\ {o.value, o.equity, o.balance, o.stop, o.maxLots, o.kelly} \subseteq Int
        /\ o.margin \subseteq Int /\ o.free \subseteq Int /\ \A m, n \in o.margin : m = n

VARIABLE sized             \* the last request and its answer

EnforceMinStop(distance) == Max({distance, StopsLevel})
LossPerUnit(distance) == IF distance <= 0 THEN 0 ELSE Max({1, distance}) * TickLoss
TickValue(side, move) == IF side * move > 0 THEN TickProfit ELSE TickLoss

OnGrid(lots) == (lots \div VolumeStep) * VolumeStep
BrokerCap == IF VolumeLimit > 0 THEN Min({VolumeMax, VolumeLimit}) ELSE VolumeMax
\* Mutant: rounds up to the grid.
NormalizeVolumeUp(lots) ==
    IF lots <= 0 THEN 0 ELSE Min({OnGrid(lots + VolumeStep - 1), OnGrid(BrokerCap)})

\* Floors, bumps to the minimum, and gives nothing when the cap's own grid point is below it.
NormalizeVolume(lots) ==
    IF lots <= 0 THEN 0
    ELSE IF OnGrid(lots) < VolumeMin THEN VolumeMin
    ELSE IF OnGrid(lots) <= BrokerCap THEN OnGrid(lots)
    ELSE IF OnGrid(BrokerCap) < VolumeMin THEN 0 ELSE OnGrid(BrokerCap)

Rejected(reason) == [lots |-> 0, reason |-> reason]
Tradable(answer) == answer.reason \in {"ok", "margin_reduced", "clamped_to_max"}

SizingModes == {"fixed_lot", "risk_percent_equity", "risk_percent_balance", "fixed_money", "kelly_fraction"}

\* The budget in hundredths; the last branch is risk_percent_equity.
Budget(o, loss) ==
    IF o.mode = "fixed_lot" THEN 100 * o.value * loss
    ELSE IF o.mode = "fixed_money" THEN 100 * o.value
    ELSE IF o.mode = "risk_percent_balance" THEN o.balance * o.value
    ELSE o.equity * (IF o.mode = "kelly_fraction" THEN Min({o.kelly, o.value, KellyHardCap}) ELSE o.value)

InvalidArgs(o) ==
    \/ o.mode \notin SizingModes \/ ~o.finite \/ o.equity < 0 \/ o.balance < 0 \/ \E f \in o.free : f < 0
    \/ o.mode = "kelly_fraction" /\ ~o.kellyOn

Affordable(o, s) == s * VolumeStep >= VolumeMin /\ \E m \in o.margin, f \in o.free : m * (s * VolumeStep) <= f
\* Step down from the wanted size to the first that fits; the broker's minimum ends the search.
FirstFit(o, lots) ==
    LET steps == lots \div VolumeStep
    IN  {s \in 1..steps : Affordable(o, s) /\ \A larger \in (s + 1)..steps : ~Affordable(o, larger)}
SteppedTo(answer, lots) ==
    [lots |-> lots, reason |-> IF lots < answer.lots /\ answer.reason = "ok" THEN "margin_reduced" ELSE answer.reason]
MarginChecked(o, answer) ==
    LET fit == FirstFit(o, answer.lots)
    IN  IF o.margin = {} THEN answer
        ELSE IF o.free = {} THEN Rejected("invalid_args")
        ELSE IF fit = {} THEN Rejected("margin_rejected")
        ELSE SteppedTo(answer, (CHOOSE s \in fit : TRUE) * VolumeStep)

SizePosition(o) ==
    LET loss == LossPerUnit(EnforceMinStop(o.stop))
        budget == Budget(o, loss)
        raw == budget \div (100 * loss)
        ceiling == Min({IF o.maxLots <= 0 THEN VolumeMax ELSE o.maxLots, BrokerCap})
        clamped == budget > 100 * loss * ceiling
        lots == NormalizeVolume(IF clamped THEN ceiling ELSE raw)
    IN  IF InvalidArgs(o) THEN Rejected("invalid_args")
        ELSE IF o.stop <= 0 THEN Rejected("missing_stop")
        ELSE IF o.mode = "kelly_fraction" /\ o.kelly <= 0 THEN Rejected("no_edge")
        ELSE IF budget <= 0 THEN Rejected("invalid_args")
        ELSE IF raw < VolumeMin \/ ceiling < VolumeMin THEN Rejected("below_min_volume")
        ELSE IF lots = 0 THEN Rejected("invalid_args")
        ELSE MarginChecked(o, [lots |-> lots, reason |-> IF clamped THEN "clamped_to_max" ELSE "ok"])

SizingInit == sized = [asked |-> {}, answer |-> Rejected("invalid_args")]
AskSize == \E o \in Orders : sized' = [asked |-> {o}, answer |-> SizePosition(o)]
SizingNext == AskSize

-----------------------------------------------------------------------------
(* What must hold. *)

\* sizer.size_position: what it lets through is on the grid, inside every cap, affordable, and never
\* loses more at the enforced stop than the budget of its mode, Kelly at most its hard cap.
NeverOverRisks ==
    \A o \in sized.asked :
        LET lots == sized.answer.lots
            loss == LossPerUnit(EnforceMinStop(o.stop))
        IN  IF Tradable(sized.answer)
            THEN /\ lots % VolumeStep = 0 /\ lots >= VolumeMin /\ lots <= BrokerCap
                 /\ o.maxLots > 0 => lots <= o.maxLots
                 /\ 100 * lots * loss <= Budget(o, loss) /\ o.stop > 0
                 /\ o.mode = "kelly_fraction" => 100 * lots * loss <= o.equity * KellyHardCap
                 /\ \A m \in o.margin : \E f \in o.free : m * lots <= f
            ELSE lots = 0
=============================================================================
