----------------------------- MODULE EngineProofs ----------------------------
(***************************************************************************)
(* Proofs about the backtest engine and its sizer.                         *)
(*   Sizing: one request, one answer; the arithmetic of the volume grid.   *)
(*   PortfolioEngine: a run is typed; its ledger adds up, the balance      *)
(* being the start plus the net of every close less what the open legs     *)
(* still owe; a book holds what its legs hold; and no line is left and     *)
(* entered on one bar.  Shown for a leg, a volume, a book, a line and      *)
(* each phase of a bar; the loops are tables, shown to exist by least      *)
(* counterexample.                                                         *)
(***************************************************************************)
EXTENDS FastEngine, FiniteSetTheorems, SequenceTheorems,
        WellFoundedInduction, TLAPS

-----------------------------------------------------------------------------
(* Numbers. *)

\* Every non-empty set of naturals has a least element: induction without a predicate.
LEMMA HasLeast == ASSUME NEW T \in SUBSET Nat, T # {} PROVE \E x \in T : \A y \in T : x <= y
<1> DEFINE R == {ss \in Nat \X Nat : ss[1] < ss[2]}
<1>1. IsWellFoundedOn(R, Nat)
  BY NatLessThanWellFounded DEF OpToRel
<1>2. \A x, y \in Nat : x < y => <<x, y>> \in R
  OBVIOUS
<1> HIDE DEF R
<1>3. PICK x \in T : \A y \in T : ~ (<<y, x>> \in R)
  BY <1>1, WFMin
<1>4. ASSUME NEW y \in T PROVE x <= y
  <2>1. x \in Nat /\ y \in Nat /\ ~(y < x)
    BY <1>2, <1>3
  <2> QED
    BY <2>1
<1> QED
  BY <1>4

LEMMA Floor == ASSUME NEW x \in Int, NEW d \in Nat \ {0} PROVE x \div d \in Int /\ (x \div d) * d <= x
OBVIOUS
LEMMA Multiple == ASSUME NEW q \in Int, NEW d \in Nat \ {0} PROVE (q * d) % d = 0
OBVIOUS
LEMMA Fits ==
    ASSUME NEW q \in Int, NEW d \in Nat \ {0}, NEW x \in Int, q * d <= x PROVE q <= x \div d
OBVIOUS
LEMMA Grows == ASSUME NEW a \in Int, NEW b \in Int, NEW c \in Nat, a <= b PROVE a * c <= b * c
OBVIOUS
LEMMA MinOfTwo == ASSUME NEW a \in Int, NEW b \in Int PROVE Min({a, b}) = IF a <= b THEN a ELSE b
BY DEF Min
LEMMA MaxOfTwo == ASSUME NEW a \in Int, NEW b \in Int PROVE Max({a, b}) = IF a >= b THEN a ELSE b
BY DEF Max
LEMMA MinOfThree == ASSUME NEW a \in Int, NEW b \in Int, NEW c \in Int
    PROVE Min({a, b, c}) = IF a <= b /\ a <= c THEN a ELSE IF b <= c THEN b ELSE c
BY DEF Min
LEMMA MinIs == ASSUME NEW S \in SUBSET Int, NEW m \in S, \A x \in S : m <= x PROVE Min(S) = m
<1>1. \A x \in S : m <= x
  OBVIOUS
<1>2. Min(S) \in S /\ \A y \in S : Min(S) <= y
  BY <1>1 DEF Min
<1>3. Min(S) <= m /\ m <= Min(S) /\ Min(S) \in Int /\ m \in Int
  BY <1>1, <1>2
<1> QED
  BY <1>3

-----------------------------------------------------------------------------
(* Sizing. *)

SizeSpec == SizingInit /\ [][SizingNext]_sized

LEMMA CapIsInt == BrokerCap \in Int /\ BrokerCap <= VolumeMax
BY GridAssumption, MinOfTwo DEF BrokerCap

\* What is asked of a volume: on the grid, and nothing or between the minimum and what was wanted.
SoundVolume(v, wanted) ==
    /\ v \in Nat /\ v % VolumeStep = 0
    /\ v = 0 \/ (VolumeMin <= v /\ v <= wanted /\ v <= BrokerCap)

\* normalize_volume on a size the broker's minimum does not exceed.
LEMMA Normalized ==
    ASSUME NEW lots \in Int, lots >= VolumeMin, VolumeMin % VolumeStep = 0
    PROVE SoundVolume(NormalizeVolume(lots), lots)
<1>1. \A x \in Int : OnGrid(x) \in Int /\ OnGrid(x) <= x /\ OnGrid(x) % VolumeStep = 0
  BY GridAssumption, Floor, Multiple DEF OnGrid
<1>2. VolumeMin = (VolumeMin \div VolumeStep) * VolumeStep /\ VolumeMin \div VolumeStep \in Int
  BY GridAssumption
<1>3. VolumeMin \div VolumeStep <= lots \div VolumeStep
  BY <1>2, GridAssumption, Fits
<1>4. OnGrid(lots) >= VolumeMin
  BY <1>2, <1>3, GridAssumption, Grows, Floor DEF OnGrid
<1>5. 0 % VolumeStep = 0
  BY GridAssumption
<1> QED
  BY <1>1, <1>4, <1>5, CapIsInt, GridAssumption DEF NormalizeVolume, SoundVolume

\* What the answer to a request must be.
SoundAnswer(o, answer) ==
    LET loss == LossPerUnit(EnforceMinStop(o.stop)) IN
    IF Tradable(answer)
    THEN /\ answer.lots % VolumeStep = 0 /\ answer.lots >= VolumeMin /\ answer.lots <= BrokerCap
         /\ o.maxLots > 0 => answer.lots <= o.maxLots
         /\ 100 * answer.lots * loss <= Budget(o, loss) /\ o.stop > 0
         /\ o.mode = "kelly_fraction" => 100 * answer.lots * loss <= o.equity * KellyHardCap
         /\ \A m \in o.margin : \E f \in o.free : m * answer.lots <= f
    ELSE answer.lots = 0

LEMMA OrderTypes ==
    ASSUME NEW o \in Orders
    PROVE o.value \in Int /\ o.equity \in Int /\ o.balance \in Int /\ o.stop \in Int /\ o.maxLots \in Int /\ o.kelly \in Int
BY OrdersAssumption

LEMMA BudgetTypes ==
    ASSUME NEW o \in Orders, NEW loss \in Int
    PROVE /\ Budget(o, loss) \in Int
          /\ o.equity >= 0 /\ o.mode = "kelly_fraction" => Budget(o, loss) <= o.equity * KellyHardCap
<1> DEFINE kelly == Min({o.kelly, o.value, KellyHardCap})
<1>1. kelly \in Int /\ kelly <= KellyHardCap
  BY OrderTypes, GridAssumption, MinOfThree
<1>2. o.equity >= 0 => o.equity * kelly <= o.equity * KellyHardCap
  BY <1>1, OrderTypes, GridAssumption, Grows
<1> HIDE DEF kelly
<1>3. Budget(o, loss) = IF o.mode = "fixed_lot" THEN 100 * o.value * loss
          ELSE IF o.mode = "fixed_money" THEN 100 * o.value
          ELSE IF o.mode = "risk_percent_balance" THEN o.balance * o.value
          ELSE o.equity * (IF o.mode = "kelly_fraction" THEN kelly ELSE o.value)
  BY Zenon DEF Budget, kelly
<1> QED
  BY <1>1, <1>2, <1>3, OrderTypes, GridAssumption

LEMMA LossIsPositive ==
    ASSUME NEW o \in Orders, o.stop > 0
    PROVE LossPerUnit(EnforceMinStop(o.stop)) \in Nat \ {0}
<1>1. EnforceMinStop(o.stop) \in Int /\ EnforceMinStop(o.stop) > 0
  BY OrderTypes, GridAssumption, MaxOfTwo DEF EnforceMinStop
<1>2. Max({1, EnforceMinStop(o.stop)}) \in Nat \ {0}
  BY <1>1, MaxOfTwo
<1> QED
  BY <1>1, <1>2, GridAssumption DEF LossPerUnit

\* Stepping down keeps a volume on the grid, above the minimum and within what was asked for, and what
\* it stops at is affordable.
LEMMA SteppedDown ==
    ASSUME NEW o \in Orders, NEW answer, NEW wanted \in Int, Tradable(answer), answer.lots # 0,
           SoundVolume(answer.lots, wanted)
    PROVE LET final == MarginChecked(o, answer) IN
          IF Tradable(final)
          THEN /\ SoundVolume(final.lots, wanted) /\ final.lots # 0
               /\ \A m \in o.margin : \E f \in o.free : m * final.lots <= f
          ELSE final.lots = 0
<1> DEFINE fit == FirstFit(o, answer.lots)
           s == CHOOSE x \in fit : TRUE
           steps == answer.lots \div VolumeStep
<1>1. CASE o.margin = {}
  BY <1>1 DEF MarginChecked
<1>2. CASE o.margin # {} /\ (o.free = {} \/ fit = {})
  BY <1>2 DEF MarginChecked, Rejected, Tradable
<1>3. CASE o.margin # {} /\ o.free # {} /\ fit # {}
  <2>1. s \in fit
    BY <1>3
  <2>2. s \in 1..steps /\ Affordable(o, s)
    BY <2>1 DEF FirstFit
  <2>3. steps \in Int /\ steps * VolumeStep <= answer.lots
    BY GridAssumption, Floor DEF SoundVolume
  <2> HIDE DEF fit, s, steps
  <2>4. s * VolumeStep \in Nat /\ s * VolumeStep <= answer.lots /\ (s * VolumeStep) % VolumeStep = 0
    <3>1. VolumeStep \in Nat \ {0} /\ steps \in Int /\ s \in Nat /\ s <= steps /\ answer.lots \in Int
      BY <2>2, <2>3, GridAssumption DEF SoundVolume
    <3>2. s * VolumeStep <= steps * VolumeStep
      BY ONLY <3>1, Grows
    <3>3. (s * VolumeStep) % VolumeStep = 0
      BY ONLY <3>1, Multiple
    <3>4. s * VolumeStep \in Nat /\ steps * VolumeStep \in Int
      BY ONLY <3>1
    <3> QED BY ONLY <2>3, <3>1, <3>2, <3>3, <3>4
  <2>5. s * VolumeStep >= VolumeMin /\ \E m \in o.margin, f \in o.free : m * (s * VolumeStep) <= f
    BY <2>2 DEF Affordable
  <2>6. \A m \in o.margin : \E f \in o.free : m * (s * VolumeStep) <= f
    BY <2>5, OrdersAssumption
  <2>7. SoundVolume(s * VolumeStep, wanted) /\ s * VolumeStep # 0
    BY <2>4, <2>5, CapIsInt, GridAssumption DEF SoundVolume
  <2>8. MarginChecked(o, answer) = SteppedTo(answer, s * VolumeStep)
    BY <1>3 DEF MarginChecked, fit, s
  <2> QED
    BY <2>6, <2>7, <2>8 DEF SteppedTo, Tradable
<1> QED
  BY <1>1, <1>2, <1>3

LEMMA AnswerIsSound ==
    ASSUME NEW o \in Orders, VolumeMin % VolumeStep = 0
    PROVE SoundAnswer(o, SizePosition(o))
<1> DEFINE loss == LossPerUnit(EnforceMinStop(o.stop))
           budget == Budget(o, loss)
           raw == budget \div (100 * loss)
           asked == IF o.maxLots <= 0 THEN VolumeMax ELSE o.maxLots
           ceiling == Min({asked, BrokerCap})
           clamped == budget > 100 * loss * ceiling
           wanted == IF clamped THEN ceiling ELSE raw
           lots == NormalizeVolume(wanted)
           reason == IF clamped THEN "clamped_to_max" ELSE "ok"
           sent == MarginChecked(o, [lots |-> lots, reason |-> reason])
<1>0. \A why \in {"invalid_args", "missing_stop", "no_edge", "below_min_volume"} : SoundAnswer(o, Rejected(why))
  BY DEF SoundAnswer, Rejected, Tradable
<1>1. SizePosition(o) =
        IF InvalidArgs(o) THEN Rejected("invalid_args")
        ELSE IF o.stop <= 0 THEN Rejected("missing_stop")
        ELSE IF o.mode = "kelly_fraction" /\ o.kelly <= 0 THEN Rejected("no_edge")
        ELSE IF budget <= 0 THEN Rejected("invalid_args")
        ELSE IF raw < VolumeMin \/ ceiling < VolumeMin THEN Rejected("below_min_volume")
        ELSE IF lots = 0 THEN Rejected("invalid_args")
        ELSE sent
  BY Zenon DEF SizePosition
<1>2. ASSUME ~InvalidArgs(o), ~(o.stop <= 0), ~(budget <= 0), ~(raw < VolumeMin \/ ceiling < VolumeMin), lots # 0
      PROVE SoundAnswer(o, sent)
  <2>1. o.stop > 0 /\ o.equity >= 0
    BY <1>2, OrderTypes DEF InvalidArgs
  <2>2. loss \in Nat \ {0}
    BY <2>1, LossIsPositive
  <2> HIDE DEF loss
  <2>3. budget \in Int /\ (o.mode = "kelly_fraction" => budget <= o.equity * KellyHardCap)
    BY <2>1, <2>2, BudgetTypes
  <2> HIDE DEF budget
  <2>4. 100 * loss \in Nat \ {0}
    BY <2>2
  <2>5. raw \in Int /\ raw * (100 * loss) <= budget
    BY <2>3, <2>4, Floor
  <2>6. asked \in Int /\ (o.maxLots > 0 => asked = o.maxLots)
    BY OrderTypes, GridAssumption
  <2> HIDE DEF asked
  <2>7. ceiling \in Int /\ ceiling <= asked /\ ceiling <= BrokerCap
    BY <2>6, CapIsInt, MinOfTwo
  <2> HIDE DEF raw, ceiling
  <2>8. wanted \in Int /\ wanted >= VolumeMin
    BY <1>2, <2>5, <2>7, GridAssumption
  <2>9. wanted * (100 * loss) <= budget
    BY <2>2, <2>3, <2>5, <2>7
  <2>10. wanted <= ceiling
    <3>1. CASE clamped
      BY <3>1, <2>7
    <3>2. CASE ~clamped
      <4>1. raw * (100 * loss) <= ceiling * (100 * loss)
        BY <3>2, <2>2, <2>3, <2>5, <2>7
      <4>2. raw <= ceiling
        BY <4>1, <2>4, <2>5, <2>7
      <4> QED
        BY <3>2, <4>2
    <3> QED
      BY <3>1, <3>2
  <2>11. SoundVolume(lots, wanted)
    BY <2>8, Normalized
  <2> HIDE DEF wanted, lots
  <2> DEFINE answer == [lots |-> lots, reason |-> reason]
  <2>12. Tradable(answer) /\ answer.lots = lots
    BY DEF Tradable
  <2> HIDE DEF answer
  <2>13. IF Tradable(sent)
         THEN /\ SoundVolume(sent.lots, wanted) /\ sent.lots # 0
              /\ \A m \in o.margin : \E f \in o.free : m * sent.lots <= f
         ELSE sent.lots = 0
    BY <1>2, <2>8, <2>11, <2>12, SteppedDown DEF answer
  <2> HIDE DEF sent
  <2>14. CASE ~Tradable(sent)
    BY <2>13, <2>14 DEF SoundAnswer
  <2>15. CASE Tradable(sent)
    <3>1. sent.lots \in Nat /\ sent.lots % VolumeStep = 0 /\ sent.lots >= VolumeMin
          /\ sent.lots <= wanted /\ sent.lots <= BrokerCap
      BY <2>13, <2>15 DEF SoundVolume
    <3>2. sent.lots * (100 * loss) <= wanted * (100 * loss)
      BY <3>1, <2>4, <2>8, Grows
    <3>3. sent.lots * (100 * loss) <= budget
      BY <3>1, <3>2, <2>3, <2>4, <2>8, <2>9
    <3>4. 100 * sent.lots * loss <= budget
      BY <3>1, <3>3, <2>2, <2>3
    <3>5. o.maxLots > 0 => sent.lots <= o.maxLots
      BY <3>1, <2>6, <2>7, <2>8, <2>10, OrderTypes
    <3>6. o.mode = "kelly_fraction" => 100 * sent.lots * loss <= o.equity * KellyHardCap
      BY <3>1, <3>4, <2>1, <2>2, <2>3, OrderTypes, GridAssumption
    <3> QED
      BY <3>1, <3>4, <3>5, <3>6, <2>1, <2>13, <2>15 DEF SoundAnswer, loss, budget
  <2> QED
    BY <2>14, <2>15
<1> HIDE DEF sent, lots, raw, ceiling, budget
<1> QED
  BY <1>0, <1>1, <1>2

\* sizer.size_position, for any grid whose minimum is a multiple of the step, any requests and any
\* tick value: what is let through is on the grid, within every cap, affordable, and loses no more at
\* the enforced stop than its budget.
THEOREM SizesWithinBudget ==
    ASSUME VolumeMin % VolumeStep = 0
    PROVE SizeSpec => []NeverOverRisks
<1> DEFINE Answered == sized.asked = {} \/ \E o \in Orders : sized = [asked |-> {o}, answer |-> SizePosition(o)]
<1>1. SizingInit => Answered
  BY DEF SizingInit
<1>2. Answered /\ [SizingNext]_sized => Answered'
  BY DEF SizingNext, AskSize
<1>3. Answered => NeverOverRisks
  <2>1. ASSUME NEW o \in Orders, sized = [asked |-> {o}, answer |-> SizePosition(o)] PROVE NeverOverRisks
    <3>1. SoundAnswer(o, SizePosition(o))
      BY AnswerIsSound
    <3>2. sized.asked = {o} /\ SoundAnswer(o, sized.answer)
      BY <2>1, <3>1
    <3> QED
      BY <3>2, Zenon DEF NeverOverRisks, SoundAnswer
  <2> QED
    BY <2>1 DEF NeverOverRisks
<1> QED
  BY <1>1, <1>2, <1>3, PTL DEF SizeSpec

-----------------------------------------------------------------------------
(* The engine: sums over sequences. *)

LEMMA Swapped ==
    ASSUME NEW p \in Int, NEW q \in Int, NEW u \in Int, NEW v \in Int, NEW w \in Int, p - (u + w) = q - (u + v)
    PROVE  p = q - v + w
OBVIOUS
LEMMA Dropped ==
    ASSUME NEW p \in Int, NEW q \in Int, NEW u \in Int, NEW v \in Int, p - u = q - (u + v)
    PROVE  p = q - v
OBVIOUS

SumTable(s, n, g_) == g_ = [k \in 0..n |-> IF k = 0 THEN 0 ELSE g_[k - 1] + s[k]]

LEMMA SumTableExists == ASSUME NEW s, NEW n \in Nat PROVE \E g_ : SumTable(s, n, g_)
<1> DEFINE bad == {m \in Nat : ~ \E g_ : SumTable(s, m, g_)}
<1>1. SUFFICES ASSUME bad # {} PROVE FALSE
  OBVIOUS
<1>2. PICK m \in bad : \A j \in bad : m <= j
  BY <1>1, HasLeast
<1>3. m \in Nat /\ ~ \E g_ : SumTable(s, m, g_)
  BY <1>2
<1>4. CASE m = 0
  <2> DEFINE h == [k \in 0..0 |-> 0]
  <2>1. h = [k \in 0..0 |-> IF k = 0 THEN 0 ELSE h[k - 1] + s[k]]
    OBVIOUS
  <2>2. SumTable(s, 0, h)
    BY <2>1 DEF SumTable
  <2> QED BY <1>3, <1>4, <2>2
<1>5. CASE m # 0
  <2>1. m - 1 \in Nat /\ m - 1 \notin bad
    <3> HIDE DEF bad
    <3> QED BY <1>2, <1>3, <1>5
  <2>2. PICK g_ : SumTable(s, m - 1, g_)
    BY <2>1
  <2>3. g_ = [k \in 0..(m - 1) |-> IF k = 0 THEN 0 ELSE g_[k - 1] + s[k]]
    BY <2>2 DEF SumTable
  <2> HIDE DEF bad
  <2> DEFINE h == [k \in 0..m |-> IF k = m THEN g_[m - 1] + s[m] ELSE g_[k]]
  <2>4. \A k \in 0..m : h[k] = IF k = 0 THEN 0 ELSE h[k - 1] + s[k]
    <3>1. TAKE k \in 0..m
    <3>2. \A j \in 0..(m - 1) : g_[j] = IF j = 0 THEN 0 ELSE g_[j - 1] + s[j]
      BY <2>3
    <3>3. CASE k = m
      <4>1. h[m] = g_[m - 1] + s[m] /\ h[m - 1] = g_[m - 1]
        BY <1>3, <1>5
      <4> QED BY <1>5, <3>3, <4>1
    <3>4. CASE k # m
      <4>1. k \in 0..(m - 1) /\ h[k] = g_[k] /\ (k # 0 => h[k - 1] = g_[k - 1])
        BY <1>3, <3>4
      <4> QED BY <3>2, <4>1
    <3> QED BY <3>3, <3>4
  <2>5. h = [k \in 0..m |-> IF k = 0 THEN 0 ELSE h[k - 1] + s[k]]
    BY <2>4
  <2>6. SumTable(s, m, h)
    BY <2>5 DEF SumTable
  <2> QED BY <1>3, <2>6
<1> QED BY <1>4, <1>5

PartialSums(s) == CHOOSE g_ : SumTable(s, Len(s), g_)

LEMMA PartialSumsAre ==
    ASSUME NEW s \in Seq(Int)
    PROVE  /\ PartialSums(s)[0] = 0 /\ Total(s) = PartialSums(s)[Len(s)]
           /\ \A k \in 1..Len(s) : PartialSums(s)[k] = PartialSums(s)[k - 1] + s[k]
           /\ \A k \in 0..Len(s) : PartialSums(s)[k] \in Int
<1> DEFINE g == PartialSums(s)
           n == Len(s)
<1>1. n \in Nat /\ \A k \in 1..n : s[k] \in Int
  OBVIOUS
<1>2. SumTable(s, n, g)
  BY <1>1, SumTableExists DEF PartialSums
<1>3. Total(s) = g[n]
  BY DEF Total, PartialSums, SumTable
<1> HIDE DEF g, n
<1>4. \A k \in 0..n : g[k] = IF k = 0 THEN 0 ELSE g[k - 1] + s[k]
  BY <1>2 DEF SumTable
<1>5. g[0] = 0 /\ \A k \in 1..n : g[k] = g[k - 1] + s[k]
  BY <1>1, <1>4
<1> DEFINE bad == {k \in 0..n : g[k] \notin Int}
<1>6. bad = {}
  <2>1. SUFFICES ASSUME bad # {} PROVE FALSE
    OBVIOUS
  <2> bad \in SUBSET Nat
    BY <1>1
  <2>2. PICK k \in bad : \A j \in bad : k <= j
    <3> HIDE DEF bad
    <3> QED BY <2>1, HasLeast
  <2>3. k \in 1..n /\ g[k] \notin Int
    BY <1>1, <1>5, <2>2
  <2>4. k - 1 \in 0..n /\ k - 1 \notin bad
    <3> HIDE DEF bad
    <3> QED BY <1>1, <2>2, <2>3
  <2>5. g[k - 1] \in Int /\ s[k] \in Int /\ g[k] = g[k - 1] + s[k]
    BY <1>1, <1>5, <2>3, <2>4
  <2> QED BY <2>3, <2>5
<1> QED BY <1>3, <1>5, <1>6 DEF g, n

LEMMA TotalIsInt == ASSUME NEW s \in Seq(Int) PROVE Total(s) \in Int
<1>1. Len(s) \in Nat
  OBVIOUS
<1> QED BY <1>1, PartialSumsAre

LEMMA SamePrefix ==
    ASSUME NEW s \in Seq(Int), NEW t \in Seq(Int), NEW n \in 0..Len(s), n <= Len(t), \A i \in 1..n : t[i] = s[i]
    PROVE  PartialSums(t)[n] = PartialSums(s)[n]
<1> DEFINE g == PartialSums(s)
           h == PartialSums(t)
           bad == {k \in 0..n : h[k] # g[k]}
<1>1. Len(s) \in Nat /\ Len(t) \in Nat /\ n \in Nat /\ n <= Len(s)
  OBVIOUS
<1>2. /\ g[0] = 0 /\ h[0] = 0
      /\ \A k \in 1..Len(s) : g[k] = g[k - 1] + s[k]
      /\ \A k \in 1..Len(t) : h[k] = h[k - 1] + t[k]
  BY PartialSumsAre
<1> HIDE DEF g, h
<1>3. bad = {}
  <2>1. SUFFICES ASSUME bad # {} PROVE FALSE
    OBVIOUS
  <2> bad \in SUBSET Nat
    BY <1>1
  <2>2. PICK k \in bad : \A j \in bad : k <= j
    <3> HIDE DEF bad
    <3> QED BY <2>1, HasLeast
  <2>3. k \in 1..n /\ h[k] # g[k]
    BY <1>1, <1>2, <2>2
  <2>4. k - 1 \in 0..n /\ k - 1 \notin bad
    <3> HIDE DEF bad
    <3>1. k - 1 \in 0..n /\ ~(k <= k - 1)
      BY <1>1, <2>3
    <3> QED BY <2>2, <3>1
  <2>5. k \in 1..Len(s) /\ k \in 1..Len(t) /\ t[k] = s[k]
    BY <1>1, <2>3
  <2> QED BY <1>2, <2>3, <2>4, <2>5
<1>4. n \in 0..n
  BY <1>1
<1> QED BY <1>3, <1>4 DEF g, h

\* Equal stretches of two sequences, the second further on by a fixed shift, add the same.
LEMMA SameSuffix ==
    ASSUME NEW s \in Seq(Int), NEW t \in Seq(Int), NEW a \in 0..Len(s), NEW b \in 0..Len(t),
           Len(t) - b = Len(s) - a, \A i \in (a + 1)..Len(s) : t[i - a + b] = s[i]
    PROVE  Total(t) - PartialSums(t)[b] = Total(s) - PartialSums(s)[a]
<1> DEFINE g == PartialSums(s)
           h == PartialSums(t)
           e == b - a
           bad == {k \in a..Len(s) : h[k + e] - h[b] # g[k] - g[a]}
<1>1. /\ Len(s) \in Nat /\ Len(t) \in Nat /\ e \in Int /\ a \in Nat /\ b \in Nat /\ a + e = b /\ Len(s) + e = Len(t)
      /\ a <= Len(s) /\ b <= Len(t)
  OBVIOUS
<1>2. /\ \A k \in 1..Len(s) : g[k] = g[k - 1] + s[k]
      /\ \A k \in 1..Len(t) : h[k] = h[k - 1] + t[k]
      /\ \A k \in 0..Len(s) : g[k] \in Int
      /\ \A k \in 0..Len(t) : h[k] \in Int
      /\ \A k \in 1..Len(s) : s[k] \in Int
      /\ Total(s) = g[Len(s)] /\ Total(t) = h[Len(t)]
  BY PartialSumsAre
<1>3. \A k \in (a + 1)..Len(s) : t[k + e] = s[k]
  <2>1. \A k \in (a + 1)..Len(s) : k + e = k - a + b
    OBVIOUS
  <2> QED BY <2>1
<1> HIDE DEF g, h, e
<1>4. bad = {}
  <2>1. SUFFICES ASSUME bad # {} PROVE FALSE
    OBVIOUS
  <2> bad \in SUBSET Nat
    BY <1>1
  <2>2. PICK k \in bad : \A j \in bad : k <= j
    <3> HIDE DEF bad
    <3> QED BY <2>1, HasLeast
  <2>3. k \in a..Len(s) /\ h[k + e] - h[b] # g[k] - g[a]
    BY <2>2
  <2>4. k # a
    <3>1. a \in 0..Len(s) /\ b \in 0..Len(t)
      BY <1>1
    <3>2. h[b] \in Int /\ g[a] \in Int
      BY <1>2, <3>1
    <3>3. h[b] - h[b] = 0 /\ g[a] - g[a] = 0
      BY <3>2
    <3>4. SUFFICES ASSUME k = a PROVE FALSE
      OBVIOUS
    <3>5. h[a + e] - h[b] # g[a] - g[a]
      BY <2>3, <3>4
    <3> QED BY <1>1, <3>3, <3>5
  <2> DEFINE i == k - 1
             j == i + e
  <2>5. i \in a..Len(s) /\ k \in (a + 1)..Len(s) /\ i \notin bad /\ i \in 0..Len(s) /\ k \in 1..Len(s)
    <3> HIDE DEF bad
    <3>0. \A m, n \in Nat : \A x \in m..n : x # m => x - 1 \in m..n /\ ~(x <= x - 1)
      OBVIOUS
    <3>1. i \in a..Len(s) /\ ~(k <= i)
      BY ONLY <1>1, <2>3, <2>4, <3>0 DEF i
    <3> QED BY <1>1, <2>2, <2>3, <2>4, <3>1
  <2>6. h[j] - h[b] = g[i] - g[a]
    BY <2>5
  <2> DEFINE m == k + e
  <2>7. m \in 1..Len(t) /\ j = m - 1 /\ j \in 0..Len(t)
    BY ONLY <1>1, <2>5 DEF i, j, m
  <2>8. g[k] = g[i] + s[k] /\ h[m] = h[j] + s[k]
    BY <1>2, <1>3, <2>5, <2>7
  <2>9. g[i] \in Int /\ g[a] \in Int /\ h[j] \in Int /\ h[b] \in Int /\ s[k] \in Int
    BY <1>1, <1>2, <2>5, <2>7
  <2>10. h[m] - h[b] # g[k] - g[a]
    BY <2>3
  <2> DEFINE p == h[j]
             q == h[b]
             u == g[i]
             v == g[a]
             w == s[k]
  <2>11. p \in Int /\ q \in Int /\ u \in Int /\ v \in Int /\ w \in Int /\ p - q = u - v /\ (p + w) - q # (u + w) - v
    <3> HIDE DEF bad, i, j, m
    <3> QED BY <2>6, <2>8, <2>9, <2>10
  <2> HIDE DEF p, q, u, v, w
  <2> QED BY <2>11
<1>5. h[Len(s) + e] - h[b] = g[Len(s)] - g[a]
  <2>1. Len(s) \in a..Len(s)
    BY <1>1
  <2> QED BY <1>4, <2>1
<1> QED BY <1>1, <1>2, <1>5 DEF g, h

LEMMA TotalOfNone == Total(<<>>) = 0
<1>1. <<>> \in Seq(Int) /\ Len(<<>>) = 0
  OBVIOUS
<1> QED BY <1>1, PartialSumsAre

LEMMA TotalAppended ==
    ASSUME NEW s \in Seq(Int), NEW t \in Seq(Int), Len(t) = Len(s) + 1, \A k \in 1..Len(s) : t[k] = s[k]
    PROVE  Total(t) = Total(s) + t[Len(t)]
<1> DEFINE n == Len(s)
<1>1. n \in Nat /\ n + 1 = Len(t) /\ \A k \in 1..n : t[k] = s[k]
  OBVIOUS
<1>2. PartialSums(t)[n] = PartialSums(s)[n]
  <2>1. n \in 0..Len(s) /\ n <= Len(t)
    BY <1>1
  <2> QED BY <1>1, <2>1, SamePrefix
<1>3. /\ PartialSums(t)[0] = 0 /\ PartialSums(s)[0] = 0 /\ Total(s) = PartialSums(s)[n]
      /\ Total(t) = PartialSums(t)[n + 1] /\ PartialSums(t)[n + 1] = PartialSums(t)[(n + 1) - 1] + t[n + 1]
      /\ PartialSums(t)[n] \in Int /\ PartialSums(s)[n] \in Int
  <2>1. n \in 0..Len(s) /\ n \in 0..Len(t) /\ n + 1 \in 1..Len(t) /\ Len(t) = n + 1 /\ Len(s) = n
    BY <1>1
  <2>2. PartialSums(s)[0] = 0 /\ Total(s) = PartialSums(s)[Len(s)] /\ PartialSums(s)[n] \in Int
    BY <2>1, PartialSumsAre
  <2> HIDE DEF n
  <2>3. /\ PartialSums(t)[0] = 0 /\ Total(t) = PartialSums(t)[Len(t)] /\ PartialSums(t)[n] \in Int
        /\ PartialSums(t)[n + 1] = PartialSums(t)[(n + 1) - 1] + t[n + 1]
    BY <2>1, PartialSumsAre
  <2> QED BY ONLY <2>1, <2>2, <2>3
<1> HIDE DEF n
<1>4. (n + 1) - 1 = n /\ t[n + 1] \in Int
  <2>1. n + 1 \in 1..Len(t)
    BY <1>1
  <2> QED BY <1>1, <2>1
<1> QED BY <1>1, <1>2, <1>3, <1>4

LEMMA TotalReplaced ==
    ASSUME NEW s \in Seq(Int), NEW t \in Seq(Int), Len(t) = Len(s), NEW j \in 1..Len(s),
           \A k \in 1..Len(s) : k # j => t[k] = s[k]
    PROVE  Total(t) = Total(s) - s[j] + t[j]
<1> DEFINE n == Len(s)
           g == PartialSums(s)
           h == PartialSums(t)
<1>1. n \in Nat /\ Len(t) = n /\ j \in 1..n
  OBVIOUS
<1>2. h[j - 1] = g[j - 1]
  <2>1. \A x \in Nat : \A y \in 1..x : y - 1 \in 0..x /\ y - 1 <= x /\ \A i \in 1..(y - 1) : i \in 1..x /\ i # y
    OBVIOUS
  <2>2. j - 1 \in 0..n /\ j - 1 <= n /\ \A i \in 1..(j - 1) : i \in 1..n /\ i # j
    <3> HIDE DEF n
    <3> QED BY <1>1, <2>1
  <2>3. j - 1 \in 0..Len(s) /\ j - 1 <= Len(t) /\ \A i \in 1..(j - 1) : t[i] = s[i]
    BY <1>1, <2>2
  <2> QED BY <2>3, SamePrefix
<1>3. Total(t) - h[j] = Total(s) - g[j]
  <2>1. /\ j \in 0..Len(s) /\ j \in 0..Len(t) /\ Len(t) - j = Len(s) - j
        /\ \A i \in (j + 1)..Len(s) : t[i - j + j] = s[i]
    <3>1. \A i \in (j + 1)..Len(s) : i - j + j = i /\ i \in 1..Len(s) /\ i # j
      BY <1>1
    <3> QED BY <1>1, <3>1
  <2> QED BY <2>1, SameSuffix
<1>4. /\ g[0] = 0 /\ h[0] = 0 /\ Total(s) = g[n] /\ Total(t) = h[n]
      /\ g[j] = g[j - 1] + s[j] /\ h[j] = h[j - 1] + t[j]
      /\ \A k \in 0..n : g[k] \in Int /\ h[k] \in Int
      /\ s[j] \in Int /\ t[j] \in Int
  BY <1>1, PartialSumsAre
<1> HIDE DEF n, g, h
<1>5. /\ g[j - 1] \in Int /\ g[j] \in Int /\ g[n] \in Int /\ h[j - 1] \in Int /\ h[j] \in Int /\ h[n] \in Int
  <2>1. j - 1 \in 0..n /\ j \in 0..n /\ n \in 0..n
    BY <1>1
  <2> QED BY <1>4, <2>1
<1> DEFINE p == Total(t)
           q == Total(s)
           u == g[j - 1]
           v == s[j]
           w == t[j]
<1>6. p \in Int /\ q \in Int /\ u \in Int /\ v \in Int /\ w \in Int /\ p - (u + w) = q - (u + v)
  <2>1. h[j] = u + w /\ g[j] = u + v /\ p \in Int /\ q \in Int
    BY <1>2, <1>4, <1>5
  <2> QED BY <1>3, <1>4, <1>5, <2>1
<1>7. SUFFICES p = q - v + w
  OBVIOUS
<1> HIDE DEF p, q, u, v, w
<1>8. p = q - v + w
  BY <1>6
<1> QED BY <1>8

LEMMA TotalRemoved ==
    ASSUME NEW s \in Seq(Int), NEW t \in Seq(Int), Len(t) = Len(s) - 1, NEW j \in 1..Len(s),
           \A k \in 1..Len(t) : t[k] = IF k < j THEN s[k] ELSE s[k + 1]
    PROVE  Total(t) = Total(s) - s[j]
<1> DEFINE n == Len(s)
           g == PartialSums(s)
           h == PartialSums(t)
<1>1. n \in Nat /\ Len(t) = n - 1 /\ j \in 1..n /\ \A k \in 1..(n - 1) : t[k] = IF k < j THEN s[k] ELSE s[k + 1]
  OBVIOUS
<1>2. h[j - 1] = g[j - 1]
  <2>1. j - 1 \in 0..Len(s) /\ j - 1 <= Len(t)
    BY <1>1
  <2>2. ASSUME NEW i \in 1..(j - 1) PROVE t[i] = s[i]
    <3>1. i \in 1..(n - 1) /\ i < j
      BY <1>1
    <3> QED BY <1>1, <3>1
  <2> QED BY <2>1, <2>2, SamePrefix
<1>3. Total(t) - h[j - 1] = Total(s) - g[j]
  <2>1. j \in 0..Len(s) /\ j - 1 \in 0..Len(t) /\ Len(t) - (j - 1) = Len(s) - j
    BY <1>1
  <2>2. ASSUME NEW i \in (j + 1)..Len(s) PROVE t[i - j + (j - 1)] = s[i]
    <3>0. n \in Nat /\ j \in 1..n /\ i \in (j + 1)..n /\ Len(t) = n - 1
      BY <1>1
    <3>1. i - j + (j - 1) = i - 1 /\ i - 1 \in 1..Len(t) /\ ~(i - 1 < j) /\ (i - 1) + 1 = i
      BY ONLY <3>0
    <3> QED BY <1>1, <3>1
  <2> QED BY <2>1, <2>2, SameSuffix
<1>4. /\ g[0] = 0 /\ h[0] = 0 /\ Total(s) = g[n] /\ Total(t) = h[n - 1]
      /\ g[j] = g[j - 1] + s[j]
      /\ \A k \in 0..n : g[k] \in Int
      /\ \A k \in 0..(n - 1) : h[k] \in Int
      /\ s[j] \in Int
  <2>1. g[0] = 0 /\ Total(s) = g[n] /\ g[j] = g[j - 1] + s[j] /\ (\A k \in 0..n : g[k] \in Int) /\ s[j] \in Int
    <3>1. /\ g[0] = 0 /\ Total(s) = g[Len(s)] /\ \A k \in 1..Len(s) : g[k] = g[k - 1] + s[k]
          /\ \A k \in 0..Len(s) : g[k] \in Int
      BY PartialSumsAre
    <3> QED BY <1>1, <3>1
  <2>2. h[0] = 0 /\ Total(t) = h[Len(t)] /\ \A k \in 0..Len(t) : h[k] \in Int
    BY PartialSumsAre
  <2> QED BY <1>1, <2>1, <2>2
<1> HIDE DEF n, g, h
<1>5. g[j - 1] \in Int /\ g[j] \in Int /\ g[n] \in Int /\ h[j - 1] \in Int /\ h[n - 1] \in Int
  <2>1. j - 1 \in 0..n /\ j \in 0..n /\ n \in 0..n /\ j - 1 \in 0..(n - 1) /\ n - 1 \in 0..(n - 1)
    BY <1>1
  <2> QED BY <1>4, <2>1
<1> DEFINE p == Total(t)
           q == Total(s)
           u == g[j - 1]
           v == s[j]
<1>6. p \in Int /\ q \in Int /\ u \in Int /\ v \in Int /\ p - u = q - (u + v)
  <2>1. h[j - 1] = u /\ g[j] = u + v /\ p \in Int /\ q \in Int
    BY <1>2, <1>4, <1>5
  <2> QED BY <1>3, <1>4, <1>5, <2>1
<1>7. SUFFICES p = q - v
  OBVIOUS
<1> HIDE DEF p, q, u, v
<1> QED BY <1>6, Dropped

\* A sum of multiples is the multiple of the sum.
LEMMA TotalScaled ==
    ASSUME NEW s \in Seq(Int), NEW t \in Seq(Int), NEW u \in Seq(Int), NEW c \in Int,
           Len(t) = Len(s), Len(u) = Len(s), \A k \in 1..Len(s) : u[k] = s[k] + c * t[k]
    PROVE  Total(u) = Total(s) + c * Total(t)
<1> DEFINE n == Len(s)
           f == PartialSums(s)
           g == PartialSums(t)
           h == PartialSums(u)
           bad == {k \in 0..n : h[k] # f[k] + c * g[k]}
<1>1. n \in Nat /\ Len(t) = n /\ Len(u) = n /\ \A k \in 1..n : u[k] = s[k] + c * t[k]
  OBVIOUS
<1>2. /\ f[0] = 0 /\ g[0] = 0 /\ h[0] = 0 /\ Total(s) = f[n] /\ Total(t) = g[n] /\ Total(u) = h[n]
      /\ \A k \in 1..n : f[k] = f[k - 1] + s[k] /\ g[k] = g[k - 1] + t[k] /\ h[k] = h[k - 1] + u[k]
      /\ \A k \in 0..n : f[k] \in Int /\ g[k] \in Int /\ h[k] \in Int
      /\ \A k \in 1..n : s[k] \in Int /\ t[k] \in Int
  <2>1. f[0] = 0 /\ Total(s) = f[n] /\ (\A k \in 1..n : f[k] = f[k - 1] + s[k]) /\ \A k \in 0..n : f[k] \in Int
    BY PartialSumsAre
  <2>2. g[0] = 0 /\ Total(t) = g[n] /\ (\A k \in 1..n : g[k] = g[k - 1] + t[k]) /\ \A k \in 0..n : g[k] \in Int
    BY <1>1, PartialSumsAre
  <2>3. h[0] = 0 /\ Total(u) = h[n] /\ (\A k \in 1..n : h[k] = h[k - 1] + u[k]) /\ \A k \in 0..n : h[k] \in Int
    BY <1>1, PartialSumsAre
  <2>4. \A k \in 1..n : s[k] \in Int /\ t[k] \in Int
    BY <1>1
  <2> HIDE DEF n, f, g, h
  <2> QED BY <2>1, <2>2, <2>3, <2>4
<1> HIDE DEF n, f, g, h
<1>3. bad = {}
  <2>1. SUFFICES ASSUME bad # {} PROVE FALSE
    OBVIOUS
  <2> bad \in SUBSET Nat
    BY <1>1
  <2>2. PICK k \in bad : \A j \in bad : k <= j
    <3> HIDE DEF bad
    <3> QED BY <2>1, HasLeast
  <2>3. k \in 0..n /\ h[k] # f[k] + c * g[k]
    BY <2>2
  <2>4. k \in 1..n
    BY <1>1, <1>2, <2>3
  <2>5. k - 1 \in 0..n /\ k - 1 \notin bad
    <3> HIDE DEF bad
    <3> QED BY <1>1, <2>2, <2>4
  <2>6. h[k - 1] = f[k - 1] + c * g[k - 1]
    BY <2>5
  <2> HIDE DEF bad
  <2>7. c * (g[k - 1] + t[k]) = c * g[k - 1] + c * t[k]
    <3>1. g[k - 1] \in Int /\ t[k] \in Int
      BY <1>2, <2>4, <2>5
    <3>2. \A x, y \in Int : c * (x + y) = c * x + c * y
      OBVIOUS
    <3> QED BY ONLY <3>1, <3>2
  <2>8. /\ f[k] = f[k - 1] + s[k] /\ g[k] = g[k - 1] + t[k] /\ h[k] = h[k - 1] + (s[k] + c * t[k])
        /\ f[k - 1] \in Int /\ g[k - 1] \in Int /\ h[k - 1] \in Int /\ s[k] \in Int /\ t[k] \in Int
    BY <1>1, <1>2, <2>4, <2>5
  <2>9. c * g[k - 1] \in Int /\ c * t[k] \in Int
    <3>1. \A x \in Int : c * x \in Int
      OBVIOUS
    <3> QED BY ONLY <2>8, <3>1
  <2> DEFINE p == f[k - 1]
             q == c * g[k - 1]
             v == c * t[k]
             w == s[k]
  <2>10. p \in Int /\ q \in Int /\ v \in Int /\ w \in Int /\ h[k] = (p + q) + (w + v) /\ f[k] = p + w /\ c * g[k] = q + v
    BY <2>6, <2>7, <2>8, <2>9
  <2>11. h[k] # f[k] + c * g[k]
    BY <2>3
  <2> HIDE DEF p, q, v, w
  <2> QED BY <2>10, <2>11
<1>4. n \in 0..n /\ n \notin bad
  <2>1. n \in 0..n
    BY <1>1
  <2> QED BY <1>3, <2>1
<1> QED BY <1>2, <1>4

\* With nothing negative, a part is at most the whole.
LEMMA TotalCovers ==
    ASSUME NEW s \in Seq(Int), \A k \in 1..Len(s) : s[k] >= 0
    PROVE  Total(s) >= 0 /\ \A k \in 1..Len(s) : s[k] <= Total(s)
<1> DEFINE n == Len(s)
           g == PartialSums(s)
           bad == {k \in 0..n : ~(g[k] >= 0 /\ \A i \in 1..k : s[i] <= g[k])}
<1>1. n \in Nat /\ \A k \in 1..n : s[k] \in Int /\ s[k] >= 0
  OBVIOUS
<1>2. /\ g[0] = 0 /\ Total(s) = g[n] /\ \A k \in 1..n : g[k] = g[k - 1] + s[k]
      /\ \A k \in 0..n : g[k] \in Int
  BY <1>1, PartialSumsAre
<1> HIDE DEF n, g
<1>3. bad = {}
  <2>1. SUFFICES ASSUME bad # {} PROVE FALSE
    OBVIOUS
  <2> bad \in SUBSET Nat
    BY <1>1
  <2>2. PICK k \in bad : \A j \in bad : k <= j
    <3> HIDE DEF bad
    <3> QED BY <2>1, HasLeast
  <2>3. k \in 0..n /\ ~(g[k] >= 0 /\ \A i \in 1..k : s[i] <= g[k])
    BY <2>2
  <2>4. k \in 1..n
    BY <1>1, <1>2, <2>3
  <2>5. k - 1 \in 0..n /\ k - 1 \notin bad
    <3> HIDE DEF bad
    <3> QED BY <1>1, <2>2, <2>4
  <2>6. g[k - 1] >= 0 /\ \A i \in 1..(k - 1) : s[i] <= g[k - 1]
    BY <2>5
  <2> HIDE DEF bad
  <2>7. g[k] = g[k - 1] + s[k] /\ g[k] \in Int /\ g[k - 1] \in Int /\ s[k] \in Int /\ s[k] >= 0
    BY <1>1, <1>2, <2>4, <2>5
  <2>8. ASSUME NEW i \in 1..k PROVE s[i] <= g[k]
    <3>1. CASE i = k
      BY <2>6, <2>7, <3>1
    <3>2. CASE i # k
      <4>1. i \in 1..(k - 1) /\ s[i] \in Int
        BY <1>1, <2>4, <3>2
      <4> QED BY <2>6, <2>7, <4>1
    <3> QED BY <3>1, <3>2
  <2> QED BY <2>3, <2>6, <2>7, <2>8
<1>4. n \in 0..n /\ n \notin bad
  <2>1. n \in 0..n
    BY <1>1
  <2> QED BY <1>3, <2>1
<1> QED BY <1>2, <1>4 DEF n

-----------------------------------------------------------------------------
(* The engine: what a run is made of. *)

BookLegs == [strategy : STRING, lots : Nat \ {0}, entry : Int, fee : Int, swap : Int]
OpenBooks == [key : Nat, symbol : STRING, side : {-1, 1}, lots : Nat \ {0}, entry : Int, fresh : BOOLEAN,
              sl : Int, tp : Int, held : Int, partial : BOOLEAN, be : BOOLEAN, legs : Seq(BookLegs)]
Codes == {"", "cap", "gap or mask", "signal_exit", "stop_loss", "take_profit", "max_bars", "merge_offset", "partial_exit",
          "daily_loss_limit", "max_drawdown", "end_of_data"}
Entries == [type : {"close", "reject"}, symbol : STRING, strategy : STRING, side : Int, code : Codes]
           \cup [type : {"open"}, symbol : STRING, strategy : STRING, side : Int, code : Codes,
                 books : Seq(STRING \X Int), basis : Int]
Quotes == {FirstClose} \cup UNION {[SymbolsOf(lines) -> MarketBars] : lines \in LineSets}
Signals == UNION {DesiredOf(lines) : lines \in LineSets}
Runs == [lines : LineSets, cfg : Configs, cash : Int, basis : Int, peak : Int, dayStart : Int, dayHalted : BOOLEAN,
         ddHalted : BOOLEAN, books : Seq(OpenBooks), opened : Nat, booked : Int, log : Seq(Entries),
         prev : Quotes, desired : Signals, bar : Int, done : BOOLEAN]

Names(legs) == {legs[j].strategy : j \in DOMAIN legs}
Distinct(legs) == \A j, m \in DOMAIN legs : j # m => legs[j].strategy # legs[m].strategy
\* A book is the sum of its legs, one leg per strategy.
Whole(b) == b.lots = LegLots(b.legs) /\ Distinct(b.legs)
\* Two books of one account.
Apart(cfg, p, q) ==
    /\ p.key # q.key
    /\ p.symbol = q.symbol => cfg.mode = "hedging" /\ Names(p.legs) \cap Names(q.legs) = {}
\* The books of one account.
Fit(books, cfg, opened, lines) ==
    /\ Len(books) <= cfg.maxBooks
    /\ \A k \in DOMAIN books : Whole(books[k]) /\ books[k].key <= opened /\ books[k].symbol \in SymbolsOf(lines)
    /\ \A j, k \in DOMAIN books : j # k => Apart(cfg, books[j], books[k])
Ledger(r) == r.cash = Capital + r.booked - Owed(r.books)
Quoted(r) == r.desired \in DesiredOf(r.lines) /\ \A s \in SymbolsOf(r.lines) : r.prev[s] \in Candles
Sound(r) == r \in Runs /\ Ledger(r) /\ Fit(r.books, r.cfg, r.opened, r.lines) /\ Quoted(r)

\* What no book keeps, and what a bar has done so far.
Fixed(r) == <<r.lines, r.cfg, r.basis, r.peak, r.dayStart, r.dayHalted, r.ddHalted, r.prev, r.desired, r.bar, r.done>>
LinesLeft(r) == {<<r.log[k].symbol, r.log[k].strategy>> :
               k \in {i \in DOMAIN r.log : r.log[i].type = "close" /\ r.log[i].code = "signal_exit"}}
Entered(r) == {<<r.log[k].symbol, r.log[k].strategy>> : k \in {i \in DOMAIN r.log : r.log[i].type = "open"}}
KeysOf(r) == {r.books[k].key : k \in DOMAIN r.books}

LEMMA ConfigIs ==
    ASSUME NEW r \in Runs
    PROVE  /\ r.cfg.spread \in Int /\ r.cfg.slippage \in Int /\ r.cfg.commission \in Int /\ r.cfg.commissionMin \in Int
           /\ r.cfg.swapLong \in Int /\ r.cfg.swapShort \in Int /\ r.cfg.risk \in Int /\ r.cfg.maxLots \in Int
           /\ r.cfg.weight \in Int /\ r.cfg.trail \in Int /\ r.cfg.beOffset \in Int
           /\ r.cfg.maxBooks \in Nat \ {0} /\ r.cfg.mode \in {"netting", "hedging"}
<1>1. r.cfg \in Configs
  BY DEF Runs
<1> QED BY <1>1, EngineAssumption

LEMMA ScalarsAre == Capital \in Int /\ SlAtr \in Int /\ TpAtr \in Int /\ TickProfit \in Int /\ TickLoss \in Int
BY EngineAssumption, GridAssumption

LEMMA CommissionIsInt == ASSUME NEW r \in Runs, NEW lots \in Int PROVE Commission(r.cfg, lots) \in Int
<1> DEFINE cash == r.cfg.commission * lots
<1>1. cash \in Int /\ r.cfg.commissionMin \in Int
  BY ConfigIs
<1>2. Max({cash, r.cfg.commissionMin}) \in Int
  BY <1>1, MaxOfTwo
<1> QED BY <1>1, <1>2 DEF Commission

LEMMA LegCashIsInt ==
    ASSUME NEW side \in {-1, 1}, NEW lots \in Int, NEW entry \in Int, NEW price \in Int
    PROVE  LegCash(side, lots, entry, price) \in Int
<1>1. side * (price - entry) \in Int /\ TickValue(side, price - entry) \in Int
  BY ScalarsAre DEF TickValue
<1> DEFINE m == side * (price - entry)
           v == TickValue(side, price - entry)
<1>2. LegCash(side, lots, entry, price) = m * v * lots
  BY DEF LegCash
<1> HIDE DEF m, v
<1>3. m * v * lots \in Int
  BY <1>1 DEF m, v
<1> QED BY <1>2, <1>3

LEMMA QuotientIsInt == ASSUME NEW x \in Int, NEW d \in Nat \ {0} PROVE x \div d \in Int
OBVIOUS

LEMMA Removed ==
    ASSUME NEW S, NEW s \in Seq(S), NEW k \in 1..Len(s)
    PROVE  /\ RemoveAt(s, k) \in Seq(S) /\ Len(RemoveAt(s, k)) = Len(s) - 1
           /\ \A i \in 1..(Len(s) - 1) : RemoveAt(s, k)[i] = IF i < k THEN s[i] ELSE s[i + 1]
<1> DEFINE a == SubSeq(s, 1, k - 1)
           b == SubSeq(s, k + 1, Len(s))
<1>1. Len(s) \in Nat /\ DOMAIN s = 1..Len(s) /\ k \in 1..Len(s)
  OBVIOUS
<1>2. a \in Seq(S) /\ Len(a) = k - 1 /\ \A i \in 1..(k - 1) : a[i] = s[i]
  BY <1>1
<1>3. b \in Seq(S) /\ Len(b) = Len(s) - k /\ \A i \in 1..(Len(s) - k) : b[i] = s[k + i]
  <2>1. \A i \in (k + 1)..Len(s) : s[i] \in S
    BY <1>1
  <2>2. k + 1 \in Int /\ Len(s) \in Int
    BY <1>1
  <2>3. /\ b \in Seq(S) /\ Len(b) = (IF k + 1 <= Len(s) THEN Len(s) - (k + 1) + 1 ELSE 0)
        /\ \A i \in 1..(Len(s) - (k + 1) + 1) : b[i] = s[(k + 1) + i - 1]
    BY <2>1, <2>2, SubSeqProperties
  <2> HIDE DEF b
  <2>4. Len(s) - (k + 1) + 1 = Len(s) - k /\ \A i \in 1..(Len(s) - k) : (k + 1) + i - 1 = k + i
    BY <1>1
  <2>5. Len(b) = Len(s) - k
    <3>1. Len(b) = (IF k + 1 <= Len(s) THEN Len(s) - (k + 1) + 1 ELSE 0)
      BY <2>3
    <3> DEFINE n == Len(s)
    <3>2. n \in Int /\ k \in Int /\ k <= n
      BY <1>1
    <3> HIDE DEF n
    <3>3. CASE k + 1 <= n
      BY <3>1, <3>2, <3>3 DEF n
    <3>4. CASE ~(k + 1 <= n)
      <4>1. n - k = 0
        BY <3>2, <3>4
      <4> QED BY <3>1, <3>4, <4>1 DEF n
    <3> QED BY <3>3, <3>4
  <2>6. \A i \in 1..(Len(s) - k) : b[i] = s[k + i]
    BY <2>3, <2>4
  <2> QED BY <2>3, <2>5, <2>6
<1> HIDE DEF a, b
<1>4. /\ a \o b \in Seq(S) /\ Len(a \o b) = Len(a) + Len(b)
      /\ \A i \in 1..(Len(a) + Len(b)) : (a \o b)[i] = IF i <= Len(a) THEN a[i] ELSE b[i - Len(a)]
  BY <1>2, <1>3, ConcatProperties
<1>5. Len(a) + Len(b) = Len(s) - 1
  BY <1>1, <1>2, <1>3
<1>6. ASSUME NEW i \in 1..(Len(s) - 1) PROVE (a \o b)[i] = IF i < k THEN s[i] ELSE s[i + 1]
  <2>1. (a \o b)[i] = IF i <= k - 1 THEN a[i] ELSE b[i - (k - 1)]
    BY <1>2, <1>4, <1>5
  <2>2. CASE i < k
    <3>1. i <= k - 1 /\ i \in 1..(k - 1)
      BY <1>1, <2>2
    <3> QED BY <1>2, <2>1, <2>2, <3>1
  <2>3. CASE ~(i < k)
    <3>1. ~(i <= k - 1) /\ i - (k - 1) \in 1..(Len(s) - k) /\ k + (i - (k - 1)) = i + 1
      BY <1>1, <2>3
    <3> QED BY <1>3, <2>1, <2>3, <3>1
  <2> QED BY <2>2, <2>3
<1>7. RemoveAt(s, k) = a \o b
  BY DEF RemoveAt, a, b
<1> QED BY <1>4, <1>5, <1>6, <1>7

-----------------------------------------------------------------------------
(* The engine: the legs of a book. *)

LotsOf(legs) == [j \in DOMAIN legs |-> legs[j].lots]
FeesOf(legs) == [j \in DOMAIN legs |-> legs[j].fee + legs[j].swap]

LEMMA LegSums ==
    ASSUME NEW legs \in Seq(BookLegs)
    PROVE  /\ LotsOf(legs) \in Seq(Int) /\ Len(LotsOf(legs)) = Len(legs) /\ LegLots(legs) = Total(LotsOf(legs))
           /\ FeesOf(legs) \in Seq(Int) /\ Len(FeesOf(legs)) = Len(legs) /\ LegFees(legs) = Total(FeesOf(legs))
           /\ LegLots(legs) \in Int /\ LegFees(legs) \in Int
           /\ \A j \in 1..Len(legs) : /\ LotsOf(legs)[j] = legs[j].lots /\ FeesOf(legs)[j] = legs[j].fee + legs[j].swap
                                      /\ LotsOf(legs)[j] > 0
<1>1. Len(legs) \in Nat /\ DOMAIN legs = 1..Len(legs)
  OBVIOUS
<1>2. \A j \in 1..Len(legs) : legs[j].lots \in Nat \ {0} /\ legs[j].fee + legs[j].swap \in Int
  <2>1. \A j \in 1..Len(legs) : legs[j] \in BookLegs
    BY <1>1
  <2>2. \A leg \in BookLegs : leg.lots \in Nat \ {0} /\ leg.fee + leg.swap \in Int
    BY DEF BookLegs
  <2> QED BY ONLY <2>1, <2>2
<1>3. LotsOf(legs) \in Seq(Int) /\ Len(LotsOf(legs)) = Len(legs)
  BY <1>1, <1>2 DEF LotsOf
<1>4. FeesOf(legs) \in Seq(Int) /\ Len(FeesOf(legs)) = Len(legs)
  BY <1>1, <1>2 DEF FeesOf
<1>5. LegLots(legs) = Total(LotsOf(legs)) /\ LegFees(legs) = Total(FeesOf(legs))
  BY DEF LegLots, LegFees, LotsOf, FeesOf
<1>6. LegLots(legs) \in Int /\ LegFees(legs) \in Int
  BY <1>3, <1>4, <1>5, TotalIsInt
<1>7. \A j \in 1..Len(legs) : LotsOf(legs)[j] = legs[j].lots /\ FeesOf(legs)[j] = legs[j].fee + legs[j].swap
  BY <1>1 DEF LotsOf, FeesOf
<1> QED BY <1>2, <1>3, <1>4, <1>5, <1>6, <1>7

LEMMA NoLegs == LegLots(<<>>) = 0 /\ LegFees(<<>>) = 0
<1>1. <<>> \in Seq(BookLegs) /\ Len(<<>>) = 0
  OBVIOUS
<1>2. LotsOf(<<>>) = <<>> /\ FeesOf(<<>>) = <<>>
  BY DEF LotsOf, FeesOf
<1> QED BY <1>1, <1>2, LegSums, TotalOfNone

\* BookLegs have volume, so none is left when the sum is none; and a leg has no more than its book.
LEMMA NothingLeft ==
    ASSUME NEW legs \in Seq(BookLegs)
    PROVE  /\ LegLots(legs) >= 0 /\ (LegLots(legs) = 0 <=> legs = <<>>)
           /\ \A j \in 1..Len(legs) : legs[j].lots <= LegLots(legs)
<1> DEFINE s == LotsOf(legs)
<1>1. s \in Seq(Int) /\ Len(s) = Len(legs) /\ LegLots(legs) = Total(s) /\ Len(legs) \in Nat
  BY LegSums
<1>2. \A j \in 1..Len(s) : s[j] = legs[j].lots /\ s[j] > 0 /\ s[j] \in Int
  <2>1. \A j \in 1..Len(legs) : s[j] = legs[j].lots /\ s[j] > 0
    BY LegSums
  <2> HIDE DEF s
  <2>2. \A j \in 1..Len(s) : s[j] \in Int
    BY <1>1
  <2> QED BY <1>1, <2>1, <2>2
<1> HIDE DEF s
<1>3. Total(s) >= 0 /\ \A j \in 1..Len(s) : s[j] <= Total(s)
  <2>1. \A j \in 1..Len(s) : s[j] >= 0
    BY <1>2
  <2> QED BY <1>1, <2>1, TotalCovers
<1>4. ASSUME LegLots(legs) = 0 PROVE legs = <<>>
  <2>1. SUFFICES ASSUME Len(legs) # 0 PROVE FALSE
    OBVIOUS
  <2>2. 1 \in 1..Len(s)
    BY <1>1, <2>1
  <2> QED BY <1>1, <1>2, <1>3, <1>4, <2>2
<1> QED BY <1>1, <1>2, <1>3, <1>4, NoLegs

LEMMA LegAdded ==
    ASSUME NEW legs \in Seq(BookLegs), NEW leg \in BookLegs
    PROVE  /\ Append(legs, leg) \in Seq(BookLegs)
           /\ LegLots(Append(legs, leg)) = LegLots(legs) + leg.lots
           /\ LegFees(Append(legs, leg)) = LegFees(legs) + leg.fee + leg.swap
<1> DEFINE more == Append(legs, leg)
<1>1. /\ more \in Seq(BookLegs) /\ Len(more) = Len(legs) + 1 /\ more[Len(legs) + 1] = leg /\ Len(legs) \in Nat
      /\ \A j \in 1..Len(legs) : more[j] = legs[j]
  OBVIOUS
<1> HIDE DEF more
<1>2. /\ LotsOf(more) \in Seq(Int) /\ Len(LotsOf(more)) = Len(more) /\ LegLots(more) = Total(LotsOf(more))
      /\ FeesOf(more) \in Seq(Int) /\ Len(FeesOf(more)) = Len(more) /\ LegFees(more) = Total(FeesOf(more))
      /\ \A j \in 1..Len(more) : LotsOf(more)[j] = more[j].lots /\ FeesOf(more)[j] = more[j].fee + more[j].swap
  BY <1>1, LegSums
<1>3. /\ LotsOf(legs) \in Seq(Int) /\ Len(LotsOf(legs)) = Len(legs) /\ LegLots(legs) = Total(LotsOf(legs))
      /\ FeesOf(legs) \in Seq(Int) /\ Len(FeesOf(legs)) = Len(legs) /\ LegFees(legs) = Total(FeesOf(legs))
      /\ \A j \in 1..Len(legs) : LotsOf(legs)[j] = legs[j].lots /\ FeesOf(legs)[j] = legs[j].fee + legs[j].swap
      /\ LegLots(legs) \in Int /\ LegFees(legs) \in Int
  BY LegSums
<1>4. \A j \in 1..Len(legs) : j \in 1..Len(more)
  BY <1>1
<1>5. Len(more) \in 1..Len(more) /\ more[Len(more)] = leg
  BY <1>1
<1>6. Total(LotsOf(more)) = Total(LotsOf(legs)) + leg.lots
  <2>1. Len(LotsOf(more)) = Len(LotsOf(legs)) + 1 /\ \A j \in 1..Len(LotsOf(legs)) : LotsOf(more)[j] = LotsOf(legs)[j]
    BY <1>1, <1>2, <1>3, <1>4
  <2>2. Total(LotsOf(more)) = Total(LotsOf(legs)) + LotsOf(more)[Len(LotsOf(more))]
    BY <1>2, <1>3, <2>1, TotalAppended
  <2> QED BY <1>2, <1>5, <2>2
<1>7. Total(FeesOf(more)) = Total(FeesOf(legs)) + (leg.fee + leg.swap)
  <2>1. Len(FeesOf(more)) = Len(FeesOf(legs)) + 1 /\ \A j \in 1..Len(FeesOf(legs)) : FeesOf(more)[j] = FeesOf(legs)[j]
    BY <1>1, <1>2, <1>3, <1>4
  <2>2. Total(FeesOf(more)) = Total(FeesOf(legs)) + FeesOf(more)[Len(FeesOf(more))]
    BY <1>2, <1>3, <2>1, TotalAppended
  <2> QED BY <1>2, <1>5, <2>2
<1>8. leg.fee \in Int /\ leg.swap \in Int
  BY DEF BookLegs
<1> QED BY <1>1, <1>2, <1>3, <1>6, <1>7, <1>8 DEF more

LEMMA WholeShare == ASSUME NEW x \in Int, NEW d \in Nat \ {0} PROVE (x * d) \div d = x
OBVIOUS

Rest(legs, j, take) ==
    IF take = legs[j].lots THEN RemoveAt(legs, j) ELSE ReplaceAt(legs, j, Reduced(legs[j], take))
Share(x, legs, j, take) == (x * take) \div legs[j].lots

LEMMA LegRemoved ==
    ASSUME NEW legs \in Seq(BookLegs), NEW j \in 1..Len(legs), Distinct(legs)
    PROVE  LET rest == RemoveAt(legs, j) IN
           /\ rest \in Seq(BookLegs) /\ Len(rest) = Len(legs) - 1 /\ Distinct(rest) /\ Names(rest) \subseteq Names(legs)
           /\ LegLots(rest) = LegLots(legs) - legs[j].lots
           /\ LegFees(rest) = LegFees(legs) - (legs[j].fee + legs[j].swap)
<1> DEFINE rest == RemoveAt(legs, j)
           n == Len(legs)
           from(i) == IF i < j THEN i ELSE i + 1
<1>1. n \in Nat /\ DOMAIN legs = 1..n /\ j \in 1..n
  OBVIOUS
<1>2. /\ rest \in Seq(BookLegs) /\ Len(rest) = n - 1
      /\ \A i \in 1..(n - 1) : rest[i] = IF i < j THEN legs[i] ELSE legs[i + 1]
  BY Removed
<1> HIDE DEF rest, n
<1>3. DOMAIN rest = 1..(n - 1) /\ \A i \in 1..(n - 1) : from(i) \in 1..n /\ rest[i] = legs[from(i)]
  BY <1>1, <1>2
<1>4. \A i, m \in 1..(n - 1) : i # m => from(i) # from(m)
  BY <1>1
<1> HIDE DEF from
<1>5. Distinct(rest)
  BY <1>1, <1>3, <1>4 DEF Distinct
<1>6. Names(rest) \subseteq Names(legs)
  BY <1>1, <1>3 DEF Names
<1>7. /\ LotsOf(rest) \in Seq(Int) /\ Len(LotsOf(rest)) = n - 1 /\ LegLots(rest) = Total(LotsOf(rest))
      /\ FeesOf(rest) \in Seq(Int) /\ Len(FeesOf(rest)) = n - 1 /\ LegFees(rest) = Total(FeesOf(rest))
      /\ \A i \in 1..(n - 1) : LotsOf(rest)[i] = rest[i].lots /\ FeesOf(rest)[i] = rest[i].fee + rest[i].swap
  BY <1>2, LegSums
<1>8. /\ LotsOf(legs) \in Seq(Int) /\ Len(LotsOf(legs)) = n /\ LegLots(legs) = Total(LotsOf(legs))
      /\ FeesOf(legs) \in Seq(Int) /\ Len(FeesOf(legs)) = n /\ LegFees(legs) = Total(FeesOf(legs))
      /\ \A i \in 1..n : LotsOf(legs)[i] = legs[i].lots /\ FeesOf(legs)[i] = legs[i].fee + legs[i].swap
  BY LegSums DEF n
<1>9. \A i \in 1..(n - 1) : /\ LotsOf(rest)[i] = (IF i < j THEN LotsOf(legs)[i] ELSE LotsOf(legs)[i + 1])
                            /\ FeesOf(rest)[i] = (IF i < j THEN FeesOf(legs)[i] ELSE FeesOf(legs)[i + 1])
  <2>1. TAKE i \in 1..(n - 1)
  <2>2. i \in 1..n /\ i + 1 \in 1..n
    BY <1>1
  <2> QED BY <1>2, <1>7, <1>8, <2>2
<1>10. Total(LotsOf(rest)) = Total(LotsOf(legs)) - LotsOf(legs)[j]
  <2> DEFINE s == LotsOf(legs)
             t == LotsOf(rest)
  <2>1. s \in Seq(Int) /\ t \in Seq(Int) /\ Len(s) = n /\ Len(t) = n - 1
        /\ \A i \in 1..(n - 1) : t[i] = IF i < j THEN s[i] ELSE s[i + 1]
    BY <1>7, <1>8, <1>9
  <2> HIDE DEF s, t
  <2>2. Len(t) = Len(s) - 1 /\ j \in 1..Len(s) /\ \A i \in 1..Len(t) : t[i] = IF i < j THEN s[i] ELSE s[i + 1]
    BY <1>1, <2>1
  <2>3. Total(t) = Total(s) - s[j]
    BY <2>1, <2>2, TotalRemoved
  <2> QED BY <2>3 DEF s, t
<1>11. Total(FeesOf(rest)) = Total(FeesOf(legs)) - FeesOf(legs)[j]
  <2> DEFINE s == FeesOf(legs)
             t == FeesOf(rest)
  <2>1. s \in Seq(Int) /\ t \in Seq(Int) /\ Len(s) = n /\ Len(t) = n - 1
        /\ \A i \in 1..(n - 1) : t[i] = IF i < j THEN s[i] ELSE s[i + 1]
    BY <1>7, <1>8, <1>9
  <2> HIDE DEF s, t
  <2>2. Len(t) = Len(s) - 1 /\ j \in 1..Len(s) /\ \A i \in 1..Len(t) : t[i] = IF i < j THEN s[i] ELSE s[i + 1]
    BY <1>1, <2>1
  <2>3. Total(t) = Total(s) - s[j]
    BY <2>1, <2>2, TotalRemoved
  <2> QED BY <2>3 DEF s, t
<1> QED BY <1>1, <1>2, <1>5, <1>6, <1>7, <1>8, <1>10, <1>11 DEF rest, n

LEMMA LegReplaced ==
    ASSUME NEW legs \in Seq(BookLegs), NEW j \in 1..Len(legs), Distinct(legs), NEW leg \in BookLegs,
           leg.strategy = legs[j].strategy
    PROVE  LET rest == ReplaceAt(legs, j, leg) IN
           /\ rest \in Seq(BookLegs) /\ Len(rest) = Len(legs) /\ Distinct(rest) /\ Names(rest) \subseteq Names(legs)
           /\ LegLots(rest) = LegLots(legs) - legs[j].lots + leg.lots
           /\ LegFees(rest) = LegFees(legs) - (legs[j].fee + legs[j].swap) + (leg.fee + leg.swap)
<1> DEFINE rest == ReplaceAt(legs, j, leg)
           n == Len(legs)
<1>1. n \in Nat /\ DOMAIN legs = 1..n /\ j \in 1..n
  OBVIOUS
<1>2. /\ rest \in Seq(BookLegs) /\ Len(rest) = n
      /\ \A i \in 1..n : rest[i] = IF i = j THEN leg ELSE legs[i]
  BY ExceptSeq DEF ReplaceAt
<1> HIDE DEF rest, n
<1>3. DOMAIN rest = 1..n /\ \A i \in 1..n : rest[i].strategy = legs[i].strategy
  BY <1>1, <1>2
<1>5. Distinct(rest)
  BY <1>1, <1>3 DEF Distinct
<1>6. Names(rest) \subseteq Names(legs)
  BY <1>1, <1>3 DEF Names
<1>7. /\ LotsOf(rest) \in Seq(Int) /\ Len(LotsOf(rest)) = n /\ LegLots(rest) = Total(LotsOf(rest))
      /\ FeesOf(rest) \in Seq(Int) /\ Len(FeesOf(rest)) = n /\ LegFees(rest) = Total(FeesOf(rest))
      /\ \A i \in 1..n : LotsOf(rest)[i] = rest[i].lots /\ FeesOf(rest)[i] = rest[i].fee + rest[i].swap
  BY <1>2, LegSums
<1>8. /\ LotsOf(legs) \in Seq(Int) /\ Len(LotsOf(legs)) = n /\ LegLots(legs) = Total(LotsOf(legs))
      /\ FeesOf(legs) \in Seq(Int) /\ Len(FeesOf(legs)) = n /\ LegFees(legs) = Total(FeesOf(legs))
      /\ \A i \in 1..n : LotsOf(legs)[i] = legs[i].lots /\ FeesOf(legs)[i] = legs[i].fee + legs[i].swap
  BY LegSums DEF n
<1>9. \A i \in 1..n : i # j => LotsOf(rest)[i] = LotsOf(legs)[i] /\ FeesOf(rest)[i] = FeesOf(legs)[i]
  BY <1>2, <1>7, <1>8
<1>10. Total(LotsOf(rest)) = Total(LotsOf(legs)) - LotsOf(legs)[j] + LotsOf(rest)[j]
  <2> DEFINE s == LotsOf(legs)
             t == LotsOf(rest)
  <2>1. s \in Seq(Int) /\ t \in Seq(Int) /\ Len(s) = n /\ Len(t) = n /\ \A i \in 1..n : i # j => t[i] = s[i]
    BY <1>7, <1>8, <1>9
  <2> HIDE DEF s, t
  <2>2. Len(t) = Len(s) /\ j \in 1..Len(s) /\ \A i \in 1..Len(s) : i # j => t[i] = s[i]
    BY <1>1, <2>1
  <2>3. Total(t) = Total(s) - s[j] + t[j]
    BY <2>1, <2>2, TotalReplaced
  <2> QED BY <2>3 DEF s, t
<1>11. Total(FeesOf(rest)) = Total(FeesOf(legs)) - FeesOf(legs)[j] + FeesOf(rest)[j]
  <2> DEFINE s == FeesOf(legs)
             t == FeesOf(rest)
  <2>1. s \in Seq(Int) /\ t \in Seq(Int) /\ Len(s) = n /\ Len(t) = n /\ \A i \in 1..n : i # j => t[i] = s[i]
    BY <1>7, <1>8, <1>9
  <2> HIDE DEF s, t
  <2>2. Len(t) = Len(s) /\ j \in 1..Len(s) /\ \A i \in 1..Len(s) : i # j => t[i] = s[i]
    BY <1>1, <2>1
  <2>3. Total(t) = Total(s) - s[j] + t[j]
    BY <2>1, <2>2, TotalReplaced
  <2> QED BY <2>3 DEF s, t
<1>12. LotsOf(rest)[j] = leg.lots /\ FeesOf(rest)[j] = leg.fee + leg.swap
  BY <1>1, <1>2, <1>7
<1> QED BY <1>1, <1>2, <1>5, <1>6, <1>7, <1>8, <1>10, <1>11, <1>12 DEF rest, n

\* What is taken off a leg, and the share of its fees that goes with it.
LegLess(rest, legs, j, take) ==
    /\ rest \in Seq(BookLegs) /\ Distinct(rest) /\ Names(rest) \subseteq Names(legs)
    /\ Len(rest) = (IF take = legs[j].lots THEN Len(legs) - 1 ELSE Len(legs))
    /\ Share(legs[j].fee, legs, j, take) \in Int /\ Share(legs[j].swap, legs, j, take) \in Int
    /\ LegLots(rest) = LegLots(legs) - take
    /\ LegFees(rest) = LegFees(legs) - (Share(legs[j].fee, legs, j, take) + Share(legs[j].swap, legs, j, take))
LEMMA LegTaken ==
    ASSUME NEW legs \in Seq(BookLegs), NEW j \in 1..Len(legs), Distinct(legs), NEW take \in 1..legs[j].lots
    PROVE  LegLess(Rest(legs, j, take), legs, j, take)
<1> DEFINE lots == legs[j].lots
           fee == Share(legs[j].fee, legs, j, take)
           swap == Share(legs[j].swap, legs, j, take)
<1>1. legs[j] \in BookLegs
  OBVIOUS
<1>2. lots \in Nat \ {0} /\ legs[j].fee \in Int /\ legs[j].swap \in Int /\ take \in Nat \ {0} /\ take <= lots
  <2> DEFINE leg == legs[j]
  <2>1. leg \in BookLegs
    BY <1>1
  <2> HIDE DEF leg
  <2>2. leg.lots \in Nat \ {0} /\ leg.fee \in Int /\ leg.swap \in Int
    BY <2>1 DEF BookLegs
  <2> QED BY <2>2 DEF leg
<1>3. LegLots(legs) \in Int /\ LegFees(legs) \in Int
  BY LegSums
<1>4. fee \in Int /\ swap \in Int
  <2>1. legs[j].fee * take \in Int /\ legs[j].swap * take \in Int
    BY <1>2
  <2> QED BY <1>2, <2>1, QuotientIsInt DEF Share
<1>5. CASE take = lots
  <2>1. fee = legs[j].fee /\ swap = legs[j].swap
    BY <1>2, <1>5, WholeShare DEF Share
  <2>2. Rest(legs, j, take) = RemoveAt(legs, j)
    BY <1>5 DEF Rest
  <2> HIDE DEF fee, swap
  <2>3. LET rest == RemoveAt(legs, j) IN
        /\ rest \in Seq(BookLegs) /\ Len(rest) = Len(legs) - 1 /\ Distinct(rest) /\ Names(rest) \subseteq Names(legs)
        /\ LegLots(rest) = LegLots(legs) - legs[j].lots
        /\ LegFees(rest) = LegFees(legs) - (legs[j].fee + legs[j].swap)
    BY LegRemoved
  <2> QED BY <1>3, <1>4, <1>5, <2>1, <2>2, <2>3 DEF LegLess, fee, swap
<1>6. CASE take # lots
  <2> DEFINE leg == Reduced(legs[j], take)
  <2>1. leg = [legs[j] EXCEPT !.lots = lots - take, !.fee = legs[j].fee - fee, !.swap = legs[j].swap - swap]
    BY DEF Reduced, Share
  <2> HIDE DEF fee, swap
  <2>2. leg \in BookLegs /\ leg.strategy = legs[j].strategy /\ leg.lots = lots - take
        /\ leg.fee = legs[j].fee - fee /\ leg.swap = legs[j].swap - swap
    <3> DEFINE x == legs[j]
    <3>1. x \in BookLegs /\ lots = x.lots /\ leg = [x EXCEPT !.lots = lots - take, !.fee = x.fee - fee, !.swap = x.swap - swap]
      BY <1>1, <2>1
    <3>2. lots - take \in Nat \ {0} /\ x.fee - fee \in Int /\ x.swap - swap \in Int
      BY <1>2, <1>4, <1>6
    <3> HIDE DEF x, lots, leg
    <3>3. leg \in BookLegs /\ leg.strategy = x.strategy /\ leg.lots = lots - take
          /\ leg.fee = x.fee - fee /\ leg.swap = x.swap - swap
      BY <3>1, <3>2 DEF BookLegs
    <3> QED BY <3>3 DEF x
  <2>3. Rest(legs, j, take) = ReplaceAt(legs, j, leg)
    BY <1>6 DEF Rest
  <2> HIDE DEF leg
  <2>4. LET rest == ReplaceAt(legs, j, leg) IN
        /\ rest \in Seq(BookLegs) /\ Len(rest) = Len(legs) /\ Distinct(rest) /\ Names(rest) \subseteq Names(legs)
        /\ LegLots(rest) = LegLots(legs) - legs[j].lots + leg.lots
        /\ LegFees(rest) = LegFees(legs) - (legs[j].fee + legs[j].swap) + (leg.fee + leg.swap)
    BY <2>2, LegReplaced
  <2> DEFINE f == LegFees(legs)
             a == legs[j].fee
             b == legs[j].swap
             v == LegLots(legs)
  <2>5. v - lots + leg.lots = v - take
    <3> HIDE DEF v, lots
    <3> QED BY <1>2, <1>3, <2>2 DEF v
  <2>6. f - (a + b) + (leg.fee + leg.swap) = f - (fee + swap)
    <3>1. f \in Int /\ a \in Int /\ b \in Int /\ leg.fee = a - fee /\ leg.swap = b - swap
      BY <1>2, <1>3, <2>2
    <3> HIDE DEF f, a, b
    <3> QED BY <1>4, <3>1
  <2> QED BY <1>4, <1>6, <2>3, <2>4, <2>5, <2>6 DEF LegLess, fee, swap
<1> QED BY <1>5, <1>6

-----------------------------------------------------------------------------
(* The engine: the books of a run. *)

OwedOf(books) == [k \in DOMAIN books |-> LegFees(books[k].legs)]

LEMMA BookIs ==
    ASSUME NEW b \in OpenBooks
    PROVE  /\ b.key \in Nat /\ b.symbol \in STRING /\ b.side \in {-1, 1} /\ b.lots \in Nat \ {0} /\ b.entry \in Int
           /\ b.sl \in Int /\ b.tp \in Int /\ b.held \in Int /\ b.legs \in Seq(BookLegs) /\ b.legs \in Seq(BookLegs)
           /\ LegFees(b.legs) \in Int /\ LegLots(b.legs) \in Int
BY LegSums DEF OpenBooks

LEMMA OwedSum ==
    ASSUME NEW books \in Seq(OpenBooks)
    PROVE  /\ OwedOf(books) \in Seq(Int) /\ Len(OwedOf(books)) = Len(books) /\ Owed(books) = Total(OwedOf(books))
           /\ Owed(books) \in Int /\ \A k \in 1..Len(books) : OwedOf(books)[k] = LegFees(books[k].legs)
<1>1. Len(books) \in Nat /\ DOMAIN books = 1..Len(books) /\ \A k \in 1..Len(books) : books[k] \in OpenBooks
  OBVIOUS
<1>2. \A k \in 1..Len(books) : LegFees(books[k].legs) \in Int
  BY <1>1, BookIs
<1>3. /\ OwedOf(books) \in Seq(Int) /\ Len(OwedOf(books)) = Len(books)
      /\ \A k \in 1..Len(books) : OwedOf(books)[k] = LegFees(books[k].legs)
  BY <1>1, <1>2 DEF OwedOf
<1>4. Owed(books) = Total(OwedOf(books))
  BY DEF Owed, OwedOf
<1> QED BY <1>3, <1>4, TotalIsInt

LEMMA OwedReplaced ==
    ASSUME NEW books \in Seq(OpenBooks), NEW k \in 1..Len(books), NEW b \in OpenBooks
    PROVE  LET put == [books EXCEPT ![k] = b] IN
           /\ put \in Seq(OpenBooks) /\ Len(put) = Len(books) /\ \A i \in 1..Len(books) : put[i] = IF i = k THEN b ELSE books[i]
           /\ Owed(put) = Owed(books) - LegFees(books[k].legs) + LegFees(b.legs)
<1> DEFINE put == [books EXCEPT ![k] = b]
           n == Len(books)
           s == OwedOf(books)
           t == OwedOf(put)
<1>1. n \in Nat /\ k \in 1..n /\ DOMAIN books = 1..n
  OBVIOUS
<1>2. put \in Seq(OpenBooks) /\ Len(put) = n /\ \A i \in 1..n : put[i] = IF i = k THEN b ELSE books[i]
  BY ExceptSeq
<1> HIDE DEF put
<1>3. /\ s \in Seq(Int) /\ Len(s) = n /\ Owed(books) = Total(s)
      /\ \A i \in 1..n : s[i] = LegFees(books[i].legs)
  BY OwedSum
<1>4. /\ t \in Seq(Int) /\ Len(t) = n /\ Owed(put) = Total(t)
      /\ \A i \in 1..n : t[i] = LegFees(put[i].legs)
  BY <1>2, OwedSum
<1> HIDE DEF n, s, t
<1>5. Len(t) = Len(s) /\ k \in 1..Len(s) /\ \A i \in 1..Len(s) : i # k => t[i] = s[i]
  BY <1>1, <1>2, <1>3, <1>4
<1>6. Total(t) = Total(s) - s[k] + t[k]
  BY <1>3, <1>4, <1>5, TotalReplaced
<1> QED BY <1>1, <1>2, <1>3, <1>4, <1>6 DEF put, n

LEMMA OwedRemoved ==
    ASSUME NEW books \in Seq(OpenBooks), NEW k \in 1..Len(books)
    PROVE  Owed(RemoveAt(books, k)) = Owed(books) - LegFees(books[k].legs)
<1> DEFINE left == RemoveAt(books, k)
           n == Len(books)
           s == OwedOf(books)
           t == OwedOf(left)
<1>1. n \in Nat /\ k \in 1..n /\ DOMAIN books = 1..n
  OBVIOUS
<1>2. /\ left \in Seq(OpenBooks) /\ Len(left) = n - 1
      /\ \A i \in 1..(n - 1) : left[i] = IF i < k THEN books[i] ELSE books[i + 1]
  BY Removed
<1> HIDE DEF left
<1>3. /\ s \in Seq(Int) /\ Len(s) = n /\ Owed(books) = Total(s)
      /\ \A i \in 1..n : s[i] = LegFees(books[i].legs)
  BY OwedSum
<1>4. /\ t \in Seq(Int) /\ Len(t) = n - 1 /\ Owed(left) = Total(t)
      /\ \A i \in 1..(n - 1) : t[i] = LegFees(left[i].legs)
  <2>1. /\ t \in Seq(Int) /\ Len(t) = Len(left) /\ Owed(left) = Total(t)
        /\ \A i \in 1..Len(left) : t[i] = LegFees(left[i].legs)
    BY <1>2, OwedSum
  <2> HIDE DEF t
  <2> QED BY <1>2, <2>1
<1> HIDE DEF n, s, t
<1>5. Len(t) = Len(s) - 1 /\ k \in 1..Len(s) /\ \A i \in 1..Len(t) : t[i] = IF i < k THEN s[i] ELSE s[i + 1]
  <2>1. \A i \in 1..(n - 1) : i \in 1..n /\ i + 1 \in 1..n
    BY <1>1
  <2> QED BY <1>1, <1>2, <1>3, <1>4, <2>1
<1>6. Total(t) = Total(s) - s[k]
  BY <1>3, <1>4, <1>5, TotalRemoved
<1> QED BY <1>1, <1>3, <1>4, <1>6 DEF left

LEMMA OwedAppended ==
    ASSUME NEW books \in Seq(OpenBooks), NEW b \in OpenBooks
    PROVE  Owed(Append(books, b)) = Owed(books) + LegFees(b.legs)
<1> DEFINE more == Append(books, b)
           n == Len(books)
           s == OwedOf(books)
           t == OwedOf(more)
<1>1. n \in Nat /\ DOMAIN books = 1..n
  OBVIOUS
<1>2. more \in Seq(OpenBooks) /\ Len(more) = n + 1 /\ more[n + 1] = b /\ \A i \in 1..n : more[i] = books[i]
  OBVIOUS
<1> HIDE DEF more
<1>3. /\ s \in Seq(Int) /\ Len(s) = n /\ Owed(books) = Total(s)
      /\ \A i \in 1..n : s[i] = LegFees(books[i].legs)
  BY OwedSum
<1>4. /\ t \in Seq(Int) /\ Len(t) = n + 1 /\ Owed(more) = Total(t)
      /\ \A i \in 1..(n + 1) : t[i] = LegFees(more[i].legs)
  <2>1. /\ t \in Seq(Int) /\ Len(t) = Len(more) /\ Owed(more) = Total(t)
        /\ \A i \in 1..Len(more) : t[i] = LegFees(more[i].legs)
    BY <1>2, OwedSum
  <2> HIDE DEF t
  <2> QED BY <1>2, <2>1
<1> HIDE DEF n, s, t
<1>5. Len(t) = Len(s) + 1 /\ \A i \in 1..Len(s) : t[i] = s[i]
  <2>1. \A i \in 1..n : i \in 1..(n + 1)
    BY <1>1
  <2> QED BY <1>1, <1>2, <1>3, <1>4, <2>1
<1>6. Total(t) = Total(s) + t[Len(t)]
  BY <1>3, <1>4, <1>5, TotalAppended
<1>7. t[Len(t)] = LegFees(b.legs)
  <2>1. n + 1 \in 1..(n + 1)
    BY <1>1
  <2> QED BY <1>2, <1>4, <2>1
<1> QED BY <1>3, <1>4, <1>6, <1>7 DEF more

LEMMA FitReplaced ==
    ASSUME NEW books \in Seq(OpenBooks), NEW cfg, NEW opened, NEW lines, Fit(books, cfg, opened, lines),
           NEW k \in 1..Len(books), NEW b \in OpenBooks, b.key = books[k].key, b.symbol = books[k].symbol, Whole(b),
           \A j \in 1..Len(books) : j # k => Apart(cfg, books[j], b)
    PROVE  Fit([books EXCEPT ![k] = b], cfg, opened, lines)
<1> DEFINE put == [books EXCEPT ![k] = b]
           n == Len(books)
<1>1. n \in Nat /\ k \in 1..n /\ DOMAIN books = 1..n
  OBVIOUS
<1>2. put \in Seq(OpenBooks) /\ Len(put) = n /\ \A i \in 1..n : put[i] = IF i = k THEN b ELSE books[i]
  BY ExceptSeq
<1>3. DOMAIN put = 1..n
  OBVIOUS
<1> HIDE DEF put
<1>4. Len(put) <= cfg.maxBooks
  BY <1>2 DEF Fit
<1>5. ASSUME NEW i \in 1..n PROVE Whole(put[i]) /\ put[i].key <= opened /\ put[i].symbol \in SymbolsOf(lines)
  BY <1>1, <1>2 DEF Fit
<1>6. ASSUME NEW i \in 1..n, NEW j \in 1..n, i # j PROVE Apart(cfg, put[i], put[j])
  <2>1. CASE i = k
    <3>1. Apart(cfg, books[j], b) /\ put[i] = b /\ put[j] = books[j]
      BY <1>2, <1>6, <2>1
    <3> QED BY <3>1 DEF Apart
  <2>2. CASE j = k
    <3>1. Apart(cfg, books[i], b) /\ put[j] = b /\ put[i] = books[i]
      BY <1>2, <1>6, <2>2
    <3> QED BY <3>1
  <2>3. CASE i # k /\ j # k
    BY <1>1, <1>2, <1>6, <2>3 DEF Fit
  <2> QED BY <2>1, <2>2, <2>3
<1> QED BY <1>3, <1>4, <1>5, <1>6 DEF Fit, put

\* Fewer traders keep a book apart.
LEMMA ApartStill ==
    ASSUME NEW cfg, NEW p, NEW b, NEW c, Apart(cfg, p, b), c.key = b.key, c.symbol = b.symbol, Names(c.legs) \subseteq Names(b.legs)
    PROVE  Apart(cfg, p, c)
BY DEF Apart

LEMMA FitRemoved ==
    ASSUME NEW books \in Seq(OpenBooks), NEW cfg, cfg.maxBooks \in Nat, NEW opened, NEW lines, Fit(books, cfg, opened, lines),
           NEW k \in 1..Len(books)
    PROVE  Fit(RemoveAt(books, k), cfg, opened, lines)
<1> DEFINE left == RemoveAt(books, k)
           n == Len(books)
           from(i) == IF i < k THEN i ELSE i + 1
<1>1. n \in Nat /\ k \in 1..n /\ DOMAIN books = 1..n
  OBVIOUS
<1>2. /\ left \in Seq(OpenBooks) /\ Len(left) = n - 1
      /\ \A i \in 1..(n - 1) : left[i] = IF i < k THEN books[i] ELSE books[i + 1]
  BY Removed
<1> HIDE DEF left
<1>3. DOMAIN left = 1..(n - 1)
  BY <1>2
<1>4. \A i \in 1..(n - 1) : from(i) \in 1..n /\ left[i] = books[from(i)]
  BY <1>1, <1>2
<1>5. \A i, j \in 1..(n - 1) : i # j => from(i) # from(j)
  BY <1>1
<1>6. n <= cfg.maxBooks
  BY DEF Fit
<1>7. n - 1 <= cfg.maxBooks
  <2> HIDE DEF n
  <2> QED BY <1>1, <1>6
<1> HIDE DEF from, n
<1> QED BY <1>1, <1>2, <1>3, <1>4, <1>5, <1>7 DEF Fit, left

LEMMA FitAppended ==
    ASSUME NEW books \in Seq(OpenBooks), NEW cfg, cfg.maxBooks \in Nat, NEW opened \in Nat, NEW lines,
           Fit(books, cfg, opened, lines), Len(books) < cfg.maxBooks, NEW b \in OpenBooks, b.key = opened + 1,
           Whole(b), b.symbol \in SymbolsOf(lines),
           \A j \in 1..Len(books) : books[j].symbol = b.symbol =>
                cfg.mode = "hedging" /\ Names(books[j].legs) \cap Names(b.legs) = {}
    PROVE  Fit(Append(books, b), cfg, opened + 1, lines)
<1> DEFINE more == Append(books, b)
           n == Len(books)
<1>1. n \in Nat /\ DOMAIN books = 1..n
  OBVIOUS
<1>2. more \in Seq(OpenBooks) /\ Len(more) = n + 1 /\ more[n + 1] = b /\ \A i \in 1..n : more[i] = books[i]
  OBVIOUS
<1>3. DOMAIN more = 1..(n + 1)
  BY <1>2
<1> HIDE DEF more
<1>4. Len(more) <= cfg.maxBooks
  BY <1>1, <1>2
<1>5. \A j \in 1..n : Whole(books[j]) /\ books[j].key <= opened /\ books[j].symbol \in SymbolsOf(lines)
  BY <1>1 DEF Fit
<1>6. \A j \in 1..n : books[j].key \in Nat
  BY <1>1, BookIs
<1>7. ASSUME NEW j \in 1..n PROVE Apart(cfg, books[j], b)
  <2>1. books[j].key # b.key
    BY <1>5, <1>6
  <2> QED BY <2>1 DEF Apart
<1>8. ASSUME NEW i \in 1..(n + 1)
      PROVE Whole(more[i]) /\ more[i].key <= opened + 1 /\ more[i].symbol \in SymbolsOf(lines)
  <2>1. CASE i = n + 1
    BY <1>2, <2>1
  <2>2. CASE i # n + 1
    <3>1. i \in 1..n
      BY <1>1, <2>2
    <3> QED BY <1>2, <1>5, <1>6, <3>1
  <2> QED BY <2>1, <2>2
<1>9. ASSUME NEW i \in 1..(n + 1), NEW j \in 1..(n + 1), i # j PROVE Apart(cfg, more[i], more[j])
  <2>1. CASE i = n + 1
    <3>1. j \in 1..n
      BY <1>1, <1>9, <2>1
    <3> QED BY <1>2, <1>7, <2>1, <3>1 DEF Apart
  <2>2. CASE j = n + 1
    <3>1. i \in 1..n
      BY <1>1, <1>9, <2>2
    <3> QED BY <1>2, <1>7, <2>2, <3>1
  <2>3. CASE i # n + 1 /\ j # n + 1
    <3>1. i \in 1..n
      BY <1>1, <2>3
    <3>2. j \in 1..n
      BY <1>1, <2>3
    <3> QED BY <1>1, <1>2, <1>9, <3>1, <3>2 DEF Fit
  <2> QED BY <2>1, <2>2, <2>3
<1> QED BY <1>3, <1>4, <1>8, <1>9 DEF Fit, more

-----------------------------------------------------------------------------
(* The engine: closing a leg. *)

LEMMA RunIs ==
    ASSUME NEW r \in Runs
    PROVE  /\ r.lines \in LineSets /\ r.cfg \in Configs /\ r.cash \in Int /\ r.basis \in Int /\ r.peak \in Int
           /\ r.dayStart \in Int /\ r.books \in Seq(OpenBooks) /\ r.opened \in Nat /\ r.booked \in Int
           /\ r.log \in Seq(Entries) /\ r.bar \in Int
BY DEF Runs

With(r, log, booked, cash, books) == [r EXCEPT !.log = log, !.booked = booked, !.cash = cash, !.books = books]
LEMMA Updated ==
    ASSUME NEW r \in Runs, NEW cash \in Int, NEW booked \in Int, NEW books \in Seq(OpenBooks), NEW log \in Seq(Entries)
    PROVE  LET s == With(r, log, booked, cash, books) IN
           /\ s \in Runs /\ s.log = log /\ s.booked = booked /\ s.cash = cash /\ s.books = books
           /\ Fixed(s) = Fixed(r) /\ s.opened = r.opened
BY DEF Runs, Fixed, With

LEMMA SameFixed ==
    ASSUME NEW r, NEW s, Fixed(s) = Fixed(r)
    PROVE  /\ s.lines = r.lines /\ s.cfg = r.cfg /\ s.basis = r.basis /\ s.peak = r.peak /\ s.dayStart = r.dayStart
           /\ s.dayHalted = r.dayHalted /\ s.ddHalted = r.ddHalted /\ s.prev = r.prev /\ s.desired = r.desired
           /\ s.bar = r.bar /\ s.done = r.done
BY DEF Fixed

LEMMA Noted ==
    ASSUME NEW r \in Runs, NEW e \in Entries, NEW s, s.log = Append(r.log, e)
    PROVE  /\ LinesLeft(s) = LinesLeft(r) \cup (IF e.type = "close" /\ e.code = "signal_exit" THEN {<<e.symbol, e.strategy>>} ELSE {})
           /\ Entered(s) = Entered(r) \cup (IF e.type = "open" THEN {<<e.symbol, e.strategy>>} ELSE {})
<1> DEFINE n == Len(r.log)
<1>1. r.log \in Seq(Entries)
  BY RunIs
<1>2. /\ n \in Nat /\ DOMAIN r.log = 1..n /\ DOMAIN s.log = 1..(n + 1) /\ s.log[n + 1] = e
      /\ \A k \in 1..n : s.log[k] = r.log[k]
  BY <1>1
<1> HIDE DEF n
<1>3. n + 1 \in 1..(n + 1) /\ \A k \in 1..n : k \in 1..(n + 1)
  BY <1>2
<1>4. \A k \in 1..(n + 1) : k = n + 1 \/ k \in 1..n
  BY <1>2
<1>5. LinesLeft(s) \subseteq LinesLeft(r) \cup (IF e.type = "close" /\ e.code = "signal_exit" THEN {<<e.symbol, e.strategy>>} ELSE {})
  BY <1>2, <1>3, <1>4 DEF LinesLeft
<1>6. LinesLeft(r) \cup (IF e.type = "close" /\ e.code = "signal_exit" THEN {<<e.symbol, e.strategy>>} ELSE {}) \subseteq LinesLeft(s)
  BY <1>2, <1>3, <1>4 DEF LinesLeft
<1>7. Entered(s) \subseteq Entered(r) \cup (IF e.type = "open" THEN {<<e.symbol, e.strategy>>} ELSE {})
  BY <1>2, <1>3, <1>4 DEF Entered
<1>8. Entered(r) \cup (IF e.type = "open" THEN {<<e.symbol, e.strategy>>} ELSE {}) \subseteq Entered(s)
  BY <1>2, <1>3, <1>4 DEF Entered
<1> QED BY <1>5, <1>6, <1>7, <1>8

LEMMA SameLog == ASSUME NEW r, NEW s, s.log = r.log PROVE LinesLeft(s) = LinesLeft(r) /\ Entered(s) = Entered(r)
BY DEF LinesLeft, Entered

CloseEvent(r, k, j, reason) ==
    [type |-> "close", symbol |-> r.books[k].symbol, strategy |-> r.books[k].legs[j].strategy,
     side |-> r.books[k].side, code |-> reason]
Cut(b, j, take) == [b EXCEPT !.legs = Rest(b.legs, j, take), !.lots = @ - take]
NetOf(r, k, j, take, fill, exitFee) ==
    LET b == r.books[k] IN
    LegCash(b.side, take, b.legs[j].entry, fill) - Share(b.legs[j].fee, b.legs, j, take)
        - Share(b.legs[j].swap, b.legs, j, take) - exitFee
PutIn(books, k, b) == IF b.lots = 0 THEN RemoveAt(books, k) ELSE ReplaceAt(books, k, b)

AfterClose(r, k, j, take, fill, reason, exitFee) ==
    With(r, Append(r.log, CloseEvent(r, k, j, reason)), r.booked + NetOf(r, k, j, take, fill, exitFee),
         r.cash + LegCash(r.books[k].side, take, r.books[k].legs[j].entry, fill) - exitFee,
         PutIn(r.books, k, Cut(r.books[k], j, take)))

LEMMA CloseLegIs ==
    ASSUME NEW r \in Runs, NEW k, NEW j, NEW take, NEW fill, NEW reason, NEW exitFee
    PROVE  CloseLeg(r, k, j, take, fill, reason, exitFee) = AfterClose(r, k, j, take, fill, reason, exitFee)
<1> DEFINE b == r.books[k]
           leg == b.legs[j]
           p == Row(r, b, leg, take, fill, reason, exitFee)
           net == NetOf(r, k, j, take, fill, exitFee)
           cash == LegCash(b.side, take, leg.entry, fill)
           log == Append(r.log, CloseEvent(r, k, j, reason))
           c == Cut(b, j, take)
<1>1. p = [[r EXCEPT !.log = log] EXCEPT !.booked = @ + net]
  BY DEF Row, Note, NetOf, Share, CloseEvent
<1>2. CloseLeg(r, k, j, take, fill, reason, exitFee) = PutBook([p EXCEPT !.cash = @ + cash - exitFee], k, c)
  BY DEF CloseLeg, Cut, Rest
<1> HIDE DEF p, net, cash, log, c
<1>3. [p EXCEPT !.cash = @ + cash - exitFee]
         = [r EXCEPT !.log = log, !.booked = r.booked + net, !.cash = r.cash + cash - exitFee]
  BY <1>1 DEF Runs
<1>4. PutBook([p EXCEPT !.cash = @ + cash - exitFee], k, c)
         = [r EXCEPT !.log = log, !.booked = r.booked + net, !.cash = r.cash + cash - exitFee, !.books = PutIn(r.books, k, c)]
  BY <1>3 DEF Runs, PutBook, PutIn
<1> QED BY <1>2, <1>4 DEF AfterClose, With, net, cash, log, c

LEMMA EntryIs ==
    ASSUME NEW type \in {"close", "reject"}, NEW x \in STRING, NEW y \in STRING, NEW z \in Int, NEW code \in Codes,
           NEW e, e = [type |-> type, symbol |-> x, strategy |-> y, side |-> z, code |-> code]
    PROVE  e \in Entries /\ e.type = type /\ e.code = code /\ e.symbol = x /\ e.strategy = y
BY DEF Entries

LEMMA LedgerKept ==
    ASSUME NEW v \in Int, NEW u \in Int, NEW o \in Int, NEW p \in Int, NEW cash \in Int, NEW fee \in Int, NEW swap \in Int,
           NEW exitFee \in Int, NEW capital \in Int, v = capital + u - o, p = o - (fee + swap)
    PROVE  v + cash - exitFee = capital + (u + (cash - fee - swap - exitFee)) - p
OBVIOUS

\* engine.py close_slices, close_strategy_legs: what a closed leg or a part of one leaves.
LegClosed(s, r, k, j, take, reason) ==
    /\ Sound(s) /\ Fixed(s) = Fixed(r) /\ s.opened = r.opened
    /\ Entered(s) = Entered(r)
    /\ LinesLeft(s) = LinesLeft(r) \cup (IF reason = "signal_exit" THEN {<<r.books[k].symbol, r.books[k].legs[j].strategy>>} ELSE {})
    /\ take <= r.books[k].lots
    /\ take = r.books[k].lots => s.books = RemoveAt(r.books, k)
    /\ take # r.books[k].lots =>
          /\ Cut(r.books[k], j, take) \in OpenBooks /\ Whole(Cut(r.books[k], j, take))
          /\ s.books = [r.books EXCEPT ![k] = Cut(r.books[k], j, take)]
LEMMA LegCloses ==
    ASSUME NEW r, Sound(r), NEW k \in 1..Len(r.books), NEW j \in 1..Len(r.books[k].legs),
           NEW take \in 1..r.books[k].legs[j].lots, NEW fill \in Int, NEW reason \in Codes, NEW exitFee \in Int
    PROVE  LegClosed(CloseLeg(r, k, j, take, fill, reason, exitFee), r, k, j, take, reason)
<1> DEFINE b == r.books[k]
           leg == b.legs[j]
           c == Cut(b, j, take)
           rest == Rest(b.legs, j, take)
           fee == Share(leg.fee, b.legs, j, take)
           swap == Share(leg.swap, b.legs, j, take)
           cash == LegCash(b.side, take, leg.entry, fill)
           e == CloseEvent(r, k, j, reason)
           s == CloseLeg(r, k, j, take, fill, reason, exitFee)
           books == PutIn(r.books, k, c)
<1>1. r \in Runs /\ Ledger(r) /\ Fit(r.books, r.cfg, r.opened, r.lines) /\ Quoted(r)
  BY DEF Sound
<1>2. /\ r.cash \in Int /\ r.booked \in Int /\ r.books \in Seq(OpenBooks) /\ r.log \in Seq(Entries)
      /\ r.cfg \in Configs /\ r.cfg.maxBooks \in Nat
  BY <1>1, RunIs, ConfigIs
<1>3. b \in OpenBooks /\ Whole(b)
  BY <1>1, <1>2 DEF Fit
<1>4. b.symbol \in STRING /\ b.side \in {-1, 1} /\ b.lots \in Nat \ {0} /\ b.legs \in Seq(BookLegs)
  BY <1>3, BookIs
<1>5. leg \in BookLegs /\ leg.strategy \in STRING /\ leg.entry \in Int /\ leg.lots \in Nat \ {0}
  <2>1. leg \in BookLegs
    BY <1>4
  <2> HIDE DEF leg
  <2> QED BY <2>1 DEF BookLegs
<1>6. Distinct(b.legs) /\ b.lots = LegLots(b.legs)
  BY <1>3 DEF Whole
<1>7. /\ rest \in Seq(BookLegs) /\ Distinct(rest) /\ Names(rest) \subseteq Names(b.legs)
      /\ fee \in Int /\ swap \in Int /\ LegLots(rest) = LegLots(b.legs) - take
      /\ LegFees(rest) = LegFees(b.legs) - (fee + swap)
  <2>1. LegLess(rest, b.legs, j, take)
    BY <1>4, <1>6, LegTaken
  <2> QED BY <2>1 DEF LegLess
<1>8. take \in Int /\ take <= b.lots /\ take >= 1
  <2>1. leg.lots <= LegLots(b.legs)
    BY <1>4, NothingLeft
  <2> HIDE DEF leg, b
  <2> QED BY <1>4, <1>5, <1>6, <2>1 DEF leg, b
<1>9. cash \in Int
  BY <1>4, <1>5, <1>8, LegCashIsInt
<1>10. e \in Entries /\ e.type = "close" /\ e.code = reason /\ e.symbol = b.symbol /\ e.strategy = leg.strategy
  <2> DEFINE x == b.symbol
             y == leg.strategy
             z == b.side
  <2>1. e = [type |-> "close", symbol |-> x, strategy |-> y, side |-> z, code |-> reason]
    BY DEF CloseEvent
  <2>2. x \in STRING /\ y \in STRING /\ z \in Int
    BY <1>4, <1>5
  <2> HIDE DEF x, y, z, e
  <2>3. e \in Entries /\ e.type = "close" /\ e.code = reason /\ e.symbol = x /\ e.strategy = y
    BY <2>1, <2>2, EntryIs
  <2> QED BY <2>3 DEF x, y
<1>11. c.lots = b.lots - take /\ c.legs = rest /\ c.key = b.key /\ c.symbol = b.symbol
  <2> HIDE DEF b, rest
  <2>1. c = [b EXCEPT !.legs = rest, !.lots = @ - take]
    BY DEF Cut, rest, b
  <2> HIDE DEF c
  <2> QED BY <1>3, <2>1 DEF OpenBooks
<1>12. s = AfterClose(r, k, j, take, fill, reason, exitFee)
  BY <1>1, CloseLegIs
<1>13. NetOf(r, k, j, take, fill, exitFee) = cash - fee - swap - exitFee
  BY DEF NetOf
<1>14. r.booked + NetOf(r, k, j, take, fill, exitFee) \in Int /\ r.cash + cash - exitFee \in Int
  <2> HIDE DEF cash, fee, swap
  <2>1. r.booked \in Int /\ r.cash \in Int /\ exitFee \in Int
    BY <1>2
  <2>2. cash - fee - swap - exitFee \in Int /\ r.cash + cash - exitFee \in Int
    BY ONLY <1>7, <1>9, <2>1
  <2>3. \A x, y \in Int : x + y \in Int
    OBVIOUS
  <2> QED BY ONLY <1>13, <2>1, <2>2, <2>3
<1>15. ASSUME take = b.lots
      PROVE  /\ books \in Seq(OpenBooks) /\ Owed(books) = Owed(r.books) - (fee + swap) /\ Fit(books, r.cfg, r.opened, r.lines)
             /\ books = RemoveAt(r.books, k)
  <2>1. c.lots = 0 /\ LegLots(rest) = 0
    <3> HIDE DEF b, c, rest
    <3> QED BY <1>4, <1>6, <1>7, <1>8, <1>11, <1>15
  <2>2. rest = <<>>
    BY <1>7, <2>1, NothingLeft
  <2>3. LegFees(b.legs) = fee + swap
    <3>1. LegFees(rest) = 0
      BY <2>2, NoLegs
    <3>2. LegFees(b.legs) \in Int
      BY <1>3, BookIs
    <3> DEFINE x == LegFees(b.legs)
    <3> HIDE DEF fee, swap, rest, b, x
    <3>3. 0 = x - (fee + swap) /\ x \in Int /\ fee \in Int /\ swap \in Int
      BY <1>7, <3>1, <3>2 DEF x
    <3>4. x = fee + swap
      BY <3>3
    <3> QED BY <3>4 DEF x
  <2>4. books = RemoveAt(r.books, k)
    BY <2>1 DEF PutIn
  <2>5. books \in Seq(OpenBooks)
    BY <1>2, <2>4, Removed
  <2>6. Owed(books) = Owed(r.books) - (fee + swap)
    BY <1>2, <2>3, <2>4, OwedRemoved
  <2>7. Fit(books, r.cfg, r.opened, r.lines)
    BY <1>1, <1>2, <2>4, FitRemoved
  <2> QED BY <2>4, <2>5, <2>6, <2>7
<1>16. ASSUME take # b.lots
      PROVE  /\ books \in Seq(OpenBooks) /\ Owed(books) = Owed(r.books) - (fee + swap) /\ Fit(books, r.cfg, r.opened, r.lines)
             /\ c \in OpenBooks /\ Whole(c) /\ books = [r.books EXCEPT ![k] = c]
  <2>1. c.lots # 0 /\ c.lots \in Nat \ {0} /\ c.lots = LegLots(rest)
    <3> HIDE DEF b, c, rest
    <3>1. b.lots \in Nat /\ take \in Int /\ take <= b.lots /\ take # b.lots
      BY <1>4, <1>8, <1>16
    <3>2. c.lots = b.lots - take /\ LegLots(rest) = b.lots - take
      BY <1>6, <1>7, <1>11
    <3> QED BY ONLY <3>1, <3>2
  <2>2. c \in OpenBooks
    <3> HIDE DEF b, rest
    <3>1. c = [b EXCEPT !.legs = rest, !.lots = b.lots - take]
      BY DEF Cut, rest, b
    <3> DEFINE v == b.lots - take
    <3>2. v \in Nat \ {0}
      BY <1>11, <2>1
    <3> HIDE DEF c, v
    <3>3. c = [b EXCEPT !.legs = rest, !.lots = v]
      BY <3>1 DEF v
    <3> QED BY <1>3, <1>7, <3>2, <3>3 DEF OpenBooks
  <2>3. Whole(c)
    <3> HIDE DEF c, rest
    <3> QED BY <1>7, <1>11, <2>1 DEF Whole
  <2>4. books = [r.books EXCEPT ![k] = c]
    BY <2>1 DEF PutIn, ReplaceAt
  <2>5. books \in Seq(OpenBooks)
    BY <1>2, <2>2, <2>4, OwedReplaced
  <2>6. Owed(books) = Owed(r.books) - (fee + swap)
    <3>1. Owed(books) = Owed(r.books) - LegFees(b.legs) + LegFees(rest)
      BY <1>2, <1>11, <2>2, <2>4, OwedReplaced
    <3>2. LegFees(b.legs) \in Int /\ Owed(r.books) \in Int
      BY <1>2, <1>3, BookIs, OwedSum
    <3> DEFINE x == LegFees(b.legs)
               o == Owed(r.books)
               p == Owed(books)
    <3>3. p = o - x + (x - (fee + swap)) /\ x \in Int /\ o \in Int
      BY <1>7, <3>1, <3>2
    <3> HIDE DEF fee, swap, x, o, p
    <3>4. p = o - (fee + swap)
      BY <1>7, <3>3
    <3> QED BY <3>4 DEF o, p
  <2>7. Fit(books, r.cfg, r.opened, r.lines)
    <3>1. ASSUME NEW i \in 1..Len(r.books), i # k PROVE Apart(r.cfg, r.books[i], c)
      <4>1. Apart(r.cfg, r.books[i], b)
        BY <1>1, <1>2, <3>1 DEF Fit
      <4> HIDE DEF b, c, rest
      <4> QED BY <1>7, <1>11, <4>1, ApartStill
    <3>2. c.key = r.books[k].key /\ c.symbol = r.books[k].symbol
      BY <1>11
    <3> HIDE DEF c, b, rest, books
    <3>3. Fit([r.books EXCEPT ![k] = c], r.cfg, r.opened, r.lines)
      BY <1>1, <1>2, <2>2, <2>3, <3>1, <3>2, FitReplaced
    <3> QED BY <2>4, <3>3
  <2> QED BY <2>2, <2>3, <2>4, <2>5, <2>6, <2>7
<1>17. /\ books \in Seq(OpenBooks) /\ Owed(books) = Owed(r.books) - (fee + swap) /\ Fit(books, r.cfg, r.opened, r.lines)
       /\ IF take = b.lots THEN books = RemoveAt(r.books, k)
          ELSE c \in OpenBooks /\ Whole(c) /\ books = [r.books EXCEPT ![k] = c]
  <2> HIDE DEF books, fee, swap, c, b
  <2> QED BY <1>15, <1>16 DEF books, fee, swap, c, b
<1> DEFINE net == NetOf(r, k, j, take, fill, exitFee)
           log == Append(r.log, e)
<1>18. s = With(r, log, r.booked + net, r.cash + cash - exitFee, books)
  BY <1>12 DEF AfterClose
<1>19. log \in Seq(Entries)
  <2> HIDE DEF e
  <2> QED BY <1>2, <1>10
<1> HIDE DEF books, c, fee, swap, cash, e, s, leg, rest, net, log, b
<1>20. /\ s \in Runs /\ s.log = log /\ s.booked = r.booked + net
       /\ s.cash = r.cash + cash - exitFee /\ s.books = books /\ Fixed(s) = Fixed(r) /\ s.opened = r.opened
  <2> DEFINE x == r.booked + net
             y == r.cash + cash - exitFee
  <2>1. x \in Int /\ y \in Int
    BY <1>14 DEF net
  <2>2. s = With(r, log, x, y, books)
    BY <1>18
  <2> HIDE DEF x, y
  <2>3. /\ s \in Runs /\ s.log = log /\ s.booked = x
        /\ s.cash = y /\ s.books = books /\ Fixed(s) = Fixed(r) /\ s.opened = r.opened
    <3>1. r \in Runs /\ books \in Seq(OpenBooks)
      BY <1>1, <1>17
    <3>2. With(r, log, x, y, books) \in Runs
      BY <1>19, <2>1, <3>1, Updated
    <3>3. With(r, log, x, y, books).log = log
      BY <1>19, <2>1, <3>1, Updated
    <3>4. With(r, log, x, y, books).booked = x
      BY <1>19, <2>1, <3>1, Updated
    <3>5. With(r, log, x, y, books).cash = y
      BY <1>19, <2>1, <3>1, Updated
    <3>6. With(r, log, x, y, books).books = books
      BY <1>19, <2>1, <3>1, Updated
    <3>7. Fixed(With(r, log, x, y, books)) = Fixed(r)
      BY <1>19, <2>1, <3>1, Updated
    <3>8. With(r, log, x, y, books).opened = r.opened
      BY <1>19, <2>1, <3>1, Updated
    <3> QED BY <2>2, <3>2, <3>3, <3>4, <3>5, <3>6, <3>7, <3>8
  <2> QED BY <2>3 DEF x, y
<1>21. Ledger(s)
  <2>1. r.cash = Capital + r.booked - Owed(r.books) /\ Owed(r.books) \in Int /\ Capital \in Int
    BY <1>1, <1>2, OwedSum, ScalarsAre DEF Ledger
  <2>2. net = cash - fee - swap - exitFee
    BY <1>13 DEF net
  <2> DEFINE o == Owed(r.books)
             p == Owed(books)
             u == r.booked
             v == r.cash
  <2>3. v = Capital + u - o /\ p = o - (fee + swap) /\ o \in Int /\ u \in Int
    BY <1>2, <1>17, <2>1
  <2> HIDE DEF o, p, u, v
  <2>4. v + cash - exitFee = Capital + (u + (cash - fee - swap - exitFee)) - p
    <3>1. fee \in Int /\ swap \in Int /\ v \in Int /\ p \in Int
      BY <1>2, <1>7, <2>3 DEF v
    <3>2. Capital \in Int
      BY ScalarsAre
    <3>3. v = Capital + u - o /\ p = o - (fee + swap)
      BY <2>3
    <3> QED BY <1>9, <2>3, <3>1, <3>2, <3>3, LedgerKept
  <2> QED BY <1>20, <2>2, <2>4 DEF o, p, u, v, Ledger
<1>22. Quoted(s) /\ Fit(s.books, s.cfg, s.opened, s.lines)
  <2>1. s.lines = r.lines /\ s.cfg = r.cfg /\ s.prev = r.prev /\ s.desired = r.desired
    BY <1>20, SameFixed
  <2> QED BY <1>1, <1>17, <1>20, <2>1 DEF Quoted
<1>23. /\ LinesLeft(s) = LinesLeft(r) \cup (IF reason = "signal_exit" THEN {<<b.symbol, leg.strategy>>} ELSE {})
       /\ Entered(s) = Entered(r)
  <2>1. s.log = Append(r.log, e)
    BY <1>20 DEF log
  <2>2. /\ LinesLeft(s) = LinesLeft(r) \cup (IF e.type = "close" /\ e.code = "signal_exit" THEN {<<e.symbol, e.strategy>>} ELSE {})
        /\ Entered(s) = Entered(r) \cup (IF e.type = "open" THEN {<<e.symbol, e.strategy>>} ELSE {})
    BY <1>1, <1>10, <2>1, Noted
  <2> QED BY <1>10, <2>2
<1>24. Sound(s)
  BY <1>20, <1>21, <1>22 DEF Sound
<1> USE DEF b, c, leg
<1> QED BY <1>8, <1>17, <1>20, <1>23, <1>24 DEF LegClosed, s

-----------------------------------------------------------------------------
(* The engine: closing a volume, first in, first out. *)

\* The run kept its books and its day, but for the ones named.
Still(s, r) ==
    Sound(s) /\ Fixed(s) = Fixed(r) /\ s.opened = r.opened /\ LinesLeft(s) = LinesLeft(r) /\ Entered(s) = Entered(r)
Without(s, r, k) ==
    /\ Len(s.books) = Len(r.books) - 1
    /\ \A i \in 1..(Len(r.books) - 1) : s.books[i] = IF i < k THEN r.books[i] ELSE r.books[i + 1]
Smaller(s, r, k) ==
    /\ Len(s.books) = Len(r.books) /\ \A i \in 1..Len(r.books) : i # k => s.books[i] = r.books[i]
    /\ s.books[k].key = r.books[k].key /\ s.books[k].symbol = r.books[k].symbol
    /\ Names(s.books[k].legs) \subseteq Names(r.books[k].legs)
Progress(at, r, k, volume, n) ==
    /\ Still(at.run, r) /\ at.left \in 0..volume
    /\ \/ at.left = 0 /\ volume = r.books[k].lots /\ Without(at.run, r, k)
       \/ /\ Smaller(at.run, r, k)
          /\ at.run.books[k].lots = r.books[k].lots - volume + at.left
          /\ at.left = 0 \/ Len(at.run.books[k].legs) <= Len(r.books[k].legs) - n

LEMMA CutIs ==
    ASSUME NEW b \in OpenBooks, NEW j, NEW take
    PROVE  /\ Cut(b, j, take).lots = b.lots - take /\ Cut(b, j, take).legs = Rest(b.legs, j, take)
           /\ Cut(b, j, take).key = b.key /\ Cut(b, j, take).symbol = b.symbol
<1> DEFINE rest == Rest(b.legs, j, take)
           c == Cut(b, j, take)
<1>1. c = [b EXCEPT !.legs = rest, !.lots = b.lots - take]
  BY DEF Cut
<1> HIDE DEF rest, c
<1>2. c.lots = b.lots - take /\ c.legs = rest /\ c.key = b.key /\ c.symbol = b.symbol
  BY <1>1 DEF OpenBooks
<1> QED BY <1>2 DEF rest, c

LEMMA SoundBook ==
    ASSUME NEW r, Sound(r), NEW k \in 1..Len(r.books)
    PROVE  /\ r \in Runs /\ r.books \in Seq(OpenBooks) /\ r.books[k] \in OpenBooks /\ Distinct(r.books[k].legs)
           /\ r.books[k].legs \in Seq(BookLegs) /\ r.books[k].lots \in Nat \ {0} /\ r.books[k].lots = LegLots(r.books[k].legs)
           /\ Len(r.books) \in Nat /\ Len(r.books[k].legs) \in Nat \ {0} /\ r.books[k].key \in Nat
           /\ r.books[k].symbol \in STRING /\ r.books[k].side \in {-1, 1}
<1> DEFINE b == r.books[k]
<1>1. r \in Runs /\ r.books \in Seq(OpenBooks) /\ b \in OpenBooks
  BY RunIs DEF Sound
<1>2. Whole(b)
  BY <1>1 DEF Sound, Fit
<1> HIDE DEF b
<1>3. b.legs \in Seq(BookLegs) /\ b.lots \in Nat \ {0} /\ b.key \in Nat /\ b.symbol \in STRING /\ b.side \in {-1, 1}
  BY <1>1, BookIs
<1>4. Distinct(b.legs) /\ b.lots = LegLots(b.legs)
  BY <1>2 DEF Whole
<1>5. Len(b.legs) \in Nat /\ Len(b.legs) # 0
  <2>1. b.legs # <<>>
    BY <1>3, <1>4, NothingLeft
  <2> QED BY <1>3, <2>1, EmptySeq
<1> QED BY <1>1, <1>3, <1>4, <1>5 DEF b

LEMMA SliceTaken ==
    ASSUME NEW r, Sound(r), NEW k \in 1..Len(r.books), NEW volume \in 0..r.books[k].lots, NEW fill \in Int,
           NEW reason \in Codes \ {"signal_exit"}, NEW n \in Nat, NEW at, Progress(at, r, k, volume, n)
    PROVE  Progress(TakeSlice(at, k, volume, fill, reason), r, k, volume, n + 1)
<1> DEFINE next == TakeSlice(at, k, volume, fill, reason)
           s == at.run
           left == at.left
           b == s.books[k]
           whole == r.books[k]
           leg == b.legs[1]
           take == Min({leg.lots, left})
           share == ExitShare(Commission(s.cfg, volume), volume, left, take)
           after == CloseLeg(s, k, 1, take, fill, reason, share)
           c == Cut(b, 1, take)
<1>1. next = IF left = 0 THEN at ELSE [run |-> after, left |-> left - take]
  BY DEF TakeSlice
<1>2. Still(s, r) /\ left \in 0..volume
  BY DEF Progress
<1>3. /\ whole.lots \in Nat \ {0} /\ Len(whole.legs) \in Nat /\ Len(r.books) \in Nat
      /\ volume \in Nat /\ volume <= whole.lots
  <2>1. whole.lots \in Nat \ {0} /\ Len(whole.legs) \in Nat /\ Len(r.books) \in Nat
    BY SoundBook
  <2> QED BY <2>1
<1>4. CASE left = 0
  <2>1. next = at
    BY <1>1, <1>4
  <2> QED BY <1>4, <2>1 DEF Progress
<1>5. CASE left # 0
  <2> HIDE DEF next
  <2>1. /\ Smaller(s, r, k) /\ b.lots = whole.lots - volume + left
        /\ Len(b.legs) <= Len(whole.legs) - n
    BY <1>5 DEF Progress
  <2>2. Sound(s) /\ k \in 1..Len(s.books)
    BY <1>2, <2>1 DEF Still, Smaller
  <2>3. /\ s \in Runs /\ s.books \in Seq(OpenBooks) /\ b \in OpenBooks /\ Distinct(b.legs) /\ b.legs \in Seq(BookLegs)
        /\ b.lots \in Nat \ {0} /\ Len(b.legs) \in Nat \ {0}
    BY <2>2, SoundBook
  <2>4. leg \in BookLegs /\ 1 \in 1..Len(b.legs)
    <3>1. 1 \in 1..Len(b.legs)
      BY <2>3
    <3> QED BY <2>3, <3>1
  <2>5. leg.lots \in Nat \ {0}
    BY <2>4 DEF BookLegs
  <2>6. left \in Nat \ {0} /\ left <= volume /\ left <= b.lots /\ volume \in Nat \ {0}
    <3> HIDE DEF left, b, whole
    <3> QED BY <1>2, <1>3, <1>5, <2>1
  <2>7. take = IF leg.lots <= left THEN leg.lots ELSE left
    <3> DEFINE x == leg.lots
    <3>1. x \in Int /\ left \in Int
      BY <2>5, <2>6
    <3> HIDE DEF x, left, leg
    <3>2. Min({x, left}) = IF x <= left THEN x ELSE left
      BY ONLY <3>1, MinOfTwo
    <3> QED BY <3>2 DEF x
  <2> HIDE DEF take
  <2>8. take \in 1..leg.lots /\ take <= left /\ (take = leg.lots \/ take = left) /\ left - take \in 0..volume
    <3> HIDE DEF left, leg
    <3> QED BY <2>5, <2>6, <2>7
  <2>9. share \in Int
    <3> DEFINE fee == Commission(s.cfg, volume)
    <3>1. fee \in Int /\ take \in Int
      <4>1. volume \in Int /\ take \in Int
        BY <1>3, <2>5, <2>8
      <4> QED BY <2>3, <4>1, CommissionIsInt
    <3> HIDE DEF fee, left
    <3>2. fee * (volume - left + take) \in Int /\ fee * (volume - left) \in Int
      BY <1>3, <2>6, <3>1
    <3>3. (fee * (volume - left + take)) \div volume \in Int /\ (fee * (volume - left)) \div volume \in Int
      BY <2>6, <3>2, QuotientIsInt
    <3>4. share = (fee * (volume - left + take)) \div volume - (fee * (volume - left)) \div volume
      BY DEF ExitShare, fee
    <3> QED BY <3>3, <3>4
  <2> HIDE DEF share
  <2>10. /\ Sound(after) /\ Fixed(after) = Fixed(s) /\ after.opened = s.opened /\ Entered(after) = Entered(s)
         /\ LinesLeft(after) = LinesLeft(s)
         /\ IF take = b.lots THEN after.books = RemoveAt(s.books, k)
            ELSE c \in OpenBooks /\ Whole(c) /\ after.books = [s.books EXCEPT ![k] = c]
    <3>1. 1 \in 1..Len(s.books[k].legs) /\ take \in 1..s.books[k].legs[1].lots /\ reason \in Codes /\ reason # "signal_exit"
      BY <2>4, <2>8
    <3>2. LegClosed(after, s, k, 1, take, reason)
      BY <2>2, <2>9, <3>1, LegCloses
    <3> HIDE DEF after, s, take
    <3> QED BY <3>1, <3>2 DEF LegClosed, b, c
  <2> HIDE DEF after
  <2>11. next.run = after /\ next.left = left - take
    BY <1>1, <1>5
  <2>12. Still(after, r)
    BY <1>2, <2>10 DEF Still
  <2>13. CASE take = b.lots
    <3>1. left - take = 0 /\ volume = whole.lots
      <4> HIDE DEF left, b, whole, leg
      <4> QED BY <1>3, <2>1, <2>5, <2>6, <2>8, <2>13
    <3>2. Without(after, r, k)
      <4>1. /\ Len(after.books) = Len(s.books) - 1
            /\ \A i \in 1..(Len(s.books) - 1) : after.books[i] = IF i < k THEN s.books[i] ELSE s.books[i + 1]
        <5> DEFINE old == s.books
        <5>1. old \in Seq(OpenBooks) /\ k \in 1..Len(old) /\ after.books = RemoveAt(old, k)
          BY <2>2, <2>3, <2>10, <2>13
        <5>2. /\ Len(RemoveAt(old, k)) = Len(old) - 1
              /\ \A i \in 1..(Len(old) - 1) : RemoveAt(old, k)[i] = IF i < k THEN old[i] ELSE old[i + 1]
          BY ONLY <5>1, Removed
        <5> QED BY <5>1, <5>2
      <4>2. Len(s.books) = Len(r.books) /\ \A i \in 1..Len(r.books) : i # k => s.books[i] = r.books[i]
        BY <2>1 DEF Smaller
      <4> HIDE DEF s
      <4>3. ASSUME NEW i \in 1..(Len(r.books) - 1)
            PROVE  after.books[i] = IF i < k THEN r.books[i] ELSE r.books[i + 1]
        <5>1. i \in 1..Len(r.books) /\ i + 1 \in 1..Len(r.books) /\ (i < k => i # k) /\ (~(i < k) => i + 1 # k)
          BY <1>3
        <5> QED BY <4>1, <4>2, <5>1
      <4> QED BY <4>1, <4>2, <4>3 DEF Without
    <3>3. Still(next.run, r) /\ Without(next.run, r, k) /\ next.left = 0
      BY <2>11, <2>12, <3>1, <3>2
    <3>4. next.left \in 0..volume
      BY <2>8, <2>11
    <3> QED BY <3>1, <3>3, <3>4 DEF Progress, next
  <2>14. CASE take # b.lots
    <3>1. c \in OpenBooks /\ after.books = [s.books EXCEPT ![k] = c]
      BY <2>10, <2>14
    <3>2. c.lots = b.lots - take /\ c.legs = Rest(b.legs, 1, take) /\ c.key = b.key /\ c.symbol = b.symbol
      BY <2>3, CutIs
    <3> HIDE DEF c
    <3>3. Len(after.books) = Len(s.books) /\ \A i \in 1..Len(s.books) : after.books[i] = IF i = k THEN c ELSE s.books[i]
      BY <2>2, <2>3, <3>1, OwedReplaced
    <3>4. /\ Names(c.legs) \subseteq Names(b.legs)
          /\ Len(c.legs) = (IF take = leg.lots THEN Len(b.legs) - 1 ELSE Len(b.legs))
      <4>1. LegLess(Rest(b.legs, 1, take), b.legs, 1, take)
        BY <2>3, <2>4, <2>8, LegTaken
      <4> QED BY <3>2, <4>1 DEF LegLess
    <3>5. after.books[k] = c
      BY <2>2, <3>3
    <3>6. Smaller(after, r, k)
      BY <2>1, <3>2, <3>3, <3>4, <3>5 DEF Smaller
    <3>7. c.lots = whole.lots - volume + (left - take)
      <4> HIDE DEF left, b, whole, leg
      <4> QED BY <1>3, <2>1, <2>3, <2>6, <2>8, <3>2
    <3>8. left - take = 0 \/ Len(c.legs) <= Len(whole.legs) - (n + 1)
      <4> HIDE DEF left, b, whole, leg
      <4> QED BY <1>3, <2>1, <2>3, <2>6, <2>8, <3>4
    <3>9. /\ Still(next.run, r) /\ Smaller(next.run, r, k) /\ next.left \in 0..volume
          /\ next.run.books[k].lots = whole.lots - volume + next.left
      BY <2>8, <2>11, <2>12, <3>5, <3>6, <3>7
    <3>10. next.left = 0 \/ Len(next.run.books[k].legs) <= Len(whole.legs) - (n + 1)
      BY <2>11, <3>5, <3>8
    <3> QED BY <3>9, <3>10 DEF Progress, next
  <2> QED BY <2>13, <2>14
<1> QED BY <1>4, <1>5

SliceTable(r, k, volume, fill, reason, n, g_) ==
    g_ = [m \in 0..n |-> IF m = 0 THEN [run |-> r, left |-> volume] ELSE TakeSlice(g_[m - 1], k, volume, fill, reason)]

LEMMA SliceTableExists ==
    ASSUME NEW r, NEW k, NEW volume, NEW fill, NEW reason, NEW n \in Nat
    PROVE  \E g_ : SliceTable(r, k, volume, fill, reason, n, g_)
<1> DEFINE bad == {m \in Nat : ~ \E g_ : SliceTable(r, k, volume, fill, reason, m, g_)}
           start == [run |-> r, left |-> volume]
           step(at) == TakeSlice(at, k, volume, fill, reason)
<1>1. SUFFICES ASSUME bad # {} PROVE FALSE
  OBVIOUS
<1>2. PICK m \in bad : \A j \in bad : m <= j
  BY <1>1, HasLeast
<1>3. m \in Nat /\ ~ \E g_ : SliceTable(r, k, volume, fill, reason, m, g_)
  BY <1>2
<1> HIDE DEF start, step
<1>0. \A i \in Nat : \A g_ : SliceTable(r, k, volume, fill, reason, i, g_)
                            <=> g_ = [x \in 0..i |-> IF x = 0 THEN start ELSE step(g_[x - 1])]
  BY DEF SliceTable, start, step
<1>4. CASE m = 0
  <2> DEFINE h == [x \in 0..0 |-> start]
  <2>1. h = [x \in 0..0 |-> IF x = 0 THEN start ELSE step(h[x - 1])]
    OBVIOUS
  <2> QED BY <1>0, <1>3, <1>4, <2>1
<1>5. CASE m # 0
  <2>1. m - 1 \in Nat /\ m - 1 \notin bad
    <3> HIDE DEF bad
    <3> QED BY <1>2, <1>3, <1>5
  <2>2. PICK g_ : SliceTable(r, k, volume, fill, reason, m - 1, g_)
    BY <2>1
  <2>3. g_ = [x \in 0..(m - 1) |-> IF x = 0 THEN start ELSE step(g_[x - 1])]
    BY <1>0, <2>1, <2>2
  <2> HIDE DEF bad
  <2> DEFINE h == [x \in 0..m |-> IF x = m THEN step(g_[m - 1]) ELSE g_[x]]
  <2>4. \A x \in 0..m : h[x] = IF x = 0 THEN start ELSE step(h[x - 1])
    <3>1. TAKE x \in 0..m
    <3>2. \A j \in 0..(m - 1) : g_[j] = IF j = 0 THEN start ELSE step(g_[j - 1])
      BY <2>3
    <3>3. CASE x = m
      <4>1. h[m] = step(g_[m - 1]) /\ h[m - 1] = g_[m - 1]
        BY <1>3, <1>5
      <4> QED BY <1>5, <3>3, <4>1
    <3>4. CASE x # m
      <4>1. x \in 0..(m - 1) /\ h[x] = g_[x] /\ (x # 0 => h[x - 1] = g_[x - 1])
        BY <1>3, <3>4
      <4> QED BY <3>2, <4>1
    <3> QED BY <3>3, <3>4
  <2>5. h = [x \in 0..m |-> IF x = 0 THEN start ELSE step(h[x - 1])]
    BY <2>4
  <2> QED BY <1>0, <1>3, <2>5
<1> QED BY <1>4, <1>5

\* engine.py close_slices: what is closed is gone, the rest is as it was.
VolumeClosed(s, r, k, volume) ==
    /\ Still(s, r)
    /\ volume = r.books[k].lots => Without(s, r, k)
    /\ volume # r.books[k].lots => Smaller(s, r, k)

LEMMA SlicesClose ==
    ASSUME NEW r, Sound(r), NEW k \in 1..Len(r.books), NEW volume \in 0..r.books[k].lots, NEW fill \in Int,
           NEW reason \in Codes \ {"signal_exit"}
    PROVE  VolumeClosed(CloseSlices(r, k, volume, fill, reason), r, k, volume)
<1> DEFINE whole == r.books[k]
           n == Len(whole.legs)
           g == CHOOSE g_ : SliceTable(r, k, volume, fill, reason, n, g_)
           bad == {m \in 0..n : ~Progress(g[m], r, k, volume, m)}
           s == g[n].run
<1>1. n \in Nat \ {0} /\ whole.lots \in Nat \ {0} /\ volume \in Nat /\ volume <= whole.lots /\ Len(r.books) \in Nat
  <2>1. n \in Nat \ {0} /\ whole.lots \in Nat \ {0} /\ Len(r.books) \in Nat
    BY SoundBook
  <2> QED BY <2>1
<1>2. SliceTable(r, k, volume, fill, reason, n, g)
  BY <1>1, SliceTableExists
<1>3. CloseSlices(r, k, volume, fill, reason) = s
  BY DEF CloseSlices, SliceTable
<1> HIDE DEF g
<1>4. \A m \in 0..n : g[m] = IF m = 0 THEN [run |-> r, left |-> volume] ELSE TakeSlice(g[m - 1], k, volume, fill, reason)
  BY <1>2 DEF SliceTable
<1>5. Progress(g[0], r, k, volume, 0)
  <2>1. g[0] = [run |-> r, left |-> volume]
    BY <1>1, <1>4
  <2>2. g[0].run = r /\ g[0].left = volume
    BY <2>1
  <2>3. Still(r, r) /\ Smaller(r, r, k)
    BY DEF Still, Smaller
  <2>4. volume \in 0..volume /\ whole.lots = whole.lots - volume + volume /\ n <= n - 0
    BY <1>1
  <2> QED BY <2>2, <2>3, <2>4 DEF Progress
<1> HIDE DEF n, s, whole
<1>6. bad = {}
  <2>1. SUFFICES ASSUME bad # {} PROVE FALSE
    OBVIOUS
  <2> bad \in SUBSET Nat
    BY <1>1
  <2>2. PICK m \in bad : \A j \in bad : m <= j
    <3> HIDE DEF bad
    <3> QED BY <2>1, HasLeast
  <2>3. m \in 1..n /\ ~Progress(g[m], r, k, volume, m)
    BY <1>1, <1>5, <2>2
  <2>4. m - 1 \in 0..n /\ m - 1 \in Nat /\ m - 1 \notin bad
    <3> HIDE DEF bad
    <3> QED BY <1>1, <2>2, <2>3
  <2>5. Progress(g[m - 1], r, k, volume, m - 1)
    BY <2>4
  <2>6. g[m] = TakeSlice(g[m - 1], k, volume, fill, reason)
    BY <1>1, <1>4, <2>3
  <2>7. Progress(g[m], r, k, volume, (m - 1) + 1)
    BY <2>4, <2>5, <2>6, SliceTaken
  <2>8. (m - 1) + 1 = m
    BY <1>1, <2>3
  <2> QED BY <2>3, <2>7, <2>8
<1> DEFINE at == g[n]
<1>7. Progress(at, r, k, volume, n) /\ at.run = s
  <2>1. n \in 0..n
    BY <1>1
  <2> QED BY <1>6, <2>1 DEF s
<1> HIDE DEF at, bad
<1>8. CASE at.left = 0 /\ volume = whole.lots /\ Without(s, r, k)
  BY <1>3, <1>7, <1>8 DEF VolumeClosed, Progress, whole
<1>9. CASE /\ Smaller(s, r, k) /\ s.books[k].lots = whole.lots - volume + at.left
           /\ at.left = 0 \/ Len(s.books[k].legs) <= n - n
  <2>1. Sound(s) /\ k \in 1..Len(s.books) /\ Still(s, r) /\ at.left \in 0..volume
    BY <1>7, <1>9 DEF Progress, Still, Smaller
  <2>2. Len(s.books[k].legs) \in Nat \ {0} /\ s.books[k].lots \in Nat \ {0}
    BY <2>1, SoundBook
  <2>3. at.left = 0
    BY <1>1, <1>9, <2>2
  <2>4. volume # whole.lots
    BY <1>1, <1>9, <2>2, <2>3
  <2> QED BY <1>3, <1>9, <2>1, <2>4 DEF VolumeClosed, whole
<1> QED BY <1>7, <1>8, <1>9 DEF Progress, whole, n

LEMMA WholeCloses ==
    ASSUME NEW r, Sound(r), NEW k \in 1..Len(r.books), NEW fill \in Int, NEW reason \in Codes \ {"signal_exit"}
    PROVE  Still(CloseWholeBook(r, k, fill, reason), r) /\ Without(CloseWholeBook(r, k, fill, reason), r, k)
<1>1. r.books[k].lots \in 0..r.books[k].lots
  BY SoundBook
<1>2. VolumeClosed(CloseWholeBook(r, k, fill, reason), r, k, r.books[k].lots)
  BY <1>1, SlicesClose DEF CloseWholeBook
<1> QED BY <1>2 DEF VolumeClosed

-----------------------------------------------------------------------------
(* The engine: what is done with a book. *)

Priced(r, bars) == \A x \in SymbolsOf(r.lines) : bars[x] \in Candles

LEMMA CandleIs ==
    ASSUME NEW bar \in Candles
    PROVE  bar.o \in Int /\ bar.h \in Int /\ bar.l \in Int /\ bar.c \in Int /\ bar.atr \in Int
BY DEF Candles

LEMMA ShiftedIs ==
    ASSUME NEW bar \in Candles, NEW off \in Int
    PROVE  Shifted(bar, off) \in Candles
<1>1. bar.o + off \in Int /\ bar.h + off \in Int /\ bar.l + off \in Int /\ bar.c + off \in Int
  BY CandleIs
<1> QED BY <1>1 DEF Shifted, Candles

LEMMA FillsAre ==
    ASSUME NEW r \in Runs, NEW side \in {-1, 1}, NEW price \in Int, NEW sl \in Int, NEW bar \in Candles
    PROVE  /\ AskOffset(r.cfg, side) \in Int /\ ExitFill(r.cfg, price, side) \in Int /\ EntryFill(r.cfg, price, side) \in Int
           /\ StopFill(r.cfg, bar, side, sl) \in Int /\ TpFill(bar, side, sl) \in Int
<1>1. r.cfg.spread \in Int /\ r.cfg.slippage \in Int /\ bar.o \in Int
  BY ConfigIs, CandleIs
<1> DEFINE spread == r.cfg.spread
           slip == r.cfg.slippage
<1>2. spread \div 2 \in Int /\ side * slip \in Int /\ side * (spread \div 2 + slip) \in Int /\ side \in Int
  BY <1>1
<1>3. AskOffset(r.cfg, side) \in Int
  BY <1>1 DEF AskOffset
<1>4. ExitFill(r.cfg, price, side) \in Int
  BY <1>1, <1>2, <1>3 DEF ExitFill
<1>5. EntryFill(r.cfg, price, side) \in Int
  BY <1>1, <1>2 DEF EntryFill
<1>6. StopFill(r.cfg, bar, side, sl) \in Int /\ TpFill(bar, side, sl) \in Int
  BY <1>1, <1>2 DEF StopFill, TpFill
<1> QED BY <1>3, <1>4, <1>5, <1>6

LEMMA SmallerThenSmaller ==
    ASSUME NEW r, NEW k \in 1..Len(r.books), NEW s, NEW t, Smaller(s, r, k), Smaller(t, s, k) PROVE Smaller(t, r, k)
BY DEF Smaller
LEMMA SmallerThenWithout ==
    ASSUME NEW r, r.books \in Seq(OpenBooks), NEW k \in 1..Len(r.books), NEW s, NEW t, Smaller(s, r, k), Without(t, s, k)
    PROVE  Without(t, r, k)
<1> DEFINE n == Len(r.books)
<1>1. n \in Nat /\ k \in 1..n
  OBVIOUS
<1>2. Len(s.books) = n /\ \A i \in 1..n : i # k => s.books[i] = r.books[i]
  BY DEF Smaller
<1>3. Len(t.books) = n - 1 /\ \A i \in 1..(n - 1) : t.books[i] = IF i < k THEN s.books[i] ELSE s.books[i + 1]
  BY <1>2 DEF Without
<1> HIDE DEF n
<1>4. ASSUME NEW i \in 1..(n - 1) PROVE t.books[i] = IF i < k THEN r.books[i] ELSE r.books[i + 1]
  <2>1. i \in 1..n /\ i + 1 \in 1..n /\ (i < k => i # k) /\ (~(i < k) => i + 1 # k)
    BY <1>1
  <2> QED BY <1>2, <1>3, <2>1
<1> QED BY <1>3, <1>4 DEF Without, n
LEMMA StillThenStill == ASSUME NEW r, NEW s, NEW t, Still(s, r), Still(t, s) PROVE Still(t, r)
BY DEF Still

\* A book is still the same one, on other levels.
MovedTo(r, k, b) == [r EXCEPT !.books[k] = b]
SameBook(b, c) == b \in OpenBooks /\ b.key = c.key /\ b.symbol = c.symbol /\ b.lots = c.lots /\ b.legs = c.legs /\ b.side = c.side

LEMMA MovedKeeps ==
    ASSUME NEW r, Sound(r), NEW k \in 1..Len(r.books), NEW b, SameBook(b, r.books[k])
    PROVE  Still(MovedTo(r, k, b), r) /\ Smaller(MovedTo(r, k, b), r, k) /\ MovedTo(r, k, b).books[k] = b
<1> DEFINE s == MovedTo(r, k, b)
           c == r.books[k]
           books == [r.books EXCEPT ![k] = b]
<1>1. r \in Runs /\ Ledger(r) /\ Fit(r.books, r.cfg, r.opened, r.lines) /\ Quoted(r)
  BY DEF Sound
<1>2. r.books \in Seq(OpenBooks) /\ c \in OpenBooks /\ Distinct(c.legs) /\ c.lots = LegLots(c.legs) /\ LegFees(c.legs) \in Int
      /\ Len(r.books) \in Nat
  BY SoundBook, BookIs
<1>3. b \in OpenBooks /\ b.key = c.key /\ b.symbol = c.symbol /\ b.lots = c.lots /\ b.legs = c.legs
  BY DEF SameBook
<1>4. /\ books \in Seq(OpenBooks) /\ Len(books) = Len(r.books)
      /\ \A i \in 1..Len(r.books) : books[i] = IF i = k THEN b ELSE r.books[i]
      /\ Owed(books) = Owed(r.books) - LegFees(c.legs) + LegFees(b.legs)
  BY <1>2, <1>3, OwedReplaced
<1>5. Owed(books) = Owed(r.books)
  <2>1. Owed(r.books) \in Int
    BY <1>2, OwedSum
  <2> HIDE DEF c, books
  <2> QED BY <1>2, <1>3, <1>4, <2>1
<1>6. Whole(b)
  BY <1>2, <1>3 DEF Whole
<1>7. Fit(books, r.cfg, r.opened, r.lines)
  <2>1. ASSUME NEW i \in 1..Len(r.books), i # k PROVE Apart(r.cfg, r.books[i], b)
    <3>1. Apart(r.cfg, r.books[i], c)
      BY <1>1, <1>2, <2>1 DEF Fit
    <3>2. Names(b.legs) \subseteq Names(c.legs)
      BY <1>3
    <3> QED BY <1>3, <3>1, <3>2, ApartStill
  <2> QED BY <1>1, <1>2, <1>3, <1>6, <2>1, FitReplaced
<1> HIDE DEF books, c
<1>8. /\ s \in Runs /\ s.books = books /\ Fixed(s) = Fixed(r) /\ s.opened = r.opened /\ s.log = r.log
      /\ s.cash = r.cash /\ s.booked = r.booked
  <2>1. s = [r EXCEPT !.books = books]
    BY <1>1 DEF MovedTo, Runs, books
  <2> HIDE DEF s
  <2> QED BY <1>1, <1>4, <2>1 DEF Runs, Fixed
<1> HIDE DEF s
<1>9. Sound(s)
  <2>1. Ledger(s)
    BY <1>1, <1>5, <1>8 DEF Ledger
  <2>2. s.lines = r.lines /\ s.cfg = r.cfg /\ s.prev = r.prev /\ s.desired = r.desired
    BY <1>8, SameFixed
  <2>3. Quoted(s) /\ Fit(s.books, s.cfg, s.opened, s.lines)
    BY <1>1, <1>7, <1>8, <2>2 DEF Quoted
  <2> QED BY <1>8, <2>1, <2>3 DEF Sound
<1>10. LinesLeft(s) = LinesLeft(r) /\ Entered(s) = Entered(r)
  BY <1>8, SameLog
<1>11. Still(s, r)
  BY <1>8, <1>9, <1>10 DEF Still
<1>12. s.books[k] = b /\ Smaller(s, r, k)
  <2>1. b.key = r.books[k].key /\ b.symbol = r.books[k].symbol /\ Names(b.legs) \subseteq Names(r.books[k].legs)
    BY <1>3 DEF c
  <2> QED BY <1>4, <1>8, <2>1 DEF Smaller
<1> QED BY <1>11, <1>12 DEF s

LEMMA BookBar ==
    ASSUME NEW r, Sound(r), NEW k \in 1..Len(r.books), NEW bars, Priced(r, bars)
    PROVE  bars[r.books[k].symbol] \in Candles /\ r.prev[r.books[k].symbol] \in Candles
           /\ r.books[k].symbol \in SymbolsOf(r.lines)
<1>1. DOMAIN r.books = 1..Len(r.books)
  BY SoundBook
<1> QED BY <1>1 DEF Sound, Fit, Priced, Quoted

LEMMA LevelsMove ==
    ASSUME NEW r \in Runs, NEW b \in OpenBooks, NEW before \in Candles
    PROVE  SameBook(BrokenEven(r.cfg, Trailed(r.cfg, b, before), before), b)
           /\ BrokenEven(r.cfg, Trailed(r.cfg, b, before), before).entry = b.entry
<1> DEFINE c == Trailed(r.cfg, b, before)
           d == BrokenEven(r.cfg, c, before)
<1>1. /\ r.cfg.trail \in Int /\ r.cfg.beOffset \in Int /\ before.c \in Int /\ before.atr \in Int /\ b.sl \in Int /\ b.entry \in Int
      /\ b.side \in {-1, 1}
  BY ConfigIs, CandleIs, BookIs
<1>2. SameBook(c, b) /\ c.entry = b.entry
  <2> DEFINE up == before.c - r.cfg.trail * before.atr
             down == before.c + r.cfg.trail * before.atr
             sl == IF b.side > 0 THEN Max({b.sl, up}) ELSE Min({b.sl, down})
  <2>1. up \in Int /\ down \in Int
    BY <1>1
  <2> HIDE DEF up, down
  <2>2. sl \in Int
    BY <1>1, <2>1, MinOfTwo, MaxOfTwo
  <2>3. c = IF r.cfg.trail = 0 THEN b ELSE [b EXCEPT !.sl = sl]
    BY DEF Trailed, up, down
  <2> HIDE DEF sl, c
  <2>4. CASE r.cfg.trail = 0
    BY <2>3, <2>4 DEF SameBook
  <2>5. CASE r.cfg.trail # 0
    <3>1. c = [b EXCEPT !.sl = sl]
      BY <2>3, <2>5
    <3>2. c \in OpenBooks
      BY <2>2, <3>1 DEF OpenBooks
    <3>3. c.key = b.key /\ c.symbol = b.symbol /\ c.lots = b.lots /\ c.legs = b.legs /\ c.side = b.side /\ c.entry = b.entry
      BY <3>1 DEF OpenBooks
    <3> QED BY <3>2, <3>3 DEF SameBook
  <2> QED BY <2>4, <2>5
<1> HIDE DEF c
<1>3. SameBook(d, c) /\ d.entry = c.entry
  <2> DEFINE sl == c.entry + c.side * r.cfg.beOffset
  <2>1. c \in OpenBooks /\ c.entry \in Int /\ c.side \in {-1, 1}
    BY <1>1, <1>2 DEF SameBook
  <2>2. sl \in Int
    BY <1>1, <2>1
  <2>3. d = c \/ d = [c EXCEPT !.sl = sl, !.be = TRUE]
    BY DEF BrokenEven
  <2> HIDE DEF sl, d
  <2>4. CASE d = c
    BY <2>1, <2>4 DEF SameBook
  <2>5. CASE d = [c EXCEPT !.sl = sl, !.be = TRUE]
    <3>1. d \in OpenBooks
      BY <2>1, <2>2, <2>5 DEF OpenBooks
    <3>2. d.key = c.key /\ d.symbol = c.symbol /\ d.lots = c.lots /\ d.legs = c.legs /\ d.side = c.side /\ d.entry = c.entry
      BY <2>1, <2>5 DEF OpenBooks
    <3> QED BY <3>1, <3>2 DEF SameBook
  <2> QED BY <2>3, <2>4, <2>5
<1> QED BY <1>2, <1>3 DEF SameBook, c

\* engine.py manage, open_gap_exits: a book is smaller, or gone, and nothing else is touched.
Visited(s, r, k) == Still(s, r) /\ (Smaller(s, r, k) \/ Without(s, r, k))
Carried(s, r, k) == Still(s, r) /\ Smaller(s, r, k)

LEMMA CarriedThenVisited ==
    ASSUME NEW r, Sound(r), NEW k \in 1..Len(r.books), NEW s, NEW t, Carried(s, r, k), Visited(t, s, k)
    PROVE  Visited(t, r, k)
<1>1. Still(t, r)
  BY StillThenStill DEF Carried, Visited
<1>2. r.books \in Seq(OpenBooks)
  BY SoundBook
<1>3. CASE Smaller(t, s, k)
  <2>1. Smaller(t, r, k)
    BY <1>3, SmallerThenSmaller DEF Carried
  <2> QED BY <1>1, <2>1 DEF Visited
<1>4. CASE Without(t, s, k)
  <2>1. Without(t, r, k)
    BY <1>2, <1>4, SmallerThenWithout DEF Carried
  <2> QED BY <1>1, <2>1 DEF Visited
<1> QED BY <1>3, <1>4 DEF Visited

LEMMA CarriedThenCarried ==
    ASSUME NEW r, NEW k \in 1..Len(r.books), NEW s, NEW t, Carried(s, r, k), Carried(t, s, k)
    PROVE  Carried(t, r, k)
<1>1. Still(t, r)
  BY StillThenStill DEF Carried
<1>2. Smaller(t, r, k)
  BY SmallerThenSmaller DEF Carried
<1> QED BY <1>1, <1>2 DEF Carried

LEMMA CarriedIs ==
    ASSUME NEW r, NEW k \in 1..Len(r.books), NEW s, Carried(s, r, k)
    PROVE  Sound(s) /\ k \in 1..Len(s.books) /\ s.lines = r.lines /\ s.prev = r.prev /\ s.cfg = r.cfg
           /\ s.books[k].symbol = r.books[k].symbol
<1>1. Sound(s) /\ Fixed(s) = Fixed(r) /\ Len(s.books) = Len(r.books) /\ s.books[k].symbol = r.books[k].symbol
  BY DEF Carried, Still, Smaller
<1>2. s.lines = r.lines /\ s.prev = r.prev /\ s.cfg = r.cfg
  BY <1>1, SameFixed
<1> QED BY <1>1, <1>2

LEMMA Stands == ASSUME NEW r, Sound(r), NEW k \in 1..Len(r.books) PROVE Carried(r, r, k) /\ Visited(r, r, k)
BY DEF Carried, Visited, Still, Smaller

LEMMA WholeVisited ==
    ASSUME NEW r, Sound(r), NEW k \in 1..Len(r.books), NEW fill \in Int, NEW reason \in Codes \ {"signal_exit"}
    PROVE  Visited(CloseWholeBook(r, k, fill, reason), r, k)
BY WholeCloses DEF Visited

LEMMA GapVisits ==
    ASSUME NEW r, Sound(r), NEW k \in 1..Len(r.books), NEW bars, Priced(r, bars)
    PROVE  Visited(GapExit(r, k, bars), r, k)
<1> DEFINE b == r.books[k]
           quote == bars[b.symbol].o + AskOffset(r.cfg, b.side)
<1>1. r \in Runs /\ b.side \in {-1, 1}
  BY SoundBook
<1>2. bars[b.symbol] \in Candles
  BY BookBar
<1>3. AskOffset(r.cfg, b.side) \in Int /\ bars[b.symbol].o \in Int
  <2>1. 0 \in Int
    OBVIOUS
  <2>2. AskOffset(r.cfg, b.side) \in Int
    BY <1>1, <1>2, <2>1, FillsAre
  <2> QED BY <1>2, <2>2, CandleIs
<1>4. quote \in Int
  BY <1>3
<1> HIDE DEF quote
<1>5. Visited(CloseWholeBook(r, k, quote, "stop_loss"), r, k)
  <2>1. "stop_loss" \in Codes \ {"signal_exit"}
    BY DEF Codes
  <2> QED BY <1>4, <2>1, WholeVisited
<1>6. Visited(CloseWholeBook(r, k, quote, "take_profit"), r, k)
  <2>1. "take_profit" \in Codes \ {"signal_exit"}
    BY DEF Codes
  <2> QED BY <1>4, <2>1, WholeVisited
<1>7. Visited(r, r, k)
  BY Stands
<1>8. GapExit(r, k, bars) \in {CloseWholeBook(r, k, quote, "stop_loss"), CloseWholeBook(r, k, quote, "take_profit"), r}
  BY DEF GapExit, quote
<1> QED BY <1>5, <1>6, <1>7, <1>8

LEMMA ExitsVisit ==
    ASSUME NEW r, Sound(r), NEW k \in 1..Len(r.books), NEW bars, Priced(r, bars)
    PROVE  Visited(Exits(r, k, bars), r, k)
<1> DEFINE b == r.books[k]
           bar == Shifted(bars[b.symbol], AskOffset(r.cfg, b.side))
           x == StopFill(r.cfg, bar, b.side, b.sl)
           y == TpFill(bar, b.side, b.tp)
           z == ExitFill(r.cfg, bars[b.symbol].c, b.side)
<1>1. r \in Runs /\ b.side \in {-1, 1} /\ b.sl \in Int /\ b.tp \in Int
  BY SoundBook, BookIs
<1>2. bars[b.symbol] \in Candles
  BY BookBar
<1>3. bar \in Candles
  <2>1. AskOffset(r.cfg, b.side) \in Int
    BY <1>1, <1>2, FillsAre
  <2> QED BY <1>2, <2>1, ShiftedIs
<1> HIDE DEF bar
<1>4. x \in Int /\ y \in Int /\ z \in Int
  <2>1. bars[b.symbol].c \in Int
    BY <1>2, CandleIs
  <2>2. x \in Int
    BY <1>1, <1>3, FillsAre
  <2>3. y \in Int
    BY <1>1, <1>3, FillsAre
  <2>4. z \in Int
    BY <1>1, <1>3, <2>1, FillsAre
  <2> QED BY <2>2, <2>3, <2>4
<1>5. Exits(r, k, bars) \in {CloseWholeBook(r, k, x, "stop_loss"), CloseWholeBook(r, k, y, "take_profit"),
                             CloseWholeBook(r, k, z, "max_bars"), r}
  BY DEF Exits, bar
<1> HIDE DEF x, y, z
<1>6. "stop_loss" \in Codes \ {"signal_exit"} /\ "take_profit" \in Codes \ {"signal_exit"} /\ "max_bars" \in Codes \ {"signal_exit"}
  BY DEF Codes
<1>7. Visited(CloseWholeBook(r, k, x, "stop_loss"), r, k)
  BY <1>4, <1>6, WholeVisited
<1>8. Visited(CloseWholeBook(r, k, y, "take_profit"), r, k)
  BY <1>4, <1>6, WholeVisited
<1>9. Visited(CloseWholeBook(r, k, z, "max_bars"), r, k)
  BY <1>4, <1>6, WholeVisited
<1>10. Visited(r, r, k)
  BY Stands
<1> QED BY <1>5, <1>7, <1>8, <1>9, <1>10

LEMMA Half == ASSUME NEW x \in Nat \ {0} PROVE x \div 2 \in 0..x /\ x \div 2 # x
OBVIOUS

LEMMA MoveCarries ==
    ASSUME NEW r, Sound(r), NEW k \in 1..Len(r.books), NEW bars, Priced(r, bars)
    PROVE  Carried(MoveLevels(r, k, bars), r, k)
<1> DEFINE old == r.books[k]
           before == r.prev[old.symbol]
           b == BrokenEven(r.cfg, Trailed(r.cfg, old, before), before)
           moved == MovedTo(r, k, b)
           fill == ExitFill(r.cfg, bars[b.symbol].o, b.side)
           scaled == CloseSlices(moved, k, b.lots \div 2, fill, "partial_exit")
           last == [scaled EXCEPT !.books[k].sl = b.entry, !.books[k].partial = TRUE]
           c == [scaled.books[k] EXCEPT !.sl = b.entry, !.partial = TRUE]
<1>1. r \in Runs /\ old \in OpenBooks /\ old.entry \in Int /\ old.lots \in Nat \ {0} /\ old.side \in {-1, 1}
  BY SoundBook, BookIs
<1>2. before \in Candles /\ bars[old.symbol] \in Candles
  BY BookBar
<1>3. SameBook(b, old) /\ b.entry = old.entry
  BY <1>1, <1>2, LevelsMove
<1> HIDE DEF b, old
<1>4. Carried(moved, r, k) /\ moved.books[k] = b
  <2>1. SameBook(b, r.books[k])
    BY <1>3 DEF old
  <2> QED BY <2>1, MovedKeeps DEF Carried
<1>5. Sound(moved) /\ k \in 1..Len(moved.books) /\ moved \in Runs
  BY <1>4, CarriedIs DEF Sound
<1>6. fill \in Int
  <2>1. b.side \in {-1, 1} /\ b.symbol = old.symbol
    BY <1>1, <1>3 DEF SameBook
  <2>2. bars[b.symbol].o \in Int
    BY <1>2, <2>1, CandleIs
  <2> QED BY <1>1, <1>2, <2>1, <2>2, FillsAre
<1>7. b.lots \in Nat \ {0}
  BY <1>1, <1>3 DEF SameBook
<1>8. b.lots \div 2 \in 0..b.lots /\ b.lots \div 2 # b.lots
  BY <1>7, Half
<1>9. "partial_exit" \in Codes \ {"signal_exit"}
  BY DEF Codes
<1> HIDE DEF fill
<1>10. Carried(scaled, moved, k)
  <2> DEFINE half == b.lots \div 2
  <2>1. half \in 0..moved.books[k].lots /\ half # moved.books[k].lots
    BY <1>4, <1>8
  <2> HIDE DEF half, moved
  <2>2. VolumeClosed(CloseSlices(moved, k, half, fill, "partial_exit"), moved, k, half)
    BY <1>5, <1>6, <1>9, <2>1, SlicesClose
  <2> QED BY <2>1, <2>2 DEF VolumeClosed, Carried, half
<1> HIDE DEF scaled, moved
<1>11. Carried(scaled, r, k)
  BY <1>4, <1>10, CarriedThenCarried
<1>12. Sound(scaled) /\ k \in 1..Len(scaled.books)
  BY <1>11, CarriedIs
<1>13. scaled \in Runs /\ scaled.books \in Seq(OpenBooks) /\ scaled.books[k] \in OpenBooks
  BY <1>12, SoundBook
<1>14. last = MovedTo(scaled, k, c)
  <2> DEFINE d == scaled.books[k]
             e == b.entry
             d1 == [d EXCEPT !.sl = e]
             r1 == [scaled EXCEPT !.books = [scaled.books EXCEPT ![k] = d1]]
  <2>1. DOMAIN scaled.books = 1..Len(scaled.books)
    BY <1>13
  <2>2. r1.books = [scaled.books EXCEPT ![k] = d1]
    BY <1>13 DEF Runs
  <2>3. r1.books[k] = d1
    BY <1>12, <2>1, <2>2
  <2>4. last = [r1 EXCEPT !.books[k].partial = TRUE]
    OBVIOUS
  <2>5. last = [r1 EXCEPT !.books = [r1.books EXCEPT ![k] = [d1 EXCEPT !.partial = TRUE]]]
    BY <2>3, <2>4
  <2>6. c = [d1 EXCEPT !.partial = TRUE]
    OBVIOUS
  <2> HIDE DEF c, d1
  <2>7. [r1.books EXCEPT ![k] = c] = [scaled.books EXCEPT ![k] = c]
    BY <2>2
  <2>8. last = [r1 EXCEPT !.books = [scaled.books EXCEPT ![k] = c]]
    BY <2>5, <2>6, <2>7
  <2> HIDE DEF last
  <2>9. last = [scaled EXCEPT !.books = [scaled.books EXCEPT ![k] = c]]
    BY <1>13, <2>8 DEF Runs
  <2> QED BY <2>9 DEF MovedTo
<1>15. SameBook(c, scaled.books[k])
  <2> DEFINE d == scaled.books[k]
  <2>1. d \in OpenBooks /\ b.entry \in Int
    BY <1>1, <1>3, <1>13
  <2>2. c = [d EXCEPT !.sl = b.entry, !.partial = TRUE]
    OBVIOUS
  <2> HIDE DEF c, d
  <2>3. c \in OpenBooks
    BY <2>1, <2>2 DEF OpenBooks
  <2>4. c.key = d.key /\ c.symbol = d.symbol /\ c.lots = d.lots /\ c.legs = d.legs /\ c.side = d.side
    BY <2>1, <2>2 DEF OpenBooks
  <2> QED BY <2>3, <2>4 DEF SameBook, d
<1> HIDE DEF last, c
<1>16. Carried(last, scaled, k)
  BY <1>12, <1>14, <1>15, MovedKeeps DEF Carried
<1>17. Carried(last, r, k)
  BY <1>11, <1>16, CarriedThenCarried
<1>18. Carried(r, r, k)
  BY Stands
<1>19. MoveLevels(r, k, bars) \in {r, moved, last}
  BY DEF MoveLevels, MovedTo, moved, last, scaled, b, old, fill
<1> QED BY <1>4, <1>17, <1>18, <1>19

LEMMA ManageVisits ==
    ASSUME NEW r, Sound(r), NEW k \in 1..Len(r.books), NEW bars, Priced(r, bars)
    PROVE  Visited(Manage(r, k, bars), r, k)
<1> DEFINE old == r.books[k]
           b == [old EXCEPT !.held = old.held + 1]
           s == MovedTo(r, k, b)
           t == MoveLevels(s, k, bars)
<1>1. r \in Runs /\ old \in OpenBooks /\ old.held \in Int
  BY SoundBook, BookIs
<1>2. SameBook(b, old)
  <2>1. old.held + 1 \in Int
    BY <1>1
  <2> HIDE DEF old
  <2>2. b \in OpenBooks
    BY <1>1, <2>1 DEF OpenBooks
  <2>3. b.key = old.key /\ b.symbol = old.symbol /\ b.lots = old.lots /\ b.legs = old.legs /\ b.side = old.side
    BY <1>1 DEF OpenBooks
  <2> HIDE DEF b
  <2> QED BY <2>2, <2>3 DEF SameBook
<1>3. Manage(r, k, bars) = Exits(t, k, bars)
  BY DEF Manage, MovedTo
<1> HIDE DEF b, s, t
<1>4. Carried(s, r, k)
  BY <1>2, MovedKeeps DEF Carried, s, old
<1>5. Sound(s) /\ k \in 1..Len(s.books) /\ Priced(s, bars)
  BY <1>4, CarriedIs DEF Priced
<1>6. Carried(t, s, k)
  BY <1>5, MoveCarries DEF t
<1>7. Carried(t, r, k)
  BY <1>4, <1>6, CarriedThenCarried
<1>8. Sound(t) /\ k \in 1..Len(t.books) /\ Priced(t, bars)
  BY <1>7, CarriedIs DEF Priced
<1>9. Visited(Exits(t, k, bars), t, k)
  BY <1>8, ExitsVisit
<1> QED BY <1>3, <1>7, <1>9, CarriedThenVisited

Errands == {"gaps", "manage", "daily_loss_limit", "max_drawdown", "end_of_data"}
LEMMA Visits ==
    ASSUME NEW r, Sound(r), NEW k \in 1..Len(r.books), NEW errand \in Errands, NEW bars, Priced(r, bars)
    PROVE  Visited(Visit(r, k, errand, bars), r, k)
           /\ (errand \notin {"gaps", "manage"} => Without(Visit(r, k, errand, bars), r, k))
<1> DEFINE b == r.books[k]
           quote == IF errand = "end_of_data" THEN bars[b.symbol].c ELSE bars[b.symbol].o
           fill == ExitFill(r.cfg, quote, b.side)
<1>1. CASE errand = "gaps"
  BY <1>1, GapVisits DEF Visit
<1>2. CASE errand = "manage"
  BY <1>2, ManageVisits DEF Visit
<1>3. CASE errand \notin {"gaps", "manage"}
  <2>1. Visit(r, k, errand, bars) = CloseWholeBook(r, k, fill, errand)
    BY <1>3 DEF Visit
  <2>2. r \in Runs /\ b.side \in {-1, 1} /\ bars[b.symbol] \in Candles
    BY SoundBook, BookBar
  <2>3. quote \in Int
    BY <2>2, CandleIs
  <2> HIDE DEF quote
  <2>4. fill \in Int
    BY <2>2, <2>3, FillsAre
  <2>5. errand \in Codes \ {"signal_exit"}
    BY <1>3 DEF Codes, Errands
  <2> HIDE DEF fill
  <2>6. Still(CloseWholeBook(r, k, fill, errand), r) /\ Without(CloseWholeBook(r, k, fill, errand), r, k)
    BY <2>4, <2>5, WholeCloses
  <2> QED BY <2>1, <2>6 DEF Visited
<1> QED BY <1>1, <1>2, <1>3

LEMMA KeysKept ==
    ASSUME NEW r, Sound(r), NEW k \in 1..Len(r.books), NEW s, Smaller(s, r, k), Sound(s)
    PROVE  KeysOf(s) \subseteq KeysOf(r)
<1>1. DOMAIN r.books = 1..Len(r.books) /\ Len(s.books) = Len(r.books)
  BY SoundBook DEF Smaller
<1>2. DOMAIN s.books = 1..Len(r.books)
  <2>1. s.books \in Seq(OpenBooks)
    BY RunIs DEF Sound
  <2> QED BY <1>1, <2>1
<1>3. \A i \in 1..Len(r.books) : s.books[i].key = r.books[i].key
  BY DEF Smaller
<1> QED BY <1>1, <1>2, <1>3 DEF KeysOf

LEMMA KeyGone ==
    ASSUME NEW r, Sound(r), NEW k \in 1..Len(r.books), NEW s, Without(s, r, k), Sound(s)
    PROVE  KeysOf(s) \subseteq KeysOf(r) \ {r.books[k].key}
<1> DEFINE n == Len(r.books)
           from(i) == IF i < k THEN i ELSE i + 1
<1>1. n \in Nat /\ DOMAIN r.books = 1..n /\ k \in 1..n
  BY SoundBook
<1>2. DOMAIN s.books = 1..(n - 1)
  <2>1. s.books \in Seq(OpenBooks)
    BY RunIs DEF Sound
  <2> QED BY <2>1 DEF Without
<1>3. \A i, j \in 1..n : i # j => r.books[i].key # r.books[j].key
  BY <1>1 DEF Sound, Fit, Apart
<1>4. \A i \in 1..(n - 1) : s.books[i] = r.books[from(i)]
  BY DEF Without
<1> HIDE DEF n
<1>5. \A i \in 1..(n - 1) : from(i) \in 1..n /\ from(i) # k
  BY <1>1
<1> HIDE DEF from
<1>6. SUFFICES ASSUME NEW i \in 1..(n - 1) PROVE s.books[i].key \in KeysOf(r) /\ s.books[i].key # r.books[k].key
  BY <1>2 DEF KeysOf
<1>7. from(i) \in 1..n /\ from(i) # k /\ s.books[i].key = r.books[from(i)].key
  BY <1>4, <1>5
<1> QED BY <1>1, <1>3, <1>7 DEF KeysOf

Closing(errand) == errand \notin {"gaps", "manage"}
TurnedTo(s, r, key, errand) ==
    Still(s, r) /\ KeysOf(s) \subseteq KeysOf(r) /\ (Closing(errand) => key \notin KeysOf(s))
LEMMA KeyTurns ==
    ASSUME NEW r, Sound(r), NEW key, NEW errand \in Errands, NEW bars, Priced(r, bars)
    PROVE  TurnedTo(VisitKey(r, key, errand, bars), r, key, errand)
<1> DEFINE at == {k \in DOMAIN r.books : r.books[k].key = key}
           k == CHOOSE x \in at : TRUE
           s == Visit(r, k, errand, bars)
<1>1. VisitKey(r, key, errand, bars) = IF at = {} THEN r ELSE s
  BY DEF VisitKey
<1>2. CASE at = {}
  <2>1. key \notin KeysOf(r)
    BY <1>2 DEF KeysOf
  <2>2. Still(r, r)
    BY DEF Still
  <2> QED BY <1>1, <1>2, <2>1, <2>2 DEF TurnedTo
<1>3. CASE at # {}
  <2>1. k \in at
    BY <1>3
  <2>2. r.books \in Seq(OpenBooks)
    BY RunIs DEF Sound
  <2>3. k \in 1..Len(r.books) /\ r.books[k].key = key
    BY <2>1, <2>2
  <2> HIDE DEF k, at
  <2>4. Visited(s, r, k) /\ (errand \notin {"gaps", "manage"} => Without(s, r, k))
    BY <2>3, Visits
  <2> HIDE DEF s
  <2>5. Sound(s) /\ Still(s, r)
    BY <2>4 DEF Visited, Still
  <2>6. KeysOf(s) \subseteq KeysOf(r)
    BY <2>3, <2>4, <2>5, KeysKept, KeyGone DEF Visited
  <2>7. errand \notin {"gaps", "manage"} => key \notin KeysOf(s)
    BY <2>3, <2>4, <2>5, KeyGone
  <2>8. VisitKey(r, key, errand, bars) = s
    BY <1>1, <1>3
  <2> QED BY <2>5, <2>6, <2>7, <2>8 DEF TurnedTo, Closing
<1> QED BY <1>2, <1>3

VisitTable(r, errand, bars, n, g_) ==
    g_ = [m \in 0..n |-> IF m = 0 THEN r ELSE VisitKey(g_[m - 1], r.books[m].key, errand, bars)]
LEMMA VisitTableExists ==
    ASSUME NEW r, NEW errand, NEW bars, NEW n \in Nat
    PROVE  \E g_ : VisitTable(r, errand, bars, n, g_)
<1> DEFINE bad == {m \in Nat : ~ \E g_ : VisitTable(r, errand, bars, m, g_)}
           step(at, m) == VisitKey(at, r.books[m].key, errand, bars)
<1>1. SUFFICES ASSUME bad # {} PROVE FALSE
  OBVIOUS
<1>2. PICK m \in bad : \A j \in bad : m <= j
  BY <1>1, HasLeast
<1>3. m \in Nat /\ ~ \E g_ : VisitTable(r, errand, bars, m, g_)
  BY <1>2
<1> HIDE DEF step
<1>0. \A i \in Nat : \A g_ : VisitTable(r, errand, bars, i, g_)
                            <=> g_ = [x \in 0..i |-> IF x = 0 THEN r ELSE step(g_[x - 1], x)]
  BY DEF VisitTable, step
<1>4. CASE m = 0
  <2> DEFINE h == [x \in 0..0 |-> r]
  <2>1. h = [x \in 0..0 |-> IF x = 0 THEN r ELSE step(h[x - 1], x)]
    OBVIOUS
  <2> QED BY <1>0, <1>3, <1>4, <2>1
<1>5. CASE m # 0
  <2>1. m - 1 \in Nat /\ m - 1 \notin bad
    <3> HIDE DEF bad
    <3> QED BY <1>2, <1>3, <1>5
  <2>2. PICK g_ : VisitTable(r, errand, bars, m - 1, g_)
    BY <2>1
  <2>3. g_ = [x \in 0..(m - 1) |-> IF x = 0 THEN r ELSE step(g_[x - 1], x)]
    BY <1>0, <2>1, <2>2
  <2> HIDE DEF bad
  <2> DEFINE h == [x \in 0..m |-> IF x = m THEN step(g_[m - 1], m) ELSE g_[x]]
  <2>4. \A x \in 0..m : h[x] = IF x = 0 THEN r ELSE step(h[x - 1], x)
    <3>1. TAKE x \in 0..m
    <3>2. \A j \in 0..(m - 1) : g_[j] = IF j = 0 THEN r ELSE step(g_[j - 1], j)
      BY <2>3
    <3>3. CASE x = m
      <4>1. h[m] = step(g_[m - 1], m) /\ h[m - 1] = g_[m - 1]
        BY <1>3, <1>5
      <4> QED BY <1>5, <3>3, <4>1
    <3>4. CASE x # m
      <4>1. x \in 0..(m - 1) /\ h[x] = g_[x] /\ (x # 0 => h[x - 1] = g_[x - 1])
        BY <1>3, <3>4
      <4> QED BY <3>2, <4>1
    <3> QED BY <3>3, <3>4
  <2>5. h = [x \in 0..m |-> IF x = 0 THEN r ELSE step(h[x - 1], x)]
    BY <2>4
  <2> QED BY <1>0, <1>3, <2>5
<1> QED BY <1>4, <1>5

\* Every book visited, and none left when the errand is to close it.
Toured(s, r, errand) == Still(s, r) /\ (Closing(errand) => s.books = <<>>)
OnTour(s, r, errand, m) ==
    /\ Still(s, r) /\ KeysOf(s) \subseteq KeysOf(r)
    /\ Closing(errand) => \A i \in 1..m : r.books[i].key \notin KeysOf(s)
LEMMA TourVisits ==
    ASSUME NEW r, Sound(r), NEW errand \in Errands, NEW bars, Priced(r, bars)
    PROVE  Toured(ForEachBook(r, errand, bars), r, errand)
<1> DEFINE n == Len(r.books)
           g == CHOOSE g_ : VisitTable(r, errand, bars, n, g_)
           bad == {m \in 0..n : ~OnTour(g[m], r, errand, m)}
           s == g[n]
<1>1. n \in Nat /\ r.books \in Seq(OpenBooks)
  <2>1. r.books \in Seq(OpenBooks)
    BY RunIs DEF Sound
  <2> QED BY <2>1
<1>2. VisitTable(r, errand, bars, n, g)
  BY <1>1, VisitTableExists
<1>3. ForEachBook(r, errand, bars) = s
  BY DEF ForEachBook, VisitTable
<1> HIDE DEF g
<1>4. \A m \in 0..n : g[m] = IF m = 0 THEN r ELSE VisitKey(g[m - 1], r.books[m].key, errand, bars)
  BY <1>2 DEF VisitTable
<1>5. OnTour(g[0], r, errand, 0)
  <2>1. g[0] = r
    BY <1>1, <1>4
  <2>2. Still(r, r)
    BY DEF Still
  <2> QED BY <2>1, <2>2 DEF OnTour
<1> HIDE DEF n, s
<1>6. bad = {}
  <2>1. SUFFICES ASSUME bad # {} PROVE FALSE
    OBVIOUS
  <2> bad \in SUBSET Nat
    BY <1>1
  <2>2. PICK m \in bad : \A j \in bad : m <= j
    <3> HIDE DEF bad
    <3> QED BY <2>1, HasLeast
  <2>3. m \in 1..n /\ ~OnTour(g[m], r, errand, m)
    BY <1>1, <1>5, <2>2
  <2>4. m - 1 \in 0..n /\ m - 1 \in Nat /\ m - 1 \notin bad
    <3> HIDE DEF bad
    <3> QED BY <1>1, <2>2, <2>3
  <2>5. OnTour(g[m - 1], r, errand, m - 1)
    BY <2>4
  <2> DEFINE p == g[m - 1]
             q == g[m]
             key == r.books[m].key
  <2>6. q = VisitKey(p, key, errand, bars)
    BY <1>1, <1>4, <2>3
  <2>7. Still(p, r) /\ Sound(p) /\ p.lines = r.lines
    <3>1. Still(p, r)
      BY <2>5 DEF OnTour
    <3> QED BY <3>1, SameFixed DEF Still
  <2>8. Priced(p, bars)
    BY <2>7 DEF Priced
  <2> HIDE DEF key, p
  <2>9. TurnedTo(VisitKey(p, key, errand, bars), p, key, errand)
    BY <2>7, <2>8, KeyTurns
  <2>10. TurnedTo(q, p, key, errand)
    BY <2>6, <2>9
  <2> HIDE DEF q, bad
  <2>11. Still(q, r)
    BY <2>7, <2>10, StillThenStill DEF TurnedTo
  <2>12. KeysOf(q) \subseteq KeysOf(r)
    BY <2>5, <2>10 DEF TurnedTo, OnTour, p
  <2>13. ASSUME Closing(errand), NEW i \in 1..m PROVE r.books[i].key \notin KeysOf(q)
    <3>1. CASE i = m
      BY <2>10, <2>13, <3>1 DEF TurnedTo, key
    <3>2. CASE i # m
      <4>1. i \in 1..(m - 1)
        BY <1>1, <2>3, <3>2
      <4> QED BY <2>5, <2>10, <2>13, <4>1 DEF OnTour, TurnedTo, p
    <3> QED BY <3>1, <3>2
  <2>14. OnTour(q, r, errand, m)
    BY <2>11, <2>12, <2>13 DEF OnTour
  <2> QED BY <2>3, <2>14 DEF q
<1>7. OnTour(s, r, errand, n)
  <2>1. n \in 0..n
    BY <1>1
  <2> QED BY <1>6, <2>1 DEF s
<1> HIDE DEF bad
<1>8. ASSUME Closing(errand) PROVE s.books = <<>>
  <2>1. KeysOf(s) = {}
    <3>1. DOMAIN r.books = 1..n
      BY <1>1 DEF n
    <3> QED BY <1>7, <1>8, <3>1 DEF OnTour, KeysOf
  <2>2. s.books \in Seq(OpenBooks)
    BY <1>7, RunIs DEF OnTour, Still, Sound
  <2>3. Len(s.books) \in Nat /\ DOMAIN s.books = 1..Len(s.books)
    BY <2>2
  <2>4. Len(s.books) = 0
    <3>1. SUFFICES ASSUME Len(s.books) # 0 PROVE FALSE
      OBVIOUS
    <3>2. 1 \in DOMAIN s.books
      BY <2>3, <3>1
    <3> QED BY <2>1, <3>2 DEF KeysOf
  <2> QED BY <2>2, <2>4, EmptySeq
<1> QED BY <1>3, <1>7, <1>8 DEF Toured, OnTour

-----------------------------------------------------------------------------
(* The engine: the size and the record of an entry. *)

LEMMA VolumeIsNat == ASSUME NEW lots \in Int PROVE NormalizeVolume(lots) \in Nat
<1>1. \A x \in Int : OnGrid(x) \in Int
  BY GridAssumption, Floor DEF OnGrid
<1> QED BY <1>1, CapIsInt, GridAssumption DEF NormalizeVolume

LEMMA SizeIsNat == ASSUME NEW r \in Runs, NEW atr \in Int PROVE Sized(r, atr) \in Nat
<1> DEFINE o == [mode |-> r.cfg.sizing, equity |-> r.basis, balance |-> r.basis, stop |-> SlAtr * atr,
                 value |-> r.cfg.risk, maxLots |-> r.cfg.maxLots, kellyOn |-> FALSE, kelly |-> 0,
                 finite |-> TRUE, margin |-> {}, free |-> {}]
           loss == LossPerUnit(EnforceMinStop(o.stop))
           budget == Budget(o, loss)
           raw == budget \div (100 * loss)
           most == IF o.maxLots <= 0 THEN VolumeMax ELSE o.maxLots
           ceiling == Min({most, BrokerCap})
           clamped == budget > 100 * loss * ceiling
           lots == NormalizeVolume(IF clamped THEN ceiling ELSE raw)
           answer == SizePosition(o)
<1>1. o.equity \in Int /\ o.balance \in Int /\ o.stop \in Int /\ o.value \in Int /\ o.maxLots \in Int /\ ~o.kellyOn /\ o.margin = {}
  BY ConfigIs, RunIs, ScalarsAre
<1> HIDE DEF o
<1>2. ASSUME o.stop > 0 PROVE loss \in Nat \ {0}
  <2>1. StopsLevel \in Int /\ TickLoss \in Nat \ {0}
    BY GridAssumption
  <2> DEFINE d == EnforceMinStop(o.stop)
  <2>2. d \in Int /\ d > 0
    <3> DEFINE x == o.stop
    <3>1. x \in Int /\ x > 0 /\ d = Max({x, StopsLevel})
      BY <1>1, <1>2 DEF EnforceMinStop
    <3> HIDE DEF x, d
    <3>2. Max({x, StopsLevel}) = IF x >= StopsLevel THEN x ELSE StopsLevel
      BY <2>1, <3>1, MaxOfTwo
    <3> QED BY <2>1, <3>1, <3>2
  <2> HIDE DEF d
  <2>3. Max({1, d}) \in Nat \ {0}
    BY <2>2, MaxOfTwo
  <2>4. Max({1, d}) * TickLoss \in Nat \ {0}
    BY <2>1, <2>3
  <2>5. LossPerUnit(d) = Max({1, d}) * TickLoss
    BY <2>2 DEF LossPerUnit
  <2> QED BY <2>4, <2>5 DEF d
<1> HIDE DEF loss
<1>3. ASSUME o.stop > 0, o.mode # "kelly_fraction" PROVE budget \in Int
  <2>1. loss \in Int
    BY <1>2, <1>3
  <2>2. budget = IF o.mode = "fixed_lot" THEN 100 * o.value * loss
          ELSE IF o.mode = "fixed_money" THEN 100 * o.value
          ELSE IF o.mode = "risk_percent_balance" THEN o.balance * o.value
          ELSE o.equity * o.value
    BY <1>3 DEF Budget
  <2> HIDE DEF budget
  <2> QED BY <1>1, <2>1, <2>2
<1>4. ceiling \in Int
  <2>1. most \in Int
    BY <1>1, GridAssumption
  <2> HIDE DEF most
  <2> QED BY <2>1, CapIsInt, MinOfTwo
<1> HIDE DEF budget, ceiling
<1>5. ASSUME o.stop > 0, o.mode # "kelly_fraction" PROVE lots \in Nat
  <2>1. raw \in Int
    <3>1. 100 * loss \in Nat \ {0} /\ budget \in Int
      BY <1>2, <1>3, <1>5
    <3> QED BY <3>1, QuotientIsInt
  <2> HIDE DEF raw, clamped
  <2>2. (IF clamped THEN ceiling ELSE raw) \in Int
    BY <1>4, <2>1
  <2> QED BY <2>2, VolumeIsNat
<1>6. /\ o.mode = "kelly_fraction" => InvalidArgs(o)
      /\ InvalidArgs(o) => answer.lots = 0
      /\ o.stop <= 0 => answer.lots = 0
      /\ answer.lots \in {0, lots}
  <2>1. o.mode = "kelly_fraction" => InvalidArgs(o)
    BY <1>1 DEF InvalidArgs
  <2> DEFINE given == [lots |-> lots, reason |-> IF clamped THEN "clamped_to_max" ELSE "ok"]
  <2>2. MarginChecked(o, given) = given
    BY <1>1 DEF MarginChecked
  <2> HIDE DEF lots, clamped
  <2>3. given.lots = lots
    OBVIOUS
  <2> HIDE DEF given
  <2>4. answer = IF InvalidArgs(o) THEN Rejected("invalid_args")
        ELSE IF o.stop <= 0 THEN Rejected("missing_stop")
        ELSE IF o.mode = "kelly_fraction" /\ o.kelly <= 0 THEN Rejected("no_edge")
        ELSE IF budget <= 0 THEN Rejected("invalid_args")
        ELSE IF raw < VolumeMin \/ ceiling < VolumeMin THEN Rejected("below_min_volume")
        ELSE IF lots = 0 THEN Rejected("invalid_args")
        ELSE given
    BY <2>2, Zenon DEF SizePosition, given, lots, clamped, ceiling, raw, budget, loss, most
  <2> HIDE DEF answer, raw
  <2>5. \A x : Rejected(x).lots = 0
    BY DEF Rejected
  <2> QED BY <2>1, <2>3, <2>4, <2>5
<1>7. answer.lots \in Nat
  <2>1. o.stop <= 0 \/ o.stop > 0
    BY <1>1
  <2> HIDE DEF lots, answer
  <2> QED BY <1>5, <1>6, <2>1
<1> DEFINE size == answer.lots
           scaled == OnGrid((size * r.cfg.weight) \div 100)
<1>8. Sized(r, atr) = IF atr <= 0 THEN 0 ELSE IF r.cfg.weight >= 100 THEN size ELSE IF scaled < VolumeMin THEN 0 ELSE scaled
  BY Zenon DEF Sized, o
<1> HIDE DEF answer
<1>9. scaled \in Int
  <2>1. r.cfg.weight \in Int
    BY ConfigIs
  <2>2. size * r.cfg.weight \in Int
    BY <1>7, <2>1
  <2>3. (size * r.cfg.weight) \div 100 \in Int
    BY <2>2
  <2> QED BY <2>3, GridAssumption, Floor DEF OnGrid
<1> HIDE DEF scaled
<1> QED BY <1>7, <1>8, <1>9, GridAssumption

LEMMA LevelsAre ==
    ASSUME NEW r, NEW line, NEW side \in {-1, 1}, NEW fill \in Int, r.prev[line.symbol] \in Candles
    PROVE  Levels(r, line, side, fill).sl \in Int /\ Levels(r, line, side, fill).tp \in Int
<1> DEFINE a == r.prev[line.symbol].atr
           x == EnforceMinStop(SlAtr * a)
           y == EnforceMinStop(TpAtr * a)
<1>1. a \in Int /\ StopsLevel \in Int
  BY CandleIs, GridAssumption
<1>2. SlAtr * a \in Int /\ TpAtr * a \in Int
  BY <1>1, ScalarsAre
<1> HIDE DEF a
<1>3. x \in Int /\ y \in Int
  BY <1>1, <1>2, MaxOfTwo DEF EnforceMinStop
<1>4. Levels(r, line, side, fill).sl = fill - side * x /\ Levels(r, line, side, fill).tp = fill + side * y
  BY DEF Levels, a
<1> HIDE DEF x, y
<1> QED BY <1>3, <1>4

\* What the log of a bar gains.
Logged(s, r, e) ==
    /\ Sound(s) /\ Fixed(s) = Fixed(r)
    /\ LinesLeft(s) = LinesLeft(r) \cup (IF e.type = "close" /\ e.code = "signal_exit" THEN {<<e.symbol, e.strategy>>} ELSE {})
    /\ Entered(s) = Entered(r) \cup (IF e.type = "open" THEN {<<e.symbol, e.strategy>>} ELSE {})
LEMMA NoteKeeps ==
    ASSUME NEW r, Sound(r), NEW e \in Entries
    PROVE  Logged(Note(r, e), r, e)
<1> DEFINE s == Note(r, e)
           log == Append(r.log, e)
<1>1. r \in Runs /\ Ledger(r) /\ Fit(r.books, r.cfg, r.opened, r.lines) /\ Quoted(r)
  BY DEF Sound
<1>2. log \in Seq(Entries)
  BY <1>1, RunIs
<1>3. s = [r EXCEPT !.log = log]
  BY DEF Note
<1> HIDE DEF log, s
<1>4. /\ s \in Runs /\ s.log = log /\ Fixed(s) = Fixed(r) /\ s.opened = r.opened /\ s.books = r.books
      /\ s.cash = r.cash /\ s.booked = r.booked
  BY <1>1, <1>2, <1>3 DEF Runs, Fixed
<1>5. s.lines = r.lines /\ s.cfg = r.cfg /\ s.prev = r.prev /\ s.desired = r.desired
  BY <1>4, SameFixed
<1>6. Sound(s)
  BY <1>1, <1>4, <1>5 DEF Sound, Ledger, Quoted
<1>7. s.log = Append(r.log, e)
  BY <1>4 DEF log
<1>8. /\ LinesLeft(s) = LinesLeft(r) \cup (IF e.type = "close" /\ e.code = "signal_exit" THEN {<<e.symbol, e.strategy>>} ELSE {})
      /\ Entered(s) = Entered(r) \cup (IF e.type = "open" THEN {<<e.symbol, e.strategy>>} ELSE {})
  BY <1>1, <1>7, Noted
<1> QED BY <1>4, <1>6, <1>8 DEF Logged, s

\* What an order may do.
Pair(line) == <<line.symbol, line.strategy>>
Ordered(s, r, line) ==
    Sound(s) /\ Fixed(s) = Fixed(r) /\ LinesLeft(s) = LinesLeft(r) /\ Entered(s) \subseteq Entered(r) \cup {Pair(line)}
Named(line) == line.symbol \in STRING /\ line.strategy \in STRING

LEMMA RejectKeeps ==
    ASSUME NEW r, Sound(r), NEW line, Named(line), NEW code \in Codes
    PROVE  Ordered(Note(r, Event(line, "reject", code)), r, line)
<1> DEFINE e == Event(line, "reject", code)
           x == line.symbol
           y == line.strategy
<1>1. e = [type |-> "reject", symbol |-> x, strategy |-> y, side |-> 0, code |-> code]
  BY DEF Event
<1>2. x \in STRING /\ y \in STRING
  BY DEF Named
<1> HIDE DEF e, x, y
<1>3. e \in Entries /\ e.type = "reject"
  <2>1. 0 \in Int /\ "reject" \in {"close", "reject"}
    OBVIOUS
  <2>2. e \in Entries /\ e.type = "reject" /\ e.code = code /\ e.symbol = x /\ e.strategy = y
    BY <1>1, <1>2, <2>1, EntryIs
  <2> QED BY <2>2
<1>4. Logged(Note(r, e), r, e)
  BY <1>3, NoteKeeps
<1> QED BY <1>3, <1>4 DEF Logged, Ordered, e

LEMMA OpenEventIs ==
    ASSUME NEW r, Sound(r), NEW line, Named(line), NEW side \in Int
    PROVE  LET e == OpenEvent(line, side, r) IN
           e \in Entries /\ e.type = "open" /\ e.symbol = line.symbol /\ e.strategy = line.strategy
<1> DEFINE e == OpenEvent(line, side, r)
           x == line.symbol
           y == line.strategy
           books == [k \in DOMAIN r.books |-> <<r.books[k].symbol, r.books[k].lots>>]
           n == Len(r.books)
<1>1. r.books \in Seq(OpenBooks) /\ r.basis \in Int
  BY RunIs DEF Sound
<1>2. n \in Nat /\ DOMAIN r.books = 1..n
  BY <1>1
<1>3. \A k \in 1..n : r.books[k].symbol \in STRING /\ r.books[k].lots \in Int
  <2>1. \A k \in 1..n : r.books[k] \in OpenBooks
    BY <1>1
  <2> QED BY <2>1, BookIs
<1>4. books \in Seq(STRING \X Int)
  BY <1>2, <1>3
<1>5. e = [type |-> "open", symbol |-> x, strategy |-> y, side |-> side, code |-> "", books |-> books, basis |-> r.basis]
  BY DEF OpenEvent
<1>6. x \in STRING /\ y \in STRING /\ "" \in Codes
  BY DEF Named, Codes
<1> HIDE DEF e, x, y, books
<1>7. e \in Entries /\ e.type = "open" /\ e.symbol = x /\ e.strategy = y
  BY <1>1, <1>4, <1>5, <1>6 DEF Entries
<1> QED BY <1>7 DEF e, x, y

LEMMA OpenedKeeps ==
    ASSUME NEW r, Sound(r), NEW line, Named(line), NEW side \in Int
    PROVE  Ordered(Opened(r, line, side), r, line)
<1> DEFINE e == OpenEvent(line, side, r)
<1>1. e \in Entries /\ e.type = "open" /\ e.symbol = line.symbol /\ e.strategy = line.strategy
  BY OpenEventIs
<1> HIDE DEF e
<1>2. Logged(Note(r, e), r, e)
  BY <1>1, NoteKeeps
<1>3. Opened(r, line, side) = Note(r, e)
  BY DEF Opened, e
<1> QED BY <1>1, <1>2, <1>3 DEF Logged, Ordered, Pair

-----------------------------------------------------------------------------
(* The engine: an entry. *)

\* Nobody else's book is in the way of the line.
Clear(books, cfg, line) ==
    \A j \in DOMAIN books : books[j].symbol = line.symbol => cfg.mode = "hedging" /\ line.strategy \notin Names(books[j].legs)

LEMMA OrderedThenOrdered ==
    ASSUME NEW r, NEW s, NEW t, NEW line, Fixed(s) = Fixed(r), LinesLeft(s) = LinesLeft(r), Entered(s) = Entered(r), Ordered(t, s, line)
    PROVE  Ordered(t, r, line)
BY DEF Ordered

LEMMA OneLeg ==
    ASSUME NEW leg \in BookLegs
    PROVE  <<leg>> \in Seq(BookLegs) /\ Distinct(<<leg>>) /\ LegLots(<<leg>>) = leg.lots /\ LegFees(<<leg>>) = leg.fee + leg.swap
           /\ Names(<<leg>>) = {leg.strategy}
<1>1. <<leg>> = Append(<<>>, leg) /\ <<>> \in Seq(BookLegs)
  OBVIOUS
<1>2. leg.lots \in Int /\ leg.fee \in Int /\ leg.swap \in Int
  BY DEF BookLegs
<1>3. /\ <<leg>> \in Seq(BookLegs) /\ LegLots(<<leg>>) = LegLots(<<>>) + leg.lots
      /\ LegFees(<<leg>>) = LegFees(<<>>) + leg.fee + leg.swap
  BY <1>1, LegAdded
<1>4. LegLots(<<leg>>) = leg.lots /\ LegFees(<<leg>>) = leg.fee + leg.swap
  BY <1>2, <1>3, NoLegs
<1>5. Distinct(<<leg>>)
  BY DEF Distinct
<1>6. Names(<<leg>>) = {leg.strategy}
  BY DEF Names
<1> QED BY <1>3, <1>4, <1>5, <1>6

\* A book is added: the account pays its fee, which its leg still owes.
Grown(r, b, fee) == [r EXCEPT !.books = Append(@, b), !.opened = @ + 1, !.cash = @ - fee]
LEMMA GrownKeeps ==
    ASSUME NEW r, Sound(r), Len(r.books) < r.cfg.maxBooks, NEW b \in OpenBooks, b.key = r.opened + 1, Whole(b),
           b.symbol \in SymbolsOf(r.lines), NEW fee \in Int, LegFees(b.legs) = fee,
           \A j \in 1..Len(r.books) : r.books[j].symbol = b.symbol =>
                r.cfg.mode = "hedging" /\ Names(r.books[j].legs) \cap Names(b.legs) = {}
    PROVE  LET s == Grown(r, b, fee) IN
           Sound(s) /\ Fixed(s) = Fixed(r) /\ LinesLeft(s) = LinesLeft(r) /\ Entered(s) = Entered(r)
<1> DEFINE s == Grown(r, b, fee)
           books == Append(r.books, b)
           cash == r.cash - fee
           opened == r.opened + 1
<1>1. r \in Runs /\ Ledger(r) /\ Fit(r.books, r.cfg, r.opened, r.lines) /\ Quoted(r)
  BY DEF Sound
<1>2. r.cash \in Int /\ r.booked \in Int /\ r.opened \in Nat /\ r.books \in Seq(OpenBooks)
  BY <1>1, RunIs
<1>3. cash \in Int /\ opened \in Nat /\ books \in Seq(OpenBooks)
  BY <1>2
<1>4. Owed(books) = Owed(r.books) + fee /\ Owed(r.books) \in Int
  BY <1>2, OwedAppended, OwedSum
<1>5. Fit(books, r.cfg, opened, r.lines)
  <2>1. r.cfg.maxBooks \in Nat
    BY <1>1, ConfigIs
  <2> QED BY <1>1, <1>2, <2>1, FitAppended
<1>6. s = [r EXCEPT !.books = books, !.opened = opened, !.cash = cash]
  BY DEF Grown
<1> HIDE DEF s, books, opened
<1>7. /\ s \in Runs /\ s.log = r.log /\ Fixed(s) = Fixed(r) /\ s.opened = opened /\ s.books = books
      /\ s.cash = cash /\ s.booked = r.booked
  <2> HIDE DEF cash
  <2> QED BY <1>1, <1>3, <1>6 DEF Runs, Fixed
<1>8. s.lines = r.lines /\ s.cfg = r.cfg /\ s.prev = r.prev /\ s.desired = r.desired
  BY <1>7, SameFixed
<1>9. Ledger(s)
  <2> DEFINE o == Owed(r.books)
             p == Owed(books)
             v == r.cash
             u == r.booked
  <2>1. v = Capital + u - o /\ p = o + fee /\ o \in Int /\ u \in Int /\ v \in Int /\ Capital \in Int
    BY <1>1, <1>2, <1>4, ScalarsAre DEF Ledger
  <2> HIDE DEF o, p, v, u
  <2>2. v - fee = Capital + u - p
    BY <2>1
  <2> QED BY <1>7, <2>2 DEF Ledger, o, p, v, u
<1>10. Sound(s)
  BY <1>1, <1>5, <1>7, <1>8, <1>9 DEF Sound, Quoted
<1>11. LinesLeft(s) = LinesLeft(r) /\ Entered(s) = Entered(r)
  BY <1>7, SameLog
<1> QED BY <1>7, <1>10, <1>11 DEF s

Rises(lv) == lv.sl \in Int /\ lv.tp \in Int
LEMMA FreshOrders ==
    ASSUME NEW r, Sound(r), NEW line, Named(line), line.symbol \in SymbolsOf(r.lines), Clear(r.books, r.cfg, line),
           NEW side \in {-1, 1}, NEW lots \in Nat \ {0}, NEW fill \in Int, NEW lv, Rises(lv), NEW price
    PROVE  Ordered(OpenFresh(r, line, side, lots, fill, lv, price), r, line)
<1> DEFINE refusal == CapRefusal(r, line, lots, price, TRUE)
           b == NewBook(r, line, side, lots, fill, lv)
           fee == Commission(r.cfg, lots)
           leg == [strategy |-> line.strategy, lots |-> lots, entry |-> fill, fee |-> fee, swap |-> 0]
           no == Note(r, Event(line, "reject", "cap"))
           s == Grown(r, b, fee)
<1>1. r \in Runs /\ r.opened \in Nat /\ r.books \in Seq(OpenBooks)
  BY RunIs DEF Sound
<1>2. fee \in Int
  BY <1>1, CommissionIsInt
<1>3. b = [key |-> r.opened + 1, symbol |-> line.symbol, side |-> side, lots |-> lots, entry |-> fill, fresh |-> TRUE,
           sl |-> lv.sl, tp |-> lv.tp, held |-> 0, partial |-> FALSE, be |-> FALSE, legs |-> <<leg>>]
  BY DEF NewBook
<1>4. OpenFresh(r, line, side, lots, fill, lv, price) = IF refusal # {} THEN no ELSE Opened(s, line, side)
  <2>1. b.legs[1].fee = fee
    BY <1>3
  <2> HIDE DEF refusal, no, b, fee
  <2>2. OpenFresh(r, line, side, lots, fill, lv, price)
        = IF refusal # {} THEN no
          ELSE Opened([r EXCEPT !.books = Append(@, b), !.opened = @ + 1, !.cash = @ - b.legs[1].fee], line, side)
    BY DEF OpenFresh, refusal, no, b
  <2> QED BY <2>1, <2>2 DEF Grown
<1>5. Ordered(no, r, line)
  <2>1. "cap" \in Codes
    BY DEF Codes
  <2> QED BY <2>1, RejectKeeps
<1>6. CASE refusal # {}
  BY <1>4, <1>5, <1>6
<1>7. CASE refusal = {}
  <2>1. Len(r.books) < r.cfg.maxBooks
    <3>1. ~(Len(r.books) >= r.cfg.maxBooks)
      BY <1>7 DEF CapRefusal
    <3>2. r.cfg.maxBooks \in Nat /\ Len(r.books) \in Nat
      BY <1>1, ConfigIs
    <3> QED BY <3>1, <3>2
  <2> HIDE DEF refusal, no, b, fee
  <2>2. leg \in BookLegs /\ leg.fee = fee /\ leg.lots = lots /\ leg.swap = 0 /\ leg.strategy = line.strategy
    BY <1>2 DEF Named, BookLegs
  <2> HIDE DEF leg
  <2>3. <<leg>> \in Seq(BookLegs) /\ Distinct(<<leg>>) /\ LegLots(<<leg>>) = lots /\ LegFees(<<leg>>) = fee
        /\ Names(<<leg>>) = {line.strategy}
    BY <1>2, <2>2, OneLeg
  <2>4. b \in OpenBooks /\ b.key = r.opened + 1 /\ b.symbol = line.symbol /\ b.lots = lots /\ b.legs = <<leg>>
    <3> DEFINE legs == <<leg>>
               key == r.opened + 1
               sl == lv.sl
               tp == lv.tp
               x == line.symbol
    <3>1. legs \in Seq(BookLegs) /\ key \in Nat /\ sl \in Int /\ tp \in Int /\ x \in STRING
      BY <1>1, <2>3 DEF Rises, Named
    <3>2. b = [key |-> key, symbol |-> x, side |-> side, lots |-> lots, entry |-> fill, fresh |-> TRUE,
               sl |-> sl, tp |-> tp, held |-> 0, partial |-> FALSE, be |-> FALSE, legs |-> legs]
      BY <1>3
    <3> HIDE DEF legs, key, sl, tp, x
    <3>3. b \in OpenBooks /\ b.key = key /\ b.symbol = x /\ b.lots = lots /\ b.legs = legs
      BY <3>1, <3>2 DEF OpenBooks
    <3> QED BY <3>3 DEF key, x, legs
  <2>5. Whole(b) /\ LegFees(b.legs) = fee
    BY <2>3, <2>4 DEF Whole
  <2>6. \A j \in 1..Len(r.books) : r.books[j].symbol = b.symbol =>
                r.cfg.mode = "hedging" /\ Names(r.books[j].legs) \cap Names(b.legs) = {}
    BY <1>1, <2>3, <2>4 DEF Clear
  <2>7. b.symbol \in SymbolsOf(r.lines)
    BY <2>4
  <2>8. Sound(s) /\ Fixed(s) = Fixed(r) /\ LinesLeft(s) = LinesLeft(r) /\ Entered(s) = Entered(r)
    <3>1. LET t == Grown(r, b, fee) IN
           Sound(t) /\ Fixed(t) = Fixed(r) /\ LinesLeft(t) = LinesLeft(r) /\ Entered(t) = Entered(r)
      BY <1>2, <2>1, <2>4, <2>5, <2>6, <2>7, GrownKeeps
    <3> QED BY <3>1
  <2> HIDE DEF s
  <2>9. Ordered(Opened(s, line, side), s, line)
    <3>1. side \in Int
      OBVIOUS
    <3> QED BY <2>8, <3>1, OpenedKeeps
  <2>10. Ordered(Opened(s, line, side), r, line)
    BY <2>8, <2>9, OrderedThenOrdered
  <2> QED BY <1>4, <1>7, <2>10
<1> QED BY <1>6, <1>7

\* A leg joins the book of its symbol: the account pays its fee, which the leg still owes.
Joined(r, k, c, fee) == [r EXCEPT !.cash = @ - fee, !.books[k] = c]
LEMMA JoinedKeeps ==
    ASSUME NEW r, Sound(r), NEW k \in 1..Len(r.books), NEW c \in OpenBooks, c.key = r.books[k].key,
           c.symbol = r.books[k].symbol, Whole(c), NEW fee \in Int, LegFees(c.legs) = LegFees(r.books[k].legs) + fee,
           r.cfg.mode # "hedging"
    PROVE  LET s == Joined(r, k, c, fee) IN
           Sound(s) /\ Fixed(s) = Fixed(r) /\ LinesLeft(s) = LinesLeft(r) /\ Entered(s) = Entered(r)
<1> DEFINE s == Joined(r, k, c, fee)
           b == r.books[k]
           books == [r.books EXCEPT ![k] = c]
           cash == r.cash - fee
<1>1. r \in Runs /\ Ledger(r) /\ Fit(r.books, r.cfg, r.opened, r.lines) /\ Quoted(r)
  BY DEF Sound
<1>2. r.cash \in Int /\ r.booked \in Int /\ r.books \in Seq(OpenBooks) /\ LegFees(b.legs) \in Int
  BY <1>1, RunIs, BookIs
<1>3. cash \in Int
  BY <1>2
<1>4. books \in Seq(OpenBooks) /\ Owed(books) = Owed(r.books) - LegFees(b.legs) + LegFees(c.legs) /\ Owed(r.books) \in Int
  <2>1. Owed(r.books) \in Int
    BY <1>2, OwedSum
  <2>2. books \in Seq(OpenBooks)
    BY <1>2, OwedReplaced
  <2>3. Owed(books) = Owed(r.books) - LegFees(b.legs) + LegFees(c.legs)
    BY <1>2, OwedReplaced
  <2> QED BY <2>1, <2>2, <2>3
<1>5. Fit(books, r.cfg, r.opened, r.lines)
  <2>1. ASSUME NEW i \in 1..Len(r.books), i # k PROVE Apart(r.cfg, r.books[i], c)
    <3>1. Apart(r.cfg, r.books[i], b)
      BY <1>1, <1>2, <2>1 DEF Fit
    <3> QED BY <3>1 DEF Apart
  <2> QED BY <1>1, <1>2, <2>1, FitReplaced
<1>6. s = [r EXCEPT !.cash = cash, !.books = books]
  BY <1>1 DEF Joined, Runs
<1> HIDE DEF s, books
<1>7. /\ s \in Runs /\ s.log = r.log /\ Fixed(s) = Fixed(r) /\ s.opened = r.opened /\ s.books = books
      /\ s.cash = cash /\ s.booked = r.booked
  <2> HIDE DEF cash
  <2> QED BY <1>1, <1>3, <1>4, <1>6 DEF Runs, Fixed
<1>8. s.lines = r.lines /\ s.cfg = r.cfg /\ s.prev = r.prev /\ s.desired = r.desired
  BY <1>7, SameFixed
<1>9. Ledger(s)
  <2> DEFINE o == Owed(r.books)
             p == Owed(books)
             v == r.cash
             u == r.booked
             x == LegFees(b.legs)
  <2>1. v = Capital + u - o /\ p = o - x + (x + fee) /\ o \in Int /\ u \in Int /\ v \in Int /\ x \in Int /\ Capital \in Int
    BY <1>1, <1>2, <1>4, ScalarsAre DEF Ledger
  <2> HIDE DEF o, p, v, u, x
  <2>2. v - fee = Capital + u - p
    BY <2>1
  <2> QED BY <1>7, <2>2 DEF Ledger, o, p, v, u
<1>10. Sound(s)
  BY <1>1, <1>5, <1>7, <1>8, <1>9 DEF Sound, Quoted
<1>11. LinesLeft(s) = LinesLeft(r) /\ Entered(s) = Entered(r)
  BY <1>7, SameLog
<1> QED BY <1>7, <1>10, <1>11 DEF s

LEMMA DistinctMore ==
    ASSUME NEW legs \in Seq(BookLegs), Distinct(legs), NEW leg \in BookLegs, leg.strategy \notin Names(legs)
    PROVE  Distinct(Append(legs, leg))
<1> DEFINE n == Len(legs)
           more == Append(legs, leg)
<1>1. n \in Nat /\ DOMAIN legs = 1..n /\ DOMAIN more = 1..(n + 1) /\ more[n + 1] = leg /\ \A j \in 1..n : more[j] = legs[j]
  OBVIOUS
<1> HIDE DEF n, more
<1>2. \A j \in 1..n : legs[j].strategy # leg.strategy
  BY <1>1 DEF Names
<1>3. ASSUME NEW j \in 1..(n + 1), NEW m \in 1..(n + 1), j # m PROVE more[j].strategy # more[m].strategy
  <2>1. (j \in 1..n \/ j = n + 1) /\ (m \in 1..n \/ m = n + 1)
    BY <1>1
  <2> QED BY <1>1, <1>2, <1>3, <2>1 DEF Distinct
<1> QED BY <1>1, <1>3 DEF Distinct, more

LEMMA AverageIsInt ==
    ASSUME NEW v \in Nat \ {0}, NEW w \in Nat \ {0}, NEW x \in Int, NEW y \in Int PROVE (v * x + w * y) \div (v + w) \in Int
<1>1. v * x + w * y \in Int /\ v + w \in Nat \ {0}
  OBVIOUS
<1> QED BY <1>1, QuotientIsInt

LEMMA MergeOrders ==
    ASSUME NEW r, Sound(r), NEW line, Named(line), NEW k \in 1..Len(r.books), r.cfg.mode # "hedging",
           line.strategy \notin Names(r.books[k].legs), NEW side \in {-1, 1}, NEW lots \in Nat \ {0},
           NEW fill \in Int, NEW lv, Rises(lv), NEW price
    PROVE  Ordered(Merge(r, k, line, side, lots, fill, lv, price), r, line)
<1> DEFINE b == r.books[k]
           fee == Commission(r.cfg, lots)
           leg == [strategy |-> line.strategy, lots |-> lots, entry |-> fill, fee |-> fee, swap |-> 0]
           avg(x, y) == (b.lots * x + lots * y) \div (b.lots + lots)
           legs == Append(b.legs, leg)
           sl == avg(b.sl, lv.sl)
           tp == avg(b.tp, lv.tp)
           entry == avg(b.entry, fill)
           sum == b.lots + lots
           c == [b EXCEPT !.sl = sl, !.tp = tp, !.entry = entry, !.lots = sum, !.legs = legs]
           no == Note(r, Event(line, "reject", "cap"))
           s == Joined(r, k, c, fee)
<1>1. r \in Runs /\ b \in OpenBooks /\ Distinct(b.legs) /\ b.legs \in Seq(BookLegs) /\ b.lots \in Nat \ {0} /\ b.lots = LegLots(b.legs)
  BY SoundBook
<1>2. b.sl \in Int /\ b.tp \in Int /\ b.entry \in Int /\ fee \in Int /\ LegLots(b.legs) \in Int /\ LegFees(b.legs) \in Int
  <2>1. fee \in Int
    <3>1. r \in Runs /\ lots \in Int
      BY <1>1
    <3> QED BY ONLY <3>1, CommissionIsInt DEF fee
  <2> QED BY <1>1, <2>1, BookIs
<1>3. Merge(r, k, line, side, lots, fill, lv, price) \in {no, Opened(s, line, side)}
  BY DEF Merge, Joined
<1>4. sl \in Int /\ tp \in Int /\ entry \in Int /\ sum \in Nat \ {0}
  <2>1. lv.sl \in Int /\ lv.tp \in Int
    BY DEF Rises
  <2> HIDE DEF b
  <2>2. sl \in Int
    BY <1>1, <1>2, <2>1, AverageIsInt
  <2>3. tp \in Int
    BY <1>1, <1>2, <2>1, AverageIsInt
  <2>4. entry \in Int
    BY <1>1, <1>2, AverageIsInt
  <2> QED BY <1>1, <2>2, <2>3, <2>4
<1> HIDE DEF fee, sl, tp, entry
<1>5. leg \in BookLegs /\ leg.fee = fee /\ leg.lots = lots /\ leg.swap = 0 /\ leg.strategy = line.strategy
  BY <1>2 DEF Named, BookLegs
<1> HIDE DEF leg
<1>6. legs \in Seq(BookLegs) /\ LegLots(legs) = b.lots + lots /\ LegFees(legs) = LegFees(b.legs) + fee
  <2>1. /\ legs \in Seq(BookLegs) /\ LegLots(legs) = LegLots(b.legs) + leg.lots
        /\ LegFees(legs) = LegFees(b.legs) + leg.fee + leg.swap
    BY <1>1, <1>5, LegAdded
  <2> HIDE DEF legs, b
  <2> QED BY <1>1, <1>2, <1>5, <2>1
<1>7. Distinct(legs)
  <2>1. leg.strategy \notin Names(b.legs)
    BY <1>5
  <2> QED BY <1>1, <1>5, <2>1, DistinctMore
<1> HIDE DEF legs, sum
<1>8. c \in OpenBooks /\ c.key = b.key /\ c.symbol = b.symbol /\ c.lots = sum /\ c.legs = legs
  <2> HIDE DEF b
  <2> QED BY <1>1, <1>4, <1>6 DEF OpenBooks
<1> HIDE DEF c
<1>9. Whole(c) /\ LegFees(c.legs) = LegFees(b.legs) + fee
  BY <1>6, <1>7, <1>8 DEF Whole, sum
<1>10. Sound(s) /\ Fixed(s) = Fixed(r) /\ LinesLeft(s) = LinesLeft(r) /\ Entered(s) = Entered(r)
  <2>1. c.key = r.books[k].key /\ c.symbol = r.books[k].symbol /\ LegFees(c.legs) = LegFees(r.books[k].legs) + fee
    BY <1>8, <1>9
  <2>2. LET t == Joined(r, k, c, fee) IN
         Sound(t) /\ Fixed(t) = Fixed(r) /\ LinesLeft(t) = LinesLeft(r) /\ Entered(t) = Entered(r)
    BY <1>2, <1>8, <1>9, <2>1, JoinedKeeps
  <2> QED BY <2>2
<1> HIDE DEF s, no
<1>11. Ordered(Opened(s, line, side), r, line)
  <2>1. side \in Int
    OBVIOUS
  <2>2. Ordered(Opened(s, line, side), s, line)
    BY <1>10, <2>1, OpenedKeeps
  <2> QED BY <1>10, <2>2, OrderedThenOrdered
<1>12. Ordered(no, r, line)
  <2>1. "cap" \in Codes
    BY DEF Codes
  <2> QED BY <2>1, RejectKeeps DEF no
<1> QED BY <1>3, <1>11, <1>12

LEMMA OffsetOrders ==
    ASSUME NEW r, Sound(r), NEW line, Named(line), NEW k \in 1..Len(r.books), r.cfg.mode # "hedging",
           r.books[k].symbol = line.symbol, NEW side \in {-1, 1}, NEW lots \in Nat \ {0},
           NEW fill \in Int, NEW lv, Rises(lv), NEW price \in Int
    PROVE  Ordered(Offset(r, k, line, side, lots, fill, lv, price), r, line)
<1> DEFINE b == r.books[k]
           volume == Min({b.lots, lots})
           at == ExitFill(r.cfg, price, b.side)
           s == CloseSlices(r, k, volume, at, "merge_offset")
           t == OpenFresh(s, line, side, lots - volume, fill, lv, price)
           n == Len(r.books)
<1>1. /\ r \in Runs /\ b \in OpenBooks /\ b.lots \in Nat \ {0} /\ b.side \in {-1, 1} /\ r.books \in Seq(OpenBooks)
      /\ n \in Nat
  BY SoundBook
<1>2. volume = IF b.lots <= lots THEN b.lots ELSE lots
  BY <1>1, MinOfTwo
<1>3. at \in Int
  <2>1. PICK bar : bar \in Candles
    <3>1. [o |-> 0, h |-> 0, l |-> 0, c |-> 0, atr |-> 0, rejects |-> FALSE] \in Candles
      BY DEF Candles
    <3> QED BY <3>1
  <2> QED BY <1>1, <2>1, FillsAre
<1> HIDE DEF volume, at
<1>4. volume \in 0..b.lots /\ volume \in Int
  BY <1>1, <1>2
<1>5. VolumeClosed(s, r, k, volume)
  <2>1. "merge_offset" \in Codes \ {"signal_exit"}
    BY DEF Codes
  <2>2. volume \in 0..r.books[k].lots
    BY <1>4
  <2> QED BY <1>3, <2>1, <2>2, SlicesClose
<1>6. Offset(r, k, line, side, lots, fill, lv, price) = IF volume = lots THEN s ELSE t
  BY DEF Offset, volume, at
<1> HIDE DEF s
<1>7. Sound(s) /\ Fixed(s) = Fixed(r) /\ LinesLeft(s) = LinesLeft(r) /\ Entered(s) = Entered(r)
  BY <1>5 DEF VolumeClosed, Still
<1>8. CASE volume = lots
  BY <1>6, <1>7, <1>8 DEF Ordered
<1>9. CASE volume # lots
  <2>1. volume = b.lots /\ lots - volume \in Nat \ {0}
    BY <1>1, <1>2, <1>9
  <2>2. Without(s, r, k)
    BY <1>5, <2>1 DEF VolumeClosed
  <2>3. s.lines = r.lines /\ s.cfg = r.cfg
    BY <1>7, SameFixed
  <2>4. Clear(s.books, s.cfg, line)
    <3>1. s.books \in Seq(OpenBooks)
      BY <1>7, RunIs DEF Sound
    <3>2. DOMAIN s.books = 1..(n - 1) /\ DOMAIN r.books = 1..n
      BY <1>1, <2>2, <3>1 DEF Without
    <3>3. ASSUME NEW i \in 1..(n - 1) PROVE s.books[i].symbol # line.symbol
      <4> DEFINE m == IF i < k THEN i ELSE i + 1
      <4>1. m \in 1..n /\ m # k
        BY <1>1
      <4>2. s.books[i] = r.books[m]
        BY <2>2 DEF Without
      <4> HIDE DEF m
      <4>3. Apart(r.cfg, r.books[m], r.books[k])
        BY <3>2, <4>1 DEF Sound, Fit
      <4> QED BY <4>2, <4>3 DEF Apart
    <3> QED BY <3>2, <3>3 DEF Clear
  <2>5. line.symbol \in SymbolsOf(s.lines)
    <3>1. k \in DOMAIN r.books
      BY <1>1
    <3> QED BY <2>3, <3>1 DEF Sound, Fit
  <2> DEFINE rest == lots - volume
  <2>6. rest \in Nat \ {0}
    BY <2>1
  <2> HIDE DEF rest
  <2>7. Ordered(OpenFresh(s, line, side, rest, fill, lv, price), s, line)
    BY <1>7, <2>4, <2>5, <2>6, FreshOrders
  <2>8. Ordered(t, r, line)
    BY <1>7, <2>7, OrderedThenOrdered DEF rest
  <2> QED BY <1>6, <1>9, <2>8
<1> QED BY <1>8, <1>9

LEMMA OrderKeeps ==
    ASSUME NEW r, Sound(r), NEW line, Named(line), line.symbol \in SymbolsOf(r.lines), NEW side \in {-1, 1},
           NEW lots \in Nat \ {0}, NEW bars, Priced(r, bars),
           \A j \in DOMAIN r.books : r.books[j].symbol = line.symbol => line.strategy \notin Names(r.books[j].legs)
    PROVE  Ordered(OpenOrder(r, line, side, lots, bars), r, line)
<1> DEFINE price == bars[line.symbol].o
           fill == EntryFill(r.cfg, price, side)
           lv == Levels(r, line, side, fill)
           book == {k \in DOMAIN r.books : r.cfg.mode = "netting" /\ r.books[k].symbol = line.symbol}
           k == CHOOSE x \in book : TRUE
           no == Note(r, Event(line, "reject", "gap or mask"))
           fresh == OpenFresh(r, line, side, lots, fill, lv, price)
           merged == Merge(r, k, line, side, lots, fill, lv, price)
           offset == Offset(r, k, line, side, lots, fill, lv, price)
           out == OpenOrder(r, line, side, lots, bars)
<1>1. r \in Runs /\ r.books \in Seq(OpenBooks) /\ r.cfg.mode \in {"netting", "hedging"}
  BY RunIs, ConfigIs DEF Sound
<1>2. bars[line.symbol] \in Candles /\ r.prev[line.symbol] \in Candles
  BY DEF Priced, Sound, Quoted
<1>3. price \in Int
  BY <1>2, CandleIs
<1>4. fill \in Int
  BY <1>1, <1>2, <1>3, FillsAre
<1> HIDE DEF price, fill
<1>5. Rises(lv)
  BY <1>2, <1>4, LevelsAre DEF Rises
<1> HIDE DEF lv
<1>6. Ordered(no, r, line)
  <2>1. "gap or mask" \in Codes
    BY DEF Codes
  <2> QED BY <2>1, RejectKeeps
<1>8. CASE book = {}
  <2>1. Clear(r.books, r.cfg, line)
    BY <1>1, <1>8 DEF Clear
  <2>2. Ordered(fresh, r, line)
    BY <1>4, <1>5, <2>1, FreshOrders
  <2>3. out \in {no, fresh}
    <3> HIDE DEF no, fresh
    <3> QED BY <1>8 DEF OpenOrder, price, fill, lv, no, fresh
  <2> QED BY <1>6, <2>2, <2>3
<1>9. CASE book # {}
  <2>1. k \in book
    BY <1>9
  <2>2. out \in {no, merged, offset}
    BY <1>9 DEF OpenOrder, price, fill, lv
  <2> HIDE DEF k, out, no, fresh
  <2>3. k \in DOMAIN r.books /\ k \in 1..Len(r.books) /\ r.cfg.mode # "hedging" /\ r.books[k].symbol = line.symbol
    BY <1>1, <2>1
  <2>4. line.strategy \notin Names(r.books[k].legs)
    BY <2>3
  <2>5. Ordered(merged, r, line)
    BY <1>4, <1>5, <2>3, <2>4, MergeOrders
  <2>6. Ordered(offset, r, line)
    BY <1>3, <1>4, <1>5, <2>3, OffsetOrders
  <2> QED BY <1>6, <2>2, <2>5, <2>6 DEF no, out
<1> QED BY <1>8, <1>9

-----------------------------------------------------------------------------
(* The engine: the turn of each line. *)

LEMMA LineIs ==
    ASSUME NEW r \in Runs
    PROVE  /\ r.lines \in Seq([symbol : STRING, strategy : STRING])
           /\ \A j, k \in DOMAIN r.lines : r.lines[j] = r.lines[k] => j = k
           /\ \A k \in 1..Len(r.lines) : Named(r.lines[k]) /\ r.lines[k].symbol \in SymbolsOf(r.lines)
           /\ \A j, k \in 1..Len(r.lines) : Pair(r.lines[j]) = Pair(r.lines[k]) => j = k
<1>1. r.lines \in LineSets
  BY RunIs
<1>2. r.lines \in Seq([symbol : STRING, strategy : STRING]) /\ \A j, k \in DOMAIN r.lines : r.lines[j] = r.lines[k] => j = k
  BY <1>1, EngineAssumption
<1>3. DOMAIN r.lines = 1..Len(r.lines) /\ \A k \in 1..Len(r.lines) : r.lines[k] \in [symbol : STRING, strategy : STRING]
  <2> DEFINE T == [symbol : STRING, strategy : STRING]
             lines == r.lines
  <2>1. lines \in Seq(T)
    BY <1>2
  <2> HIDE DEF T, lines
  <2>2. DOMAIN lines = 1..Len(lines) /\ \A k \in 1..Len(lines) : lines[k] \in T
    BY <2>1
  <2> QED BY <2>2 DEF T, lines
<1>4. \A k \in 1..Len(r.lines) : Named(r.lines[k]) /\ r.lines[k].symbol \in SymbolsOf(r.lines)
  BY <1>3 DEF Named, SymbolsOf
<1>5. ASSUME NEW j \in 1..Len(r.lines), NEW k \in 1..Len(r.lines), Pair(r.lines[j]) = Pair(r.lines[k]) PROVE j = k
  <2>1. r.lines[j].symbol = r.lines[k].symbol /\ r.lines[j].strategy = r.lines[k].strategy
    BY <1>5 DEF Pair
  <2>2. r.lines[j] = r.lines[k]
    BY <1>3, <2>1
  <2> QED BY <1>2, <1>3, <2>2
<1> QED BY <1>2, <1>4, <1>5

TookTurn(s, r, line) ==
    /\ Sound(s) /\ Fixed(s) = Fixed(r)
    /\ \/ LinesLeft(s) = LinesLeft(r) /\ Entered(s) \subseteq Entered(r) \cup {Pair(line)}
       \/ Entered(s) = Entered(r) /\ LinesLeft(s) \subseteq LinesLeft(r) \cup {Pair(line)}

LEMMA StrategyLegCloses ==
    ASSUME NEW r, Sound(r), NEW line, NEW k \in 1..Len(r.books), r.books[k].symbol = line.symbol,
           HoldsLeg(r.books[k], line.strategy), NEW quote \in Int
    PROVE  TookTurn(CloseStrategyLegs(r, k, line.strategy, quote), r, line)
<1> DEFINE b == r.books[k]
           at == {x \in DOMAIN b.legs : b.legs[x].strategy = line.strategy}
           j == CHOOSE x \in DOMAIN b.legs : b.legs[x].strategy = line.strategy
           lots == b.legs[j].lots
           fill == ExitFill(r.cfg, quote, b.side)
           fee == Commission(r.cfg, lots)
           s == CloseLeg(r, k, j, lots, fill, "signal_exit", fee)
<1>1. r \in Runs /\ b \in OpenBooks /\ b.legs \in Seq(BookLegs) /\ b.side \in {-1, 1}
  BY SoundBook
<1>2. j \in DOMAIN b.legs /\ b.legs[j].strategy = line.strategy
  BY DEF HoldsLeg
<1> HIDE DEF j
<1>3. j \in 1..Len(b.legs) /\ b.legs[j] \in BookLegs
  BY <1>1, <1>2
<1>4. lots \in Nat \ {0} /\ lots \in 1..lots
  <2>1. lots \in Nat \ {0}
    BY <1>3 DEF BookLegs
  <2> HIDE DEF lots
  <2> QED BY <2>1
<1>5. fill \in Int /\ fee \in Int
  <2>1. PICK bar : bar \in Candles
    <3>1. [o |-> 0, h |-> 0, l |-> 0, c |-> 0, atr |-> 0, rejects |-> FALSE] \in Candles
      BY DEF Candles
    <3> QED BY <3>1
  <2>2. fill \in Int
    BY <1>1, <2>1, FillsAre
  <2>3. lots \in Int
    BY <1>4
  <2>4. fee \in Int
    BY <1>1, <2>3, CommissionIsInt
  <2> QED BY <2>2, <2>4
<1>6. "signal_exit" \in Codes
  BY DEF Codes
<1>7. CloseStrategyLegs(r, k, line.strategy, quote) = s
  BY DEF CloseStrategyLegs, j
<1> HIDE DEF fill, fee
<1>8. LegClosed(s, r, k, j, lots, "signal_exit")
  <2>1. lots \in 1..r.books[k].legs[j].lots /\ j \in 1..Len(r.books[k].legs)
    BY <1>3, <1>4
  <2> HIDE DEF lots
  <2> QED BY <1>5, <1>6, <2>1, LegCloses
<1> HIDE DEF s, lots
<1>9. /\ Sound(s) /\ Fixed(s) = Fixed(r) /\ Entered(s) = Entered(r)
      /\ LinesLeft(s) = LinesLeft(r) \cup {<<r.books[k].symbol, r.books[k].legs[j].strategy>>}
  BY <1>8 DEF LegClosed
<1>10. <<r.books[k].symbol, r.books[k].legs[j].strategy>> = Pair(line)
  BY <1>2 DEF Pair
<1> QED BY <1>7, <1>9, <1>10 DEF TookTurn

LEMMA LineTakesTurn ==
    ASSUME NEW r, Sound(r), NEW line, Named(line), line.symbol \in SymbolsOf(r.lines), NEW want \in {-1, 0, 1},
           NEW bars, Priced(r, bars)
    PROVE  TookTurn(ReconcileLine(r, line, want, bars), r, line)
<1> DEFINE side == IF want < 0 /\ ~r.cfg.short THEN 0 ELSE want
           mine == {k \in DOMAIN r.books : r.books[k].symbol = line.symbol /\ HoldsLeg(r.books[k], line.strategy)}
           k == Min(mine)
           lots == Sized(r, r.prev[line.symbol].atr)
           closed == CloseStrategyLegs(r, k, line.strategy, bars[line.symbol].o)
           ordered == OpenOrder(r, line, side, lots, bars)
           out == ReconcileLine(r, line, want, bars)
<1>1. r \in Runs /\ r.books \in Seq(OpenBooks) /\ DOMAIN r.books = 1..Len(r.books) /\ Len(r.books) \in Nat
  <2>1. r \in Runs /\ r.books \in Seq(OpenBooks)
    BY RunIs DEF Sound
  <2> QED BY <2>1
<1>2. bars[line.symbol] \in Candles /\ r.prev[line.symbol] \in Candles
  BY DEF Priced, Sound, Quoted
<1>3. TookTurn(r, r, line)
  BY DEF TookTurn
<1>4. lots \in Nat
  BY <1>1, <1>2, CandleIs, SizeIsNat
<1>5. side \in {-1, 0, 1}
  OBVIOUS
<1> HIDE DEF side, lots
<1>6. out = IF mine # {} THEN (IF side = r.books[k].side \/ ~r.cfg.signalExit THEN r ELSE closed)
            ELSE IF side = 0 \/ lots = 0 THEN r ELSE ordered
  BY DEF ReconcileLine, side, lots
<1>7. CASE mine # {}
  <2>1. k \in mine
    <3>1. mine \in SUBSET Nat
      BY <1>1
    <3> HIDE DEF mine
    <3>2. PICK m \in mine : \A x \in mine : m <= x
      BY <1>7, <3>1, HasLeast
    <3>3. mine \in SUBSET Int
      BY <3>1
    <3>4. k = m
      BY <3>2, <3>3, MinIs
    <3> QED BY <3>2, <3>4
  <2>2. k \in 1..Len(r.books) /\ r.books[k].symbol = line.symbol /\ HoldsLeg(r.books[k], line.strategy)
    BY <1>1, <2>1
  <2>3. bars[line.symbol].o \in Int
    BY <1>2, CandleIs
  <2>4. out \in {r, closed}
    BY <1>6, <1>7
  <2> HIDE DEF k, mine, out
  <2>5. TookTurn(closed, r, line)
    BY <2>2, <2>3, StrategyLegCloses
  <2> QED BY <1>3, <2>4, <2>5 DEF out
<1>8. CASE mine = {}
  <2>1. CASE side = 0 \/ lots = 0
    BY <1>3, <1>6, <1>8, <2>1
  <2>2. CASE ~(side = 0 \/ lots = 0)
    <3>1. side \in {-1, 1} /\ lots \in Nat \ {0}
      BY <1>4, <1>5, <2>2
    <3>2. \A j \in DOMAIN r.books : r.books[j].symbol = line.symbol => line.strategy \notin Names(r.books[j].legs)
      BY <1>8 DEF HoldsLeg, Names
    <3>3. out = ordered
      BY <1>6, <1>8, <2>2
    <3> HIDE DEF mine, out
    <3>4. Ordered(ordered, r, line)
      BY <3>1, <3>2, OrderKeeps
    <3> QED BY <3>3, <3>4 DEF Ordered, TookTurn, out
  <2> QED BY <2>1, <2>2
<1> QED BY <1>7, <1>8

TurnTable(r, bars, n, g_) ==
    g_ = [m \in 0..n |-> IF m = 0 THEN r ELSE ReconcileLine(g_[m - 1], r.lines[m], r.desired[m], bars)]
LEMMA TurnTableExists ==
    ASSUME NEW r, NEW bars, NEW n \in Nat
    PROVE  \E g_ : TurnTable(r, bars, n, g_)
<1> DEFINE bad == {m \in Nat : ~ \E g_ : TurnTable(r, bars, m, g_)}
           step(at, m) == ReconcileLine(at, r.lines[m], r.desired[m], bars)
<1>1. SUFFICES ASSUME bad # {} PROVE FALSE
  OBVIOUS
<1>2. PICK m \in bad : \A j \in bad : m <= j
  BY <1>1, HasLeast
<1>3. m \in Nat /\ ~ \E g_ : TurnTable(r, bars, m, g_)
  BY <1>2
<1> HIDE DEF step
<1>0. \A i \in Nat : \A g_ : TurnTable(r, bars, i, g_)
                            <=> g_ = [x \in 0..i |-> IF x = 0 THEN r ELSE step(g_[x - 1], x)]
  BY DEF TurnTable, step
<1>4. CASE m = 0
  <2> DEFINE h == [x \in 0..0 |-> r]
  <2>1. h = [x \in 0..0 |-> IF x = 0 THEN r ELSE step(h[x - 1], x)]
    OBVIOUS
  <2> QED BY <1>0, <1>3, <1>4, <2>1
<1>5. CASE m # 0
  <2>1. m - 1 \in Nat /\ m - 1 \notin bad
    <3> HIDE DEF bad
    <3> QED BY <1>2, <1>3, <1>5
  <2>2. PICK g_ : TurnTable(r, bars, m - 1, g_)
    BY <2>1
  <2>3. g_ = [x \in 0..(m - 1) |-> IF x = 0 THEN r ELSE step(g_[x - 1], x)]
    BY <1>0, <2>1, <2>2
  <2> HIDE DEF bad
  <2> DEFINE h == [x \in 0..m |-> IF x = m THEN step(g_[m - 1], m) ELSE g_[x]]
  <2>4. \A x \in 0..m : h[x] = IF x = 0 THEN r ELSE step(h[x - 1], x)
    <3>1. TAKE x \in 0..m
    <3>2. \A j \in 0..(m - 1) : g_[j] = IF j = 0 THEN r ELSE step(g_[j - 1], j)
      BY <2>3
    <3>3. CASE x = m
      <4>1. h[m] = step(g_[m - 1], m) /\ h[m - 1] = g_[m - 1]
        BY <1>3, <1>5
      <4> QED BY <1>5, <3>3, <4>1
    <3>4. CASE x # m
      <4>1. x \in 0..(m - 1) /\ h[x] = g_[x] /\ (x # 0 => h[x - 1] = g_[x - 1])
        BY <1>3, <3>4
      <4> QED BY <3>2, <4>1
    <3> QED BY <3>3, <3>4
  <2>5. h = [x \in 0..m |-> IF x = 0 THEN r ELSE step(h[x - 1], x)]
    BY <2>4
  <2> QED BY <1>0, <1>3, <2>5
<1> QED BY <1>4, <1>5

\* No line both left and entered on this bar.
OneWay(r) == LinesLeft(r) \cap Entered(r) = {}
Reconciled(s, r) == Sound(s) /\ Fixed(s) = Fixed(r) /\ OneWay(s)
TurnsKeep(s, r, m) ==
    /\ Sound(s) /\ Fixed(s) = Fixed(r) /\ OneWay(s)
    /\ LinesLeft(s) \cup Entered(s) \subseteq {Pair(r.lines[i]) : i \in 1..m}
LEMMA LinesTakeTurns ==
    ASSUME NEW r, Sound(r), LinesLeft(r) = {}, Entered(r) = {}, NEW bars, Priced(r, bars)
    PROVE  Reconciled(Reconcile(r, bars), r)
<1> DEFINE n == Len(r.lines)
           g == CHOOSE g_ : TurnTable(r, bars, n, g_)
           bad == {m \in 0..n : ~TurnsKeep(g[m], r, m)}
           s == g[n]
<1>1. r \in Runs /\ n \in Nat /\ r.desired \in DesiredOf(r.lines) /\ DOMAIN r.lines = 1..n
  <2>1. r \in Runs /\ r.desired \in DesiredOf(r.lines)
    BY DEF Sound, Quoted
  <2> QED BY <2>1, LineIs
<1>2. TurnTable(r, bars, n, g)
  BY <1>1, TurnTableExists
<1>3. Reconcile(r, bars) \in {r, s}
  BY DEF Reconcile, TurnTable
<1> HIDE DEF g
<1>4. \A m \in 0..n : g[m] = IF m = 0 THEN r ELSE ReconcileLine(g[m - 1], r.lines[m], r.desired[m], bars)
  BY <1>2 DEF TurnTable
<1>5. TurnsKeep(g[0], r, 0)
  <2>1. g[0] = r
    BY <1>1, <1>4
  <2> QED BY <2>1 DEF TurnsKeep, OneWay
<1> HIDE DEF n, s
<1>6. bad = {}
  <2>1. SUFFICES ASSUME bad # {} PROVE FALSE
    OBVIOUS
  <2> bad \in SUBSET Nat
    BY <1>1
  <2>2. PICK m \in bad : \A j \in bad : m <= j
    <3> HIDE DEF bad
    <3> QED BY <2>1, HasLeast
  <2>3. m \in 1..n /\ ~TurnsKeep(g[m], r, m)
    BY <1>1, <1>5, <2>2
  <2>4. m - 1 \in 0..n /\ m - 1 \in Nat /\ m - 1 \notin bad
    <3> HIDE DEF bad
    <3> QED BY <1>1, <2>2, <2>3
  <2>5. TurnsKeep(g[m - 1], r, m - 1)
    BY <2>4
  <2> HIDE DEF bad
  <2> DEFINE p == g[m - 1]
             q == g[m]
             line == r.lines[m]
             want == r.desired[m]
             earlier == {Pair(r.lines[i]) : i \in 1..(m - 1)}
             sofar == {Pair(r.lines[i]) : i \in 1..m}
  <2>6. q = ReconcileLine(p, line, want, bars)
    BY <1>1, <1>4, <2>3
  <2>7. Sound(p) /\ Fixed(p) = Fixed(r) /\ OneWay(p) /\ LinesLeft(p) \cup Entered(p) \subseteq earlier
    BY <2>5 DEF TurnsKeep
  <2>8. Priced(p, bars) /\ p.lines = r.lines
    BY <2>7, SameFixed DEF Priced
  <2>9. Named(line) /\ line.symbol \in SymbolsOf(r.lines)
    BY <1>1, <2>3, LineIs DEF n
  <2>10. want \in {-1, 0, 1}
    BY <1>1, <2>3 DEF DesiredOf
  <2>11. Pair(line) \in sofar /\ Pair(line) \notin earlier /\ earlier \subseteq sofar
    <3>1. m \in 1..m /\ \A i \in 1..(m - 1) : i \in 1..m /\ i \in 1..n /\ i # m
      BY <1>1, <2>3
    <3>2. \A i \in 1..(m - 1) : Pair(r.lines[i]) # Pair(r.lines[m])
      BY <1>1, <2>3, <3>1, LineIs DEF n
    <3> QED BY <3>1, <3>2
  <2> HIDE DEF p, line, want, q, earlier, sofar
  <2>12. TookTurn(ReconcileLine(p, line, want, bars), p, line)
    <3>1. line.symbol \in SymbolsOf(p.lines)
      BY <2>8, <2>9
    <3> QED BY <2>7, <2>8, <2>9, <2>10, <3>1, LineTakesTurn
  <2>13. TookTurn(q, p, line)
    BY <2>6, <2>12
  <2>14. Sound(q) /\ Fixed(q) = Fixed(r)
    BY <2>7, <2>13 DEF TookTurn
  <2>15. OneWay(q) /\ LinesLeft(q) \cup Entered(q) \subseteq sofar
    BY <2>7, <2>11, <2>13 DEF TookTurn, OneWay
  <2>16. TurnsKeep(q, r, m)
    BY <2>14, <2>15 DEF TurnsKeep, sofar
  <2> QED BY <2>3, <2>16 DEF q
<1>7. TurnsKeep(s, r, n)
  <2>1. n \in 0..n
    BY <1>1
  <2> QED BY <1>6, <2>1 DEF s
<1>8. Reconciled(r, r)
  BY DEF Reconciled, OneWay
<1> QED BY <1>3, <1>7, <1>8 DEF TurnsKeep, Reconciled

-----------------------------------------------------------------------------
(* The engine: the phases of a bar. *)

LEMMA SameAccount ==
    ASSUME NEW r, Sound(r), NEW s \in Runs, s.cash = r.cash, s.booked = r.booked, s.books = r.books, s.opened = r.opened,
           s.log = r.log, s.lines = r.lines, s.cfg = r.cfg, Quoted(s)
    PROVE  Sound(s) /\ LinesLeft(s) = LinesLeft(r) /\ Entered(s) = Entered(r)
<1>1. LinesLeft(s) = LinesLeft(r) /\ Entered(s) = Entered(r)
  BY SameLog
<1> QED BY <1>1 DEF Sound, Ledger

\* The same books by key, symbol and volume.
Alike(books, were) ==
    /\ books \in Seq(OpenBooks) /\ Len(books) = Len(were)
    /\ \A k \in 1..Len(were) : /\ books[k].key = were[k].key /\ books[k].symbol = were[k].symbol
                               /\ Whole(books[k]) /\ Names(books[k].legs) = Names(were[k].legs)
LEMMA AlikeFit ==
    ASSUME NEW were \in Seq(OpenBooks), NEW books, Alike(books, were), NEW cfg, NEW opened, NEW lines, Fit(were, cfg, opened, lines)
    PROVE  Fit(books, cfg, opened, lines)
<1> DEFINE n == Len(were)
<1>1. n \in Nat /\ DOMAIN were = 1..n /\ DOMAIN books = 1..n /\ Len(books) = n
  <2>1. books \in Seq(OpenBooks) /\ Len(books) = n
    BY DEF Alike
  <2> QED BY <2>1
<1> HIDE DEF n
<1>2. Len(books) <= cfg.maxBooks
  BY <1>1 DEF Fit, n
<1>3. \A k \in 1..n : Whole(books[k]) /\ books[k].key <= opened /\ books[k].symbol \in SymbolsOf(lines)
  BY <1>1 DEF Fit, Alike, n
<1>4. ASSUME NEW j \in 1..n, NEW k \in 1..n, j # k PROVE Apart(cfg, books[j], books[k])
  <2>1. Apart(cfg, were[j], were[k])
    BY <1>1, <1>4 DEF Fit
  <2>2. /\ books[j].key = were[j].key /\ books[j].symbol = were[j].symbol /\ Names(books[j].legs) = Names(were[j].legs)
        /\ books[k].key = were[k].key /\ books[k].symbol = were[k].symbol /\ Names(books[k].legs) = Names(were[k].legs)
    BY DEF Alike, n
  <2> QED BY <2>1, <2>2 DEF Apart
<1> QED BY <1>1, <1>2, <1>3, <1>4 DEF Fit

LEMMA AllSound ==
    ASSUME NEW r, Sound(r)
    PROVE  /\ r \in Runs /\ r.books \in Seq(OpenBooks) /\ Len(r.books) \in Nat /\ DOMAIN r.books = 1..Len(r.books)
           /\ \A k \in 1..Len(r.books) : r.books[k] \in OpenBooks /\ Whole(r.books[k])
<1>1. r \in Runs /\ r.books \in Seq(OpenBooks)
  BY RunIs DEF Sound
<1>2. Len(r.books) \in Nat /\ DOMAIN r.books = 1..Len(r.books) /\ \A k \in 1..Len(r.books) : r.books[k] \in OpenBooks
  BY <1>1
<1> QED BY <1>1, <1>2 DEF Sound, Fit

LEMMA AgedKeeps ==
    ASSUME NEW r, Sound(r)
    PROVE  LET s == Aged(r) IN
           Sound(s) /\ Fixed(s) = Fixed(r) /\ LinesLeft(s) = {} /\ Entered(s) = {} /\ s.cash = r.cash
           /\ (r.books = <<>> => s.books = <<>>)
<1> DEFINE s == Aged(r)
           n == Len(r.books)
           books == [k \in DOMAIN r.books |-> [r.books[k] EXCEPT !.fresh = FALSE]]
<1>1. /\ r \in Runs /\ r.books \in Seq(OpenBooks) /\ n \in Nat /\ DOMAIN r.books = 1..n
      /\ \A k \in 1..n : r.books[k] \in OpenBooks /\ Whole(r.books[k])
  BY AllSound
<1>2. s = [r EXCEPT !.books = books, !.log = <<>>]
  BY DEF Aged
<1> HIDE DEF s
<1>3. ASSUME NEW k \in 1..n
      PROVE  /\ books[k] \in OpenBooks /\ books[k].key = r.books[k].key /\ books[k].symbol = r.books[k].symbol
             /\ books[k].lots = r.books[k].lots /\ books[k].legs = r.books[k].legs
  <2> DEFINE b == r.books[k]
             c == [b EXCEPT !.fresh = FALSE]
  <2>1. b \in OpenBooks /\ books[k] = c
    BY <1>1
  <2> HIDE DEF b, books
  <2>2. c \in OpenBooks /\ c.key = b.key /\ c.symbol = b.symbol /\ c.lots = b.lots /\ c.legs = b.legs
    BY <2>1 DEF OpenBooks
  <2> HIDE DEF c
  <2> QED BY <2>1, <2>2 DEF b
<1>4. books \in Seq(OpenBooks) /\ Len(books) = n
  <2>1. DOMAIN books = 1..n
    BY <1>1
  <2>2. books = [k \in 1..n |-> books[k]]
    BY <1>1
  <2> HIDE DEF books
  <2> QED BY <1>1, <1>3, <2>2
<1> HIDE DEF books
<1>5. Alike(books, r.books)
  <2>1. \A k \in 1..n : Whole(books[k])
    BY <1>1, <1>3 DEF Whole
  <2> QED BY <1>3, <1>4, <2>1 DEF Alike
<1>6. Owed(books) = Owed(r.books)
  <2> DEFINE x == OwedOf(books)
             y == OwedOf(r.books)
  <2>1. x \in Seq(Int) /\ Len(x) = n /\ Owed(books) = Total(x) /\ \A k \in 1..n : x[k] = LegFees(books[k].legs)
    BY <1>4, OwedSum
  <2>2. y \in Seq(Int) /\ Len(y) = n /\ Owed(r.books) = Total(y) /\ \A k \in 1..n : y[k] = LegFees(r.books[k].legs)
    BY <1>1, OwedSum
  <2> HIDE DEF x, y
  <2>3. \A k \in 1..n : x[k] = y[k]
    BY <1>3, <2>1, <2>2
  <2> HIDE DEF n
  <2>4. x = y
    BY <2>1, <2>2, <2>3
  <2> QED BY <2>1, <2>2, <2>4
<1>7. /\ s \in Runs /\ s.books = books /\ s.log = <<>> /\ Fixed(s) = Fixed(r) /\ s.cash = r.cash /\ s.booked = r.booked
      /\ s.opened = r.opened
  <2>1. <<>> \in Seq(Entries)
    OBVIOUS
  <2> QED BY <1>1, <1>2, <1>4, <2>1 DEF Runs, Fixed
<1>8. s.lines = r.lines /\ s.cfg = r.cfg /\ s.prev = r.prev /\ s.desired = r.desired
  BY <1>7, SameFixed
<1>9. Sound(s)
  <2>1. Fit(books, r.cfg, r.opened, r.lines)
    BY <1>1, <1>5, AlikeFit DEF Sound
  <2> QED BY <1>6, <1>7, <1>8, <2>1 DEF Sound, Ledger, Quoted
<1>10. LinesLeft(s) = {} /\ Entered(s) = {}
  <2>1. DOMAIN s.log = {}
    BY <1>7
  <2> QED BY <2>1 DEF LinesLeft, Entered
<1>11. ASSUME r.books = <<>> PROVE s.books = <<>>
  <2>1. n = 0
    BY <1>11
  <2> QED BY <1>4, <1>7, <2>1, EmptySeq
<1> QED BY <1>7, <1>9, <1>10, <1>11 DEF s

LEMMA MarkIsInt ==
    ASSUME NEW r, Sound(r), NEW bars, Priced(r, bars)
    PROVE  Mark(r, bars) \in Int /\ (r.books = <<>> => Mark(r, bars) = r.cash)
<1> DEFINE n == Len(r.books)
           value(k) == BookValue(r.books[k], bars[r.books[k].symbol].c)
           values == [k \in DOMAIN r.books |-> value(k)]
<1>1. r \in Runs /\ r.books \in Seq(OpenBooks) /\ n \in Nat /\ DOMAIN r.books = 1..n /\ r.cash \in Int
  BY AllSound, RunIs
<1>2. ASSUME NEW k \in 1..n PROVE value(k) \in Int
  <2> DEFINE b == r.books[k]
             price == bars[b.symbol].c
             cash(j) == LegCash(b.side, b.legs[j].lots, b.legs[j].entry, price)
             cashes == [j \in DOMAIN b.legs |-> cash(j)]
             m == Len(b.legs)
  <2>1. b.legs \in Seq(BookLegs) /\ b.side \in {-1, 1} /\ m \in Nat
    BY SoundBook
  <2>2. price \in Int
    BY BookBar, CandleIs
  <2> HIDE DEF price, b
  <2>3. DOMAIN b.legs = 1..m
    BY <2>1
  <2>4. ASSUME NEW j \in 1..m PROVE cash(j) \in Int
    <3>1. b.legs[j] \in BookLegs
      BY <2>1
    <3>2. b.legs[j].lots \in Int /\ b.legs[j].entry \in Int
      BY <3>1 DEF BookLegs
    <3> QED BY <2>1, <2>2, <3>2, LegCashIsInt
  <2>5. value(k) = Total(cashes)
    BY DEF BookValue, b, price
  <2> HIDE DEF cash, m
  <2>6. cashes \in Seq(Int)
    BY <2>1, <2>3, <2>4
  <2> HIDE DEF cashes
  <2> QED BY <2>5, <2>6, TotalIsInt
<1>3. Mark(r, bars) = r.cash + Total(values)
  BY DEF Mark
<1> HIDE DEF value, n
<1>4. values \in Seq(Int)
  BY <1>1, <1>2
<1>5. Total(values) \in Int
  BY <1>4, TotalIsInt
<1>6. ASSUME r.books = <<>> PROVE values = <<>>
  BY <1>6
<1> HIDE DEF values
<1> QED BY <1>1, <1>3, <1>5, <1>6, TotalOfNone

LEMMA ChargedIs ==
    ASSUME NEW b \in OpenBooks, Whole(b), NEW rate \in Int
    PROVE  /\ Charged(b, rate) \in OpenBooks /\ Whole(Charged(b, rate)) /\ Charged(b, rate).key = b.key
           /\ Charged(b, rate).symbol = b.symbol /\ Names(Charged(b, rate).legs) = Names(b.legs)
           /\ LegFees(Charged(b, rate).legs) = LegFees(b.legs) + rate * b.lots
<1> DEFINE c == Charged(b, rate)
           m == Len(b.legs)
           leg(k) == [b.legs[k] EXCEPT !.swap = b.legs[k].swap + rate * b.legs[k].lots]
           legs == [k \in DOMAIN b.legs |-> leg(k)]
<1>1. b.legs \in Seq(BookLegs) /\ m \in Nat /\ DOMAIN b.legs = 1..m /\ b.lots \in Nat \ {0}
  <2>1. b.legs \in Seq(BookLegs) /\ b.lots \in Nat \ {0}
    BY BookIs
  <2> QED BY <2>1
<1>2. c = [b EXCEPT !.legs = legs]
  BY DEF Charged
<1> HIDE DEF c
<1>3. ASSUME NEW k \in 1..m
      PROVE  /\ legs[k] \in BookLegs /\ legs[k].strategy = b.legs[k].strategy /\ legs[k].lots = b.legs[k].lots
             /\ legs[k].fee = b.legs[k].fee /\ legs[k].swap = b.legs[k].swap + rate * b.legs[k].lots
             /\ b.legs[k].fee \in Int /\ b.legs[k].swap \in Int /\ b.legs[k].lots \in Int
  <2> DEFINE x == b.legs[k]
             swap == x.swap + rate * x.lots
             y == [x EXCEPT !.swap = swap]
  <2>1. x \in BookLegs /\ legs[k] = y
    BY <1>1
  <2> HIDE DEF x, legs, leg
  <2>2. x.lots \in Int /\ x.swap \in Int /\ x.fee \in Int
    BY <2>1 DEF BookLegs
  <2>3. swap \in Int
    BY <2>2
  <2> HIDE DEF swap
  <2>4. y \in BookLegs /\ y.strategy = x.strategy /\ y.lots = x.lots /\ y.fee = x.fee /\ y.swap = swap
    BY <2>1, <2>3 DEF BookLegs
  <2> HIDE DEF y
  <2> QED BY <2>1, <2>2, <2>4 DEF x, swap
<1>4. legs \in Seq(BookLegs) /\ Len(legs) = m /\ DOMAIN legs = 1..m
  <2>1. legs = [k \in 1..m |-> legs[k]]
    BY <1>1
  <2>2. \A k \in 1..m : legs[k] \in BookLegs
    BY <1>3
  <2> HIDE DEF legs, m
  <2> QED BY <1>1, <2>1, <2>2
<1> HIDE DEF legs, m
<1>5. c \in OpenBooks /\ c.key = b.key /\ c.symbol = b.symbol /\ c.lots = b.lots /\ c.legs = legs
  BY <1>2, <1>4 DEF OpenBooks
<1>6. Names(legs) = Names(b.legs)
  BY <1>1, <1>3, <1>4 DEF Names
<1>7. Distinct(legs)
  BY <1>1, <1>3, <1>4 DEF Distinct, Whole
<1>8. LegLots(legs) = LegLots(b.legs)
  <2> DEFINE x == LotsOf(legs)
             y == LotsOf(b.legs)
  <2>1. x \in Seq(Int) /\ Len(x) = m /\ LegLots(legs) = Total(x) /\ \A k \in 1..m : x[k] = legs[k].lots
    BY <1>4, LegSums
  <2>2. y \in Seq(Int) /\ Len(y) = m /\ LegLots(b.legs) = Total(y) /\ \A k \in 1..m : y[k] = b.legs[k].lots
    BY <1>1, LegSums DEF m
  <2> HIDE DEF x, y
  <2>3. \A k \in 1..m : x[k] = y[k]
    BY <1>3, <2>1, <2>2
  <2>4. x = y
    BY <2>1, <2>2, <2>3
  <2> QED BY <2>1, <2>2, <2>4
<1>9. LegFees(legs) = LegFees(b.legs) + rate * LegLots(b.legs)
  <2> DEFINE x == FeesOf(legs)
             y == FeesOf(b.legs)
             z == LotsOf(b.legs)
  <2>1. x \in Seq(Int) /\ Len(x) = m /\ LegFees(legs) = Total(x) /\ \A k \in 1..m : x[k] = legs[k].fee + legs[k].swap
    BY <1>4, LegSums
  <2>2. /\ y \in Seq(Int) /\ Len(y) = m /\ LegFees(b.legs) = Total(y) /\ \A k \in 1..m : y[k] = b.legs[k].fee + b.legs[k].swap
        /\ z \in Seq(Int) /\ Len(z) = m /\ LegLots(b.legs) = Total(z) /\ \A k \in 1..m : z[k] = b.legs[k].lots
    BY <1>1, LegSums DEF m
  <2> HIDE DEF x, y, z
  <2>3. ASSUME NEW k \in 1..m PROVE x[k] = y[k] + rate * z[k]
    <3> DEFINE f == b.legs[k].fee
               w == b.legs[k].swap
               v == rate * b.legs[k].lots
    <3>1. f \in Int /\ w \in Int /\ v \in Int
      BY <1>3
    <3>2. x[k] = f + (w + v) /\ y[k] = f + w /\ rate * z[k] = v
      BY <1>3, <2>1, <2>2
    <3> HIDE DEF f, w, v
    <3> QED BY <3>1, <3>2
  <2>4. Len(z) = Len(y) /\ Len(x) = Len(y) /\ \A k \in 1..Len(y) : x[k] = y[k] + rate * z[k]
    BY <2>1, <2>2, <2>3
  <2>5. Total(x) = Total(y) + rate * Total(z)
    BY <2>1, <2>2, <2>4, TotalScaled
  <2> QED BY <2>1, <2>2, <2>5
<1>10. b.lots = LegLots(b.legs)
  BY DEF Whole
<1> HIDE DEF leg
<1> QED BY <1>5, <1>6, <1>7, <1>8, <1>9, <1>10 DEF Whole, c

LEMMA SwapKeeps ==
    ASSUME NEW r, Sound(r)
    PROVE  LET s == Paid(r) IN
           Sound(s) /\ Fixed(s) = Fixed(r) /\ LinesLeft(s) = LinesLeft(r) /\ Entered(s) = Entered(r)
           /\ (r.books = <<>> => s.books = <<>>)
<1> DEFINE s == Paid(r)
           n == Len(r.books)
           rate(k) == SwapRate(r.cfg, r.books[k].side)
           owes == [k \in DOMAIN r.books |-> rate(k) * r.books[k].lots]
           books == [k \in DOMAIN r.books |-> Charged(r.books[k], rate(k))]
           cash == r.cash - Total(owes)
<1>1. /\ r \in Runs /\ r.books \in Seq(OpenBooks) /\ n \in Nat /\ DOMAIN r.books = 1..n
      /\ \A k \in 1..n : r.books[k] \in OpenBooks /\ Whole(r.books[k])
  BY AllSound
<1>2. r.cash \in Int /\ r.booked \in Int /\ r.cfg.swapLong \in Int /\ r.cfg.swapShort \in Int
  BY <1>1, RunIs, ConfigIs
<1>3. s = [r EXCEPT !.cash = cash, !.books = books]
  BY DEF Paid
<1> HIDE DEF s
<1>4. \A k \in 1..n : rate(k) \in Int /\ r.books[k].lots \in Int
  BY <1>1, <1>2, BookIs DEF SwapRate
<1>5. ASSUME NEW k \in 1..n
      PROVE  /\ books[k] \in OpenBooks /\ Whole(books[k]) /\ books[k].key = r.books[k].key
             /\ books[k].symbol = r.books[k].symbol /\ Names(books[k].legs) = Names(r.books[k].legs)
             /\ LegFees(books[k].legs) = LegFees(r.books[k].legs) + owes[k]
  <2> DEFINE x == rate(k)
             b == r.books[k]
             c == books[k]
  <2>1. c = Charged(b, x) /\ b \in OpenBooks /\ Whole(b) /\ x \in Int /\ owes[k] = x * b.lots
    BY <1>1, <1>4
  <2> HIDE DEF x, b, c, owes
  <2>2. /\ c \in OpenBooks /\ Whole(c) /\ c.key = b.key /\ c.symbol = b.symbol /\ Names(c.legs) = Names(b.legs)
        /\ LegFees(c.legs) = LegFees(b.legs) + x * b.lots
    BY <2>1, ChargedIs
  <2> QED BY <2>1, <2>2 DEF b, c
<1>6. books \in Seq(OpenBooks) /\ Len(books) = n /\ owes \in Seq(Int) /\ Len(owes) = n
  <2>1. books = [k \in 1..n |-> books[k]]
    BY <1>1
  <2>2. owes = [k \in 1..n |-> rate(k) * r.books[k].lots]
    BY <1>1
  <2>3. \A k \in 1..n : rate(k) * r.books[k].lots \in Int
    BY <1>4
  <2>4. owes \in Seq(Int) /\ Len(owes) = n
    BY <1>1, <2>2, <2>3
  <2>5. books \in Seq(OpenBooks) /\ Len(books) = n
    <3>1. \A k \in 1..n : books[k] \in OpenBooks
      BY <1>5
    <3> HIDE DEF books, n
    <3> QED BY <1>1, <2>1, <3>1
  <2> QED BY <2>4, <2>5
<1> HIDE DEF books, owes
<1>7. Alike(books, r.books)
  BY <1>5, <1>6 DEF Alike
<1>8. Owed(books) = Owed(r.books) + Total(owes) /\ Total(owes) \in Int /\ Owed(r.books) \in Int
  <2> DEFINE x == OwedOf(books)
             y == OwedOf(r.books)
  <2>1. x \in Seq(Int) /\ Len(x) = n /\ Owed(books) = Total(x) /\ \A k \in 1..n : x[k] = LegFees(books[k].legs)
    BY <1>6, OwedSum
  <2>2. /\ y \in Seq(Int) /\ Len(y) = n /\ Owed(r.books) = Total(y) /\ Owed(r.books) \in Int
        /\ \A k \in 1..n : y[k] = LegFees(r.books[k].legs)
    BY <1>1, OwedSum
  <2> HIDE DEF x, y
  <2>3. \A k \in 1..n : owes[k] \in Int
    BY <1>6
  <2>4. ASSUME NEW k \in 1..n PROVE x[k] = y[k] + 1 * owes[k]
    <3>1. x[k] = y[k] + owes[k] /\ owes[k] \in Int
      BY <1>5, <1>6, <2>1, <2>2, <2>3
    <3> QED BY <3>1
  <2>5. Len(owes) = Len(y) /\ Len(x) = Len(y) /\ \A k \in 1..Len(y) : x[k] = y[k] + 1 * owes[k]
    BY <1>6, <2>1, <2>2, <2>4
  <2>6. Total(x) = Total(y) + 1 * Total(owes)
    <3>1. 1 \in Int
      OBVIOUS
    <3> QED BY <1>6, <2>1, <2>2, <2>5, <3>1, TotalScaled
  <2>7. Total(owes) \in Int /\ Total(y) \in Int
    BY <1>6, <2>2, TotalIsInt
  <2>8. Total(x) = Total(y) + Total(owes)
    BY <2>6, <2>7
  <2> QED BY <2>1, <2>2, <2>7, <2>8
<1>9. cash \in Int
  BY <1>2, <1>8
<1>10. /\ s \in Runs /\ s.books = books /\ s.log = r.log /\ Fixed(s) = Fixed(r) /\ s.cash = cash /\ s.booked = r.booked
       /\ s.opened = r.opened
  <2> HIDE DEF cash
  <2> QED BY <1>1, <1>3, <1>6, <1>9 DEF Runs, Fixed
<1>11. s.lines = r.lines /\ s.cfg = r.cfg /\ s.prev = r.prev /\ s.desired = r.desired
  BY <1>10, SameFixed
<1>12. Ledger(s)
  <2> DEFINE o == Owed(r.books)
             p == Owed(books)
             v == r.cash
             u == r.booked
             w == Total(owes)
  <2>1. v = Capital + u - o /\ p = o + w /\ o \in Int /\ u \in Int /\ v \in Int /\ w \in Int /\ Capital \in Int
    BY <1>2, <1>8, ScalarsAre DEF Sound, Ledger
  <2> HIDE DEF o, p, v, u, w
  <2>2. v - w = Capital + u - p
    BY <2>1
  <2> QED BY <1>10, <2>2 DEF Ledger, o, p, v, u, w
<1>13. Sound(s)
  <2>1. Fit(books, r.cfg, r.opened, r.lines)
    BY <1>1, <1>7, AlikeFit DEF Sound
  <2> QED BY <1>10, <1>11, <1>12, <2>1 DEF Sound, Quoted
<1>14. LinesLeft(s) = LinesLeft(r) /\ Entered(s) = Entered(r)
  BY <1>10, SameLog
<1>15. ASSUME r.books = <<>> PROVE s.books = <<>>
  <2>1. n = 0
    BY <1>15
  <2> QED BY <1>6, <1>10, <2>1, EmptySeq
<1> QED BY <1>10, <1>13, <1>14, <1>15 DEF s

HaltedFlat(r) == r.dayHalted \/ r.ddHalted => r.books = <<>> /\ r.basis = r.cash
\* What a phase before the trading keeps, and the trading itself.
Kept(s, r) ==
    /\ Sound(s) /\ HaltedFlat(s) /\ LinesLeft(s) = LinesLeft(r) /\ Entered(s) = Entered(r)
    /\ s.lines = r.lines /\ s.bar = r.bar /\ s.done = r.done
InOrder(r) == Sound(r) /\ HaltedFlat(r) /\ OneWay(r)

LEMMA QuotesPrice == ASSUME NEW r, Sound(r) PROVE Priced(r, r.prev)
BY DEF Sound, Quoted, Priced

LEMMA AgedIsKept ==
    ASSUME NEW r, InOrder(r)
    PROVE  Sound(Aged(r)) /\ HaltedFlat(Aged(r)) /\ LinesLeft(Aged(r)) = {} /\ Entered(Aged(r)) = {}
           /\ Fixed(Aged(r)) = Fixed(r) /\ Aged(r).lines = r.lines
           /\ Aged(r).prev = r.prev /\ (Aged(r).dayHalted \/ Aged(r).ddHalted => Aged(r).books = <<>>)
<1> DEFINE s == Aged(r)
<1>1. Sound(r) /\ HaltedFlat(r)
  BY DEF InOrder
<1>2. Sound(s) /\ Fixed(s) = Fixed(r) /\ LinesLeft(s) = {} /\ Entered(s) = {} /\ s.cash = r.cash
      /\ (r.books = <<>> => s.books = <<>>)
  BY <1>1, AgedKeeps
<1> HIDE DEF s
<1>3. s.lines = r.lines /\ s.basis = r.basis /\ s.dayHalted = r.dayHalted /\ s.ddHalted = r.ddHalted /\ s.prev = r.prev
  BY <1>2, SameFixed
<1>4. HaltedFlat(s) /\ (s.dayHalted \/ s.ddHalted => s.books = <<>>)
  BY <1>1, <1>2, <1>3 DEF HaltedFlat
<1> QED BY <1>2, <1>3, <1>4 DEF s

LEMMA RolloverKeeps ==
    ASSUME NEW r, Sound(r), HaltedFlat(r), NEW newDay \in BOOLEAN
    PROVE  Kept(Rollover(r, newDay), r)
<1> DEFINE p == Paid(r)
           equity == Mark(p, r.prev)
           s == [p EXCEPT !.basis = equity, !.dayStart = equity, !.dayHalted = FALSE]
<1>1. Kept(r, r)
  BY DEF Kept
<1>2. Rollover(r, newDay) = IF ~newDay THEN r ELSE s
  BY DEF Rollover
<1>3. Sound(p) /\ Fixed(p) = Fixed(r) /\ LinesLeft(p) = LinesLeft(r) /\ Entered(p) = Entered(r) /\ (r.books = <<>> => p.books = <<>>)
  BY SwapKeeps
<1> HIDE DEF p
<1>4. p.lines = r.lines /\ p.prev = r.prev /\ p.ddHalted = r.ddHalted /\ p.bar = r.bar /\ p.done = r.done
  BY <1>3, SameFixed
<1>5. equity \in Int /\ (p.books = <<>> => equity = p.cash)
  <2>1. Priced(p, r.prev)
    BY <1>3, <1>4, QuotesPrice
  <2> QED BY <1>3, <2>1, MarkIsInt
<1> HIDE DEF equity
<1>6. p \in Runs
  BY <1>3 DEF Sound
<1>7. /\ s \in Runs /\ s.cash = p.cash /\ s.booked = p.booked /\ s.books = p.books /\ s.opened = p.opened /\ s.log = p.log
      /\ s.lines = p.lines /\ s.cfg = p.cfg /\ s.prev = p.prev /\ s.desired = p.desired /\ s.basis = equity
      /\ s.dayHalted = FALSE /\ s.ddHalted = p.ddHalted /\ s.bar = p.bar /\ s.done = p.done
  BY <1>5, <1>6 DEF Runs
<1> HIDE DEF s
<1>8. Quoted(s)
  BY <1>3, <1>7 DEF Sound, Quoted
<1>9. Sound(s) /\ LinesLeft(s) = LinesLeft(p) /\ Entered(s) = Entered(p)
  BY <1>3, <1>7, <1>8, SameAccount
<1>10. HaltedFlat(s)
  BY <1>3, <1>4, <1>5, <1>7 DEF HaltedFlat
<1>11. Kept(s, r)
  BY <1>3, <1>4, <1>7, <1>9, <1>10 DEF Kept
<1> QED BY <1>1, <1>2, <1>11

\* A check that bites: every book closed, the basis is the cash.
Halting(flat, day, dd) == [flat EXCEPT !.dayHalted = day, !.ddHalted = dd, !.basis = flat.cash]
LEMMA HaltKeeps ==
    ASSUME NEW r, Sound(r), NEW errand \in Errands, Closing(errand), NEW bars, Priced(r, bars),
           NEW day \in BOOLEAN, NEW dd \in BOOLEAN
    PROVE  Kept(Halting(ForEachBook(r, errand, bars), day, dd), r)
<1> DEFINE flat == ForEachBook(r, errand, bars)
           s == Halting(flat, day, dd)
<1>1. Still(flat, r) /\ flat.books = <<>>
  BY TourVisits DEF Toured
<1> HIDE DEF flat
<1>2. flat \in Runs /\ Sound(flat) /\ flat.cash \in Int /\ Fixed(flat) = Fixed(r) /\ LinesLeft(flat) = LinesLeft(r)
      /\ Entered(flat) = Entered(r)
  BY <1>1, RunIs DEF Still, Sound
<1>3. flat.lines = r.lines /\ flat.bar = r.bar /\ flat.done = r.done
  BY <1>2, SameFixed
<1>4. /\ s \in Runs /\ s.cash = flat.cash /\ s.booked = flat.booked /\ s.books = flat.books /\ s.opened = flat.opened
      /\ s.log = flat.log /\ s.lines = flat.lines /\ s.cfg = flat.cfg /\ s.prev = flat.prev /\ s.desired = flat.desired
      /\ s.basis = flat.cash /\ s.bar = flat.bar /\ s.done = flat.done
  BY <1>2 DEF Runs, Halting
<1> HIDE DEF s
<1>5. Quoted(s)
  BY <1>2, <1>4 DEF Sound, Quoted
<1>6. Sound(s) /\ LinesLeft(s) = LinesLeft(flat) /\ Entered(s) = Entered(flat)
  BY <1>2, <1>4, <1>5, SameAccount
<1>7. HaltedFlat(s)
  BY <1>1, <1>4 DEF HaltedFlat
<1> QED BY <1>2, <1>3, <1>4, <1>6, <1>7 DEF Kept, s, flat

LEMMA ChecksKeep ==
    ASSUME NEW r, Sound(r), HaltedFlat(r), NEW bars, Priced(r, bars)
    PROVE  Kept(DailyLossCheck(r, bars), r) /\ Kept(DrawdownCheck(r, bars), r)
<1>1. Kept(r, r)
  BY DEF Kept
<1>2. r \in Runs /\ r.dayHalted \in BOOLEAN /\ r.ddHalted \in BOOLEAN
  BY DEF Sound, Runs
<1>3. ASSUME NEW errand \in Errands, Closing(errand), NEW flat, flat = ForEachBook(r, errand, bars)
      PROVE  /\ Kept([flat EXCEPT !.dayHalted = TRUE, !.basis = flat.cash], r)
             /\ Kept([flat EXCEPT !.ddHalted = TRUE, !.basis = flat.cash], r)
  <2>1. Still(flat, r)
    BY <1>3, TourVisits DEF Toured
  <2>2. flat \in Runs /\ Fixed(flat) = Fixed(r)
    BY <2>1 DEF Still, Sound
  <2>3. flat.dayHalted = r.dayHalted /\ flat.ddHalted = r.ddHalted
    BY <2>2, SameFixed
  <2>4. Kept(Halting(flat, TRUE, r.ddHalted), r)
    BY <1>2, <1>3, HaltKeeps
  <2>5. Kept(Halting(flat, r.dayHalted, TRUE), r)
    BY <1>2, <1>3, HaltKeeps
  <2>6. Halting(flat, TRUE, r.ddHalted) = [flat EXCEPT !.dayHalted = TRUE, !.basis = flat.cash]
    BY <2>2, <2>3 DEF Halting, Runs
  <2>7. Halting(flat, r.dayHalted, TRUE) = [flat EXCEPT !.ddHalted = TRUE, !.basis = flat.cash]
    BY <2>2, <2>3 DEF Halting, Runs
  <2> QED BY <2>4, <2>5, <2>6, <2>7
<1>4. Kept(DailyLossCheck(r, bars), r)
  <2> DEFINE flat == ForEachBook(r, "daily_loss_limit", bars)
             s == [flat EXCEPT !.dayHalted = TRUE, !.basis = flat.cash]
  <2>1. "daily_loss_limit" \in Errands /\ Closing("daily_loss_limit")
    BY DEF Errands, Closing
  <2>2. Kept(s, r)
    BY <1>3, <2>1
  <2>3. DailyLossCheck(r, bars) \in {r, s}
    BY DEF DailyLossCheck
  <2> HIDE DEF s
  <2> QED BY <1>1, <2>2, <2>3
<1>5. Kept(DrawdownCheck(r, bars), r)
  <2> DEFINE flat == ForEachBook(r, "max_drawdown", bars)
             s == [flat EXCEPT !.ddHalted = TRUE, !.basis = flat.cash]
  <2>1. "max_drawdown" \in Errands /\ Closing("max_drawdown")
    BY DEF Errands, Closing
  <2>2. Kept(s, r)
    BY <1>3, <2>1
  <2>3. DrawdownCheck(r, bars) \in {r, s}
    BY DEF DrawdownCheck
  <2> HIDE DEF s
  <2> QED BY <1>1, <2>2, <2>3
<1> QED BY <1>4, <1>5

LEMMA TradedKeeps ==
    ASSUME NEW r, Sound(r), HaltedFlat(r), LinesLeft(r) = {}, Entered(r) = {}, NEW bars, Priced(r, bars)
    PROVE  InOrder(Traded(r, bars)) /\ Traded(r, bars).lines = r.lines
<1> DEFINE a == ForEachBook(r, "gaps", bars)
           b == Reconcile(a, bars)
           c == ForEachBook(b, "manage", bars)
<1>1. CASE r.bar < r.cfg.warmup \/ r.dayHalted \/ r.ddHalted
  <2>1. Traded(r, bars) = r
    BY <1>1 DEF Traded
  <2> QED BY <2>1 DEF InOrder, OneWay
<1>2. CASE ~(r.bar < r.cfg.warmup \/ r.dayHalted \/ r.ddHalted)
  <2>1. Traded(r, bars) = c
    BY <1>2 DEF Traded
  <2>2. "gaps" \in Errands /\ "manage" \in Errands
    BY DEF Errands
  <2>3. Still(a, r)
    BY <2>2, TourVisits DEF Toured
  <2> HIDE DEF a
  <2>4. Sound(a) /\ Fixed(a) = Fixed(r) /\ LinesLeft(a) = {} /\ Entered(a) = {}
    BY <2>3 DEF Still
  <2>5. Priced(a, bars)
    BY <2>4, SameFixed DEF Priced
  <2>6. Reconciled(b, a)
    BY <2>4, <2>5, LinesTakeTurns
  <2> HIDE DEF b
  <2>7. Sound(b) /\ Fixed(b) = Fixed(r) /\ OneWay(b)
    BY <2>4, <2>6 DEF Reconciled
  <2>8. Priced(b, bars)
    BY <2>7, SameFixed DEF Priced
  <2>9. Still(c, b)
    BY <2>2, <2>7, <2>8, TourVisits DEF Toured
  <2> HIDE DEF c
  <2>10. Sound(c) /\ Fixed(c) = Fixed(r) /\ OneWay(c)
    BY <2>7, <2>9 DEF Still, OneWay
  <2>11. c.dayHalted = r.dayHalted /\ c.ddHalted = r.ddHalted /\ c.lines = r.lines
    BY <2>10, SameFixed
  <2>12. HaltedFlat(c)
    BY <1>2, <2>11 DEF HaltedFlat
  <2> QED BY <2>1, <2>10, <2>11, <2>12 DEF InOrder
<1> QED BY <1>1, <1>2

LEMMA BarsArePriced ==
    ASSUME NEW r, NEW bars \in [SymbolsOf(r.lines) -> MarketBars] PROVE Priced(r, bars)
BY EngineAssumption DEF Priced

LEMMA ClosedKeeps ==
    ASSUME NEW r, InOrder(r), NEW bars \in [SymbolsOf(r.lines) -> MarketBars], NEW desired \in DesiredOf(r.lines)
    PROVE  InOrder(ClosedBar(r, bars, desired))
<1> DEFINE equity == Mark(r, bars)
           peak == Max({r.peak, equity})
           next == r.bar + 1
           s == ClosedBar(r, bars, desired)
<1>1. Sound(r) /\ r \in Runs /\ r.peak \in Int /\ r.bar \in Int /\ r.lines \in LineSets
  BY RunIs DEF InOrder, Sound
<1>2. Priced(r, bars)
  BY BarsArePriced
<1>3. equity \in Int /\ (r.books = <<>> => equity = r.cash)
  BY <1>1, <1>2, MarkIsInt
<1>4. peak \in Int
  <2> HIDE DEF equity
  <2> QED BY <1>1, <1>3, MaxOfTwo
<1>5. s = [r EXCEPT !.basis = equity, !.peak = peak, !.prev = bars, !.desired = desired, !.bar = next]
  BY DEF ClosedBar, Marked
<1>0. next \in Int
  BY <1>1
<1> HIDE DEF equity, peak, next, s
<1>6. bars \in Quotes /\ desired \in Signals
  BY <1>1 DEF Quotes, Signals
<1>7. /\ s \in Runs /\ s.cash = r.cash /\ s.booked = r.booked /\ s.books = r.books /\ s.opened = r.opened
      /\ s.log = r.log /\ s.lines = r.lines /\ s.cfg = r.cfg /\ s.prev = bars /\ s.desired = desired
      /\ s.basis = equity /\ s.dayHalted = r.dayHalted /\ s.ddHalted = r.ddHalted
  BY <1>0, <1>1, <1>3, <1>4, <1>5, <1>6 DEF Runs
<1>8. Quoted(s)
  BY <1>2, <1>7 DEF Quoted, Priced
<1>9. Sound(s) /\ LinesLeft(s) = LinesLeft(r) /\ Entered(s) = Entered(r)
  BY <1>1, <1>7, <1>8, SameAccount
<1>10. HaltedFlat(s)
  BY <1>3, <1>7 DEF InOrder, HaltedFlat
<1> QED BY <1>9, <1>10 DEF InOrder, OneWay, s

LEMMA BarKeeps ==
    ASSUME NEW r, InOrder(r), NEW bars \in [SymbolsOf(r.lines) -> MarketBars], NEW newDay \in BOOLEAN,
           NEW desired \in DesiredOf(r.lines)
    PROVE  InOrder(OneBar(r, bars, newDay, desired))
<1> DEFINE a == Aged(r)
           b == Rollover(a, newDay)
           c == DailyLossCheck(b, bars)
           d == DrawdownCheck(c, bars)
           e == Traded(d, bars)
<1>1. Sound(a) /\ HaltedFlat(a) /\ LinesLeft(a) = {} /\ Entered(a) = {} /\ a.lines = r.lines
  BY AgedIsKept
<1>2. OneBar(r, bars, newDay, desired) = ClosedBar(e, bars, desired)
  BY DEF OneBar
<1> HIDE DEF a
<1>3. Kept(b, a)
  BY <1>1, RolloverKeeps
<1> HIDE DEF b
<1>4. Sound(b) /\ HaltedFlat(b) /\ LinesLeft(b) = {} /\ Entered(b) = {} /\ b.lines = r.lines
  BY <1>1, <1>3 DEF Kept
<1>5. Priced(b, bars)
  BY <1>4, BarsArePriced
<1>6. Kept(c, b)
  BY <1>4, <1>5, ChecksKeep
<1> HIDE DEF c
<1>7. Sound(c) /\ HaltedFlat(c) /\ LinesLeft(c) = {} /\ Entered(c) = {} /\ c.lines = r.lines
  BY <1>4, <1>6 DEF Kept
<1>8. Priced(c, bars)
  BY <1>7, BarsArePriced
<1>9. Kept(d, c)
  BY <1>7, <1>8, ChecksKeep
<1> HIDE DEF d
<1>10. Sound(d) /\ HaltedFlat(d) /\ LinesLeft(d) = {} /\ Entered(d) = {} /\ d.lines = r.lines
  BY <1>7, <1>9 DEF Kept
<1>11. Priced(d, bars)
  BY <1>10, BarsArePriced
<1>12. InOrder(e) /\ e.lines = d.lines
  BY <1>10, <1>11, TradedKeeps
<1> HIDE DEF e
<1>13. e.lines = r.lines
  BY <1>10, <1>12
<1>14. InOrder(ClosedBar(e, bars, desired))
  BY <1>12, <1>13, ClosedKeeps
<1> QED BY <1>2, <1>14

LEMMA NoneToVisit ==
    ASSUME NEW r, r.books = <<>>, NEW errand, NEW bars PROVE ForEachBook(r, errand, bars) = r
<1> DEFINE n == Len(r.books)
           g == CHOOSE g_ : VisitTable(r, errand, bars, n, g_)
<1>1. n = 0
  OBVIOUS
<1>2. ForEachBook(r, errand, bars) = g[n]
  BY DEF ForEachBook, VisitTable
<1> HIDE DEF n
<1>3. VisitTable(r, errand, bars, n, g)
  BY <1>1, VisitTableExists
<1> HIDE DEF g
<1>4. g[0] = r
  <2>1. g = [m \in 0..n |-> IF m = 0 THEN r ELSE VisitKey(g[m - 1], r.books[m].key, errand, bars)]
    BY <1>3 DEF VisitTable
  <2>2. 0 \in 0..n
    BY <1>1
  <2> QED BY <2>1, <2>2
<1> QED BY <1>1, <1>2, <1>4

LEMMA EndKeeps == ASSUME NEW r, InOrder(r) PROVE InOrder(EndOfData(r))
<1> DEFINE a == Aged(r)
           b == ForEachBook(a, "end_of_data", r.prev)
           s == [b EXCEPT !.done = TRUE]
<1>1. Sound(a) /\ HaltedFlat(a) /\ LinesLeft(a) = {} /\ Entered(a) = {} /\ a.prev = r.prev
      /\ (a.dayHalted \/ a.ddHalted => a.books = <<>>)
  BY AgedIsKept
<1>2. EndOfData(r) = s
  BY DEF EndOfData
<1> HIDE DEF a
<1>3. Priced(a, r.prev)
  BY <1>1, QuotesPrice
<1>4. "end_of_data" \in Errands /\ Closing("end_of_data")
  BY DEF Errands, Closing
<1>5. Still(b, a) /\ b.books = <<>>
  BY <1>1, <1>3, <1>4, TourVisits DEF Toured
<1>6. a.books = <<>> => b = a
  BY NoneToVisit
<1> HIDE DEF b
<1>7. Sound(b) /\ b \in Runs /\ LinesLeft(b) = {} /\ Entered(b) = {} /\ Fixed(b) = Fixed(a)
  BY <1>1, <1>5 DEF Still, Sound
<1>8. b.dayHalted = a.dayHalted /\ b.ddHalted = a.ddHalted
  BY <1>7, SameFixed
<1>9. HaltedFlat(b)
  BY <1>1, <1>6, <1>8 DEF HaltedFlat
<1>10. /\ s \in Runs /\ s.cash = b.cash /\ s.booked = b.booked /\ s.books = b.books /\ s.opened = b.opened
       /\ s.log = b.log /\ s.lines = b.lines /\ s.cfg = b.cfg /\ s.prev = b.prev /\ s.desired = b.desired
       /\ s.basis = b.basis /\ s.dayHalted = b.dayHalted /\ s.ddHalted = b.ddHalted
  BY <1>7 DEF Runs
<1> HIDE DEF s
<1>11. Quoted(s)
  BY <1>7, <1>10 DEF Sound, Quoted
<1>12. Sound(s) /\ LinesLeft(s) = LinesLeft(b) /\ Entered(s) = Entered(b)
  BY <1>7, <1>10, <1>11, SameAccount
<1>13. HaltedFlat(s)
  BY <1>9, <1>10 DEF HaltedFlat
<1>14. InOrder(s)
  BY <1>7, <1>12, <1>13 DEF InOrder, OneWay
<1> QED BY <1>2, <1>14

LEMMA NewIsInOrder ==
    ASSUME NEW lines \in LineSets, NEW cfg \in Configs, NEW desired \in DesiredOf(lines)
    PROVE  InOrder(NewRun(lines, cfg, desired))
<1> DEFINE r == NewRun(lines, cfg, desired)
<1>1. Capital \in Int /\ FirstClose \in Quotes /\ desired \in Signals
  BY ScalarsAre DEF Quotes, Signals
<1>2. /\ r.lines = lines /\ r.cfg = cfg /\ r.cash = Capital /\ r.basis = Capital /\ r.books = <<>> /\ r.opened = 0
      /\ r.booked = 0 /\ r.log = <<>> /\ r.prev = FirstClose /\ r.desired = desired /\ r.dayHalted = FALSE /\ r.ddHalted = FALSE
  BY DEF NewRun
<1>3. r \in Runs
  <2>1. <<>> \in Seq(OpenBooks) /\ <<>> \in Seq(Entries) /\ 0 \in Nat /\ 0 \in Int /\ 1 \in Int
    OBVIOUS
  <2> QED BY <1>1, <2>1 DEF NewRun, Runs
<1> HIDE DEF r
<1>4. Ledger(r)
  <2>1. Owed(<<>>) = 0
    <3>1. OwedOf(<<>>) = <<>>
      BY DEF OwedOf
    <3>2. <<>> \in Seq(OpenBooks)
      OBVIOUS
    <3> QED BY <3>1, <3>2, OwedSum, TotalOfNone
  <2> QED BY <1>1, <1>2, <2>1 DEF Ledger
<1>5. Fit(r.books, r.cfg, r.opened, r.lines)
  <2>1. r.cfg.maxBooks \in Nat
    BY <1>3, ConfigIs
  <2>2. DOMAIN r.books = {} /\ Len(r.books) = 0
    BY <1>2
  <2> QED BY <2>1, <2>2 DEF Fit
<1>6. Quoted(r)
  <2>1. \A x \in SymbolsOf(lines) : FirstClose[x] \in Candles
    BY EngineAssumption DEF SymbolsOf
  <2> QED BY <1>2, <2>1 DEF Quoted
<1>7. LinesLeft(r) = {} /\ Entered(r) = {}
  <2>1. DOMAIN r.log = {}
    BY <1>2
  <2> QED BY <2>1 DEF LinesLeft, Entered
<1> QED BY <1>2, <1>3, <1>4, <1>5, <1>6, <1>7 DEF InOrder, Sound, HaltedFlat, OneWay, r

LEMMA OrderIsBalance == ASSUME InOrder(run) PROVE AccountsBalance
<1>1. Sound(run) /\ HaltedFlat(run) /\ OneWay(run)
  BY DEF InOrder
<1>2. LedgerBalances
  BY <1>1 DEF Sound, Ledger, LedgerBalances
<1>3. HaltedIsFlat
  BY <1>1 DEF HaltedFlat, HaltedIsFlat
<1>4. FlipWaits
  <2>1. SUFFICES ASSUME NEW j \in DOMAIN run.log, NEW k \in DOMAIN run.log, run.log[j].type = "close",
                        run.log[j].code = "signal_exit", run.log[k].type = "open",
                        run.log[j].strategy = run.log[k].strategy, run.log[j].symbol = run.log[k].symbol
                 PROVE  FALSE
    BY DEF FlipWaits
  <2>2. <<run.log[j].symbol, run.log[j].strategy>> \in LinesLeft(run)
    BY <2>1 DEF LinesLeft
  <2>3. <<run.log[k].symbol, run.log[k].strategy>> \in Entered(run)
    BY <2>1 DEF Entered
  <2> QED BY <1>1, <2>1, <2>2, <2>3 DEF OneWay
<1>5. BooksAreSound
  <2>1. Fit(run.books, run.cfg, run.opened, run.lines)
    BY <1>1 DEF Sound
  <2>2. DOMAIN run.books = 1..Len(run.books)
    BY <1>1, AllSound
  <2>3. ASSUME NEW k \in DOMAIN run.books
        PROVE  LET b == run.books[k] IN
               /\ b.lots = LegLots(b.legs) /\ \A j \in DOMAIN b.legs : b.legs[j].lots > 0
               /\ \A j, m \in DOMAIN b.legs : j # m => b.legs[j].strategy # b.legs[m].strategy
    <3> DEFINE b == run.books[k]
    <3>1. b.legs \in Seq(BookLegs) /\ b.lots = LegLots(b.legs) /\ Distinct(b.legs)
      BY <1>1, <2>2, SoundBook
    <3> HIDE DEF b
    <3>2. \A j \in DOMAIN b.legs : b.legs[j].lots > 0
      <4>1. \A j \in DOMAIN b.legs : b.legs[j] \in BookLegs
        BY <3>1
      <4> QED BY <4>1 DEF BookLegs
    <3> QED BY <3>1, <3>2 DEF Distinct, b
  <2>4. ASSUME NEW legs PROVE {l.strategy : l \in ToSet(legs)} = Names(legs)
    BY DEF ToSet, Names
  <2>5. ASSUME NEW k \in DOMAIN run.books, NEW j \in DOMAIN run.books, j # k, run.books[j].symbol = run.books[k].symbol
        PROVE  run.cfg.mode = "hedging" /\ {l.strategy : l \in ToSet(run.books[j].legs)}
                                            \cap {l.strategy : l \in ToSet(run.books[k].legs)} = {}
    <3>1. Apart(run.cfg, run.books[j], run.books[k])
      BY <2>1, <2>5 DEF Fit
    <3>2. {l.strategy : l \in ToSet(run.books[j].legs)} = Names(run.books[j].legs)
      BY <2>4
    <3>3. {l.strategy : l \in ToSet(run.books[k].legs)} = Names(run.books[k].legs)
      BY <2>4
    <3> QED BY <2>5, <3>1, <3>2, <3>3 DEF Apart
  <2>6. Len(run.books) <= run.cfg.maxBooks
    BY <2>1 DEF Fit
  <2> QED BY <2>3, <2>5, <2>6, Zenon DEF BooksAreSound
<1> QED BY <1>2, <1>3, <1>4, <1>5 DEF AccountsBalance

EngineSpec == EngineInit /\ [][EngineNext]_engineVars
AccountInv == InOrder(run)

\* engine.py: the main loop, bar after bar and to the end of the data, for every set of lines, every configuration
\* and every market: what was realised and reported is what the cash says, a book is the sum of its legs, a halted
\* run is flat and a flip waits for the next bar.
THEOREM AccountsHold == EngineSpec => []AccountsBalance
<1>1. EngineInit => AccountInv
  BY NewIsInOrder DEF EngineInit, AccountInv
<1>2. AccountInv /\ [EngineNext]_engineVars => AccountInv'
  <2>1. SUFFICES ASSUME InOrder(run), [EngineNext]_engineVars PROVE InOrder(run')
    BY DEF AccountInv
  <2>2. run \in Runs /\ run.desired \in DesiredOf(run.lines)
    BY <2>1 DEF InOrder, Sound, Quoted
  <2>3. CASE Bar
    <3>1. PICK bars \in [SymbolsOf(run.lines) -> MarketBars], newDay \in BOOLEAN, desired \in DesiredOf(run.lines) :
               run' = OneBar(run, bars, newDay, desired)
      BY <2>2, <2>3 DEF Bar
    <3> QED BY <2>1, <3>1, BarKeeps
  <2>4. CASE Finish
    BY <2>1, <2>4, EndKeeps DEF Finish
  <2>5. CASE UNCHANGED engineVars
    BY <2>1, <2>5 DEF engineVars
  <2> QED BY <2>1, <2>3, <2>4, <2>5 DEF EngineNext
<1>3. AccountInv => AccountsBalance
  BY OrderIsBalance DEF AccountInv
<1> QED BY <1>1, <1>2, <1>3, PTL DEF EngineSpec

=============================================================================
