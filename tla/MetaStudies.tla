---------------------------- MODULE MetaStudies ----------------------------
(***************************************************************************)
(* The studies that compare the meta policy with equal weights             *)
(* (meta_portfolio.py, meta_replay.py, meta_oos.py) and the feeds they     *)
(* decide on (regime_feed.py, drift_feed.py).  Prices and weights are      *)
(* abstracted to what a study reads: a decision is the set of bars its     *)
(* inputs were computed from, and every bar whose return is counted names  *)
(* the decision it was counted under.                                      *)
(***************************************************************************)
EXTENDS Integers, Sequences, FiniteSets, FiniteSetsExt, SequencesExt

CONSTANTS LastBar,         \* the frame has bars 1..LastBar
          DayOf,           \* bar -> day
          Offers,          \* sequences of contexts: id, symbol, engine, clean, conversion, aligned
          MinHistories, EveryDays, \* first decision, days between decisions
          Replays,         \* rebalances of a replay
          VolWindow,       \* regime feed: bars it needs, less two
          ClosedAt,        \* the book's trades in the order they close, as the bars they close at
          RecentN, BaselineN, \* drift windows
          FoldCounts, EmbargoBars, MinTrain, MinTest

ASSUME WindowsAssumption ==
    /\ LastBar \in Nat /\ VolWindow \in Nat /\ ClosedAt \in Seq(Int)
    /\ RecentN \in Nat \ {0} /\ BaselineN \in Nat
    /\ FoldCounts \subseteq Nat \ {0} /\ EmbargoBars \in Nat /\ MinTrain \in Nat /\ MinTrain > 1 /\ MinTest \in Nat
    /\ MinHistories \subseteq Nat /\ Replays \subseteq Nat \ {0}

VARIABLES study,           \* kind, contexts, bars to decide on, where it stands
          decisions,       \* policy -> its decisions: at, used, regime, drift
          counted          \* policy -> bar -> decisions its return was counted under

studyVars == <<study, decisions, counted>>

FrameBars == 1..LastBar
StudyPolicies == {"META", "EQUAL_WEIGHT"}
Before(t) == {b \in FrameBars : b < t}
UpTo(t) == {b \in FrameBars : b <= t}
NoBars == [p \in StudyPolicies |-> [b \in FrameBars |-> {}]]

StudyInit ==
    /\ study = [pc |-> "none"]
    /\ decisions = [p \in StudyPolicies |-> {}] /\ counted = NoBars

(* Feeds: strictly before the decision. *)
RegimeSnapshot(t) ==
    IF Cardinality(Before(t)) < VolWindow + 2 THEN [label |-> "UNKNOWN", used |-> {}]
    ELSE [label |-> "KNOWN", used |-> Before(t)]
\* Of a ledger's closed positions: the last n, and how many close after one.
ClosedLater(closed, k) == Cardinality({j \in closed : j > k})
LastOf(closed, n) == {k \in closed : ClosedLater(closed, k) < n}
DriftOn(closed) ==
    LET recent == LastOf(closed, RecentN)
        baseline == LastOf(closed, RecentN + BaselineN) \ recent
    IN  [status |-> IF Cardinality(recent) < RecentN \/ Cardinality(baseline) < BaselineN THEN "UNKNOWN" ELSE "SCORED",
         recent |-> recent, baseline |-> baseline]
\* Mutant: a trade that closes on the decision bar counts.
DriftSnapshotInclusive(t) == DriftOn({k \in DOMAIN ClosedAt : ClosedAt[k] <= t})

\* Recent: the last trades closed; baseline: those just before; too few of either is UNKNOWN.
DriftSnapshot(t) == DriftOn({k \in DOMAIN ClosedAt : ClosedAt[k] < t})

(* Contexts admitted to the portfolio study. *)
Refused(c) == ~c.clean \/ ~c.conversion
Eligible(offer) ==
    FoldLeft(LAMBDA kept, c :
                IF Refused(c) \/ \E k \in DOMAIN kept : kept[k].symbol = c.symbol /\ kept[k].id = c.id
                THEN kept ELSE Append(kept, c),
             <<>>, offer)
EngineAccepts(cs) ==
    /\ cs # <<>> /\ \A k \in DOMAIN cs : cs[k].aligned
    /\ \A j, k \in DOMAIN cs : j # k => <<cs[j].symbol, cs[j].engine>> # <<cs[k].symbol, cs[k].engine>>
\* MetaLayer.decide refuses two inputs of one strategy id.
DecideAccepts(cs) == \A j, k \in DOMAIN cs : j # k => cs[j].id # cs[k].id

\* The first bar of every n-th day, from the first bar on.
RebalanceGrid(first, every) ==
    LET bars == {b \in FrameBars : b > first}
        days == {DayOf[b] : b \in bars}
        picked == {d \in days : Cardinality({e \in days : e < d}) % every = 0}
    IN  {b \in bars : DayOf[b] \in picked /\ \A x \in bars : DayOf[x] = DayOf[b] => b <= x}

BeginPortfolio ==
    /\ study.pc = "none"
    /\ \E offer \in Offers, first \in MinHistories, every \in EveryDays :
          /\ EngineAccepts(Eligible(offer))
          /\ study' = [pc |-> IF DecideAccepts(Eligible(offer)) THEN "decide" ELSE "raised", kind |-> "portfolio",
                       contexts |-> Eligible(offer), grid |-> RebalanceGrid(first, every), policy |-> "META"]
    /\ UNCHANGED <<decisions, counted>>
\* run_replay: evenly spaced decisions, the last segment ends with the frame.
ReplayGrid(first, n) == {first + ((k - 1) * (LastBar - first)) \div n : k \in 1..n}
BeginReplay ==
    /\ study.pc = "none"
    /\ \E first \in MinHistories, n \in Replays :
          study' = [pc |-> "decide", kind |-> "replay", contexts |-> <<>>,
                    grid |-> ReplayGrid(first + 1, n), policy |-> "META"]
    /\ UNCHANGED <<decisions, counted>>

\* One rebalance: a portfolio study reads what lies before it, a replay the decision bar too.
Snapshot(t) ==
    [at |-> t, used |-> IF study.kind = "portfolio" THEN Before(t) ELSE UpTo(t),
     regime |-> RegimeSnapshot(t), drift |-> DriftSnapshot(t)]
Left(policy) == {t \in study.grid : \A d \in decisions[policy] : d.at # t}
Decide ==
    /\ study.pc = "decide"
    /\ \E t \in Left(study.policy) :
          /\ \A u \in Left(study.policy) : t <= u
          /\ decisions' = [decisions EXCEPT ![study.policy] = @ \cup {Snapshot(t)}]
    /\ UNCHANGED <<study, counted>>

\* A portfolio applies a weight from its timestamp on; a replay counts the segment (t, next].
Governs(t, b) ==
    IF study.kind = "portfolio" THEN t <= b /\ ~\E u \in study.grid : t < u /\ u <= b
    ELSE t < b /\ ~\E u \in study.grid : t < u /\ u < b
Count ==
    /\ study.pc = "decide" /\ Left(study.policy) = {}
    /\ counted' = [counted EXCEPT ![study.policy] =
                      [b \in FrameBars |-> {d.used : d \in {e \in decisions[study.policy] : Governs(e.at, b)}}]]
    /\ study' = IF study.policy = "META" THEN [study EXCEPT !.policy = "EQUAL_WEIGHT"] ELSE [study EXCEPT !.pc = "done"]
    /\ UNCHANGED decisions

\* dev_fold_table: contiguous folds of the development frame, weights from the past less the embargo.
FoldEdge(k, n) == (k * LastBar) \div n
TrainOf(k, n) == {b \in FrameBars : b <= Max({FoldEdge(k, n) - EmbargoBars, 1})}
TestOf(k, n) == {b \in FrameBars : FoldEdge(k, n) < b /\ b <= FoldEdge(k + 1, n)}
DevFolds ==
    /\ study.pc = "none"
    /\ \E n \in FoldCounts :
          LET folds == {k \in 0..(n - 1) : Cardinality(TrainOf(k, n)) >= MinTrain /\ Cardinality(TestOf(k, n)) >= MinTest}
          IN  counted' = [p \in StudyPolicies |->
                             [b \in FrameBars |-> {TrainOf(k, n) : k \in {j \in folds : b \in TestOf(j, n)}}]]
    /\ study' = [pc |-> "done", kind |-> "folds"]
    /\ UNCHANGED decisions

StudyNext == BeginPortfolio \/ BeginReplay \/ Decide \/ Count \/ DevFolds

-----------------------------------------------------------------------------
(* What must hold. *)

\* The windows have their sizes, the baseline ends where the recent trades begin, and every trade
\* closed before the decision that is in neither is older than both.
Adjacent(d) ==
    /\ Cardinality(d.drift.recent) = RecentN /\ Cardinality(d.drift.baseline) = BaselineN
    /\ \A j \in d.drift.baseline, k \in d.drift.recent : j < k
    /\ \A j \in DOMAIN ClosedAt :
          ClosedAt[j] < d.at /\ j \notin d.drift.recent \cup d.drift.baseline
            => \A k \in d.drift.recent \cup d.drift.baseline : j < k

\* meta_portfolio, meta_replay, meta_oos, regime_feed, drift_feed: no bar is counted under a decision
\* that saw it or a later one, none is counted twice, both policies count the same bars, and the
\* drift windows are adjacent and closed before the decision.
NothingLooksAhead ==
    /\ \A p \in StudyPolicies, b \in FrameBars :
          /\ Cardinality(counted[p][b]) <= 1
          /\ \A used \in counted[p][b] : \A x \in used : x < b
    /\ study.pc = "done" => \A b \in FrameBars : counted["META"][b] = counted["EQUAL_WEIGHT"][b]
    /\ \A p \in StudyPolicies : \A d \in decisions[p] :
          /\ \A x \in d.regime.used : x < d.at
          /\ \A k \in d.drift.recent \cup d.drift.baseline : ClosedAt[k] < d.at
          /\ d.drift.status = "SCORED" => Adjacent(d)
=============================================================================
