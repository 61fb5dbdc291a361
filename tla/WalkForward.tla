----------------------------- MODULE WalkForward -----------------------------
(***************************************************************************)
(* Continuous walk-forward analysis (optimizer.py): the geometry, one      *)
(* selection a window on the bars before it, the schedule of frozen        *)
(* parameters, and what the one continuous run is reported as.  A bar is   *)
(* its index; a selection run is the bars at which its trades exit.        *)
(***************************************************************************)
EXTENDS Integers, Sequences, FiniteSets, FiniteSetsExt, SequencesExt

CONSTANTS
    Walks,          \* requests: bars, windows, train fraction in tenths, warmup, embargo, purge
    SegmentMin,     \* least bars of a test segment (120)
    SelectionMin,   \* least bars of a selection window (60)
    Grids           \* what the runs of the grid may score: a set for each run, {} without the metric

ASSUME WalksAssumption ==
    /\ \A r \in Walks :
          /\ r.bars \in Int /\ r.windows \in Int /\ r.tenths \in Int
          /\ r.warmup \in Nat /\ r.embargo \in Int /\ r.purge \in Int
    /\ SegmentMin \in Nat \ {0} /\ SelectionMin \in Nat \ {0, 1}
    /\ \A scores \in Grids :
          /\ scores # <<>> /\ scores \in Seq(SUBSET Int)
          /\ \A i \in DOMAIN scores : \A x, y \in scores[i] : x = y

VARIABLE walk       \* the request, what was selected window by window, the schedule

\* Python's round of x tenths: the half goes to the even number.
RoundTenths(x) ==
    LET down == x \div 10
    IN IF x % 10 > 5 \/ (x % 10 = 5 /\ down % 2 = 1) THEN down + 1 ELSE down

SegmentBars(r) == (10 * (r.bars - r.warmup)) \div (10 * r.windows + r.tenths)
SelectionBars(r) == Max({1, RoundTenths(r.tenths * SegmentBars(r))})
HeadBar(r) == r.warmup + SelectionBars(r)
TestStart(r, w) == HeadBar(r) + (w - 1) * SegmentBars(r)
\* The last segment absorbs the remainder.
TestEnd(r, w) == IF w = r.windows THEN r.bars ELSE TestStart(r, w + 1)

\* Everything walk_forward refuses to work on.
Workable(r) ==
    /\ r.windows >= 1 /\ r.tenths > 0 /\ r.bars > r.warmup /\ r.embargo >= 0 /\ r.purge >= 0
    /\ SegmentBars(r) >= SegmentMin /\ SelectionBars(r) >= SelectionMin
    /\ r.embargo < SelectionBars(r) - (SelectionMin - 1)
    /\ r.embargo + r.purge < SelectionBars(r)
    /\ TestStart(r, r.windows) < r.bars /\ HeadBar(r) >= 1

SelectionEndAtTest(r, w) == TestStart(r, w)                          \* mutant
\* Selection never scores the embargo before the test.
SelectionEnd(r, w) == TestStart(r, w) - r.embargo
SelectedOn(r, w) == (TestStart(r, w) - SelectionBars(r))..(SelectionEnd(r, w) - 1)

\* _selection_metrics, of the run already chosen: a trade that exits in the purged tail was closed by
\* the boundary; it is dropped, and so is the equity from there on.
KeptExits(r, w, exits) ==
    IF r.purge = 0 THEN exits ELSE {e \in exits : e < SelectionEnd(r, w) - r.purge}

\* _metric_value, grid_search: a run without the metric ranks last; among equals
\* the first of the grid leads.  {} is the missing metric.
Outranks(a, b) == a # {} /\ (b = {} \/ Max(a) > Max(b))
BestOf(scores) ==
    CHOOSE i \in DOMAIN scores :
        /\ \A j \in DOMAIN scores : ~Outranks(scores[j], scores[i])
        /\ \A j \in 1..(i - 1) : Outranks(scores[i], scores[j])

AskWalk(r) ==
    /\ walk.stage = "idle"
    /\ walk' = [walk EXCEPT !.request = r, !.stage = IF Workable(r) THEN "select" ELSE "refused"]

\* One window: the grid on its selection bars, ranked by the whole runs; the winner frozen from the
\* bar before the test on; its metric reported from what the purge keeps of it.  "without" is what
\* each run would score by that.
SelectWindow(scores, without, exits) ==
    LET r == walk.request
        w == Len(walk.windows) + 1
        best == BestOf(scores)
    IN /\ walk.stage = "select" /\ exits \subseteq SelectedOn(r, w)
       /\ DOMAIN without = DOMAIN scores /\ (r.purge = 0 => without = scores)
       /\ walk' = [walk EXCEPT !.windows = Append(@, [scores |-> scores, without |-> without, best |-> best, metric |-> without[best],
                                                     on |-> SelectedOn(r, w), kept |-> KeptExits(r, w, exits)]),
                               !.schedule = Append(@, TestStart(r, w) - 1),
                               !.stage = IF w = r.windows THEN "run" ELSE "select"]

\* PortfolioEngine._validate_schedule, then the one run over the whole sample.
RunScheduled ==
    /\ walk.stage = "run"
    /\ LET starts == {walk.schedule[i] : i \in DOMAIN walk.schedule}
       IN walk' = [walk EXCEPT !.stage =
            IF Cardinality(starts) = Len(walk.schedule) /\ Min(starts) >= 1 /\ Max(starts) < walk.request.bars
            THEN "done" ELSE "refused"]

\* _desired_series, params_at: the latest entry at or before the bar governs; 0
\* is the strategy's defaults.
GovernedBy(bar) == Max({0} \cup {i \in DOMAIN walk.schedule : walk.schedule[i] <= bar})

\* The windows that count a trade: by the bar it was entered at.
CountedIn(r, entry) == {w \in 1..r.windows : TestStart(r, w) <= entry /\ entry < TestEnd(r, w)}

WalkInit == walk = [stage |-> "idle", request |-> CHOOSE r \in Walks : TRUE, windows |-> <<>>, schedule |-> <<>>]

WalkNext ==
    \/ \E r \in Walks : AskWalk(r)
    \/ \E scores, without \in Grids, tail \in {1, 2}, first \in BOOLEAN :
        LET on == SelectedOn(walk.request, Len(walk.windows) + 1)
        IN walk.stage = "select" /\ SelectWindow(scores, without, {Max(on) + 1 - tail} \cup IF first THEN {Min(on)} ELSE {})
    \/ RunScheduled
-----------------------------------------------------------------------------
\* A walk-forward result is out of sample (walk_forward): a trade entered in a
\* test segment was decided with parameters selected on earlier bars only, an
\* embargo apart, by that segment's own selection, and counts in exactly that
\* segment; what is reported of a selection counts no trade the boundary
\* censored, though the choice itself does (PurgeActsOnSelection); a run that
\* lacks the metric never wins over one that has it; every request the checks
\* accept makes a schedule the engine accepts.
OutOfSampleIsOut ==
    LET r == walk.request IN
    /\ \A i \in DOMAIN walk.windows :
        LET w == walk.windows[i] IN
        /\ \A b \in w.on : b < TestStart(r, i) - r.embargo /\ b >= 0
        /\ \A e \in w.kept : e < TestStart(r, i) - r.embargo - r.purge
        /\ w.scores[w.best] = {} => \A j \in DOMAIN w.scores : w.scores[j] = {}
    /\ walk.stage = "done" =>
        \A entry \in 1..(r.bars - 1) :
            IF entry < HeadBar(r) THEN CountedIn(r, entry) = {} /\ GovernedBy(entry - 1) = 0
            ELSE CountedIn(r, entry) = {GovernedBy(entry - 1)}
    /\ walk.stage = "refused" => ~Workable(r)

\* optimizer.py:139 of embargo and purge: "both act on SELECTION"; WFA_CONTRACT.md:17 "trailing bars
\* of the IS interval whose boundary-censored trades are dropped from selection metrics".
PurgeActsOnSelection == \A i \in DOMAIN walk.windows : walk.windows[i].best = BestOf(walk.windows[i].without)

-----------------------------------------------------------------------------
(***************************************************************************)
(* The fold geometry of purged cross-validation (pipeline.py               *)
(* purged_cv_stage): bars 0..n-1 are cut into blocks, every half of the    *)
(* blocks is the test side of a fold, the embargo widens it, the rest is   *)
(* trained on, and each span is simulated alone after a price-only warm-up.*)
(* A span is <<lo, hi>> and holds the bars lo..hi-1.                       *)
(***************************************************************************)
CONSTANTS FrameSizes, Splits, Embargoes, Warmups, Purges \* shapes examined

ASSUME FoldsAssumption ==
    FrameSizes \cup Splits \cup Embargoes \cup Warmups \cup Purges \subseteq Nat

VARIABLES fold  \* the shape of the fold under evaluation

CvInit == fold = [n |-> 0, splits |-> 0]

BlockEdge(n, splits, b) == <<b * (n \div splits), IF b = splits - 1 THEN n ELSE (b + 1) * (n \div splits)>>
Bars(spans) == UNION {span[1]..(span[2] - 1) : span \in spans}

\* Test blocks widened by the embargo, then merged into maximal spans.
Widened(n, splits, test, embargo) ==
    {<<Max({0, BlockEdge(n, splits, b)[1] - embargo}), Min({n, BlockEdge(n, splits, b)[2] + embargo})>> : b \in test}
MergeSpan(spans, s) ==
    IF spans # <<>> /\ s[1] <= Last(spans)[2]
    THEN [spans EXCEPT ![Len(spans)] = <<@[1], Max({@[2], s[2]})>>]
    ELSE Append(spans, s)
\* In their order, each merged into the one before where it starts no later than that one ends.
FirstSpan(spans) == CHOOSE s \in spans : \A t \in spans : s[1] < t[1] \/ (s[1] = t[1] /\ s[2] <= t[2])
Merged(spans) ==
    LET turn[k \in 0..Cardinality(spans)] ==
            IF k = 0 THEN [left |-> spans, merged |-> <<>>]
            ELSE LET s == FirstSpan(turn[k - 1].left)
                 IN  [left |-> turn[k - 1].left \ {s}, merged |-> MergeSpan(turn[k - 1].merged, s)]
    IN  turn[Cardinality(spans)].merged
EmbargoedTestSpans(n, splits, test, embargo) == Merged(Widened(n, splits, test, embargo))
ComplementSpans(n, spans) ==
    LET edge(k) == IF k = 0 THEN 0 ELSE spans[k][2]
        next(k) == IF k = Len(spans) THEN n ELSE spans[k + 1][1]
    IN  {<<edge(k), next(k)>> : k \in {j \in 0..Len(spans) : edge(j) < next(j)}}

TestInterior(n, splits, test) == Bars({BlockEdge(n, splits, b) : b \in test})
\* Mutant: the warm-up may reach into a test block.
WarmupWhole(start, warmup, interior) == Min({start, warmup})

\* The run of bars just before the span that stays clear of every raw test block.
WarmupAllowed(start, warmup, interior) ==
    Max({w \in 0..warmup : \A j \in 1..w : start - j >= 0 /\ start - j \notin interior})

TestSpans(f) == ToSet(EmbargoedTestSpans(f.n, f.splits, f.test, f.embargo))
TrainSpans(f) == ComplementSpans(f.n, EmbargoedTestSpans(f.n, f.splits, f.test, f.embargo))
\* What the isolated run of a span reads, and the trades of a train span that survive the purge.
Reads(f, span) == (span[1] - WarmupAllowed(span[1], f.warmup, TestInterior(f.n, f.splits, f.test)))..(span[2] - 1)
KeptTrades(f, span) ==
    {t \in (span[1]..(span[2] - 1)) \X (span[1]..(span[2] - 1)) :
        t[1] <= t[2] /\ (f.purge > 0 => t[2] < span[2] - f.purge)}

\* One fold of a run that passes the argument checks; a fold with no train bars is skipped.
EvaluateFold ==
    \E n \in FrameSizes, k \in Splits, e \in Embargoes, w \in Warmups, p \in Purges :
        \E test \in kSubset(k \div 2, 0..(k - 1)) :
            /\ k >= 4 /\ k % 2 = 0 /\ n \div k >= 1
            /\ fold' = [n |-> n, splits |-> k, test |-> test, embargo |-> e, warmup |-> w, purge |-> p]
            /\ TrainSpans(fold') # {}

CvNext == EvaluateFold

-----------------------------------------------------------------------------
(* What must hold. *)

\* purged_cv_stage: the spans cover the frame without overlap; whatever a training run reads,
\* warm-up included, lies outside every test block, and the bars it is scored on and the exits of
\* the trades it keeps lie at least the embargo away from one.
TrainingNeverSeesTest ==
    fold.n > 0 =>
        LET test == TestInterior(fold.n, fold.splits, fold.test) IN
        /\ Bars(TrainSpans(fold)) \cup Bars(TestSpans(fold)) = 0..(fold.n - 1)
        /\ Bars(TrainSpans(fold)) \cap Bars(TestSpans(fold)) = {}
        /\ \A a, b \in TestSpans(fold) \cup TrainSpans(fold) : a # b => Bars({a}) \cap Bars({b}) = {}
        /\ \A span \in TrainSpans(fold) :
              /\ Reads(fold, span) \cap test = {}
              /\ \A t \in KeptTrades(fold, span), x \in test :
                    \A bar \in {t[1], t[2]} : bar - x > fold.embargo \/ x - bar > fold.embargo

\* Parameters are chosen on bars before those they are judged on, in the folds of
\* cross-validation and in the windows of a walk-forward.
SelectionIsHonest == TrainingNeverSeesTest /\ OutOfSampleIsOut
=============================================================================
