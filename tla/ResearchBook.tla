---------------------------- MODULE ResearchBook ----------------------------
(***************************************************************************)
(* What a research run reports and what is done with it: the discovery     *)
(* score (discovery/score.py) and the book assembled from scored           *)
(* candidates (discovery/portfolio.py).  Weights, caps and scores are      *)
(* integers (percents), a correlation is |rho| in percent, or unknown.     *)
(***************************************************************************)
EXTENDS Integers, Sequences, FiniteSets, FiniteSetsExt, SequencesExt, TLC

CONSTANTS Entries,         \* id -> [symbol, direction, class, weight, score] offered to a book
          Corr,            \* <<id, id>> -> {|correlation|} of their returns, {} when one has none
                           \* or their lengths differ
          Limits,          \* caps: strategy, symbol, direction, class, redundant, strength
          MinScore, MaxPositions, Targets,
          Measurements     \* what a research run may measure: oos, pf, dd, trades, pbo

ASSUME BookAssumption ==
    /\ IsFiniteSet(DOMAIN Entries)
    /\ \A i \in DOMAIN Entries : Entries[i].score \in 0..100 /\ Entries[i].weight \in Nat
    /\ \A i, j \in DOMAIN Entries : /\ Corr[<<i, j>>] = Corr[<<j, i>>]
                                    /\ Corr[<<i, j>>] = {} \/ \E c \in 0..100 : Corr[<<i, j>>] = {c}
    /\ MinScore \in Nat /\ MaxPositions \in Nat /\ Targets \subseteq Nat
    /\ Limits \in [{"strategy", "symbol", "direction", "class", "redundant", "strength"} -> Nat]

\* A measurement is a number or missing.
ASSUME MeasurementAssumption ==
    \A m \in Measurements :
        \A evidence \in {m.oos, m.pf, m.dd, m.trades, m.pbo} :
            /\ \A x \in evidence : x \in Int
            /\ \A x, y \in evidence : x = y

VARIABLES book,            \* the last book built: positions in order of admission, gross target
          scored           \* runs scored so far

bookVars == <<book, scored>>

BookInit == book = [offered |-> {}, positions |-> <<>>, target |-> 0] /\ scored = {}

(* The score: missing evidence counts zero and keeps its weight. *)
Normalizers == [oos |-> <<0, 100>>, pf |-> <<100, 200>>, dd |-> <<30, 5>>,
                trades |-> <<100, 1000>>, pbo |-> <<50, 0>>]
ScoreWeights == [oos |-> 12, pf |-> 8, dd |-> 8, trades |-> 6, pbo |-> 7]
Clipped(x) == Max({0, Min({100, x})})
Normalized(c, raw) ==
    LET span == Normalizers[c][2] - Normalizers[c][1]
        above == raw - Normalizers[c][1]
    IN  Clipped(IF span < 0 THEN (-above * 100) \div (-span) ELSE (above * 100) \div span)
\* compute_score on what run_idea hands it: the profit factor capped, the survival share 1 - PBO.
Measured(m) == [oos |-> m.oos, pf |-> {Min({x, 300}) : x \in m.pf}, dd |-> m.dd,
                trades |-> m.trades, pbo |-> {100 - x : x \in m.pbo}]
Contribution(c, evidence) ==
    IF evidence = {} THEN 0 ELSE ScoreWeights[c] * Normalized(c, CHOOSE x \in evidence : TRUE)
ComputeScore(m) ==
    LET e == Measured(m)
    IN  Contribution("oos", e.oos) + Contribution("pf", e.pf) + Contribution("dd", e.dd)
        + Contribution("trades", e.trades) + Contribution("pbo", e.pbo)

ScoreRun(m) ==
    /\ Cardinality(scored) < 2 /\ scored' = scored \cup {m}
    /\ UNCHANGED book

(* Portfolio assembly. *)
Ids == DOMAIN Entries
\* The sum of f over every subset of S.
Tally(f, S) ==
    LET sum[T \in SUBSET S] ==
            IF T = {} THEN 0 ELSE LET x == CHOOSE y \in T : TRUE IN f[x] + sum[T \ {x}]
    IN  sum
Weight(ids) == Tally([i \in Ids |-> Entries[i].weight], Ids)[ids]
WeightOf(sel) == Weight(Range(sel))
SameDirection(a, b) == IF "short" \in {a, b} THEN a = b ELSE TRUE

\* Only those in the selection whose returns can be compared with the candidate's are asked.
Comparable(i, sel) == {j \in Range(sel) : Corr[<<i, j>>] # {}}
Rho(i, j) == CHOOSE c \in Corr[<<i, j>>] : TRUE
Redundant(i, sel) == \E j \in Comparable(i, sel) : Rho(i, j) >= Limits.redundant
\* The average correlation times the strength takes the score below the minimum.
Penalized(i, sel) ==
    LET asked == Comparable(i, sel)
    IN  Tally([j \in asked |-> Limits.strength * Rho(i, j)], asked)[asked]
            > 100 * Cardinality(asked) * (Entries[i].score - MinScore)
\* Admission: the share of the selection so far that lies among the alike, scaled to the target.
Exceeds(i, sel, target, cap, alike) ==
    LET base == Weight(Range(sel) \cap alike)
    IN  (base + Entries[i].weight) * target > cap * (WeightOf(sel) + Entries[i].weight)
WithinCaps(i, sel, target) ==
    /\ ~Exceeds(i, sel, target, Limits.strategy, Ids)
    /\ ~Exceeds(i, sel, target, Limits.symbol, {j \in Ids : Entries[j].symbol = Entries[i].symbol})
    /\ ~Exceeds(i, sel, target, Limits.direction,
                {j \in Ids : SameDirection(Entries[j].direction, Entries[i].direction)})
    /\ ~Exceeds(i, sel, target, Limits.class, {j \in Ids : Entries[j].class = Entries[i].class})

\* Mutant: near-duplicates are not refused.
AdmittedAlike(i, sel, target) ==
    /\ Len(sel) < MaxPositions /\ ~Penalized(i, sel)
    /\ WeightOf(sel) + Entries[i].weight > 0 /\ WithinCaps(i, sel, target)

\* Mutant: a candidate whose returns cannot be compared is taken for a near-duplicate.
AdmittedKnown(i, sel, target) ==
    /\ Len(sel) < MaxPositions /\ ~Redundant(i, sel) /\ ~Penalized(i, sel)
    /\ Comparable(i, sel) = Range(sel)
    /\ WeightOf(sel) + Entries[i].weight > 0 /\ WithinCaps(i, sel, target)

Admitted(i, sel, target) ==
    /\ Len(sel) < MaxPositions /\ ~Redundant(i, sel) /\ ~Penalized(i, sel)
    /\ WeightOf(sel) + Entries[i].weight > 0 /\ WithinCaps(i, sel, target)

\* Best score first; among equals one and the same each time (the code: the first id).
Best(ids) == CHOOSE i \in ids : \A j \in ids : Entries[j].score <= Entries[i].score
\* The candidates in turn: each joins the selection or is left out.
Turns(ids, target) ==
    LET ranked == {i \in ids : Entries[i].score >= MinScore}
        turn[n \in 0..Cardinality(ranked)] ==
            IF n = 0 THEN [left |-> ranked, sel |-> <<>>]
            ELSE LET before == turn[n - 1]
                     i == Best(before.left)
                 IN  [left |-> before.left \ {i},
                      sel |-> IF Admitted(i, before.sel, target) THEN Append(before.sel, i) ELSE before.sel]
    IN  turn
Selected(ids, target) == Turns(ids, target)[Cardinality({i \in ids : Entries[i].score >= MinScore})].sel

\* Realized exposure by strategy, symbol, net direction and class.
Buckets(sel) ==
    LET like(i, f) == {j \in Range(sel) : f[j] = f[i]}
        symbol == [j \in Range(sel) |-> Entries[j].symbol]
        net == [j \in Range(sel) |-> Entries[j].direction = "short"]
        class == [j \in Range(sel) |-> Entries[j].class]
    IN  UNION {{<<{i}, Limits.strategy>>, <<like(i, symbol), Limits.symbol>>,
                <<like(i, net), Limits.direction>>, <<like(i, class), Limits.class>>} : i \in Range(sel)}
RealizedOk(sel, target) ==
    WeightOf(sel) > 0 =>
        \A b \in Buckets(sel) : Weight(b[1]) * target <= b[2] * WeightOf(sel)
LowestScore(sel) ==
    CHOOSE k \in DOMAIN sel :
        \A j \in DOMAIN sel : /\ Entries[sel[k]].score <= Entries[sel[j]].score
                              /\ j < k => Entries[sel[k]].score < Entries[sel[j]].score
\* The lowest score falls out until the caps hold on what is left.
Falls(sel, target) ==
    LET fall[n \in 0..Len(sel)] ==
            IF n = 0 THEN sel
            ELSE LET before == fall[n - 1]
                 IN  IF before = <<>> \/ RealizedOk(before, target) THEN before
                     ELSE RemoveAt(before, LowestScore(before))
    IN  fall
Shrunk(sel, target) == Falls(sel, target)[Len(sel)]
BuildPortfolio(ids, target) == Shrunk(Selected(ids, target), target)

Assemble(ids, target) ==
    /\ book' = [offered |-> ids, positions |-> BuildPortfolio(ids, target), target |-> target]
    /\ UNCHANGED scored

BookNext ==
    \/ \E m \in Measurements : ScoreRun(m)
    \/ \E ids \in SUBSET Ids, t \in Targets : Assemble(ids, t)

-----------------------------------------------------------------------------
(* What must hold. *)

InBook == Range(book.positions)
Caps == {Limits.strategy, Limits.symbol, Limits.direction, Limits.class}

\* portfolio.build_portfolio: whatever is offered, the caps hold on the realized exposure, and no two
\* are held whose returns compare as near-duplicates, in either order of rank.
BookWithinLimits ==
    /\ RealizedOk(book.positions, book.target)
    /\ book.positions # <<>> => \A cap \in Caps : book.target <= cap
    /\ \A i, j \in InBook : i # j => \A c \in Corr[<<i, j>>] : c < Limits.redundant

\* build_portfolio asks a candidate about the selection of that moment, asks the caps of an
\* incomplete book and drops entries afterwards.  All the same, whoever scores enough and is left out
\* is so for a reason that stands in the finished book: the target is beyond a cap, so that nothing
\* is held; the positions are taken; or one that is held is a near-duplicate of it or alone would
\* take its score below the minimum.  No cap ever costs one candidate its place and nobody falls out.
LeftOutForAReason ==
    \A i \in book.offered \ InBook :
        Entries[i].score >= MinScore /\ Entries[i].weight > 0 =>
            \/ \E cap \in Caps : book.target > cap
            \/ Len(book.positions) = MaxPositions
            \/ \E j \in InBook : \E c \in Corr[<<i, j>>] :
                  \/ c >= Limits.redundant
                  \/ Limits.strength * c > 100 * (Entries[i].score - MinScore)

\* score.compute_score: better evidence never lowers the score (the overfitting share apart).
BetterScoresHigher ==
    \A a, b \in scored :
        /\ a.pbo = b.pbo
        /\ \A x \in b.oos : \E y \in a.oos : y >= x
        /\ \A x \in b.pf : \E y \in a.pf : y >= x
        /\ \A x \in b.trades : \E y \in a.trades : y >= x
        /\ \A x \in b.dd : \E y \in a.dd : y <= x
        => ComputeScore(a) >= ComputeScore(b)

\* discovery/portfolio.py, discovery/score.py: the limits hold on what is held, nobody is left out
\* without a reason, better evidence scores higher.
BookIsSound == BookWithinLimits /\ LeftOutForAReason /\ BetterScoresHigher

\* discovery/portfolio.py:38 "unknown -> assume worst": of two that are held the correlation is known.
UnknownIsWorst == \A i, j \in InBook : i # j => Corr[<<i, j>>] # {}

\* score.py:60 "raw = PBO, lower better": of two runs that differ in their probability of backtest
\* overfitting only, the one that overfits less does not score lower.
OverfittingNeverPays ==
    \A a, b \in scored :
        \A x \in a.pbo, y \in b.pbo : x < y /\ [a EXCEPT !.pbo = {}] = [b EXCEPT !.pbo = {}]
                                      => ComputeScore(a) >= ComputeScore(b)
=============================================================================
