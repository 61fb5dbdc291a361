----------------------------- MODULE FastEngine -----------------------------
(***************************************************************************)
(* The screening engine (fast_engine.py): the bar loop of PortfolioEngine  *)
(* written again on scalars for one line, one book.  Both engines are fed  *)
(* the same bars; backtest.py drives the portfolio engine with the same    *)
(* configuration.                                                          *)
(***************************************************************************)
EXTENDS PortfolioEngine

\* What run_fast accepts: one line, netting, fixed costs, no swap, no minimum, no caps, no schedule.
InFastScope(lines, cfg) ==
    /\ Len(lines) = 1 /\ cfg.mode = "netting" /\ cfg.basis = "mid" /\ cfg.order = "stop_first"
    /\ cfg.sizing = "risk_percent_equity" /\ cfg.commissionMin = 0 /\ cfg.swapLong = 0 /\ cfg.swapShort = 0
    /\ cfg.maxGap = {} /\ ~cfg.mask /\ cfg.weight = 100 /\ cfg.caps = {} /\ cfg.maxPerStrategy = {}

FlatBook == [lots |-> 0, side |-> 0, entry |-> 0, fee |-> 0, sl |-> 0, tp |-> 0, held |-> 0,
             partial |-> FALSE, be |-> FALSE, fresh |-> FALSE]
NewFast(on) == [on |-> on, cash |-> Capital, basis |-> Capital, peak |-> Capital, dayStart |-> Capital,
                dayHalted |-> FALSE, ddHalted |-> FALSE, book |-> FlatBook, booked |-> 0, rows |-> <<>>]

\* close_book: the whole, or a part; flat resets everything.
CloseFast(f, cfg, take, fill, reason) ==
    LET b == f.book
        exitFee == Commission(cfg, take)
        pnl == LegCash(b.side, take, b.entry, fill)
        share == (b.fee * take) \div b.lots
    IN  [f EXCEPT !.cash = @ + pnl - exitFee, !.booked = @ + pnl - share - exitFee, !.rows = Append(@, reason),
                  !.book = IF b.lots = take THEN FlatBook ELSE [b EXCEPT !.lots = @ - take, !.fee = @ - share]]
OpenFast(f, cfg, before, bar, want, lots) ==
    LET fill == EntryFill(cfg, bar.o, want)
        fee == Commission(cfg, lots)
    IN  [f EXCEPT !.cash = @ - fee,
                  !.book = [lots |-> lots, side |-> want, entry |-> fill, fee |-> fee, held |-> 0, partial |-> FALSE,
                            sl |-> fill - want * EnforceMinStop(SlAtr * before.atr),
                            tp |-> fill + want * EnforceMinStop(TpAtr * before.atr), be |-> FALSE, fresh |-> TRUE]]
MarkFast(f, price) == IF f.book.lots > 0 THEN f.cash + LegCash(f.book.side, f.book.lots, f.book.entry, price) ELSE f.cash

\* Rollover and the two risk checks.
FastChecks(f, cfg, before, bar, newDay) ==
    LET marked == MarkFast(f, before.c)
        r == IF cfg.daily > 0 /\ newDay THEN [f EXCEPT !.basis = marked, !.dayStart = marked, !.dayHalted = FALSE] ELSE f
        flat(x, reason) == IF x.book.lots > 0 THEN CloseFast(x, cfg, x.book.lots, ExitFill(cfg, bar.o, x.book.side), reason)
                           ELSE x
        d == IF cfg.daily > 0 /\ ~r.dayHalted /\ 100 * r.basis <= r.dayStart * (100 - cfg.daily)
             THEN LET x == flat(r, "daily_loss_limit") IN [x EXCEPT !.dayHalted = TRUE, !.basis = x.cash] ELSE r
    IN  IF cfg.drawdown > 0 /\ ~d.ddHalted /\ 100 * d.basis <= d.peak * (100 - cfg.drawdown)
        THEN LET x == flat(d, "max_drawdown") IN [x EXCEPT !.ddHalted = TRUE, !.basis = x.cash] ELSE d
\* Mutant: a stop is taken to be the better of the open and its price.
FastGapAtStop(f, cfg, bar) ==
    LET b == f.book IN
    IF b.lots = 0 \/ b.fresh THEN f
    ELSE IF (b.side > 0 /\ bar.o <= b.sl) \/ (b.side < 0 /\ bar.o >= b.sl) THEN CloseFast(f, cfg, b.lots, b.sl, "stop_loss")
    ELSE f

FastGap(f, cfg, bar) ==
    LET b == f.book IN
    IF b.lots = 0 \/ b.fresh THEN f
    ELSE IF (b.side > 0 /\ bar.o <= b.sl) \/ (b.side < 0 /\ bar.o >= b.sl) THEN CloseFast(f, cfg, b.lots, bar.o, "stop_loss")
    ELSE IF (b.side > 0 /\ bar.o >= b.tp) \/ (b.side < 0 /\ bar.o <= b.tp) THEN CloseFast(f, cfg, b.lots, bar.o, "take_profit")
    ELSE f
FastReconcile(f, cfg, before, bar, desired) ==
    LET want == IF desired < 0 /\ ~cfg.short THEN 0 ELSE desired
        leaves == f.basis > 0 /\ f.book.lots > 0 /\ cfg.signalExit /\ want # f.book.side
        r == IF leaves THEN CloseFast(f, cfg, f.book.lots, ExitFill(cfg, bar.o, f.book.side), "signal_exit") ELSE f
        order == [mode |-> "risk_percent_equity", equity |-> f.basis, balance |-> f.basis, stop |-> SlAtr * before.atr,
                  value |-> cfg.risk, maxLots |-> cfg.maxLots, kellyOn |-> FALSE, kelly |-> 0, finite |-> TRUE,
                  margin |-> {}, free |-> {}]
        lots == SizePosition(order).lots
    IN  IF f.basis <= 0 \/ r.book.lots > 0 \/ want = 0 \/ leaves \/ before.atr <= 0 \/ lots = 0 THEN r
        ELSE OpenFast(r, cfg, before, bar, want, lots)
FastLevels(f, cfg, before, bar) ==
    LET b == f.book
        far(multiple) == b.side * (before.c - b.entry) >= multiple * before.atr
        trailed == IF cfg.trail = 0 THEN b.sl
                   ELSE IF b.side > 0 THEN Max({b.sl, before.c - cfg.trail * before.atr})
                   ELSE Min({b.sl, before.c + cfg.trail * before.atr})
        even == cfg.breakeven > 0 /\ ~b.be /\ far(cfg.breakeven)
        moved == [f EXCEPT !.book.sl = IF even THEN b.entry + b.side * cfg.beOffset ELSE trailed, !.book.be = @ \/ even]
        cut == CloseFast(moved, cfg, b.lots \div 2, ExitFill(cfg, bar.o, b.side), "partial_exit")
    IN  IF b.fresh \/ before.atr <= 0 THEN f
        ELSE IF cfg.partial > 0 /\ ~b.partial /\ far(cfg.partial)
        THEN [cut EXCEPT !.book.sl = b.entry, !.book.partial = TRUE] ELSE moved
FastExits(f, cfg, bar) ==
    LET b == f.book
    IN  IF StopHit(bar, b.side, b.sl) THEN CloseFast(f, cfg, b.lots, StopFill(cfg, bar, b.side, b.sl), "stop_loss")
        ELSE IF TpHit(bar, b.side, b.tp) THEN CloseFast(f, cfg, b.lots, TpFill(bar, b.side, b.tp), "take_profit")
        ELSE IF cfg.maxBars > 0 /\ b.held >= cfg.maxBars THEN CloseFast(f, cfg, b.lots, ExitFill(cfg, bar.c, b.side), "max_bars")
        ELSE f
FastManage(f, cfg, before, bar) ==
    IF f.book.lots = 0 THEN f ELSE FastExits(FastLevels([f EXCEPT !.book.held = @ + 1], cfg, before, bar), cfg, bar)
FastTraded(f, r, before, bar) ==
    IF r.bar < r.cfg.warmup \/ f.dayHalted \/ f.ddHalted THEN f
    ELSE FastManage(FastReconcile(FastGap(f, r.cfg, bar), r.cfg, before, bar, r.desired[1]), r.cfg, before, bar)
FastMarked(f, equity) == [f EXCEPT !.basis = equity, !.peak = Max({@, equity})]
FastClosed(f, bar) == FastMarked(f, MarkFast(f, bar.c))
FastBar(f, r, before, bar, newDay) ==
    FastClosed(FastTraded(FastChecks([f EXCEPT !.rows = <<>>, !.book.fresh = FALSE], r.cfg, before, bar, newDay),
                          r, before, bar), bar)
FastEnd(f, r, before) ==
    LET g == [f EXCEPT !.rows = <<>>] IN
    IF f.book.lots = 0 THEN g ELSE CloseFast(g, r.cfg, f.book.lots, ExitFill(r.cfg, before.c, f.book.side), "end_of_data")

EngineInit ==
    \E lines \in LineSets, cfg \in Configs : \E desired \in DesiredOf(lines) :
        run = NewRun(lines, cfg, desired) /\ fast = NewFast(InFastScope(lines, cfg))
Bar ==
    /\ ~run.done /\ run.bar <= LastStep
    /\ \E bars \in [SymbolsOf(run.lines) -> MarketBars], newDay \in BOOLEAN,
          \* nothing reads the signal of the last bar
          desired \in IF run.bar = LastStep THEN {run.desired} ELSE DesiredOf(run.lines) :
          LET s == run.lines[1].symbol IN
          /\ run' = OneBar(run, bars, newDay, desired)
          /\ fast' = IF fast.on THEN FastBar(fast, run, run.prev[s], bars[s], newDay) ELSE fast
Finish ==
    /\ ~run.done /\ run.bar > LastStep
    /\ run' = EndOfData(run)
    /\ fast' = IF fast.on THEN FastEnd(fast, run, run.prev[run.lines[1].symbol]) ELSE fast
EngineNext == Bar \/ Finish

-----------------------------------------------------------------------------
(* What must hold. *)

\* fast_engine.py "results are schema-identical", "mirrors the TRUTH loop exactly": on its subset the
\* fast engine closes the same trades for the same reasons and stands where the engine stands after
\* every bar, halts, partial exits and the end of the data included.
FastMirrorsTruth ==
    fast.on =>
        /\ fast.cash = run.cash /\ fast.booked = run.booked /\ fast.dayHalted = run.dayHalted
        /\ fast.ddHalted = run.ddHalted /\ (~run.done => fast.basis = run.basis /\ fast.peak = run.peak)
        /\ LET closes == SelectSeq(run.log, LAMBDA e : e.type = "close")
           IN  fast.rows = [k \in DOMAIN closes |-> closes[k].code]
        /\ (fast.book.lots > 0) = (run.books # <<>>)
        /\ run.books # <<>> =>
              LET b == run.books[1] IN
              /\ <<b.side, b.lots, b.entry, b.sl, b.tp>>
                   = <<fast.book.side, fast.book.lots, fast.book.entry, fast.book.sl, fast.book.tp>>
              /\ <<b.partial, b.be, b.held>> = <<fast.book.partial, fast.book.be, fast.book.held>>
=============================================================================
