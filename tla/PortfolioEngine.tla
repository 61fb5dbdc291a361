-------------------------- MODULE PortfolioEngine --------------------------
(***************************************************************************)
(* The backtest engine (engine.py) and its costs (costs.py).  One step is  *)
(* one bar: the market chooses the bar, the engine runs its phases in      *)
(* order.  Prices and cash are whole (a tick is 1), volumes are units of   *)
(* Sizing; a netting average is floored to the tick, which the code keeps  *)
(* as a fraction.  ATR and the desired side are read as of the bar before, *)
(* so a bar carries the values the next one acts on.                       *)
(***************************************************************************)
EXTENDS Sizing, Sequences, SequencesExt

CONSTANTS LineSets,        \* sequences of lines: symbol, strategy
          Configs,         \* run configurations
          MarketBars,      \* bars a symbol may print: o, h, l, c, atr
          FirstClose,      \* symbol -> close of the bar before the first
          Capital, LastStep, \* initial capital; bars of a run
          SlAtr, TpAtr     \* multiples of the ATR

Candles == [o : Int, h : Int, l : Int, c : Int, atr : Int, rejects : BOOLEAN]
\* RunConfig.validate and _validate_instruments: a mode is one of the two, a line is given once.
ASSUME EngineAssumption ==
    /\ {Capital, SlAtr, TpAtr, TickProfit} \subseteq Int /\ MarketBars \subseteq Candles
    /\ \A cfg \in Configs :
          /\ cfg.mode \in {"netting", "hedging"} /\ cfg.maxBooks \in Nat \ {0}
          /\ {cfg.spread, cfg.slippage, cfg.commission, cfg.commissionMin, cfg.swapLong, cfg.swapShort, cfg.risk,
              cfg.maxLots, cfg.weight, cfg.trail, cfg.beOffset} \subseteq Int
    /\ \A lines \in LineSets :
          /\ lines \in Seq([symbol : STRING, strategy : STRING])
          /\ \A j, k \in DOMAIN lines : lines[j] = lines[k] => j = k
          /\ \A k \in DOMAIN lines : FirstClose[lines[k].symbol] \in Candles

VARIABLES run,             \* the run: lines, cfg, cash, books, ...
          fast             \* the fast engine's state on the same bars (FastEngine)

engineVars == <<run, fast>>

Magnitude(x) == Max({x, -x})
Total(s) ==
    LET sum[k \in 0..Len(s)] == IF k = 0 THEN 0 ELSE sum[k - 1] + s[k]
    IN  sum[Len(s)]

(* Costs.  Half the spread plus slippage, or bid quotes with the whole spread on the ask side. *)
AskOffset(cfg, side) == IF cfg.basis = "bid" /\ side < 0 THEN cfg.spread ELSE 0
EntryFill(cfg, open, side) ==
    IF cfg.basis = "bid" THEN open + (IF side > 0 THEN cfg.spread ELSE 0) + side * cfg.slippage
    ELSE open + side * (cfg.spread \div 2 + cfg.slippage)
ExitFill(cfg, price, side) ==
    IF cfg.basis = "bid" THEN price + AskOffset(cfg, side) - side * cfg.slippage
    ELSE price - side * (cfg.spread \div 2 + cfg.slippage)
Commission(cfg, lots) ==
    LET cash == cfg.commission * lots
    IN  IF cfg.commission <= 0 THEN 0 ELSE IF cfg.commissionMin > 0 THEN Max({cash, cfg.commissionMin}) ELSE cash
SwapRate(cfg, side) == IF side > 0 THEN cfg.swapLong ELSE cfg.swapShort
GapBlocks(cfg, open, before) == cfg.maxGap # {} /\ \E g \in cfg.maxGap : 100 * Magnitude(open - before) > g * before
\* A stop touched: the open when the bar gaps over it, else its price with adverse slippage.
StopHit(bar, side, sl) == IF side > 0 THEN bar.l <= sl ELSE bar.h >= sl
StopFill(cfg, bar, side, sl) == IF side * (bar.o - sl) <= 0 THEN bar.o ELSE sl - side * cfg.slippage
TpHit(bar, side, tp) == IF side > 0 THEN bar.h >= tp ELSE bar.l <= tp
TpFill(bar, side, tp) == IF side * (bar.o - tp) >= 0 THEN bar.o ELSE tp
\* Both touched: the stop, unless the tester's order of ticks reaches the target first.
TakeProfitFirst(cfg, bar, side, sl, tp) ==
    /\ cfg.order = "mt5_ohlc" /\ side * (bar.o - sl) > 0
    /\ \/ side * (bar.o - tp) >= 0
       \/ (bar.c >= bar.o) = (side < 0)
Shifted(bar, off) == [bar EXCEPT !.o = @ + off, !.h = @ + off, !.l = @ + off, !.c = @ + off]

(* Valuation. *)
LegCash(side, lots, entry, price) ==
    LET move == side * (price - entry) IN move * TickValue(side, price - entry) * lots
BookValue(b, price) == Total([j \in DOMAIN b.legs |-> LegCash(b.side, b.legs[j].lots, b.legs[j].entry, price)])
\* Cash and the legs at the closes of the bars given.
Mark(r, bars) == r.cash + Total([k \in DOMAIN r.books |-> BookValue(r.books[k], bars[r.books[k].symbol].c)])
Notional(lots, price) == Magnitude(lots) * price

(* Closing. *)
Note(r, e) == [r EXCEPT !.log = Append(@, e)]
\* One trade row: the net result of a slice, its share of the entry fee and of the swap deducted.
Row(r, b, leg, take, fill, reason, exitFee) ==
    LET net == LegCash(b.side, take, leg.entry, fill)
               - (leg.fee * take) \div leg.lots - (leg.swap * take) \div leg.lots - exitFee
    IN  [Note(r, [type |-> "close", symbol |-> b.symbol, strategy |-> leg.strategy, side |-> b.side, code |-> reason])
           EXCEPT !.booked = @ + net]
\* Mutant: the rest of a leg keeps the whole fee.
ReducedLots(leg, take) == [leg EXCEPT !.lots = @ - take]

Reduced(leg, take) ==
    [leg EXCEPT !.lots = @ - take, !.fee = @ - (@ * take) \div leg.lots, !.swap = @ - (@ * take) \div leg.lots]
PutBook(r, k, b) == [r EXCEPT !.books = IF b.lots = 0 THEN RemoveAt(@, k) ELSE ReplaceAt(@, k, b)]

\* A leg is closed, or a part of it, and gone from its book when nothing is left of it.
CloseLeg(r, k, j, take, fill, reason, exitFee) ==
    LET b == r.books[k]
        leg == b.legs[j]
        rest == IF take = leg.lots THEN RemoveAt(b.legs, j) ELSE ReplaceAt(b.legs, j, Reduced(leg, take))
    IN  PutBook([Row(r, b, leg, take, fill, reason, exitFee)
                   EXCEPT !.cash = @ + LegCash(b.side, take, leg.entry, fill) - exitFee],
                k, [b EXCEPT !.legs = rest, !.lots = @ - take])
\* FIFO over the legs; the execution's commission is split by volume, its parts adding up to it.
ExitShare(fee, volume, left, take) ==
    (fee * (volume - left + take)) \div volume - (fee * (volume - left)) \div volume
TakeSlice(at, k, volume, fill, reason) ==
    LET take == Min({at.run.books[k].legs[1].lots, at.left})
        share == ExitShare(Commission(at.run.cfg, volume), volume, at.left, take)
    IN  IF at.left = 0 THEN at
        ELSE [run |-> CloseLeg(at.run, k, 1, take, fill, reason, share), left |-> at.left - take]
CloseSlices(r, k, volume, fill, reason) ==
    LET slice[n \in 0..Len(r.books[k].legs)] ==
            IF n = 0 THEN [run |-> r, left |-> volume] ELSE TakeSlice(slice[n - 1], k, volume, fill, reason)
    IN  slice[Len(r.books[k].legs)].run
CloseWholeBook(r, k, fill, reason) == CloseSlices(r, k, r.books[k].lots, fill, reason)
\* A strategy's own leg at the open, whatever its place in the book.
CloseStrategyLegs(r, k, strategy, quote) ==
    LET b == r.books[k]
        j == CHOOSE x \in DOMAIN b.legs : b.legs[x].strategy = strategy
        lots == b.legs[j].lots
    IN  CloseLeg(r, k, j, lots, ExitFill(r.cfg, quote, b.side), "signal_exit", Commission(r.cfg, lots))

(* Opening. *)
Levels(r, line, side, fill) ==
    LET a == r.prev[line.symbol].atr
    IN  [sl |-> fill - side * EnforceMinStop(SlAtr * a), tp |-> fill + side * EnforceMinStop(TpAtr * a)]
HoldsLeg(b, strategy) == \E k \in DOMAIN b.legs : b.legs[k].strategy = strategy
\* Caps on the portfolio after the action; every book is valued at the price of the line that asks.
CapRefusal(r, line, lots, price, addsBook) ==
    LET exceeds(cap) ==
            line.symbol \in cap.symbols /\
            Total([k \in DOMAIN r.books |->
                     IF r.books[k].symbol \in cap.symbols THEN Notional(r.books[k].lots, price) ELSE 0])
              + Notional(lots, price) > (cap.share * r.basis) \div 100
    IN  IF addsBook /\ Len(r.books) >= r.cfg.maxBooks THEN {"max_total_positions"}
        ELSE IF addsBook /\ \E m \in r.cfg.maxPerStrategy :
                   Cardinality({k \in DOMAIN r.books : HoldsLeg(r.books[k], line.strategy)}) >= m
             THEN {"max_strategy_positions"}
        ELSE {cap.code : cap \in {x \in r.cfg.caps : exceeds(x)}}

Event(line, type, code) == [type |-> type, symbol |-> line.symbol, strategy |-> line.strategy, side |-> 0, code |-> code]
\* The event of an entry, with the books it leaves and the basis it was decided on.
OpenEvent(line, side, r) ==
    [type |-> "open", symbol |-> line.symbol, strategy |-> line.strategy, side |-> side, code |-> "",
     books |-> [k \in DOMAIN r.books |-> <<r.books[k].symbol, r.books[k].lots>>], basis |-> r.basis]
Opened(r, line, side) == Note(r, OpenEvent(line, side, r))
NewBook(r, line, side, lots, fill, lv) ==
    [key |-> r.opened + 1, symbol |-> line.symbol, side |-> side, lots |-> lots, entry |-> fill, fresh |-> TRUE,
     sl |-> lv.sl, tp |-> lv.tp, held |-> 0, partial |-> FALSE, be |-> FALSE,
     legs |-> <<[strategy |-> line.strategy, lots |-> lots, entry |-> fill,
                 fee |-> Commission(r.cfg, lots), swap |-> 0]>>]
OpenFresh(r, line, side, lots, fill, lv, price) ==
    LET refusal == CapRefusal(r, line, lots, price, TRUE)
        b == NewBook(r, line, side, lots, fill, lv)
    IN  IF refusal # {} THEN Note(r, Event(line, "reject", "cap"))
        ELSE Opened([r EXCEPT !.books = Append(@, b), !.opened = @ + 1, !.cash = @ - b.legs[1].fee], line, side)
\* Netting, same side: the leg keeps its entry, the book takes the average levels.
Merge(r, k, line, side, lots, fill, lv, price) ==
    LET b == r.books[k]
        avg(x, y) == (b.lots * x + lots * y) \div (b.lots + lots)
        leg == [strategy |-> line.strategy, lots |-> lots, entry |-> fill, fee |-> Commission(r.cfg, lots), swap |-> 0]
    IN  IF CapRefusal(r, line, lots, price, FALSE) # {} THEN Note(r, Event(line, "reject", "cap"))
        ELSE Opened([r EXCEPT !.cash = @ - leg.fee,
                !.books[k] = [b EXCEPT !.sl = avg(@, lv.sl), !.tp = avg(@, lv.tp), !.entry = avg(@, fill),
                                       !.lots = @ + lots, !.legs = Append(@, leg)]], line, side)
\* Netting, opposite side: offset first in, first out, and open what remains.
Offset(r, k, line, side, lots, fill, lv, price) ==
    LET b == r.books[k]
        volume == Min({b.lots, lots})
        after == CloseSlices(r, k, volume, ExitFill(r.cfg, price, b.side), "merge_offset")
    IN  IF volume = lots THEN after ELSE OpenFresh(after, line, side, lots - volume, fill, lv, price)
OpenOrder(r, line, side, lots, bars) ==
    LET price == bars[line.symbol].o
        fill == EntryFill(r.cfg, price, side)
        lv == Levels(r, line, side, fill)
        book == {k \in DOMAIN r.books : r.cfg.mode = "netting" /\ r.books[k].symbol = line.symbol}
        k == CHOOSE x \in book : TRUE
    IN  IF GapBlocks(r.cfg, price, r.prev[line.symbol].c) \/ (r.cfg.mask /\ bars[line.symbol].rejects)
        THEN Note(r, Event(line, "reject", "gap or mask"))
        ELSE IF book = {} THEN OpenFresh(r, line, side, lots, fill, lv, price)
        ELSE IF r.books[k].side = side THEN Merge(r, k, line, side, lots, fill, lv, price)
        ELSE Offset(r, k, line, side, lots, fill, lv, price)

\* The sizer on the basis, then the allocation weight: floored, dropped below the minimum.
Sized(r, atr) ==
    LET order == [mode |-> r.cfg.sizing, equity |-> r.basis, balance |-> r.basis, stop |-> SlAtr * atr,
                  value |-> r.cfg.risk, maxLots |-> r.cfg.maxLots, kellyOn |-> FALSE, kelly |-> 0,
                  finite |-> TRUE, margin |-> {}, free |-> {}]
        lots == SizePosition(order).lots
        scaled == OnGrid((lots * r.cfg.weight) \div 100)
    IN  IF atr <= 0 THEN 0 ELSE IF r.cfg.weight >= 100 THEN lots ELSE IF scaled < VolumeMin THEN 0 ELSE scaled

(* What is done with each book. *)
\* Levels of a carried book move on the bar before: trailing, breakeven, scale-out.
Trailed(cfg, b, before) ==
    IF cfg.trail = 0 THEN b
    ELSE [b EXCEPT !.sl = IF b.side > 0 THEN Max({@, before.c - cfg.trail * before.atr})
                          ELSE Min({@, before.c + cfg.trail * before.atr})]
Reached(b, before, multiple) == b.side * (before.c - b.entry) >= multiple * before.atr
BrokenEven(cfg, b, before) ==
    IF cfg.breakeven = 0 \/ b.be \/ ~Reached(b, before, cfg.breakeven) THEN b
    ELSE [b EXCEPT !.sl = b.entry + b.side * cfg.beOffset, !.be = TRUE]
MoveLevels(r, k, bars) ==
    LET before == r.prev[r.books[k].symbol]
        b == BrokenEven(r.cfg, Trailed(r.cfg, r.books[k], before), before)
        scaled == CloseSlices([r EXCEPT !.books[k] = b], k, b.lots \div 2,
                              ExitFill(r.cfg, bars[b.symbol].o, b.side), "partial_exit")
    IN  IF b.fresh \/ before.atr <= 0 THEN r
        ELSE IF r.cfg.partial = 0 \/ b.partial \/ ~Reached(b, before, r.cfg.partial) THEN [r EXCEPT !.books[k] = b]
        ELSE [scaled EXCEPT !.books[k].sl = b.entry, !.books[k].partial = TRUE]
\* A book on its moved levels: stop, target, age.
Exits(r, k, bars) ==
    LET b == r.books[k]
        bar == Shifted(bars[b.symbol], AskOffset(r.cfg, b.side))
        tp == TpHit(bar, b.side, b.tp)
    IN  IF StopHit(bar, b.side, b.sl) /\ ~(tp /\ TakeProfitFirst(r.cfg, bar, b.side, b.sl, b.tp))
        THEN CloseWholeBook(r, k, StopFill(r.cfg, bar, b.side, b.sl), "stop_loss")
        ELSE IF tp THEN CloseWholeBook(r, k, TpFill(bar, b.side, b.tp), "take_profit")
        ELSE IF r.cfg.maxBars > 0 /\ b.held >= r.cfg.maxBars
        THEN CloseWholeBook(r, k, ExitFill(r.cfg, bars[b.symbol].c, b.side), "max_bars")
        ELSE r
\* A carried book whose level the open has passed.
GapExit(r, k, bars) ==
    LET b == r.books[k]
        quote == bars[b.symbol].o + AskOffset(r.cfg, b.side)
    IN  IF b.side * (quote - b.sl) <= 0 THEN CloseWholeBook(r, k, quote, "stop_loss")
        ELSE IF b.side * (quote - b.tp) >= 0 THEN CloseWholeBook(r, k, quote, "take_profit")
        ELSE r
Manage(r, k, bars) == Exits(MoveLevels([r EXCEPT !.books[k].held = @ + 1], k, bars), k, bars)
\* Any other errand is the reason to close it, at the open or at the last close.
Visit(r, k, errand, bars) ==
    LET b == r.books[k]
        quote == IF errand = "end_of_data" THEN bars[b.symbol].c ELSE bars[b.symbol].o
    IN  IF errand = "gaps" THEN GapExit(r, k, bars)
        ELSE IF errand = "manage" THEN Manage(r, k, bars)
        ELSE CloseWholeBook(r, k, ExitFill(r.cfg, quote, b.side), errand)
\* Every book in turn, the list as it stood at the beginning.
VisitKey(r, key, errand, bars) ==
    LET at == {k \in DOMAIN r.books : r.books[k].key = key}
    IN  IF at = {} THEN r ELSE Visit(r, CHOOSE k \in at : TRUE, errand, bars)
ForEachBook(r, errand, bars) ==
    LET visit[n \in 0..Len(r.books)] ==
            IF n = 0 THEN r ELSE VisitKey(visit[n - 1], r.books[n].key, errand, bars)
    IN  visit[Len(r.books)]

(* Phases of a bar. *)
\* The swap of a night: paid from the cash, and owed by the leg until its trade row books it.
Charged(b, rate) == [b EXCEPT !.legs = [k \in DOMAIN b.legs |-> [b.legs[k] EXCEPT !.swap = @ + rate * b.legs[k].lots]]]
Paid(r) ==
    [r EXCEPT !.cash = @ - Total([k \in DOMAIN r.books |-> SwapRate(r.cfg, r.books[k].side) * r.books[k].lots]),
              !.books = [k \in DOMAIN @ |-> Charged(@[k], SwapRate(r.cfg, @[k].side))]]
Rollover(r, newDay) ==
    LET equity == Mark(Paid(r), r.prev)
    IN  IF ~newDay THEN r ELSE [Paid(r) EXCEPT !.basis = equity, !.dayStart = equity, !.dayHalted = FALSE]

DailyLossCheck(r, bars) ==
    LET flat == ForEachBook(r, "daily_loss_limit", bars)
    IN  IF r.cfg.daily = 0 \/ r.dayHalted \/ 100 * r.basis > r.dayStart * (100 - r.cfg.daily) THEN r
        ELSE [flat EXCEPT !.dayHalted = TRUE, !.basis = flat.cash]
DrawdownCheck(r, bars) ==
    LET flat == ForEachBook(r, "max_drawdown", bars)
    IN  IF r.cfg.drawdown = 0 \/ r.ddHalted \/ 100 * r.basis > r.peak * (100 - r.cfg.drawdown) THEN r
        ELSE [flat EXCEPT !.ddHalted = TRUE, !.basis = flat.cash]

\* One line: hold, close on a signal (a flip enters at the next bar), or enter.
ReconcileLine(r, line, want, bars) ==
    LET side == IF want < 0 /\ ~r.cfg.short THEN 0 ELSE want
        mine == {k \in DOMAIN r.books : r.books[k].symbol = line.symbol /\ HoldsLeg(r.books[k], line.strategy)}
        k == Min(mine)
        lots == Sized(r, r.prev[line.symbol].atr)
    IN  IF mine # {}
        THEN IF side = r.books[k].side \/ ~r.cfg.signalExit THEN r
             ELSE CloseStrategyLegs(r, k, line.strategy, bars[line.symbol].o)
        ELSE IF side = 0 \/ lots = 0 THEN r ELSE OpenOrder(r, line, side, lots, bars)
Reconcile(r, bars) ==
    IF r.basis <= 0 THEN r
    ELSE LET turn[n \in 0..Len(r.lines)] ==
                 IF n = 0 THEN r ELSE ReconcileLine(turn[n - 1], r.lines[n], r.desired[n], bars)
         IN  turn[Len(r.lines)]

Aged(r) == [r EXCEPT !.books = [k \in DOMAIN @ |-> [@[k] EXCEPT !.fresh = FALSE]], !.log = <<>>]
\* What follows the risk checks, and the mark at the end of the bar.
Traded(r, bars) ==
    IF r.bar < r.cfg.warmup \/ r.dayHalted \/ r.ddHalted THEN r
    ELSE ForEachBook(Reconcile(ForEachBook(r, "gaps", bars), bars), "manage", bars)
Marked(r, equity, bars, desired) ==
    [r EXCEPT !.basis = equity, !.peak = Max({@, equity}), !.prev = bars, !.desired = desired, !.bar = @ + 1]
ClosedBar(r, bars, desired) == Marked(r, Mark(r, bars), bars, desired)
OneBar(r, bars, newDay, desired) ==
    ClosedBar(Traded(DrawdownCheck(DailyLossCheck(Rollover(Aged(r), newDay), bars), bars), bars), bars, desired)
EndOfData(r) ==
    [ForEachBook(Aged(r), "end_of_data", r.prev) EXCEPT !.done = TRUE]

\* The state before bar 1; bar 0 only gives the signal and the ATR the first decision reads.
NewRun(lines, cfg, desired) ==
    [lines |-> lines, cfg |-> cfg, cash |-> Capital, basis |-> Capital, peak |-> Capital, dayStart |-> Capital,
     dayHalted |-> FALSE, ddHalted |-> FALSE, books |-> <<>>, opened |-> 0, booked |-> 0, log |-> <<>>,
     prev |-> FirstClose, desired |-> desired, bar |-> 1, done |-> FALSE]
DesiredOf(lines) == [DOMAIN lines -> {-1, 0, 1}]
SymbolsOf(lines) == {lines[k].symbol : k \in DOMAIN lines}

-----------------------------------------------------------------------------
(* What must hold, on every run. *)

LegLots(legs) == Total([j \in DOMAIN legs |-> legs[j].lots])
LegFees(legs) == Total([j \in DOMAIN legs |-> legs[j].fee + legs[j].swap])
Owed(books) == Total([k \in DOMAIN books |-> LegFees(books[k].legs)])

\* engine.py close_slices, close_strategy_legs, rollover: what was realised and reported is what the
\* cash says: capital plus the net of all trade rows, less what open legs have paid and not yet booked.
LedgerBalances ==
    run.cash = Capital + run.booked - Owed(run.books)

\* _Book, open_order: a book is the sum of its legs, one per strategy; a netting account holds one book
\* per symbol, a hedging one at most one per line; the number of books is capped.
BooksAreSound ==
    /\ Len(run.books) <= run.cfg.maxBooks
    /\ \A k \in DOMAIN run.books :
          LET b == run.books[k] IN
          /\ b.lots = LegLots(b.legs) /\ \A j \in DOMAIN b.legs : b.legs[j].lots > 0
          /\ \A j, m \in DOMAIN b.legs : j # m => b.legs[j].strategy # b.legs[m].strategy
          /\ \A j \in DOMAIN run.books : j # k /\ run.books[j].symbol = b.symbol =>
                run.cfg.mode = "hedging" /\ {l.strategy : l \in ToSet(run.books[j].legs)}
                                            \cap {l.strategy : l \in ToSet(b.legs)} = {}

\* Main loop: while a daily loss or a drawdown halts the run no book is open, and equity is cash.
HaltedIsFlat == run.dayHalted \/ run.ddHalted => run.books = <<>> /\ run.basis = run.cash

\* FLIP_RULE_ENTER_NEXT_BAR: on the bar that closes a strategy's position on its signal the strategy
\* opens nothing.
FlipWaits ==
    \A j, k \in DOMAIN run.log :
        run.log[j].type = "close" /\ run.log[j].code = "signal_exit" /\ run.log[k].type = "open"
          => run.log[j].strategy # run.log[k].strategy \/ run.log[j].symbol # run.log[k].symbol

\* engine.py: the ledger of rows and fees equals the cash, books are the sums of their legs, a halted
\* run is flat, a flip waits for the next bar.
AccountsBalance == LedgerBalances /\ BooksAreSound /\ HaltedIsFlat /\ FlipWaits

\* engine.py:51-52 a "notional cap" and "portfolio heat (gross notional / equity)", "evaluated on the
\* post-action exposure": what an entry leaves open, each book at its own open, is within every cap.
CapIsOnNotional ==
    \A k \in DOMAIN run.log : run.log[k].type = "open" =>
        \A cap \in run.cfg.caps :
            Total([j \in DOMAIN run.log[k].books |->
                     LET b == run.log[k].books[j] IN
                     IF b[1] \in cap.symbols THEN Notional(b[2], run.prev[b[1]].o) ELSE 0])
                <= (cap.share * run.log[k].basis) \div 100
=============================================================================
