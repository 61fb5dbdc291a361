----------------------------- MODULE Reconcile -----------------------------
(***************************************************************************)
(* The trade comparison of the owner gate.  stage8_package.py pairs the    *)
(* expected python entries of a gold with the entry deals of each tester   *)
(* leg by fill minute and writes one event per trade; owner_gate.py reads  *)
(* the events back, recomputes from the bound deal lists what it can, and  *)
(* says MATCH, DIVERGENT or INVALID.  Prices, lots and equity are small    *)
(* numbers; two clock ticks make a minute.                                 *)
(***************************************************************************)
EXTENDS Integers, Sequences, FiniteSets, SequencesExt

CONSTANTS Minutes,        \* fill minutes of the fixture, a set of numbers
          WindowEnd,      \* the tester's ToDate, exclusive
          Deposit,        \* of the tester ini, equal to the manifest's equity_start
          MaxOddities,    \* bound on what a leg does against expectation
          MaxEdits, Edits, \* edits of the written comparison, and their bound
          FrozenColumns,  \* the frozen approved lots tried: minute -> lots, 0 for not sent
          Refusals        \* the sets of failing guards tried

ASSUME ReconcileAssumption ==
    /\ Minutes \subseteq Nat /\ IsFiniteSet(Minutes)
    /\ FrozenColumns \subseteq [Minutes -> Nat]
    /\ Edits \subseteq {"label", "basis", "volume"}

VARIABLES expected,       \* the frozen approved entries: minute -> lots
          path,           \* the minutes the weight-in-force run enters at
          refused,        \* the guards of the weight-in-force run that fail
          starts,         \* the window start MT5 states, or 0
          deals,          \* model -> its deals, in the order of the log
          legAt,          \* model -> the minute its leg has reached
          oddities,       \* what the legs did against expectation
          doc,            \* the comparison written, or NoDoc
          edits

reconcileVars == <<expected, path, refused, starts, deals, legAt, oddities, doc, edits>>

Legs == {"m1_ohlc", "every_tick"}
TickPathModels == {"every_tick"}
NoDoc == [events |-> {}, record |-> 0]
None == -1
First == CHOOSE m \in Minutes : \A n \in Minutes : m <= n
Horizon == CHOOSE m \in Minutes : \A n \in Minutes : n <= m

MinuteOf(time) == time \div 2
Open(minute) == 10 + minute                      \* the fixture's bid open
ExpectedFill(minute, side) == Open(minute) + (IF side = "buy" THEN 1 ELSE 0)
StopLevel(price, side) == IF side = "buy" THEN price - 3 ELSE price + 3

\* frozen_rule_lots: floor of a share of equity, 0 below the volume minimum.
FrozenRuleLots(equity) == IF equity < 5 THEN 0 ELSE equity \div 5

\* The expected set: the weight-in-force run when every guard holds (it trades
\* from the measured start only), else the frozen column with its reason.
WindowRun == [t \in {t \in path : t >= starts} |-> IF expected[t] = 0 THEN 1 ELSE expected[t]]
ExpectedSet == IF refused = {} /\ starts # 0 THEN WindowRun ELSE expected


PnlBefore(ds, k) == FoldLeft(LAMBDA acc, d : acc + d.pnl, 0, SubSeq(ds, 1, k))
LogEntryDeals(ds) == {k \in DOMAIN ds : ds[k].entry = "open"}
FlatAt(ds, k) == 2 * Cardinality({j \in LogEntryDeals(ds) : j < k}) = k - 1

-----------------------------------------------------------------------------
(* The tester's legs *)

Side(minute) == IF minute % 2 = 0 THEN "buy" ELSE "sell"
Deal(ds, minute, entry, side, vol, price, pnl) ==
    [ticket |-> Len(ds) + 1, time |-> 2 * minute + (IF entry = "open" THEN 0 ELSE 1),
     entry |-> entry, side |-> side, vol |-> vol, price |-> price, pnl |-> pnl,
     level |-> StopLevel(price, side)]

\* What an entry at this minute may look like: as expected, on the leg's own
\* equity, or odd in one respect.
Entries(m, minute) ==
    LET ds == deals[m]
        due == IF minute \in DOMAIN ExpectedSet THEN ExpectedSet[minute] ELSE 0
        lots == {due} \cup IF m \in TickPathModels
                            THEN {FrozenRuleLots(Deposit + PnlBefore(ds, Len(ds)))} ELSE {}
        good == {Deal(ds, minute, "open", Side(minute), v, ExpectedFill(minute, Side(minute)), 0)
                    : v \in lots \ {0}}
        base == Deal(ds, minute, "open", Side(minute), 1, ExpectedFill(minute, Side(minute)), 0)
    IN [good |-> good,
        odd  |-> {[base EXCEPT !.vol = 3], [base EXCEPT !.price = @ + 5],
                  [base EXCEPT !.side = IF @ = "buy" THEN "sell" ELSE "buy"],
                  [base EXCEPT !.level = 0], [base EXCEPT !.pnl = 1]}]

Exits(ds, minute) == {Deal(ds, minute, e, Side(minute + 1), 1, Open(minute) + g, g) :
                        e \in {"none"}, g \in {-2, 3}}

Flat(m) == Len(deals[m]) % 2 = 0

\* The legs run one after the other, the m1_ohlc leg first.
Runs(m) == doc = NoDoc /\ (m = "every_tick" => legAt["m1_ohlc"] > Horizon)

LegOpens(m) ==
    /\ Runs(m) /\ legAt[m] \in Minutes /\ Flat(m)
    /\ \E d \in Entries(m, legAt[m]).good \cup Entries(m, legAt[m]).odd :
        /\ deals' = [deals EXCEPT ![m] = Append(@, d)]
        /\ oddities' = IF d \in Entries(m, legAt[m]).good /\ legAt[m] >= starts THEN oddities
                       ELSE oddities + 1
    /\ oddities' <= MaxOddities
    /\ legAt' = [legAt EXCEPT ![m] = @ + 1]
    /\ UNCHANGED <<expected, path, refused, starts, doc, edits>>

LegSkips(m) ==
    /\ Runs(m) /\ legAt[m] \in Minutes
    /\ legAt' = [legAt EXCEPT ![m] = @ + 1]
    /\ oddities' = IF Flat(m) /\ legAt[m] \in DOMAIN ExpectedSet /\ legAt[m] >= starts /\ legAt[m] < WindowEnd
                   THEN oddities + 1 ELSE oddities
    /\ oddities' <= MaxOddities
    /\ UNCHANGED <<expected, path, refused, starts, deals, doc, edits>>

LegCloses(m) ==
    /\ Runs(m) /\ ~Flat(m) /\ (m = "m1_ohlc" => legAt["every_tick"] = First)
    /\ \E d \in Exits(deals[m], legAt[m] - 1) : deals' = [deals EXCEPT ![m] = Append(@, d)]
    /\ UNCHANGED <<expected, path, refused, starts, legAt, oddities, doc, edits>>

-----------------------------------------------------------------------------
(* stage8_package: the events *)

\* The first exit where the tick leg left the m1_ohlc leg, or None when the
\* first difference is not an exit's time or price.
DealKey(d) == <<d.time, d.side, d.vol, d.price, d.pnl>>
TickPathDivergence(ref, tick) ==
    LET common == 1..(IF Len(ref) < Len(tick) THEN Len(ref) ELSE Len(tick))
        differ == {k \in common : DealKey(ref[k]) # DealKey(tick[k])}
        k == CHOOSE j \in differ : \A i \in differ : j <= i
    IN IF /\ differ # {}
          /\ ref[k].entry # "open" /\ tick[k].entry # "open"
          /\ ref[k].ticket = tick[k].ticket /\ ref[k].side = tick[k].side
          /\ ref[k].vol = tick[k].vol
          /\ ref[k].time # tick[k].time \/ ref[k].price # tick[k].price
       THEN k ELSE None

TickPathOf(m) == IF m \in TickPathModels
                 THEN TickPathDivergence(deals["m1_ohlc"], deals[m]) ELSE None

\* Entries are every second deal of the list; one that books a profit refuses
\* the leg.
Mt5Entries(ds) == {k \in DOMAIN ds : k % 2 = 1}
PairingRefused(ds) == \E k \in Mt5Entries(ds) : ds[k].pnl # 0

\* An approved frozen row whose weight is not SEND has no volume to compare.
Rows == DOMAIN ExpectedSet
InWindow == {t \in Rows : t >= starts /\ t < WindowEnd}

\* Rows and entries pair by the fill minute, the first entry of the minute.
PairsOf(m) ==
    LET entries == Mt5Entries(deals[m])
        At(k) == MinuteOf(deals[m][k].time)
    IN {p \in InWindow \X entries : At(p[2]) = p[1] /\ \A j \in entries : At(j) = p[1] => p[2] <= j}

Field(name, py, mt5) == [name |-> name, py |-> py, mt5 |-> mt5, status |-> "stated"]

\* The volume compared: the python path, or the frozen rule on MT5's own equity
\* once the leg has left the m1_ohlc path.
AfterTickPath(m, k) == TickPathOf(m) # None /\ k > TickPathOf(m)
EquityAt(m, k) == Deposit + PnlBefore(deals[m], k - 1)

\* Mutant: after the tick path the equity stated is the deposit.
PairedEventOnDeposit(m, t, k) ==
    LET d == deals[m][k]
        after == AfterTickPath(m, k)
        price == ExpectedFill(t, Side(t))
    IN [model |-> m, pairing |-> "PAIRED_BY_TIME", when |-> t, ticket |-> k,
        time |-> d.time, onEquity |-> after, equity |-> IF after THEN Deposit ELSE None,
        fields |-> {Field("timestamp", t, MinuteOf(d.time)),
                    Field("entry_side", Side(t), d.side),
                    Field("entry_price", price, d.price),
                    Field("levels", StopLevel(price, Side(t)), d.level),
                    Field("volume", IF after THEN FrozenRuleLots(Deposit) ELSE ExpectedSet[t], d.vol)}]

PairedEvent(m, t, k) ==
    LET d == deals[m][k]
        after == AfterTickPath(m, k)
        price == ExpectedFill(t, Side(t))
    IN [model |-> m, pairing |-> "PAIRED_BY_TIME", when |-> t, ticket |-> k,
        time |-> d.time, onEquity |-> after, equity |-> IF after THEN EquityAt(m, k) ELSE None,
        fields |-> {Field("timestamp", t, MinuteOf(d.time)),
                    Field("entry_side", Side(t), d.side),
                    Field("entry_price", price, d.price),
                    Field("levels", StopLevel(price, Side(t)), d.level)}
             \cup IF after THEN {Field("volume", FrozenRuleLots(EquityAt(m, k)), d.vol)}
                  ELSE IF ExpectedSet[t] # 0 THEN {Field("volume", ExpectedSet[t], d.vol)}
                  ELSE {}]

BareEvent(m, pairing, t, k, differs) ==
    [model |-> m, pairing |-> pairing, when |-> t, ticket |-> k, time |-> None,
     onEquity |-> FALSE, equity |-> None,
     fields |-> IF differs THEN {Field("state", "python", "mt5")} ELSE {}]

LegEvents(m) ==
    LET pairs == PairsOf(m)
        entries == Mt5Entries(deals[m])
    IN {PairedEvent(m, p[1], p[2]) : p \in pairs}
  \cup {BareEvent(m, "MISSING_IN_MT5", t, None, TRUE) : t \in InWindow \ {p[1] : p \in pairs}}
  \cup {BareEvent(m, "EXTRA_IN_MT5", MinuteOf(deals[m][k].time), k, TRUE) :
            k \in entries \ {p[2] : p \in pairs}}
  \cup {BareEvent(m, "OUT_OF_TESTED_WINDOW", t, None, FALSE) : t \in Rows \ InWindow}
  \cup {BareEvent(m, "FROZEN_ONLY_SCHEDULED_WEIGHT", t, None, FALSE) : t \in Minutes \ Rows}

UsableLegs == {m \in Legs : ~PairingRefused(deals[m])}

\* _build_reconciliation: nothing is written when no leg has a usable list.
BuildReconciliation ==
    /\ doc = NoDoc /\ \A m \in Legs : legAt[m] > Horizon
    /\ UsableLegs # {}
    /\ doc' = [events |-> UNION {LegEvents(m) : m \in UsableLegs},
               record |-> TickPathOf("every_tick")]
    /\ UNCHANGED <<expected, path, refused, starts, deals, legAt, oddities, edits>>

\* The written comparison is edited before it is verified: a label, the basis of
\* a volume, or the stated volume.
Edited(e, kind) ==
    IF kind = "label" THEN [e EXCEPT !.fields = {[f EXCEPT !.status = "MATCH"] : f \in @}]
    ELSE IF kind = "basis" THEN [e EXCEPT !.onEquity = ~@]
    ELSE [e EXCEPT !.fields = {IF f.name = "volume" THEN [f EXCEPT !.py = f.mt5] ELSE f : f \in @}]

EditEvent ==
    /\ doc # NoDoc /\ edits < MaxEdits
    /\ edits' = edits + 1
    /\ \E e \in doc.events, kind \in Edits :
        \* a volume on the python path is taken from the package as it stands
        /\ kind = "volume" => AfterTickPath(e.model, e.ticket)
        /\ doc' = [doc EXCEPT !.events = (@ \ {e}) \cup {Edited(e, kind)}]
    /\ UNCHANGED <<expected, path, refused, starts, deals, legAt, oddities>>

EditRecord ==
    /\ doc # NoDoc /\ edits < MaxEdits
    /\ edits' = edits + 1
    /\ \E r \in {None, 2} : doc' = [doc EXCEPT !.record = r]
    /\ UNCHANGED <<expected, path, refused, starts, deals, legAt, oddities>>

-----------------------------------------------------------------------------
(* owner_gate: the comparison read back *)

\* Mutant: the label MATCH is trusted.
FieldDivergentByLabel(f) == f.status # "MATCH" /\ f.py # f.mt5

FieldDivergent(f) == f.status = "DIVERGENT" \/ f.py # f.mt5

EventsOf(m, pairing) == {e \in doc.events : e.model = m /\ e.pairing = pairing}
PythonSide == {"PAIRED_BY_TIME", "MISSING_IN_MT5", "OUT_OF_TESTED_WINDOW",
               "FROZEN_ONLY_SCHEDULED_WEIGHT"}

\* _log_leg_checks: what makes the comparison INVALID.
CountProblem(m) ==
    \/ Cardinality(EventsOf(m, "PAIRED_BY_TIME")) + Cardinality(EventsOf(m, "EXTRA_IN_MT5"))
         # Cardinality(LogEntryDeals(deals[m]))
    \/ Minutes # {} /\ ~\E e \in doc.events : e.model = m /\ e.pairing \in PythonSide

TickPathProblem(m) == m \in TickPathModels /\ doc.record # TickPathOf(m)

VolumeOf(e) == {f \in e.fields : f.name = "volume"}
EventProblem(e) ==
    LET after == AfterTickPath(e.model, e.ticket)
        ds == deals[e.model]
    IN \/ e.onEquity # after
       \/ /\ after
          /\ \/ e.equity # EquityAt(e.model, e.ticket) \/ ~FlatAt(ds, e.ticket)
             \/ \E f \in VolumeOf(e) : f.py # FrozenRuleLots(EquityAt(e.model, e.ticket))
       \/ \E f \in e.fields : f.name = "levels" /\ f.mt5 # ds[e.ticket].level

Problems(m) == \/ CountProblem(m) \/ TickPathProblem(m)
               \/ \E e \in EventsOf(m, "PAIRED_BY_TIME") : EventProblem(e)

\* S8-TS-1: a fill-bar timestamp stands only beside an exact entry price.
TimestampRefused(e) ==
    \/ e.time # deals[e.model][e.ticket].time
    \/ \E f \in e.fields : f.name = "entry_price" /\ FieldDivergent(f)

EventDivergent(e) ==
    \/ \E f \in e.fields : FieldDivergent(f)
    \/ e.pairing = "PAIRED_BY_TIME" /\ TimestampRefused(e)

\* The derived event entry_count:<model>.
EntryCountDivergent(m) ==
    Cardinality(EventsOf(m, "PAIRED_BY_TIME")) + Cardinality(EventsOf(m, "MISSING_IN_MT5"))
        # Cardinality(LogEntryDeals(deals[m]))

VerifyEvents ==
    IF \E m \in Legs : Problems(m) THEN "INVALID"
    ELSE IF \/ \E m \in Legs : EntryCountDivergent(m)
            \/ \E e \in doc.events : EventDivergent(e)
         THEN "MISMATCHED" ELSE "VALID"

ReconcileInit ==
    /\ expected \in FrozenColumns
    /\ path \in {Minutes} \cup {Minutes \ {t} : t \in Minutes}
    /\ refused \in Refusals
    /\ starts \in {0} \cup Minutes
    /\ deals = [m \in Legs |-> <<>>]
    /\ legAt = [m \in Legs |-> First]
    /\ oddities = 0 /\ doc = NoDoc /\ edits = 0

ReconcileNext ==
    \/ \E m \in Legs : LegOpens(m) \/ LegSkips(m) \/ LegCloses(m)
    \/ BuildReconciliation \/ EditEvent \/ EditRecord
-----------------------------------------------------------------------------
(* Properties *)

\* What the builder writes the verifier can read: when both legs' deals pass
\* the builder's pairing rule, the comparison is a match or a divergence and
\* never INVALID (the builder's equity, tick path and counts are the
\* verifier's).
BuilderAgreesWithVerifier ==
    (doc # NoDoc /\ edits = 0 /\ UsableLegs = Legs) => VerifyEvents # "INVALID"

\* A match is a match: every entry deal of every leg has its expected entry at
\* the same minute, side, price and stop, every expected entry in the window
\* was traded, and the lots are those of the python path or, once a leg has left
\* it, of the sizing rule on the leg's own equity; labels, bases, recorded
\* divergences and stated volumes that were edited change none of it.
MatchIsReal ==
    (doc # NoDoc /\ VerifyEvents = "VALID") =>
        \A m \in Legs :
            /\ \A t \in InWindow : \E k \in LogEntryDeals(deals[m]) :
                    MinuteOf(deals[m][k].time) = t
            /\ \A k \in LogEntryDeals(deals[m]) :
                 LET d == deals[m][k]
                     t == MinuteOf(d.time)
                 IN /\ t \in InWindow
                    /\ d.side = Side(t) /\ d.price = ExpectedFill(t, Side(t))
                    /\ d.level = StopLevel(d.price, d.side)
                    /\ IF AfterTickPath(m, k) THEN d.vol = FrozenRuleLots(EquityAt(m, k))
                       ELSE ExpectedSet[t] \in {0, d.vol}

\* Builder and verifier of the comparison: they understand each other, and a match is one.
ComparisonIsSound == BuilderAgreesWithVerifier /\ MatchIsReal
=============================================================================
