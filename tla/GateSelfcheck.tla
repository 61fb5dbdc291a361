---------------------------- MODULE GateSelfcheck ----------------------------
(***************************************************************************)
(* The owner gate's own decisions, stages 0 to 5 (gate_selfcheck.py,       *)
(* gold_leg_inputs.py): self-protection while somebody may edit the tree,  *)
(* the verdicts on what each stage left behind, and one tester leg after   *)
(* another, judged from the lines its own window holds.                    *)
(*                                                                         *)
(* A stage reads a log, a report or a file; what it is about - was every   *)
(* target clean, does the symbol hold the fixture - is chosen first, what  *)
(* the stage can see of it follows, lost lines and old files included.     *)
(***************************************************************************)
EXTENDS Integers, Sequences, FiniteSetsExt

-----------------------------------------------------------------------------
(***************************************************************************)
(* Owner exports against the sizer (tools/broker_symbol_parity.py): in     *)
(* which currency a symbol's tick value is, told by the broker's own       *)
(* profit calculation, and what the sizer's replay says of it.  Money is   *)
(* in thousandths; an export is what the exporter measured of one symbol.  *)
(***************************************************************************)
Larger(a, b) == Max({1000, a, b})
Apart(a, b) == IF a > b THEN a - b ELSE b - a
\* _agrees (a thousandth), _separated (a hundredth); between them: ambiguous.
Agrees(a, b) == 1000 * Apart(a, b) <= Larger(a, b)
Separated(a, b) == 100 * Apart(a, b) >= Larger(a, b)

\* load_owner_export: a malformed export is left out, never repaired.
Readable(exports) == {d \in exports : d.schema}

\* assess_tick_value_denomination: the tick values fit the witness's account
\* currency, or the contract's profit currency if the two can be told apart.
Denomination(d) ==
    IF d.probe # "ok" \/ ~(d.witness > 0) THEN "UNVERIFIED"
    ELSE IF Agrees(d.atProbe, d.witness) THEN "ACCOUNT_CURRENCY"
    ELSE IF Agrees(d.atProbe, d.structural) /\ Separated(d.witness, d.structural) THEN "PROFIT_CURRENCY"
    ELSE "UNVERIFIED"

ReplayedForAny(verdict) == verdict # "UNVERIFIED"                    \* mutant
\* For which verdict the sizer is replayed.
ReplayedFor(verdict) == verdict = "ACCOUNT_CURRENCY"
\* sizer_behaviour_parity: replayed with the witness's tick value only where the
\* denomination is the account's; loss per lot within a hundredth of the
\* exported value (rounding and flooring stay on the grid by construction).
SizerStatus(d) ==
    IF ~ReplayedFor(Denomination(d)) THEN {"PENDING"}
    ELSE {"MATCH", IF 100 * Apart(d.witness, d.exported) <= Larger(d.exported, d.exported) THEN "MATCH" ELSE "MISMATCH"}

\* compare_symbol: without a Python model every field is runtime-queried;
\* denomination_row: a profit-currency tick value is a match, too.
ParityRows(d) ==
    {[status |-> s, crypto |-> d.class = "CRYPTO"] :
        s \in {"N_A"} \cup SizerStatus(d) \cup {IF Denomination(d) = "UNVERIFIED" THEN "PENDING" ELSE "MATCH"}}

\* build_report
BuildReport(exports) == UNION {ParityRows(d) : d \in Readable(exports)}

\* _asset_classes_supported: by path or name, each class for itself; the shape
\* of a pair counts as FX only when nothing else speaks.
ClassesOf(d) ==
    LET said == ({d.path} \cap {"FX", "METAL", "INDEX_CFD", "CRYPTO"}) \cup ({d.class} \cap {"METAL", "CRYPTO"})
    IN IF said # {} THEN said ELSE IF d.class = "FX" THEN {"FX"} ELSE {}

\* asset_classes_covered, main: nothing exported, or a class without export, is
\* not verified (2) and a mismatch is a failure (1).
ParityExit(exports) ==
    LET good == Readable(exports)
    IN IF \E r \in BuildReport(exports) : r.status = "MISMATCH" THEN 1
       ELSE IF good = {} \/ UNION {ClassesOf(d) : d \in good} # {"FX", "METAL", "INDEX_CFD", "CRYPTO"} THEN 2
       ELSE 0

\* What the report stands for: the sizer loses per tick what the broker does.
TickValueTrue(d) ==
    d.probe = "ok" /\ d.witness > 0 /\ 100 * Apart(d.witness, d.exported) <= Larger(d.exported, d.exported)
                   /\ Agrees(d.atProbe, d.witness)

-----------------------------------------------------------------------------
CONSTANTS
    Pinned,     \* artifacts the frozen record pins
    MaxTamper,  \* bound on the edits during self-protection
    Targets,    \* programs of the strict compile
    RunStart,   \* start of the gate run, in half seconds
    DayBars,    \* bars per fixture day: the fixtures considered
    DslBars,    \* InpDslBars
    TesterLegs  \* legs of the run: symbol and model, in order

ASSUME FixtureAssumption == RunStart \in Nat /\ \A days \in DayBars : days \in Seq(Nat) /\ days # <<>>

VARIABLES
    tree,       \* frozen record and artifacts in the working tree
    protect,    \* run_self_protection under way
    gate,       \* the stage reached, the stages passed on a false showing, old files used
    legs        \* outcomes of the tester legs so far, and the leg's truth

selfVars == <<tree, protect, gate, legs>>

\* Which stage follows which, from the one after self-protection on.
Following == [compile |-> "dsl", dsl |-> "parity", parity |-> "import", import |-> "export",
              export |-> "inputs", inputs |-> "legs", legs |-> "done"]
-----------------------------------------------------------------------------
(* Stage 0: self-protection.  The record at HEAD may be a record, an empty  *)
(* object or no JSON; an edited copy relaxes pins and anchor as it likes.   *)

Checks == <<"untampered", "load", "head", "clean", "crlf", "hashes", "dsl", "end">>
Relations == {"same", "newer", "older", "diverged", "unknown"}
Fixed == {"committed", "other"}     \* an artifact at HEAD: as pinned, or not

\* verify_frozen_inputs_untampered
Untampered == tree.frozen = "head"
\* What json.loads of the working copy gives.
Loaded == IF tree.frozen = "head" THEN tree.blob ELSE "relaxed"
\* verify_head_matches_frozen: HEAD is the anchor or descends from it.
HeadMatches == protect.loaded = "relaxed" \/ tree.head \in {"same", "newer"}
CleanUnasked == TRUE                                                 \* mutant
\* verify_clean_tree
Clean == tree.frozen = "head" /\ \A a \in Pinned : tree.bytes[a] # "edited"
\* verify_autocrlf_false: unset counts as false.
LineEndsKept == tree.crlf \in {"", "false"}
\* verify_frozen_hashes
HashesMatch == protect.loaded = "relaxed" \/ \A a \in Pinned : tree.bytes[a] = "committed"
\* verify_dsl_parity_binding: 42 files, each as its pin says.
ParityBound == tree.bound = 42

CheckHolds(c) ==
    /\ c = "untampered" => Untampered
    /\ c = "load"       => Loaded # "unparsable"
    /\ c = "head"       => HeadMatches
    /\ c = "clean"      => Clean
    /\ c = "crlf"       => LineEndsKept
    /\ c = "hashes"     => HashesMatch
    /\ c = "dsl"        => ParityBound

\* run_self_protection: one check after the other, every result recorded; the
\* record is read when the first holds, and nothing is checked of an empty one.
ProtectNext ==
    /\ gate.stage = "self" /\ Checks[protect.at] # "end"
    /\ LET c == Checks[protect.at]
           read == IF c = "load" THEN Loaded ELSE protect.loaded
           over == \/ c = "untampered" /\ ~Untampered
                   \/ c = "load" /\ Loaded \in {"unparsable", "empty"}
       IN protect' = [at |-> IF over THEN Len(Checks) ELSE protect.at + 1, loaded |-> read,
                      bad |-> protect.bad \cup IF CheckHolds(c) THEN {} ELSE {c}]
    /\ UNCHANGED <<tree, gate, legs>>

\* clone_target_status, asked for before the checks when the gate clones.
CloneTargetOk(target) == target \in {"absent", "empty"}

ProtectEnds ==
    /\ gate.stage = "self" /\ Checks[protect.at] = "end"
    /\ \E target \in {"absent", "empty", "full", "file", "unreadable"} :
        gate' = [gate EXCEPT !.stage = IF protect.bad = {} /\ CloneTargetOk(target)
                                       THEN "compile" ELSE "failed"]
    /\ UNCHANGED <<tree, protect, legs>>

\* Somebody edits the record or an artifact while the checks run.
Tamper ==
    /\ gate.stage = "self" /\ tree.edits < MaxTamper
    /\ \/ \E f \in {"head", "edited"} : tree' = [tree EXCEPT !.frozen = f, !.edits = @ + 1]
       \/ \E a \in Pinned : tree' = [tree EXCEPT !.bytes[a] = "edited", !.edits = @ + 1]
    /\ UNCHANGED <<protect, gate, legs>>
-----------------------------------------------------------------------------
(* Stages 1 to 4, each judged on what it left behind                        *)

\* The stage is over: "shown" is the verdict, "true" what really holds, "old"
\* whether an earlier run's file was used, "exit" the parity tool's exit code.
JudgedFrom(old, exit, shown, true) ==
    /\ gate' = [stage |-> IF shown THEN Following[gate.stage] ELSE "failed",
                unearned |-> gate.unearned \cup IF shown /\ ~true THEN {gate.stage} ELSE {},
                old |-> gate.old \/ (shown /\ old), exit |-> exit]
    /\ UNCHANGED <<tree, protect, legs>>
Judged(shown, true) == JudgedFrom(FALSE, gate.exit, shown, true)

\* The compile log when the verdicts of the targets in "printed" reached it.
CompileLog(result, printed) ==
    LET clean == {t \in printed : result[t] = "clean"}
    IN [passed |-> clean, failed |-> printed \ clean, summaries |-> {result[t] = "clean" : t \in printed},
        pass |-> printed = Targets /\ clean = Targets, fail |-> printed = Targets /\ clean # Targets]

\* parse_compile_log: decided from the log, never from an exit code.
CompileIsStrict(log) ==
    /\ log.pass /\ ~log.fail /\ log.failed = {}
    /\ Targets \subseteq log.passed /\ log.summaries = {TRUE}

JudgeCompile ==
    /\ gate.stage = "compile"
    /\ \E result \in [Targets -> {"clean", "warning", "error"}], printed \in SUBSET Targets :
        Judged(CompileIsStrict(CompileLog(result, printed)), \A t \in Targets : result[t] = "clean")

\* parse_dsl_compare_report
ParityShown(r) == r.exact = r.total /\ r.total = 14 /\ ~r.notProven /\ r.tamperRefused

JudgeDsl ==
    /\ gate.stage = "dsl"
    /\ \E r \in [exact : 12..14, total : 13..14, notProven : BOOLEAN, tamperRefused : BOOLEAN] :
        /\ r.exact <= r.total /\ (r.exact < r.total => r.notProven)
        /\ Judged(ParityShown(r), r.exact = 14 /\ r.tamperRefused)

\* broker_parity_scope: a pending crypto row is out of scope.
ParityInScope(rows) ==
    /\ \A r \in rows : r.status # "MISMATCH" /\ (r.status = "PENDING" => r.crypto)
    /\ \E r \in rows : r.status = "MATCH"

\* The exports found: one measured in some way, and one of a few others.
SomeExport ==
    [class : {"FX", "CRYPTO"}, path : {"", "FX"}, schema : {TRUE}, probe : {"absent", "failed", "ok"},
     witness : {-1000, 1000, 1020}, atProbe : {1000, 1005, 1020}, exported : {1000, 1005, 1020}, structural : {1000, 1020}]
GoodExport == [class |-> "FX", path |-> "FX", schema |-> TRUE, probe |-> "ok",
               witness |-> 1000, atProbe |-> 1000, exported |-> 1000, structural |-> 1020]
OtherExports == {GoodExport, [GoodExport EXCEPT !.schema = FALSE], [GoodExport EXCEPT !.class = "CRYPTO", !.probe = "failed"],
                 [GoodExport EXCEPT !.class = "METAL", !.path = "INDEX_CFD"]}

\* The parity tool writes its report and exits; the gate reads the report
\* whatever the exit, the last run's where the tool died before writing.
JudgeParity ==
    /\ gate.stage = "parity"
    /\ \E d \in SomeExport, other \in OtherExports, died \in BOOLEAN :
        JudgedFrom(died, ParityExit({d, other}), ParityInScope(BuildReport({d, other})),
                   \A e \in Readable({d, other}) : e.class = "CRYPTO" \/ TickValueTrue(e))

\* validate_preset: exactly the intended keys, each once, with their values,
\* and no line without a key.
Intended == {<<"name", "right">>, <<"hash", "right">>}
PresetIsExact(staged, strayLine) == staged = Intended /\ ~strayLine

\* import_diagnostic_populated
Populated(doc) ==
    /\ doc.lastError
    /\ IF doc.refused THEN doc.error /\ (doc.atProperty => doc.named) ELSE doc.roundtrip # "none"

\* properties_verified: what was set must read back; the two calculated tick
\* values must be recorded, whatever they read.
PropertiesVerified(doc) ==
    doc.readBack = "equal" /\ doc.derived \in {"unequal", "equal"}

\* classify_stage4_outcome; a manifest without a hash is not compared.
ImportOutcome(launched, json, doc, manifestHash) ==
    IF ~launched THEN "terminal_never_launched"
    ELSE IF ~json THEN "terminal_ran_no_json"
    ELSE IF doc.refused THEN "json_refused"
    ELSE IF ~Populated(doc) THEN "diagnostic_not_populated"
    ELSE IF manifestHash /\ doc.roundtrip # "fixture" THEN "roundtrip_hash_mismatch"
    ELSE IF ~PropertiesVerified(doc) THEN "properties_unverified"
    ELSE "import_ok"

ImportDocs ==
    [refused : BOOLEAN, lastError : BOOLEAN, error : BOOLEAN, atProperty : BOOLEAN, named : BOOLEAN,
     roundtrip : {"none", "fixture", "other"}, readBack : {"none", "unequal", "equal"},
     derived : {"none", "missing", "unequal", "equal"}]

\* The gold manifests pin a hash; the importer hashes the bars it reads back.
JudgeImport ==
    /\ gate.stage = "import"
    /\ \/ \E staged \in SUBSET ({"name", "hash"} \X {"right", "empty"}), stray \in BOOLEAN :
            ~PresetIsExact(staged, stray) /\ Judged(FALSE, TRUE)
       \/ \E launched, json \in BOOLEAN, doc \in ImportDocs :
            Judged(ImportOutcome(launched, json, doc, TRUE) = "import_ok",
                   doc.roundtrip = "fixture" /\ doc.readBack = "equal")

\* The exporter stamps whole seconds; the run's start is rounded down, now up.
Stamp(written) == written \div 2
FreshNotFuture(stamp, now) == stamp <= (now + 1) \div 2              \* mutant
InRunWindow(stamp, now) == Stamp(RunStart) <= stamp /\ stamp <= (now + 1) \div 2

\* symbolspec_export_freshness; the probes are recorded, never judged.
ExportIsFresh(f, now) ==
    f.json /\ f.stamped /\ InRunWindow(Stamp(f.written), now) /\ f.build /\ f.symbol

\* The symbol's export may be an old run's file.  It is used when it is of
\* this run, up to the second the run began in.
JudgeExport ==
    /\ gate.stage = "export"
    /\ \E f \in [json : BOOLEAN, stamped : BOOLEAN, written : 0..RunStart + 3, build : BOOLEAN, symbol : BOOLEAN] :
        Judged(ExportIsFresh(f, RunStart + 3), f.written >= RunStart - 1 /\ f.symbol)
-----------------------------------------------------------------------------
(* Stage 5: what a leg is run with                                          *)

BarsBefore(days, d) == MapThenSumSet(LAMBDA i : days[i], 1..(d - 1))
EnoughBefore(days, d) == BarsBefore(days, d) >= DslBars

\* dsl_warmup_date_from: the first day when it holds enough bars by itself
\* (the tester reserves whole days), else the first with enough before it.
FirstEnough(days) ==
    {d \in DOMAIN days : EnoughBefore(days, d) /\ \A e \in 1..(d - 1) : ~EnoughBefore(days, e)}
WarmupDay(days) ==
    IF days[1] >= DslBars THEN 1
    ELSE IF FirstEnough(days) # {} THEN CHOOSE d \in FirstEnough(days) : TRUE ELSE 0

\* fixture_tick_content
BarOnly(f) == f.barHeader /\ ~f.tickKeys

\* derive_tester_inputs: the tester's first day, or 0; a start later than the
\* fixture's must not cut off an expected trade (none known is none proven).
StartDay(f) ==
    IF ~f.manifest \/ ~f.timeframe THEN 0
    ELSE IF ~BarOnly(f) THEN 1
    ELSE IF WarmupDay(f.days) > 1 /\ (f.firstTrade = 0 \/ f.firstTrade < WarmupDay(f.days)) THEN 0
    ELSE WarmupDay(f.days)

\* derive_gold_leg_inputs: everything from the manifest and the one committed
\* specification that reproduces its hash, retargeted in its symbol only.
LegInputsDerived(m) ==
    /\ m.fields /\ m.mode = "risk_percent_equity" /\ m.shortIsBool
    /\ m.specs = 1 /\ m.sameIdentity /\ m.sameTimeframe /\ m.longest * 10 <= DslBars

\* selector_check
SelectorNamed(m) == m.path /\ m.bundleIsStrategy

\* find_agent_sandboxes, stage_bundle: the verified common copy decides; the
\* terminal's own copy, which the EA reads first, is written if it can be and
\* stays what it was if not.
Staged(common, ownWritten, own) ==
    [ok |-> common, read |-> IF ownWritten \/ own = "none" THEN "derived" ELSE own]

JudgeInputs ==
    /\ gate.stage = "inputs"
    /\ \/ \E f \in [manifest : BOOLEAN, timeframe : BOOLEAN, barHeader : BOOLEAN, tickKeys : BOOLEAN,
                    days : DayBars, firstTrade : 0..3] :
            Judged(StartDay(f) # 0,
                   /\ BarOnly(f) => f.days[1] >= DslBars \/ EnoughBefore(f.days, StartDay(f))
                   /\ f.firstTrade # 0 => f.firstTrade >= StartDay(f) \/ StartDay(f) = 1)
       \/ \E m \in [fields : BOOLEAN, mode : {"risk_percent_equity", "fixed"}, shortIsBool : {TRUE},
                    specs : 0..2, sameIdentity : BOOLEAN, sameTimeframe : BOOLEAN, longest : {0, 1, DslBars},
                    path : BOOLEAN, bundleIsStrategy : BOOLEAN],
             common, ownWritten \in BOOLEAN, own \in {"none", "old"} :
            LET bundle == Staged(common, ownWritten, own)
            IN JudgedFrom(bundle.read = "old", gate.exit, LegInputsDerived(m) /\ SelectorNamed(m) /\ bundle.ok,
                          m.specs = 1 /\ m.sameIdentity)
-----------------------------------------------------------------------------
(* Stage 5: the legs                                                        *)

LogLine(symbol, bars) == [kind |-> "bars", symbol |-> symbol, bars |-> bars]
Says(kind) == [kind |-> kind]
Names(kind, of) == [kind |-> kind, of |-> of]

\* What a leg may write: it is refused, finds no history, or generates bars;
\* the model and the strategy are named by what it is to the leg.
OwnLines(t, symbol) ==
    {Says(k) : k \in t.marks} \cup {LogLine(symbol, n) : n \in t.bars} \cup
    {Names("model", m) : m \in t.models} \cup {Names("loaded", l) : l \in t.loads}

LegMarks == {{}, {"finished"}, {"finished", "quality"}, {"refused", "finished", "quality"}, {"no_history"}}

\* What else may be appended while it runs: another symbol's test, with bars,
\* a strategy and lines that name no symbol.
StrayLines(symbol) ==
    {Says("finished"), Says("quality"), Names("loaded", "other")} \cup
    {LogLine(TesterLegs[i].symbol, 7) : i \in {j \in DOMAIN TesterLegs : TesterLegs[j].symbol # symbol}}

ScopedAnySymbol(window, symbol) == {l \in window : l.kind = "bars"}  \* mutant
\* _leg_scoped_lines: a line that bears a symbol counts for that symbol's leg.
ScopedBars(window, symbol) == {l \in window : l.kind = "bars" /\ l.symbol = symbol}
States(window, kind) == Says(kind) \in window

\* classify_tester_leg_outcome: BLOCKED is earned, never inferred.
LegOutcome(window, symbol) ==
    LET bars == ScopedBars(window, symbol)
    IN IF States(window, "no_history") THEN "FAIL_NO_TICK_HISTORY"
       ELSE IF States(window, "refused") THEN "FAIL"
       ELSE IF \E l \in bars : l.bars = 0 THEN "FAIL_INSUFFICIENT_FIXTURE_HISTORY"
       ELSE IF States(window, "finished") /\ bars # {} THEN "BLOCKED_OWNER_ENVIRONMENT"
       ELSE "FAIL"

\* _actual_model: the models that lines with this symbol state; two are none.
StatedModels(window) == {m \in {"asked", "other"} : Names("model", m) \in window}

\* grade_leg_from_log: a window that would be BLOCKED passes when it states
\* the quality, the model asked for and the expected strategy, no other.
GradedFromLog(window, symbol) ==
    LET base == LegOutcome(window, symbol)
    IN IF /\ base = "BLOCKED_OWNER_ENVIRONMENT"
          /\ States(window, "quality") /\ StatedModels(window) = {"asked"}
          /\ Names("loaded", "own") \in window /\ Names("loaded", "other") \notin window
       THEN "PASS_FROM_LOG" ELSE base

\* tester_leg_evidence: a report whose model nobody can tell is no evidence;
\* another model than asked for is recorded.
Confirmed(model) == IF model = "unknown" THEN "FAIL" ELSE "OK"

\* real_ticks_leg_decision: a fixture of bars only has no real ticks.
NotApplicable(leg) == leg.model = "real_ticks" /\ leg.barOnly

\* The fixture is bars only: the leg is not launched.
SkipLeg ==
    /\ gate.stage = "legs" /\ Len(legs.outcomes) < Len(TesterLegs)
    /\ NotApplicable(TesterLegs[Len(legs.outcomes) + 1])
    /\ legs' = [legs EXCEPT !.outcomes = Append(@, "NOT_APPLICABLE_BAR_ONLY_FIXTURE")]
    /\ UNCHANGED <<tree, protect, gate>>

\* The leg ran and left its window; a report, if there is one, decides.
RunLeg ==
    /\ gate.stage = "legs" /\ Len(legs.outcomes) < Len(TesterLegs)
    /\ LET leg == TesterLegs[Len(legs.outcomes) + 1]
       IN /\ ~NotApplicable(leg)
          /\ \/ \E model \in {"asked", "other", "unknown"} :
                   legs' = [legs EXCEPT !.outcomes = Append(@, Confirmed(model))]
             \/ \E t \in [marks : LegMarks, bars : {{}, {0}, {5}},
                          models : SUBSET {"asked", "other"}, loads : {{}, {"own"}}],
                   stray \in SUBSET StrayLines(leg.symbol) :
                 LET out == GradedFromLog(OwnLines(t, leg.symbol) \cup stray, leg.symbol)
                 IN legs' = [outcomes |-> Append(legs.outcomes, out),
                             false |-> \/ legs.false
                                       \/ /\ out \in {"BLOCKED_OWNER_ENVIRONMENT", "PASS_FROM_LOG"}
                                          /\ t.bars # {5} \/ t.marks \cap {"refused", "no_history"} # {}
                                       \/ out = "PASS_FROM_LOG" /\ (t.models # {"asked"} \/ t.loads # {"own"})]
    /\ UNCHANGED <<tree, protect, gate>>

\* The stage's verdict: a failed leg or a fixture the legs changed fails it,
\* a blocked leg stops it, and legs that were not run prove nothing.
LegsPass(intact) ==
    LET outcomes == {legs.outcomes[i] : i \in DOMAIN legs.outcomes}
    IN /\ intact
       /\ outcomes \subseteq {"OK", "PASS_FROM_LOG", "NOT_APPLICABLE_BAR_ONLY_FIXTURE"}
       /\ outcomes \cap {"OK", "PASS_FROM_LOG"} # {}

LegsJudged ==
    /\ gate.stage = "legs" /\ Len(legs.outcomes) = Len(TesterLegs)
    /\ \E intact \in BOOLEAN : Judged(LegsPass(intact), intact /\ ~legs.false)
-----------------------------------------------------------------------------
\* Of a record that is none nothing else is looked at, so it is not varied.
SelfInit ==
    /\ tree \in [blob : {"record", "empty", "unparsable"}, frozen : {"head", "edited"},
                 bytes : [Pinned -> Fixed], head : Relations, crlf : {"", "true"},
                 bound : {41, 42}, edits : {0}]
    /\ tree.blob # "record" => tree.head = "diverged" /\ tree.crlf = "true" /\ tree.bound = 41
    /\ protect = [at |-> 1, loaded |-> "none", bad |-> {}]
    /\ gate = [stage |-> "self", unearned |-> {}, old |-> FALSE, exit |-> 0]
    /\ legs = [outcomes |-> <<>>, false |-> FALSE]

SelfNext ==
    \/ ProtectNext \/ ProtectEnds \/ Tamper
    \/ JudgeCompile \/ JudgeDsl \/ JudgeParity \/ JudgeImport \/ JudgeExport \/ JudgeInputs
    \/ SkipLeg \/ RunLeg \/ LegsJudged
-----------------------------------------------------------------------------
(* Properties                                                               *)

\* Although somebody edits the tree while the checks run, a gate that goes on
\* has judged the artifacts by the record committed at HEAD, unless that is
\* empty: the tree is found clean after the record was read
\* (run_self_protection).  An edit undone in between is not noticed.
ProtectedByTheRecord ==
    gate.stage \notin {"self", "failed"} =>
        /\ protect.loaded \in {"record", "empty"}
        /\ protect.loaded = "record" =>
            tree.head \in {"same", "newer"} /\ \A a \in Pinned : tree.bytes[a] # "other"

\* No stage passes on a false showing, and no leg is BLOCKED or passes from its
\* log for what another symbol's test wrote (gate_selfcheck.py, stages 1 to 5;
\* tester_log_grader.py:267).
SelfcheckIsEarned == ProtectedByTheRecord /\ gate.unearned = {} /\ ~legs.false

\* "Run every stage-A check in order" (gate_selfcheck.py:863): a record
\* committed as an empty object passes with one check made.
EveryCheckRan == gate.stage \notin {"self", "failed"} => protect.loaded = "record"

\* Nothing an earlier run left is judged as this run's: a parity tool that dies
\* leaves its last report, an unwritable data folder its last bundle.
NothingOldIsUsed == ~gate.old

\* "parity is NOT VERIFIED and must never be read as pass"
\* (broker_symbol_parity.py:584): the gate never looks at the tool's exit.
NotVerifiedIsNoPass == gate.exit = 2 => gate.stage \in {"parity", "failed"}
=============================================================================
