---------------------------- MODULE EvidenceProofs ----------------------------
(***************************************************************************)
(* Proofs about the evidence of the owner gate.  GateSelfcheck: for any    *)
(* pinned artifacts, compile targets, fixtures and tester legs, no stage   *)
(* is passed on a false showing.  Every stage but the first is a matter of *)
(* what it shows and what holds, one step; self-protection is not: the     *)
(* tree may be edited between two of its checks.  The invariant says of    *)
(* every check still to be made what those before it leave possible.  It   *)
(* needs that the tree is edited once at most: an edit that is undone      *)
(* before the clean check is one nobody sees.                              *)
(* SafetyLegs: for a log of any length, a grader that says PASS saw a run  *)
(* without a fault.  A fault is a fact about the past and the grader sees  *)
(* lines only, so there is one invariant per kind of leg, and each says    *)
(* which lines a fault that happened has left, and that no later line can  *)
(* cover them.                                                             *)
(* Reconcile: for any minutes, columns and number of edits, a comparison   *)
(* found VALID is a match.  Editing keeps, of every event written, one     *)
(* that tells of it; a bijection between the entry deals and the events    *)
(* that name them gives the verifier's counts.                             *)
(* OwnerGate: for any golds, tests, runs and troubles, what a positive     *)
(* verdict is worth.  What is wrong with a file is what its kind can have  *)
(* or an edit, and a file recorded by another than the manifest was        *)
(* recorded unedited: what the verifier matches is therefore as written.   *)
(* DemoHarness: for any tests and accounts files, what a demo run leaves   *)
(* behind.  What it leaves is settled by the steps of its programs one by  *)
(* one, so the invariant goes by how many are left: which probe the        *)
(* terminal has, on which account, and what it means that a line saying    *)
(* the probe closed its position is read since the launch or still unread. *)
(***************************************************************************)
EXTENDS GateSelfcheck, SafetyLegs, Reconcile, OwnerGate, DemoHarness,
        FiniteSetTheorems, WellFoundedInduction, TLAPS

SelfSpec == SelfInit /\ [][SelfNext]_selfVars

\* What the checks made so far leave possible while all of them held.
HeldSoFar ==
    /\ protect.at > 1 /\ tree.frozen = "edited" => tree.edits = 1
    /\ protect.at <= 2 => protect.loaded = "none"
    /\ protect.at > 2 => protect.loaded \in {"record", "empty", "relaxed"}
    /\ protect.loaded = "relaxed" => protect.at \in 3..4 /\ tree.frozen = "edited"
    /\ protect.loaded = "record" /\ protect.at > 3 => tree.head \in {"same", "newer"}
    /\ protect.loaded = "record" /\ protect.at > 6 => \A a \in Pinned : tree.bytes[a] # "other"

TreeTypeOK ==
    /\ DOMAIN tree = {"blob", "frozen", "bytes", "head", "crlf", "bound", "edits"}
    /\ tree.blob \in {"record", "empty", "unparsable"} /\ tree.frozen \in {"head", "edited"}
    /\ DOMAIN tree.bytes = Pinned /\ tree.edits \in {0, 1}
    /\ DOMAIN protect = {"at", "loaded", "bad"} /\ protect.at \in 1..8
    /\ DOMAIN gate = {"stage", "unearned", "old", "exit"}
    /\ DOMAIN legs = {"outcomes", "false"}

SelfInv ==
    /\ TreeTypeOK
    /\ gate.stage = "self" /\ protect.bad = {} => HeldSoFar
    /\ ProtectedByTheRecord
    /\ gate.unearned = {} /\ legs.false = FALSE

LEMMA SelfStart == SelfInit => SelfInv
<1> SUFFICES ASSUME SelfInit PROVE SelfInv
  OBVIOUS
<1>1. TreeTypeOK
  <2>1. /\ DOMAIN tree = {"blob", "frozen", "bytes", "head", "crlf", "bound", "edits"}
        /\ tree.blob \in {"record", "empty", "unparsable"} /\ tree.frozen \in {"head", "edited"}
        /\ DOMAIN tree.bytes = Pinned /\ tree.edits = 0
    <3>1. tree \in [blob : {"record", "empty", "unparsable"}, frozen : {"head", "edited"},
                    bytes : [Pinned -> Fixed], head : Relations, crlf : {"", "true"}, bound : {41, 42}, edits : {0}]
      BY DEF SelfInit
    <3>2. tree.edits \in {0} /\ tree.bytes \in [Pinned -> Fixed]
      BY <3>1
    <3> QED BY <3>1, <3>2
  <2>2. /\ protect = [at |-> 1, loaded |-> "none", bad |-> {}]
        /\ gate = [stage |-> "self", unearned |-> {}, old |-> FALSE, exit |-> 0]
        /\ legs = [outcomes |-> <<>>, false |-> FALSE]
    BY DEF SelfInit
  <2> QED BY <2>1, <2>2 DEF TreeTypeOK
<1>3. gate.stage = "self" /\ protect.at = 1 /\ protect.loaded = "none"
  BY DEF SelfInit
<1>4. HeldSoFar /\ ProtectedByTheRecord
  BY <1>3 DEF HeldSoFar, ProtectedByTheRecord
<1>5. gate.unearned = {} /\ legs.false = FALSE
  BY DEF SelfInit
<1> QED BY <1>1, <1>3, <1>4, <1>5 DEF SelfInv

\* One check after the other; the record is read between the first and the third.
LEMMA ChecksHold == ASSUME SelfInv, ProtectNext PROVE SelfInv'
<1> DEFINE c == Checks[protect.at]
<1>1. /\ tree' = tree /\ gate' = gate /\ legs' = legs /\ gate.stage = "self"
      /\ protect.at \in 1..7
  BY DEF ProtectNext, SelfInv, TreeTypeOK, Checks
<1>2. Len(Checks) = 8 /\ c \in {"untampered", "load", "head", "clean", "crlf", "hashes", "dsl"}
  BY <1>1 DEF Checks
<1>3. PICK step, loaded, bad :
        /\ protect' = [at |-> step, loaded |-> loaded, bad |-> bad]
        /\ loaded = IF c = "load" THEN Loaded ELSE protect.loaded
        /\ step = IF (c = "untampered" /\ ~Untampered) \/ (c = "load" /\ Loaded \in {"unparsable", "empty"})
                THEN Len(Checks) ELSE protect.at + 1
        /\ bad = protect.bad \cup IF CheckHolds(c) THEN {} ELSE {c}
  BY DEF ProtectNext
<1>4. TreeTypeOK'
  BY <1>1, <1>2, <1>3 DEF SelfInv, TreeTypeOK
<1>5. ASSUME bad = {} PROVE HeldSoFar'
  <2>1. protect.bad = {} /\ CheckHolds(c) /\ HeldSoFar
    BY <1>1, <1>3, <1>5 DEF SelfInv
  <2>2. protect'.at = step /\ protect'.loaded = loaded /\ tree' = tree
    BY <1>1, <1>3
  <2>3. CASE protect.at = 1
    <3>1. c = "untampered" /\ Untampered
      BY <2>1, <2>3 DEF Checks, CheckHolds
    <3>2. step = 2 /\ loaded = "none"
      BY <1>3, <2>1, <2>3, <3>1 DEF HeldSoFar
    <3>3. tree.frozen = "head"
      BY <3>1 DEF Untampered
    <3> QED BY <2>2, <3>2, <3>3 DEF HeldSoFar
  <2>4. CASE protect.at = 2
    <3>1. c = "load" /\ Loaded # "unparsable"
      BY <2>1, <2>4 DEF Checks, CheckHolds
    <3>2. loaded = Loaded /\ step = IF Loaded = "empty" THEN 8 ELSE 3
      BY <1>2, <1>3, <2>4, <3>1
    <3>3. Loaded \in {"record", "empty", "relaxed"} /\ (Loaded = "relaxed" => tree.frozen = "edited")
      BY <3>1 DEF Loaded, SelfInv, TreeTypeOK
    <3> QED BY <2>1, <2>2, <2>4, <3>2, <3>3 DEF HeldSoFar
  <2>5. CASE protect.at \in 3..7
    <3>1. step = protect.at + 1 /\ loaded = protect.loaded /\ c \notin {"untampered", "load"}
      BY <1>3, <2>5 DEF Checks
    <3>2. protect.at = 4 => Clean
      BY <2>1 DEF Checks, CheckHolds
    <3>3. protect.at = 3 => HeadMatches
      BY <2>1 DEF Checks, CheckHolds
    <3>4. protect.at = 6 => HashesMatch
      BY <2>1 DEF Checks, CheckHolds
    <3>5. loaded = "relaxed" => step \in 3..4 /\ tree.frozen = "edited"
      BY <2>1, <2>5, <3>1, <3>2 DEF HeldSoFar, Clean
    <3>6. loaded = "record" /\ step > 3 => tree.head \in {"same", "newer"}
      BY <2>1, <2>5, <3>1, <3>3 DEF HeldSoFar, HeadMatches
    <3>7. loaded = "record" /\ step > 6 => \A a \in Pinned : tree.bytes[a] # "other"
      BY <2>1, <2>5, <3>1, <3>4 DEF HeldSoFar, HashesMatch
    <3> QED BY <2>1, <2>2, <2>5, <3>1, <3>5, <3>6, <3>7 DEF HeldSoFar
  <2> QED BY <1>1, <2>3, <2>4, <2>5
<1> QED BY <1>1, <1>3, <1>4, <1>5 DEF SelfInv, ProtectedByTheRecord

LEMMA TamperKeeps == ASSUME MaxTamper \in {0, 1}, SelfInv, Tamper PROVE SelfInv'
<1>1. /\ gate' = gate /\ legs' = legs /\ protect' = protect /\ gate.stage = "self" /\ tree.edits = 0
  <2>1. tree.edits < MaxTamper /\ gate.stage = "self" /\ UNCHANGED <<protect, gate, legs>>
    BY DEF Tamper
  <2>2. tree.edits \in {0, 1}
    BY DEF SelfInv, TreeTypeOK
  <2> QED BY <2>1, <2>2
<1>2. /\ tree'.edits = 1 /\ tree'.head = tree.head /\ TreeTypeOK'
      /\ \A a \in Pinned : tree'.bytes[a] = "other" => tree.bytes[a] = "other"
  <2>1. CASE \E f \in {"head", "edited"} : tree' = [tree EXCEPT !.frozen = f, !.edits = @ + 1]
    BY <1>1, <2>1 DEF SelfInv, TreeTypeOK
  <2>2. ASSUME NEW b \in Pinned, tree' = [tree EXCEPT !.bytes[b] = "edited", !.edits = @ + 1]
        PROVE  <1>2!:
    BY <1>1, <2>2 DEF SelfInv, TreeTypeOK
  <2> QED BY <1>1, <2>1, <2>2 DEF Tamper
<1>3. HeldSoFar => HeldSoFar'
  BY <1>1, <1>2 DEF HeldSoFar
<1> QED BY <1>1, <1>2, <1>3 DEF SelfInv, ProtectedByTheRecord

-----------------------------------------------------------------------------
(* A stage is judged: what it leaves is in order if what it shows holds.    *)

Earned ==
    /\ gate.stage \in DOMAIN Following /\ gate'.stage \in {Following[gate.stage], "failed"}
    /\ gate'.unearned = gate.unearned /\ DOMAIN gate' = {"stage", "unearned", "old", "exit"}
    /\ tree' = tree /\ protect' = protect /\ legs' = legs

LEMMA EarnedKeeps == ASSUME SelfInv, Earned PROVE SelfInv'
<1>1. gate.stage \notin {"self", "failed"} /\ gate'.stage # "self"
  BY DEF Earned, Following
<1> QED BY <1>1 DEF Earned, SelfInv, TreeTypeOK, ProtectedByTheRecord

\* run_self_protection is over: the gate goes on only when every check held.
LEMMA ProtectEndsWell == ASSUME SelfInv, ProtectEnds PROVE SelfInv'
<1>1. /\ tree' = tree /\ protect' = protect /\ legs' = legs /\ gate.stage = "self" /\ protect.at = 8
  BY DEF ProtectEnds, SelfInv, TreeTypeOK, Checks
<1>2. PICK stage \in {"compile", "failed"} :
        gate' = [gate EXCEPT !.stage = stage] /\ (stage = "compile" => protect.bad = {})
  BY DEF ProtectEnds
<1>3. gate'.stage = stage /\ gate'.unearned = gate.unearned /\ DOMAIN gate' = DOMAIN gate
  BY <1>2 DEF SelfInv, TreeTypeOK
<1>4. ProtectedByTheRecord'
  BY <1>1, <1>2, <1>3 DEF SelfInv, HeldSoFar, ProtectedByTheRecord
<1> QED BY <1>1, <1>2, <1>3, <1>4 DEF SelfInv, TreeTypeOK

\* The log passes only when the verdict of every target reached it clean.
LEMMA CompileEarned == ASSUME SelfInv, JudgeCompile PROVE SelfInv'
<1>1. PICK result \in [Targets -> {"clean", "warning", "error"}], printed \in SUBSET Targets :
        Judged(CompileIsStrict(CompileLog(result, printed)), \A t \in Targets : result[t] = "clean")
  BY DEF JudgeCompile
<1>2. CompileIsStrict(CompileLog(result, printed)) => \A t \in Targets : result[t] = "clean"
  BY DEF CompileIsStrict, CompileLog
<1>3. Earned
  BY <1>1, <1>2 DEF JudgeCompile, Judged, JudgedFrom, Earned, Following, SelfInv
<1> QED BY <1>3, EarnedKeeps

LEMMA DslEarned == ASSUME SelfInv, JudgeDsl PROVE SelfInv'
<1>1. PICK r : Judged(ParityShown(r), r.exact = 14 /\ r.tamperRefused)
  BY DEF JudgeDsl
<1>2. ParityShown(r) => r.exact = 14 /\ r.tamperRefused
  BY DEF ParityShown
<1>3. Earned
  BY <1>1, <1>2 DEF JudgeDsl, Judged, JudgedFrom, Earned, Following, SelfInv
<1> QED BY <1>3, EarnedKeeps

\* A row of an export outside crypto stops the gate when it is pending or a mismatch.
LEMMA ParityIsTrue ==
    ASSUME NEW exports, NEW d \in Readable(exports), d.class # "CRYPTO", ParityInScope(BuildReport(exports))
    PROVE  TickValueTrue(d)
<1>1. \A s \in SizerStatus(d) : \E r \in BuildReport(exports) : r.status = s /\ r.crypto = FALSE
  <2> SUFFICES ASSUME NEW s \in SizerStatus(d)
               PROVE  \E r \in BuildReport(exports) : r.status = s /\ r.crypto = FALSE
    OBVIOUS
  <2>1. PICK r : r = [status |-> s, crypto |-> d.class = "CRYPTO"]
    OBVIOUS
  <2>2. r \in ParityRows(d)
    BY <2>1 DEF ParityRows
  <2>3. r \in BuildReport(exports)
    BY <2>2 DEF BuildReport
  <2>4. r.status = s /\ r.crypto = FALSE
    BY <2>1
  <2> QED BY <2>3, <2>4
<1>2. "PENDING" \notin SizerStatus(d) /\ "MISMATCH" \notin SizerStatus(d)
  BY <1>1 DEF ParityInScope
<1>3. Denomination(d) = "ACCOUNT_CURRENCY"
  BY <1>2 DEF SizerStatus, ReplayedFor
<1>4. d.probe = "ok" /\ d.witness > 0 /\ Agrees(d.atProbe, d.witness)
  BY <1>3 DEF Denomination
<1>5. 100 * Apart(d.witness, d.exported) <= Larger(d.exported, d.exported)
  BY <1>2, <1>3 DEF SizerStatus, ReplayedFor
<1> QED BY <1>4, <1>5 DEF TickValueTrue

LEMMA ParityEarned == ASSUME SelfInv, JudgeParity PROVE SelfInv'
<1>1. PICK d \in SomeExport, other \in OtherExports, died \in BOOLEAN :
        JudgedFrom(died, ParityExit({d, other}), ParityInScope(BuildReport({d, other})),
                   \A e \in Readable({d, other}) : e.class = "CRYPTO" \/ TickValueTrue(e))
  BY DEF JudgeParity
<1>2. ParityInScope(BuildReport({d, other})) =>
        \A e \in Readable({d, other}) : e.class = "CRYPTO" \/ TickValueTrue(e)
  BY ParityIsTrue
<1>3. Earned
  BY <1>1, <1>2 DEF JudgeParity, JudgedFrom, Earned, Following, SelfInv
<1> QED BY <1>3, EarnedKeeps

\* What was set reads back, and the bars read back are the fixture's.
LEMMA ImportEarned == ASSUME SelfInv, JudgeImport PROVE SelfInv'
<1>1. CASE \E staged \in SUBSET ({"name", "hash"} \X {"right", "empty"}), stray \in BOOLEAN :
             ~PresetIsExact(staged, stray) /\ Judged(FALSE, TRUE)
  <2>1. Earned
    BY <1>1 DEF JudgeImport, Judged, JudgedFrom, Earned, Following, SelfInv
  <2> QED BY <2>1, EarnedKeeps
<1>2. ASSUME NEW began \in BOOLEAN, NEW json \in BOOLEAN, NEW record \in ImportDocs,
             Judged(ImportOutcome(began, json, record, TRUE) = "import_ok",
                    record.roundtrip = "fixture" /\ record.readBack = "equal")
      PROVE  SelfInv'
  <2>1. ImportOutcome(began, json, record, TRUE) = "import_ok" =>
          record.roundtrip = "fixture" /\ record.readBack = "equal"
    BY DEF ImportOutcome, PropertiesVerified
  <2>2. Earned
    BY <1>2, <2>1 DEF JudgeImport, Judged, JudgedFrom, Earned, Following, SelfInv
  <2> QED BY <2>2, EarnedKeeps
<1> QED BY <1>1, <1>2 DEF JudgeImport

\* An export stamped inside the window was written in it, up to the second the run began in.
LEMMA ExportEarned == ASSUME SelfInv, JudgeExport PROVE SelfInv'
<1>1. PICK f \in [json : BOOLEAN, stamped : BOOLEAN, written : 0..RunStart + 3, build : BOOLEAN, symbol : BOOLEAN] :
        Judged(ExportIsFresh(f, RunStart + 3), f.written >= RunStart - 1 /\ f.symbol)
  BY DEF JudgeExport
<1>2. f.written \in Nat /\ RunStart \in Nat
  BY <1>1, FixtureAssumption
<1>3. ExportIsFresh(f, RunStart + 3) => f.written >= RunStart - 1 /\ f.symbol
  BY <1>2 DEF ExportIsFresh, InRunWindow, Stamp
<1>4. Earned
  BY <1>1, <1>3 DEF JudgeExport, Judged, JudgedFrom, Earned, Following, SelfInv
<1> QED BY <1>4, EarnedKeeps

\* The tester's first day leaves enough bars before it and cuts off no trade.
LEMMA StartIsRight ==
    ASSUME NEW f, f.days \in DayBars, f.firstTrade \in 0..3, StartDay(f) # 0
    PROVE  /\ BarOnly(f) => f.days[1] >= DslBars \/ EnoughBefore(f.days, StartDay(f))
           /\ f.firstTrade # 0 => f.firstTrade >= StartDay(f) \/ StartDay(f) = 1
<1>1. f.days \in Seq(Nat) /\ f.days # <<>>
  BY FixtureAssumption
<1>2. WarmupDay(f.days) \in Nat
  BY <1>1 DEF WarmupDay, FirstEnough
<1>3. f.days[1] >= DslBars \/ WarmupDay(f.days) = 0 \/ EnoughBefore(f.days, WarmupDay(f.days))
  BY DEF WarmupDay, FirstEnough
<1>4. BarOnly(f) => StartDay(f) = WarmupDay(f.days)
  BY DEF StartDay
<1>5. StartDay(f) = 1 \/ f.firstTrade = 0 \/ f.firstTrade >= StartDay(f)
  BY <1>2 DEF StartDay
<1> QED BY <1>3, <1>4, <1>5

LEMMA InputsEarned == ASSUME SelfInv, JudgeInputs PROVE SelfInv'
<1>1. ASSUME NEW f \in [manifest : BOOLEAN, timeframe : BOOLEAN, barHeader : BOOLEAN, tickKeys : BOOLEAN,
                        days : DayBars, firstTrade : 0..3],
             Judged(StartDay(f) # 0,
                    /\ BarOnly(f) => f.days[1] >= DslBars \/ EnoughBefore(f.days, StartDay(f))
                    /\ f.firstTrade # 0 => f.firstTrade >= StartDay(f) \/ StartDay(f) = 1)
      PROVE  SelfInv'
  <2>1. f.days \in DayBars /\ f.firstTrade \in 0..3
    OBVIOUS
  <2>2. Earned
    BY <1>1, <2>1, StartIsRight DEF JudgeInputs, Judged, JudgedFrom, Earned, Following, SelfInv
  <2> QED BY <2>2, EarnedKeeps
<1>2. CASE \E m \in [fields : BOOLEAN, mode : {"risk_percent_equity", "fixed"}, shortIsBool : {TRUE},
                     specs : 0..2, sameIdentity : BOOLEAN, sameTimeframe : BOOLEAN, longest : {0, 1, DslBars},
                     path : BOOLEAN, bundleIsStrategy : BOOLEAN],
              common, ownWritten \in BOOLEAN, own \in {"none", "old"} :
             LET bundle == Staged(common, ownWritten, own)
             IN JudgedFrom(bundle.read = "old", gate.exit, LegInputsDerived(m) /\ SelectorNamed(m) /\ bundle.ok,
                           m.specs = 1 /\ m.sameIdentity)
  <2>1. PICK m, common, ownWritten, own :
          JudgedFrom(Staged(common, ownWritten, own).read = "old", gate.exit,
                     LegInputsDerived(m) /\ SelectorNamed(m) /\ Staged(common, ownWritten, own).ok,
                     m.specs = 1 /\ m.sameIdentity)
    BY <1>2
  <2>2. LegInputsDerived(m) => m.specs = 1 /\ m.sameIdentity
    BY DEF LegInputsDerived
  <2>3. Earned
    BY <2>1, <2>2 DEF JudgeInputs, JudgedFrom, Earned, Following, SelfInv
  <2> QED BY <2>3, EarnedKeeps
<1> QED BY <1>1, <1>2 DEF JudgeInputs

-----------------------------------------------------------------------------
(* The tester legs: what a window shows of its own leg.                     *)

\* The truth of a leg: it generated bars and was neither refused nor without history; it passes
\* from its log on the model asked for and its own strategy.
TruthOf(t, out) ==
    /\ out \in {"BLOCKED_OWNER_ENVIRONMENT", "PASS_FROM_LOG"} =>
          t.bars = {5} /\ t.marks \cap {"refused", "no_history"} = {}
    /\ out = "PASS_FROM_LOG" => t.models = {"asked"} /\ t.loads = {"own"}

LegRuns == [marks : LegMarks, bars : {{}, {0}, {5}}, models : SUBSET {"asked", "other"}, loads : {{}, {"own"}}]

\* A line of another symbol's test is none of this leg's, whatever is appended while it runs.
LEMMA WindowOfLeg ==
    ASSUME NEW t \in LegRuns, NEW symbol, NEW stray \in SUBSET StrayLines(symbol), NEW found,
           found = OwnLines(t, symbol) \cup stray
    PROVE  /\ \A k \in t.marks : States(found, k)
           /\ ScopedBars(found, symbol) = {LogLine(symbol, n) : n \in t.bars}
           /\ StatedModels(found) = t.models
           /\ Names("loaded", "own") \in found => "own" \in t.loads
<1>1. \A k \in t.marks : States(found, k)
  BY DEF OwnLines, States
<1>2. \A l \in stray : l.kind \in {"finished", "quality", "loaded"} \/ (l.kind = "bars" /\ l.symbol # symbol)
  BY DEF StrayLines, Says, Names, LogLine
<1>3. \A n : LogLine(symbol, n).kind = "bars" /\ LogLine(symbol, n).symbol = symbol
  BY DEF LogLine
<1>4. \A k : Says(k).kind = k
  BY DEF Says
<1>5. \A k, m : Names(k, m).kind = k /\ Names(k, m).of = m /\ DOMAIN Names(k, m) = {"kind", "of"}
  BY DEF Names
<1>6. "bars" \notin t.marks /\ t.models \subseteq {"asked", "other"}
  BY DEF LegRuns, LegMarks
<1>7. ScopedBars(found, symbol) = {LogLine(symbol, n) : n \in t.bars}
  <2>1. \A l \in ScopedBars(found, symbol) : l \in {LogLine(symbol, n) : n \in t.bars}
    BY <1>2, <1>4, <1>5, <1>6 DEF ScopedBars, OwnLines
  <2>2. \A l \in {LogLine(symbol, n) : n \in t.bars} : l \in ScopedBars(found, symbol)
    BY <1>3 DEF ScopedBars, OwnLines
  <2> QED BY <2>1, <2>2
<1>8. \A m : Names("model", m) \in found <=> m \in t.models
  <2> SUFFICES ASSUME NEW m PROVE Names("model", m) \in found <=> m \in t.models
    OBVIOUS
  <2>1. Names("model", m) \notin stray
    BY <1>2, <1>5
  <2>2. \A k : Names("model", m) # Says(k)
    BY <1>5 DEF Says
  <2>3. \A n : Names("model", m) # LogLine(symbol, n)
    BY <1>3, <1>5
  <2>4. \A o : Names("model", m) = Names("model", o) => m = o
    BY <1>5
  <2>5. \A o : Names("model", m) # Names("loaded", o)
    BY <1>5
  <2> QED BY <2>1, <2>2, <2>3, <2>4, <2>5 DEF OwnLines
<1>9. StatedModels(found) = t.models
  BY <1>6, <1>8 DEF StatedModels
<1>10. Names("loaded", "own") \in found => "own" \in t.loads
  <2>1. Names("loaded", "own") \notin stray
    <3>1. \A l \in stray : l.kind = "loaded" => l.of = "other"
      BY DEF StrayLines, Says, Names, LogLine
    <3> QED BY <3>1, <1>5
  <2>2. \A k : Names("loaded", "own") # Says(k)
    BY <1>5 DEF Says
  <2>3. \A n : Names("loaded", "own") # LogLine(symbol, n)
    BY <1>3, <1>5
  <2>4. \A o : Names("loaded", "own") = Names("loaded", o) => o = "own"
    BY <1>5
  <2>5. \A o : Names("loaded", "own") # Names("model", o)
    BY <1>5
  <2> QED BY <2>1, <2>2, <2>3, <2>4, <2>5 DEF OwnLines
<1> QED BY <1>1, <1>7, <1>9, <1>10

LEMMA LegIsTrue ==
    ASSUME NEW t \in LegRuns, NEW symbol, NEW stray \in SUBSET StrayLines(symbol)
    PROVE  TruthOf(t, GradedFromLog(OwnLines(t, symbol) \cup stray, symbol))
<1> DEFINE found == OwnLines(t, symbol) \cup stray
           base == LegOutcome(found, symbol)
           out == GradedFromLog(found, symbol)
<1> HIDE DEF found
<1>1. /\ \A k \in t.marks : States(found, k)
      /\ ScopedBars(found, symbol) = {LogLine(symbol, n) : n \in t.bars}
      /\ StatedModels(found) = t.models
      /\ Names("loaded", "own") \in found => "own" \in t.loads
  BY WindowOfLeg DEF found
<1>2. base = "BLOCKED_OWNER_ENVIRONMENT" =>
        /\ ~States(found, "no_history") /\ ~States(found, "refused")
        /\ ScopedBars(found, symbol) # {} /\ \A l \in ScopedBars(found, symbol) : l.bars # 0
  BY DEF LegOutcome
<1>3. \A n : LogLine(symbol, n).bars = n
  BY DEF LogLine
<1>4. t.bars \in {{}, {0}, {5}} /\ t.loads \in {{}, {"own"}}
  BY DEF LegRuns
<1>5. base = "BLOCKED_OWNER_ENVIRONMENT" => t.bars = {5} /\ t.marks \cap {"refused", "no_history"} = {}
  BY <1>1, <1>2, <1>3, <1>4
<1>6. /\ out \in {"BLOCKED_OWNER_ENVIRONMENT", "PASS_FROM_LOG"} => base = "BLOCKED_OWNER_ENVIRONMENT"
      /\ out = "PASS_FROM_LOG" => StatedModels(found) = {"asked"} /\ Names("loaded", "own") \in found
  BY DEF GradedFromLog, LegOutcome
<1>7. TruthOf(t, out)
  BY <1>1, <1>4, <1>5, <1>6 DEF TruthOf
<1> QED BY <1>7 DEF found

LEMMA LegRunsTrue == ASSUME SelfInv, RunLeg PROVE SelfInv'
<1>1. tree' = tree /\ protect' = protect /\ gate' = gate
  BY DEF RunLeg
<1>2. DOMAIN legs' = {"outcomes", "false"} /\ legs'.false = FALSE
  <2>1. CASE \E model \in {"asked", "other", "unknown"} :
               legs' = [legs EXCEPT !.outcomes = Append(@, Confirmed(model))]
    BY <2>1 DEF SelfInv, TreeTypeOK
  <2>2. PICK symbol :
          \/ \E model \in {"asked", "other", "unknown"} :
                legs' = [legs EXCEPT !.outcomes = Append(@, Confirmed(model))]
          \/ \E t \in LegRuns, stray \in SUBSET StrayLines(symbol) :
                LET out == GradedFromLog(OwnLines(t, symbol) \cup stray, symbol)
                IN legs' = [outcomes |-> Append(legs.outcomes, out),
                            false |-> \/ legs.false
                                      \/ /\ out \in {"BLOCKED_OWNER_ENVIRONMENT", "PASS_FROM_LOG"}
                                         /\ t.bars # {5} \/ t.marks \cap {"refused", "no_history"} # {}
                                      \/ out = "PASS_FROM_LOG" /\ (t.models # {"asked"} \/ t.loads # {"own"})]
    BY Zenon DEF RunLeg, LegRuns
  <2>3. ASSUME NEW t \in LegRuns, NEW stray \in SUBSET StrayLines(symbol),
               LET out == GradedFromLog(OwnLines(t, symbol) \cup stray, symbol)
               IN legs' = [outcomes |-> Append(legs.outcomes, out),
                           false |-> \/ legs.false
                                     \/ /\ out \in {"BLOCKED_OWNER_ENVIRONMENT", "PASS_FROM_LOG"}
                                        /\ t.bars # {5} \/ t.marks \cap {"refused", "no_history"} # {}
                                     \/ out = "PASS_FROM_LOG" /\ (t.models # {"asked"} \/ t.loads # {"own"})]
        PROVE  DOMAIN legs' = {"outcomes", "false"} /\ legs'.false = FALSE
    <3>1. PICK out : out = GradedFromLog(OwnLines(t, symbol) \cup stray, symbol)
      OBVIOUS
    <3>2. TruthOf(t, out)
      BY <3>1, LegIsTrue
    <3>3. ~(\/ legs.false
            \/ /\ out \in {"BLOCKED_OWNER_ENVIRONMENT", "PASS_FROM_LOG"}
               /\ t.bars # {5} \/ t.marks \cap {"refused", "no_history"} # {}
            \/ out = "PASS_FROM_LOG" /\ (t.models # {"asked"} \/ t.loads # {"own"}))
      BY <3>2 DEF TruthOf, SelfInv
    <3> QED BY <2>3, <3>1, <3>3
  <2> QED BY <2>1, <2>2, <2>3, Zenon
<1> QED BY <1>1, <1>2 DEF SelfInv, TreeTypeOK, HeldSoFar, ProtectedByTheRecord

LEMMA LegSkipped == ASSUME SelfInv, SkipLeg PROVE SelfInv'
<1>1. /\ tree' = tree /\ protect' = protect /\ gate' = gate
      /\ DOMAIN legs' = {"outcomes", "false"} /\ legs'.false = FALSE
  BY DEF SkipLeg, SelfInv, TreeTypeOK
<1> QED BY <1>1 DEF SelfInv, TreeTypeOK, HeldSoFar, ProtectedByTheRecord

LEMMA LegsEarned == ASSUME SelfInv, LegsJudged PROVE SelfInv'
<1>1. PICK intact \in BOOLEAN : Judged(LegsPass(intact), intact /\ ~legs.false)
  BY DEF LegsJudged
<1>2. LegsPass(intact) => intact /\ ~legs.false
  BY DEF LegsPass, SelfInv
<1>3. Earned
  BY <1>1, <1>2 DEF LegsJudged, Judged, JudgedFrom, Earned, Following, SelfInv
<1> QED BY <1>3, EarnedKeeps

\* gate_selfcheck.py: when the tree is edited once at most while the checks run, a gate that goes on
\* judged its artifacts by the record committed at HEAD; and for any artifacts, targets, fixtures,
\* exports, documents, logs and legs no stage passes on a false showing.
THEOREM SelfcheckEarned ==
    ASSUME MaxTamper \in {0, 1} PROVE SelfSpec => []SelfcheckIsEarned
<1>1. SelfInv /\ [SelfNext]_selfVars => SelfInv'
  <2> SUFFICES ASSUME SelfInv, [SelfNext]_selfVars PROVE SelfInv'
    OBVIOUS
  <2>1. CASE UNCHANGED selfVars
    BY <2>1 DEF selfVars, SelfInv, TreeTypeOK, HeldSoFar, ProtectedByTheRecord
  <2> QED BY <2>1, ChecksHold, ProtectEndsWell, TamperKeeps, CompileEarned, DslEarned, ParityEarned, ImportEarned,
             ExportEarned, InputsEarned, LegSkipped, LegRunsTrue, LegsEarned DEF SelfNext
<1>2. SelfInv => SelfcheckIsEarned
  BY DEF SelfInv, SelfcheckIsEarned
<1> QED BY <1>1, <1>2, SelfStart, PTL DEF SelfSpec

-----------------------------------------------------------------------------
(* SafetyLegs: the lines, and what a step appends. *)

LegSpec == LegInit /\ [][LegNext]_legVars

Words == {"request", "latch", "daily_loss", "meta", "stripped", "restored", "closed", "suppressed", "dropped",
          "open_queued", "open_retry", "open_retry_giveup", "open_verified", "start", "opened", "heartbeat", "snapshot"}
Ids == Nat \cup {"c1", "c2", "after_A", "after_B", "after_F"}
PrintedLine == [at : Nat, what : Words, id : Ids, x : Nat, y : Nat]

\* No line is of a later second.
Lined == /\ window \in Seq(PrintedLine) /\ bar \in Nat \ {0}
         /\ \A i \in DOMAIN window : window[i].at <= bar

EaTyped == ea \in [stopped : Nat, bare : SUBSET Nat, queued : SUBSET {"c1", "c2"}, own : {0, 1},
                   mode : {"netting", "hedging"}]

LEMMA FirstOfIs == ASSUME NEW S \in SUBSET Nat, NEW m \in S, \A j \in S : m <= j PROVE FirstOf(S) = m
<1>1. FirstOf(S) \in S /\ \A j \in S : FirstOf(S) <= j
  BY DEF FirstOf
<1>2. FirstOf(S) \in Nat /\ m \in Nat /\ FirstOf(S) <= m /\ m <= FirstOf(S)
  BY <1>1
<1> QED
  BY <1>2

LEMMA LastOfIs == ASSUME NEW S \in SUBSET Nat, NEW m \in S, \A j \in S : j <= m PROVE LastOf(S) = m
<1>1. LastOf(S) \in S /\ \A j \in S : j <= LastOf(S)
  BY DEF LastOf
<1>2. LastOf(S) \in Nat /\ m \in Nat /\ LastOf(S) <= m /\ m <= LastOf(S)
  BY <1>1
<1> QED
  BY <1>2

LEMMA StampedIs ==
    ASSUME Lined, NEW what \in Words, NEW id \in Ids, NEW x \in Nat, NEW y \in Nat
    PROVE  /\ Stamped(what, id, x, y) \in PrintedLine
           /\ Stamped(what, id, x, y).at = bar /\ Stamped(what, id, x, y).what = what
           /\ Stamped(what, id, x, y).id = id /\ Stamped(what, id, x, y).x = x /\ Stamped(what, id, x, y).y = y
BY DEF Stamped, PrintedLine, Lined

\* The window after a step: the old lines, and the new ones stamped with the bar.
LEMMA Appended ==
    ASSUME Lined, NEW ls \in Seq(PrintedLine), \A k \in DOMAIN ls : ls[k].at = bar, Prints(ls), NextBar, Stays
    PROVE  /\ Lined' /\ bar' \in {bar, bar + 1} /\ UNCHANGED <<leg, baseline>>
           /\ \A i \in DOMAIN window : i \in DOMAIN window' /\ window'[i] = window[i]
           /\ \A k \in DOMAIN ls : Len(window) + k \in DOMAIN window' /\ Len(window) + k \notin DOMAIN window
                                   /\ window'[Len(window) + k] = ls[k]
           /\ \A i \in DOMAIN window' : i \in DOMAIN window \/ i - Len(window) \in DOMAIN ls
           /\ DOMAIN window = 1..Len(window) /\ Len(window) \in Nat
           /\ DOMAIN window' = 1..(Len(window) + Len(ls)) /\ DOMAIN ls = 1..Len(ls) /\ Len(ls) \in Nat
<1>1. window \in Seq(PrintedLine) /\ bar \in Nat /\ window' = window \o ls /\ bar' \in {bar, bar + 1} /\ bar' \in Nat \ {0}
  BY DEF Lined, Prints, NextBar
<1>2. window' \in Seq(PrintedLine) /\ Len(window') = Len(window) + Len(ls)
      /\ Len(window) \in Nat /\ Len(ls) \in Nat /\ DOMAIN window = 1..Len(window) /\ DOMAIN ls = 1..Len(ls)
      /\ DOMAIN window' = 1..(Len(window) + Len(ls))
  BY <1>1
<1>3. \A i \in DOMAIN window : i \in DOMAIN window' /\ window'[i] = window[i]
  BY <1>1, <1>2
<1>4. ASSUME NEW i \in DOMAIN window', i \notin DOMAIN window
      PROVE  i - Len(window) \in DOMAIN ls /\ window'[i] = ls[i - Len(window)] /\ window'[i].at = bar
  <2>1. i - Len(window) \in DOMAIN ls
    BY <1>2, <1>4
  <2>2. window'[i] = ls[i - Len(window)]
    BY <1>1, <1>2, <1>4
  <2> QED
    BY <2>1, <2>2
<1>5. ASSUME NEW k \in DOMAIN ls
      PROVE  /\ Len(window) + k \in DOMAIN window' /\ Len(window) + k \notin DOMAIN window
             /\ window'[Len(window) + k] = ls[k]
  <2>1. Len(window) + k \in DOMAIN window' /\ Len(window) + k \notin DOMAIN window /\ (Len(window) + k) - Len(window) = k
    BY <1>2
  <2> QED
    BY <2>1, <1>4
<1>6. ASSUME NEW i \in DOMAIN window' PROVE window'[i].at <= bar'
  <2>1. CASE i \in DOMAIN window
    <3>1. window'[i] = window[i] /\ window[i].at <= bar /\ window[i] \in PrintedLine
      BY <1>1, <1>2, <1>3, <2>1 DEF Lined
    <3>2. window[i].at \in Nat
      BY <3>1 DEF PrintedLine
    <3> QED
      BY <3>1, <3>2, <1>1
  <2>2. CASE i \notin DOMAIN window
    BY <1>1, <1>4, <2>2
  <2> QED
    BY <2>1, <2>2
<1>7. Lined'
  BY <1>1, <1>2, <1>6 DEF Lined, Stays
<1> QED
  BY <1>1, <1>2, <1>3, <1>4, <1>5, <1>7 DEF Stays

LEMMA PairIs == ASSUME NEW S, NEW m \in S, NEW q \in S PROVE <<m>> \o <<q>> = <<m, q>>
<1> DEFINE t == <<m>> \o <<q>>
           u == <<m, q>>
<1>1. t \in Seq(S) /\ Len(t) = 2 /\ t[1] = m /\ t[2] = q
  <2>1. <<m>> \in Seq(S) /\ <<q>> \in Seq(S) /\ Len(<<m>>) = 1 /\ Len(<<q>>) = 1 /\ <<m>>[1] = m /\ <<q>>[1] = q
    OBVIOUS
  <2> QED
    BY <2>1
<1>2. u \in Seq(S) /\ Len(u) = 2 /\ u[1] = m /\ u[2] = q
  OBVIOUS
<1> HIDE DEF t, u
<1>3. Len(t) = Len(u) /\ \A i \in 1..Len(t) : t[i] = u[i]
  BY <1>1, <1>2
<1>4. t = u
  BY <1>1, <1>2, <1>3
<1> QED
  BY <1>4 DEF t, u

LEMMA AppendedOne ==
    ASSUME Lined, NEW l \in PrintedLine, l.at = bar, Prints(<<l>>), NextBar, Stays
    PROVE  /\ Lined' /\ bar' \in {bar, bar + 1} /\ UNCHANGED <<leg, baseline>>
           /\ \A i \in DOMAIN window : i \in DOMAIN window' /\ window'[i] = window[i] /\ i \in Nat /\ i < Len(window) + 1
           /\ DOMAIN window' = DOMAIN window \cup {Len(window) + 1} /\ Len(window) + 1 \notin DOMAIN window
           /\ window'[Len(window) + 1] = l /\ Len(window) \in Nat /\ Len(window') = Len(window) + 1
<1> DEFINE ls == <<l>>
<1>1. ls \in Seq(PrintedLine) /\ Len(ls) = 1 /\ ls[1] = l
  OBVIOUS
<1>2. Prints(ls) /\ DOMAIN ls = 1..1
  BY <1>1
<1> HIDE DEF ls
<1>3. \A k \in DOMAIN ls : ls[k].at = bar
  BY <1>1, <1>2
<1>4. /\ Lined' /\ bar' \in {bar, bar + 1} /\ UNCHANGED <<leg, baseline>>
      /\ \A i \in DOMAIN window : i \in DOMAIN window' /\ window'[i] = window[i]
      /\ \A k \in DOMAIN ls : Len(window) + k \in DOMAIN window' /\ Len(window) + k \notin DOMAIN window
                              /\ window'[Len(window) + k] = ls[k]
      /\ DOMAIN window = 1..Len(window) /\ Len(window) \in Nat /\ DOMAIN window' = 1..(Len(window) + Len(ls))
  BY <1>1, <1>2, <1>3, Appended
<1>5. DOMAIN window' = DOMAIN window \cup {Len(window) + 1}
  BY <1>1, <1>4
<1>6. Len(window') = Len(window) + 1
  BY <1>1, <1>2 DEF Prints, Lined
<1> QED
  BY <1>1, <1>2, <1>4, <1>5, <1>6

LEMMA AppendedTwo ==
    ASSUME Lined, NEW l \in PrintedLine, NEW r \in PrintedLine, l.at = bar, r.at = bar, Prints(<<l, r>>), NextBar, Stays
    PROVE  /\ Lined' /\ bar' \in {bar, bar + 1} /\ UNCHANGED <<leg, baseline>>
           /\ \A i \in DOMAIN window : i \in DOMAIN window' /\ window'[i] = window[i] /\ i \in Nat /\ i < Len(window) + 1
           /\ DOMAIN window' = DOMAIN window \cup {Len(window) + 1, Len(window) + 2}
           /\ Len(window) + 1 \notin DOMAIN window /\ Len(window) + 2 \notin DOMAIN window
           /\ window'[Len(window) + 1] = l /\ window'[Len(window) + 2] = r /\ Len(window) \in Nat
<1> DEFINE ls == <<l, r>>
<1>1. ls \in Seq(PrintedLine) /\ Len(ls) = 2 /\ ls[1] = l /\ ls[2] = r
  OBVIOUS
<1>2. Prints(ls) /\ DOMAIN ls = 1..2
  BY <1>1
<1> HIDE DEF ls
<1>3. \A k \in DOMAIN ls : ls[k].at = bar
  BY <1>1, <1>2
<1>4. /\ Lined' /\ bar' \in {bar, bar + 1} /\ UNCHANGED <<leg, baseline>>
      /\ \A i \in DOMAIN window : i \in DOMAIN window' /\ window'[i] = window[i]
      /\ \A k \in DOMAIN ls : Len(window) + k \in DOMAIN window' /\ Len(window) + k \notin DOMAIN window
                              /\ window'[Len(window) + k] = ls[k]
      /\ DOMAIN window = 1..Len(window) /\ Len(window) \in Nat /\ DOMAIN window' = 1..(Len(window) + Len(ls))
  BY <1>1, <1>2, <1>3, Appended
<1>5. DOMAIN window' = DOMAIN window \cup {Len(window) + 1, Len(window) + 2}
  BY <1>1, <1>4
<1> QED
  BY <1>1, <1>2, <1>4, <1>5

\* A step in which nothing happens.
LEMMA Unstirred ==
    ASSUME Lined, Quiet, NextBar, Stays
    PROVE  Lined' /\ UNCHANGED <<leg, baseline, window, ea, real>> /\ bar' \in {bar, bar + 1} /\ bar \in Nat
<1>1. ASSUME NEW i \in DOMAIN window PROVE window[i].at <= bar'
  <2>1. window[i] \in PrintedLine /\ window[i].at <= bar /\ bar \in Nat
    BY DEF Lined
  <2>2. window[i].at \in Nat
    BY <2>1 DEF PrintedLine
  <2> QED
    BY <2>1, <2>2 DEF NextBar
<1> QED
  BY <1>1 DEF Lined, Quiet, NextBar, Stays

-----------------------------------------------------------------------------
(* SafetyLegs: the kill switch and the daily loss. *)

Hook == IF leg = "kill_switch" THEN "latch" ELSE "daily_loss"
Tripping == leg \in {"kill_switch", "risk_veto"}

\* The hook tripped at one bar, and its one line says so; a wrong is in the log.
TripInv ==
    /\ ea.stopped \in Nat /\ ea.stopped <= bar /\ real \subseteq {"unblocked", "entered", "entered_at_once"}
    /\ ea.stopped = 0 => real = {}
    /\ \A i, j \in Of(Hook) : i = j
    /\ \A i \in Of(Hook) : window[i].at = ea.stopped /\ ea.stopped # 0
    /\ "unblocked" \in real => leg = "kill_switch" /\ \A i \in Of(Hook) : window[i].x # 0
    /\ "entered" \in real =>
         /\ ea.stopped # 0
         /\ \E j \in Of("request") : /\ window[j].at > ea.stopped
                                     /\ leg = "kill_switch" \/ DayOf(window[j].at) = DayOf(ea.stopped)

LEMMA TripEnters == ASSUME Lined, EaTyped, Tripping, TripInv, Enters, NextBar, Stays PROVE Lined' /\ TripInv'
<1> DEFINE late == IF bar = ea.stopped THEN "entered_at_once" ELSE "entered"
<1>1. Hook \in Words /\ Hook # "request" /\ bar \in Nat /\ bar # 0
  BY DEF Hook, Words, Lined
<1>2. PICK blocks \in {0, 1} :
        \/ /\ ea.stopped = 0
           /\ Prints(<<Stamped("request", 0, 1, 0), Stamped(Hook, 0, blocks, 0)>>)
           /\ ea' = [ea EXCEPT !.stopped = bar]
           /\ WentWrong("unblocked", leg = "kill_switch" /\ blocks = 1)
        \/ /\ ea.stopped # 0 /\ blocks = 0
           /\ Prints(<<Stamped("request", 0, 1, 0)>>)
           /\ ea' = ea
           /\ WentWrong(late, leg = "kill_switch" \/ DayOf(bar) = DayOf(ea.stopped))
  BY DEF Enters, Hook
<1> DEFINE n == Len(window) + 1
           q == Stamped("request", 0, 1, 0)
           h == Stamped(Hook, 0, blocks, 0)
<1>3. /\ q \in PrintedLine /\ q.at = bar /\ q.what = "request"
      /\ h \in PrintedLine /\ h.at = bar /\ h.what = Hook /\ h.x = blocks
  <2>1. 0 \in Ids /\ 0 \in Nat /\ 1 \in Nat /\ blocks \in Nat /\ "request" \in Words
    BY DEF Ids, Words
  <2> QED
    BY <1>1, <2>1, StampedIs
<1>4. CASE /\ ea.stopped = 0
           /\ Prints(<<q, h>>)
           /\ ea' = [ea EXCEPT !.stopped = bar]
           /\ WentWrong("unblocked", leg = "kill_switch" /\ blocks = 1)
  <2> HIDE DEF q, h
  <2>1. /\ Lined' /\ bar' \in {bar, bar + 1} /\ UNCHANGED <<leg, baseline>>
        /\ \A i \in DOMAIN window : i \in DOMAIN window' /\ window'[i] = window[i] /\ i \in Nat /\ i < Len(window) + 1
        /\ DOMAIN window' = DOMAIN window \cup {Len(window) + 1, Len(window) + 2}
        /\ window'[Len(window) + 1] = q /\ window'[Len(window) + 2] = h /\ Len(window) \in Nat
    BY <1>3, <1>4, AppendedTwo
  <2>2. Hook' = Hook /\ Of(Hook)' = {Len(window) + 2}
    <3>1. Of(Hook) = {}
      BY <1>4 DEF TripInv
    <3>2. Hook' = Hook
      BY <2>1 DEF Hook
    <3> QED
      BY <1>1, <1>3, <2>1, <3>1, <3>2 DEF Of
  <2>3. ea'.stopped = bar
    BY <1>4 DEF EaTyped
  <2>4. real' \subseteq {"unblocked"} /\ ("unblocked" \in real' => leg = "kill_switch" /\ blocks = 1)
    BY <1>4 DEF WentWrong, TripInv
  <2> QED
    BY <1>1, <1>3, <2>1, <2>2, <2>3, <2>4 DEF TripInv
<1>5. CASE /\ ea.stopped # 0 /\ blocks = 0
           /\ Prints(<<q>>)
           /\ ea' = ea
           /\ WentWrong(late, leg = "kill_switch" \/ DayOf(bar) = DayOf(ea.stopped))
  <2> HIDE DEF q
  <2>1. /\ Lined' /\ bar' \in {bar, bar + 1} /\ UNCHANGED <<leg, baseline>>
        /\ \A i \in DOMAIN window : i \in DOMAIN window' /\ window'[i] = window[i] /\ i \in Nat /\ i < Len(window) + 1
        /\ DOMAIN window' = DOMAIN window \cup {Len(window) + 1}
        /\ window'[Len(window) + 1] = q /\ Len(window) \in Nat
    BY <1>3, <1>5, AppendedOne
  <2>2. Hook' = Hook
    BY <2>1 DEF Hook
  <2>3. Of(Hook)' = Of(Hook) /\ \A i \in Of(Hook) : window'[i] = window[i]
    BY <1>1, <1>3, <2>1, <2>2 DEF Of
  <2>4. /\ ea'.stopped \in Nat /\ ea'.stopped <= bar' /\ real' \subseteq {"unblocked", "entered", "entered_at_once"}
        /\ real' \in {real, real \cup {late}} /\ late \in {"entered", "entered_at_once"}
    BY <1>1, <1>5, <2>1 DEF TripInv, WentWrong
  <2>5. ASSUME "entered" \in real'
        PROVE  \E j \in Of("request")' : /\ window'[j].at > ea'.stopped
                                         /\ leg' = "kill_switch" \/ DayOf(window'[j].at) = DayOf(ea'.stopped)
    <3>1. CASE "entered" \in real
      <4>1. PICK j \in Of("request") : /\ window[j].at > ea.stopped
                                       /\ leg = "kill_switch" \/ DayOf(window[j].at) = DayOf(ea.stopped)
        BY <3>1 DEF TripInv
      <4>2. j \in Of("request")' /\ window'[j] = window[j]
        BY <2>1 DEF Of
      <4> QED
        BY <1>5, <2>1, <4>1, <4>2
    <3>2. CASE late = "entered" /\ (leg = "kill_switch" \/ DayOf(bar) = DayOf(ea.stopped))
      <4>1. Len(window) + 1 \in Of("request")' /\ window'[Len(window) + 1].at = bar /\ bar > ea.stopped
        BY <1>1, <1>3, <2>1, <3>2 DEF Of, TripInv
      <4> QED
        BY <1>5, <2>1, <3>2, <4>1
    <3> QED
      BY <1>5, <2>5, <3>1, <3>2 DEF WentWrong
  <2>6. /\ \A i, j \in Of(Hook)' : i = j
        /\ \A i \in Of(Hook)' : window'[i].at = ea'.stopped /\ ea'.stopped # 0
        /\ "unblocked" \in real' => leg' = "kill_switch" /\ \A i \in Of(Hook)' : window'[i].x # 0
    BY <1>5, <2>1, <2>3, <2>4 DEF TripInv
  <2> QED
    BY <1>5, <2>1, <2>2, <2>4, <2>5, <2>6 DEF TripInv
<1> QED
  BY <1>2, <1>4, <1>5

LEMMA TripQuiet == ASSUME Lined, Tripping, TripInv, Quiet, NextBar, Stays PROVE Lined' /\ TripInv'
<1>1. Lined' /\ UNCHANGED <<leg, baseline, window, ea, real>> /\ bar' \in {bar, bar + 1} /\ bar \in Nat
  BY Unstirred
<1>2. ea'.stopped \in Nat /\ ea'.stopped <= bar'
  BY <1>1 DEF TripInv
<1> QED
  BY <1>1, <1>2 DEF TripInv, Of, Hook, DayOf, DayLength

LEMMA TripShown ==
    ASSUME Lined, Tripping, TripInv, Grade = "PASS"
    PROVE  real \subseteq {"entered_at_once"} /\ \E b \in baseline : b > ea.stopped
<1>1. Of(Hook) \subseteq Nat
  BY DEF Of, Lined
<1>2. CASE leg = "kill_switch"
  <2>1. Hook = "latch" /\ Grade = GradeKillSwitch
    BY <1>2 DEF Hook, Grade
  <2>2. Of("latch") # {}
    BY <2>1 DEF GradeKillSwitch
  <2>3. PICK i \in Of("latch") : TRUE
    BY <2>2
  <2>4. FirstOf(Of("latch")) = i
    BY <1>1, <2>1, <2>3, FirstOfIs DEF TripInv
  <2>5. window[i].x = 0 /\ Later(i) = {} /\ BaselineLater(i) # {}
    BY <2>1, <2>2, <2>4 DEF GradeKillSwitch
  <2>6. window[i].at = ea.stopped
    BY <2>1, <2>3 DEF TripInv
  <2>7. "unblocked" \notin real /\ "entered" \notin real
    BY <2>1, <2>3, <2>5, <2>6 DEF TripInv, Later
  <2> QED
    BY <2>5, <2>6, <2>7 DEF BaselineLater, TripInv
<1>3. CASE leg = "risk_veto"
  <2>1. Hook = "daily_loss" /\ Grade = GradeRiskVeto
    BY <1>3 DEF Hook, Grade
  <2>2. Of("daily_loss") # {}
    BY <2>1 DEF GradeRiskVeto
  <2>3. PICK i \in Of("daily_loss") : TRUE
    BY <2>2
  <2>4. FirstOf(Of("daily_loss")) = i
    BY <1>1, <2>1, <2>3, FirstOfIs DEF TripInv
  <2>5. /\ ~\E j \in Later(i) : DayOf(window[j].at) = DayOf(window[i].at)
        /\ \E b \in BaselineLater(i) : DayOf(b) = DayOf(window[i].at)
    BY <2>1, <2>2, <2>4 DEF GradeRiskVeto
  <2>6. window[i].at = ea.stopped
    BY <2>1, <2>3 DEF TripInv
  <2>7. "unblocked" \notin real /\ "entered" \notin real
    BY <1>3, <2>1, <2>3, <2>5, <2>6 DEF TripInv, Later
  <2> QED
    BY <2>5, <2>6, <2>7 DEF BaselineLater, TripInv
<1> QED
  BY <1>2, <1>3 DEF Tripping

-----------------------------------------------------------------------------
(* SafetyLegs: the sizes after the meta layer. *)

\* The first send of its second.
Leads(j) == \A k \in Of("request") : window[k].at = window[j].at => j <= k

\* What went over the approval, not behind another send, stands in the lines of its second.
MetaInv ==
    /\ real \subseteq {"over", "over_behind"}
    /\ "over" \in real =>
         \E i \in Of("meta") :
            \/ window[i].y > window[i].x
            \/ \E j \in Of("request") : window[j].at = window[i].at /\ window[j].x > window[i].x /\ Leads(j)

LEMMA MetaSizes == ASSUME Lined, MetaInv, Sizes, NextBar, Stays PROVE Lined' /\ MetaInv'
<1> DEFINE wrong(final, approved) ==
             IF final <= approved /\ \E j \in Of("request") : window[j].at = bar THEN "over_behind" ELSE "over"
<1>1. PICK approved \in 0..2, final \in 0..2, sent \in 0..2 :
        /\ Prints(<<Stamped("meta", 0, approved, final)>>
                  \o IF sent = 0 THEN <<>> ELSE <<Stamped("request", 0, sent, 0)>>)
        /\ WentWrong(wrong(final, approved), final > approved \/ sent > approved)
  BY DEF Sizes
<1> DEFINE m == Stamped("meta", 0, approved, final)
           q == Stamped("request", 0, sent, 0)
<1>2. /\ m \in PrintedLine /\ m.at = bar /\ m.what = "meta" /\ m.x = approved /\ m.y = final
      /\ q \in PrintedLine /\ q.at = bar /\ q.what = "request" /\ q.x = sent
      /\ approved \in Nat /\ final \in Nat /\ sent \in Nat
  <2>1. 0 \in Ids /\ 0 \in Nat /\ approved \in Nat /\ final \in Nat /\ sent \in Nat /\ "request" \in Words /\ "meta" \in Words
    BY DEF Ids, Words
  <2> QED
    BY <2>1, StampedIs
<1>3. Prints(<<m>> \o IF sent = 0 THEN <<>> ELSE <<q>>)
  BY <1>1
<1>4. /\ real' \subseteq {"over", "over_behind"}
      /\ "over" \in real' => \/ "over" \in real \/ final > approved
                             \/ sent > approved /\ ~\E j \in Of("request") : window[j].at = bar
  BY <1>1, <1>2 DEF MetaInv, WentWrong
<1> HIDE DEF m, q
<1>5. ASSUME NEW j \in Of("request"), Leads(j), DOMAIN window' = DOMAIN window \cup {Len(window) + 1, Len(window) + 2},
             \A i \in DOMAIN window : window'[i] = window[i] /\ i \in Nat /\ i < Len(window) + 1, Len(window) \in Nat
      PROVE  Leads(j)'
  <2>1. j \in DOMAIN window /\ j \in Nat /\ window'[j] = window[j] /\ j < Len(window) + 1
    BY <1>5 DEF Of
  <2>2. ASSUME NEW k \in Of("request")', window'[k].at = window'[j].at PROVE j <= k
    <3>1. CASE k \in DOMAIN window
      BY <1>5, <2>1, <2>2, <3>1 DEF Of, Leads
    <3>2. CASE k \in {Len(window) + 1, Len(window) + 2}
      BY <1>5, <2>1, <3>2
    <3> QED
      BY <1>5, <2>2, <3>1, <3>2 DEF Of
  <2> QED
    BY <2>2 DEF Leads
<1>6. CASE sent = 0
  <2>1. Prints(<<m>>)
    <3>1. <<m>> \o <<>> = <<m>>
      OBVIOUS
    <3> QED
      BY <1>3, <1>6, <3>1
  <2>2. /\ Lined' /\ bar' \in {bar, bar + 1} /\ UNCHANGED <<leg, baseline>>
        /\ \A i \in DOMAIN window : i \in DOMAIN window' /\ window'[i] = window[i] /\ i \in Nat /\ i < Len(window) + 1
        /\ DOMAIN window' = DOMAIN window \cup {Len(window) + 1}
        /\ window'[Len(window) + 1] = m /\ Len(window) \in Nat
    BY <1>2, <2>1, AppendedOne
  <2>3. Of("request")' = Of("request") /\ Of("meta") \subseteq Of("meta")' /\ Len(window) + 1 \in Of("meta")'
    BY <1>2, <2>2 DEF Of
  <2>4. \A i \in Of("request") \cup Of("meta") : i \in DOMAIN window /\ window'[i] = window[i]
    BY <2>2 DEF Of
  <2>5. \A j \in Of("request") : Leads(j) => Leads(j)'
    BY <2>3, <2>4 DEF Leads
  <2>6. ASSUME "over" \in real'
        PROVE  \E i \in Of("meta")' :
                  \/ window'[i].y > window'[i].x
                  \/ \E j \in Of("request")' : window'[j].at = window'[i].at /\ window'[j].x > window'[i].x /\ Leads(j)'
    <3>1. CASE "over" \in real
      BY <2>3, <2>4, <2>5, <3>1 DEF MetaInv
    <3>2. CASE final > approved
      BY <1>2, <2>2, <2>3, <3>2
    <3> QED
      BY <1>2, <1>4, <1>6, <2>6, <3>1, <3>2
  <2> QED
    BY <1>4, <2>2, <2>6 DEF MetaInv
<1>7. CASE sent # 0
  <2>1. Prints(<<m, q>>)
    <3>1. <<m>> \o <<q>> = <<m, q>>
      BY <1>2, PairIs
    <3> QED
      BY <1>3, <1>7, <3>1
  <2>2. /\ Lined' /\ bar' \in {bar, bar + 1} /\ UNCHANGED <<leg, baseline>>
        /\ \A i \in DOMAIN window : i \in DOMAIN window' /\ window'[i] = window[i] /\ i \in Nat /\ i < Len(window) + 1
        /\ DOMAIN window' = DOMAIN window \cup {Len(window) + 1, Len(window) + 2}
        /\ window'[Len(window) + 1] = m /\ window'[Len(window) + 2] = q /\ Len(window) \in Nat
    BY <1>2, <2>1, AppendedTwo
  <2>3. Of("request")' = Of("request") \cup {Len(window) + 2} /\ Of("meta") \subseteq Of("meta")' /\ Len(window) + 1 \in Of("meta")'
    BY <1>2, <2>2 DEF Of
  <2>4. \A i \in Of("request") \cup Of("meta") : i \in DOMAIN window /\ window'[i] = window[i]
    BY <2>2 DEF Of
  <2>5. \A j \in Of("request") : Leads(j) => Leads(j)'
    BY <1>5, <2>2
  <2>n. PICK n : n = Len(window) + 2
    OBVIOUS
  <2>6. ASSUME ~\E j \in Of("request") : window[j].at = bar PROVE Leads(n)'
    <3>1. window'[n].at = bar
      BY <1>2, <2>2, <2>n
    <3>2. \A k \in Of("request") : window'[k].at # bar
      BY <2>4, <2>6
    <3>3. \A k \in Of("request")' : window'[k].at = bar => k = n
      BY <2>3, <2>n, <3>2
    <3>4. n <= n
      BY <2>2, <2>n
    <3> QED
      BY <3>1, <3>3, <3>4 DEF Leads
  <2>7. ASSUME "over" \in real'
        PROVE  \E i \in Of("meta")' :
                  \/ window'[i].y > window'[i].x
                  \/ \E j \in Of("request")' : window'[j].at = window'[i].at /\ window'[j].x > window'[i].x /\ Leads(j)'
    <3>1. CASE "over" \in real
      BY <2>3, <2>4, <2>5, <3>1 DEF MetaInv
    <3>2. CASE final > approved
      BY <1>2, <2>2, <2>3, <3>2
    <3>3. CASE sent > approved /\ ~\E j \in Of("request") : window[j].at = bar
      <4>1. Len(window) + 1 \in Of("meta")' /\ n \in Of("request")'
            /\ window'[n].at = window'[Len(window) + 1].at
            /\ window'[n].x > window'[Len(window) + 1].x /\ Leads(n)'
        BY <1>2, <2>2, <2>3, <2>n, <2>6, <3>3
      <4> QED
        BY <4>1
    <3> QED
      BY <1>4, <2>7, <3>1, <3>2, <3>3
  <2> QED
    BY <1>4, <2>2, <2>7 DEF MetaInv
<1> QED
  BY <1>6, <1>7

LEMMA MetaQuiet == ASSUME Lined, MetaInv, Quiet, NextBar, Stays PROVE Lined' /\ MetaInv'
<1>1. Lined' /\ UNCHANGED <<window, real>>
  BY Unstirred
<1>2. Of("request")' = Of("request") /\ Of("meta")' = Of("meta")
  BY <1>1 DEF Of
<1> QED
  BY <1>1, <1>2 DEF MetaInv, Leads

LEMMA MetaShown == ASSUME Lined, leg = "meta_reduce", MetaInv, Grade = "PASS" PROVE real \subseteq {"over_behind"}
<1>1. Of("request") \subseteq Nat /\ \A i \in DOMAIN window : window[i].x \in Nat /\ window[i].y \in Nat
  <2>1. \A i \in DOMAIN window : window[i] \in PrintedLine
    BY DEF Lined
  <2> QED
    BY <2>1 DEF Of, Lined, PrintedLine
<1> DEFINE sent(i) == {j \in Of("request") : window[j].at = window[i].at}
<1>2. /\ ~\E i \in Of("meta") : window[i].y > window[i].x
      /\ ~\E i \in Of("meta") : sent(i) = {} \/ window[FirstOf(sent(i))].x # window[i].y
  <2>1. Grade = GradeMetaReduce
    BY DEF Grade
  <2> QED
    BY <2>1 DEF GradeMetaReduce
<1>3. ASSUME NEW i \in Of("meta"), NEW j \in Of("request"), window[j].at = window[i].at, Leads(j)
      PROVE  ~(window[j].x > window[i].x)
  <2>1. sent(i) \subseteq Nat /\ j \in sent(i) /\ \A k \in sent(i) : j <= k
    BY <1>1, <1>3 DEF Leads
  <2>2. sent(i) # {} /\ FirstOf(sent(i)) = j
    <3> HIDE DEF sent
    <3> QED
      BY <2>1, FirstOfIs
  <2>3. window[j].x = window[i].y /\ ~(window[i].y > window[i].x) /\ i \in DOMAIN window
    BY <1>2, <2>2 DEF Of
  <2> QED
    BY <1>1, <2>3
<1> QED
  BY <1>2, <1>3 DEF MetaInv

-----------------------------------------------------------------------------
(* SafetyLegs: the stripped stops. *)

\* A position without its stop has its strip in the log, and nothing that ends it.
StripInv ==
    /\ real = {}
    /\ \A p \in ea.bare :
         /\ \E i \in OfId("stripped", p) : window[i].x = 0
         /\ OfId("restored", p) = {} /\ OfId("closed", p) = {}
    /\ \A i \in Of("restored") \cup Of("closed") \cup Of("stripped") : window[i].id \in Nat /\ window[i].id <= Len(window)

LEMMA StripStrips == ASSUME Lined, EaTyped, StripInv, Strips, NextBar, Stays PROVE Lined' /\ StripInv'
<1> DEFINE ticket == Len(window) + 1
<1>1. PICK left \in {0, 1} :
        /\ Prints(<<Stamped("stripped", ticket, left, 0)>>)
        /\ ea' = [ea EXCEPT !.bare = IF left = 0 THEN @ \cup {ticket} ELSE @]
  BY DEF Strips
<1> DEFINE l == Stamped("stripped", ticket, left, 0)
<1>2. l \in PrintedLine /\ l.at = bar /\ l.what = "stripped" /\ l.id = ticket /\ l.x = left /\ ticket \in Nat
  <2>1. ticket \in Ids /\ left \in Nat /\ 0 \in Nat /\ "stripped" \in Words /\ ticket \in Nat
    BY DEF Ids, Words, Lined
  <2> QED
    BY <2>1, StampedIs
<1> HIDE DEF l
<1>3. /\ Lined' /\ bar' \in {bar, bar + 1} /\ UNCHANGED <<leg, baseline>>
      /\ \A i \in DOMAIN window : i \in DOMAIN window' /\ window'[i] = window[i] /\ i \in Nat /\ i < Len(window) + 1
      /\ DOMAIN window' = DOMAIN window \cup {Len(window) + 1}
      /\ window'[Len(window) + 1] = l /\ Len(window) \in Nat /\ Len(window') = Len(window) + 1
  <2>1. Prints(<<l>>)
    BY <1>1 DEF l
  <2> QED
    BY <1>2, <2>1, AppendedOne
<1>4. /\ Of("restored")' = Of("restored") /\ Of("closed")' = Of("closed")
      /\ Of("stripped")' = Of("stripped") \cup {Len(window) + 1}
      /\ \A i \in Of("restored") \cup Of("closed") \cup Of("stripped") : window'[i] = window[i]
  BY <1>2, <1>3 DEF Of
<1>5. \A i \in (Of("restored") \cup Of("closed") \cup Of("stripped"))' : window'[i].id \in Nat /\ window'[i].id <= Len(window')
  BY <1>2, <1>3, <1>4 DEF StripInv
<1>6. ASSUME NEW p \in ea'.bare
      PROVE  /\ \E i \in OfId("stripped", p)' : window'[i].x = 0
             /\ OfId("restored", p)' = {} /\ OfId("closed", p)' = {}
  <2>1. CASE p \in ea.bare
    <3>1. PICK i \in OfId("stripped", p) : window[i].x = 0
      BY <2>1 DEF StripInv
    <3>2. i \in OfId("stripped", p)' /\ window'[i].x = 0
      BY <1>4, <3>1 DEF OfId
    <3>3. OfId("restored", p) = {} /\ OfId("closed", p) = {}
      BY <2>1 DEF StripInv
    <3> QED
      BY <1>4, <3>2, <3>3 DEF OfId
  <2>2. CASE p \notin ea.bare
    <3>1. left = 0 /\ p = ticket
      BY <1>1, <1>6, <2>2 DEF StripInv, EaTyped
    <3>2. Len(window) + 1 \in OfId("stripped", p)' /\ window'[Len(window) + 1].x = 0
      BY <1>2, <1>3, <1>4, <3>1 DEF OfId
    <3>3. \A i \in Of("restored") \cup Of("closed") : window[i].id # ticket
      BY <1>3 DEF StripInv
    <3> QED
      BY <1>4, <3>1, <3>2, <3>3 DEF OfId
  <2> QED
    BY <2>1, <2>2
<1> QED
  BY <1>3, <1>5, <1>6 DEF StripInv, Strips

LEMMA StripResolves == ASSUME Lined, EaTyped, StripInv, Resolves, NextBar, Stays PROVE Lined' /\ StripInv'
<1>1. PICK p \in ea.bare, what \in {"restored", "closed"} :
        /\ Prints(<<Stamped(what, p, 0, 0)>>)
        /\ ea' = [ea EXCEPT !.bare = @ \ {p}]
  BY DEF Resolves
<1> DEFINE l == Stamped(what, p, 0, 0)
<1>2. p \in Nat /\ p <= Len(window)
  BY DEF StripInv, OfId
<1>3. l \in PrintedLine /\ l.at = bar /\ l.what = what /\ l.id = p
  <2>1. p \in Ids /\ 0 \in Nat /\ what \in Words
    BY <1>2 DEF Ids, Words
  <2> QED
    BY <2>1, StampedIs
<1> HIDE DEF l
<1>4. /\ Lined' /\ bar' \in {bar, bar + 1} /\ UNCHANGED <<leg, baseline>>
      /\ \A i \in DOMAIN window : i \in DOMAIN window' /\ window'[i] = window[i] /\ i \in Nat /\ i < Len(window) + 1
      /\ DOMAIN window' = DOMAIN window \cup {Len(window) + 1}
      /\ window'[Len(window) + 1] = l /\ Len(window) \in Nat /\ Len(window') = Len(window) + 1
  <2>1. Prints(<<l>>)
    BY <1>1 DEF l
  <2> QED
    BY <1>3, <2>1, AppendedOne
<1>5. /\ Of("restored")' \subseteq Of("restored") \cup {Len(window) + 1}
      /\ Of("closed")' \subseteq Of("closed") \cup {Len(window) + 1}
      /\ Of("stripped")' = Of("stripped")
      /\ \A i \in Of("restored") \cup Of("closed") \cup Of("stripped") : window'[i] = window[i]
  BY <1>3, <1>4 DEF Of
<1>6. \A i \in (Of("restored") \cup Of("closed") \cup Of("stripped"))' : window'[i].id \in Nat /\ window'[i].id <= Len(window')
  BY <1>2, <1>3, <1>4, <1>5 DEF StripInv
<1>7. ASSUME NEW o \in ea'.bare
      PROVE  /\ \E i \in OfId("stripped", o)' : window'[i].x = 0
             /\ OfId("restored", o)' = {} /\ OfId("closed", o)' = {}
  <2>1. o \in ea.bare /\ o # p
    BY <1>1, <1>7 DEF EaTyped
  <2>2. PICK i \in OfId("stripped", o) : window[i].x = 0
    BY <2>1 DEF StripInv
  <2>3. i \in OfId("stripped", o)' /\ window'[i].x = 0
    BY <1>5, <2>2 DEF OfId
  <2>4. OfId("restored", o) = {} /\ OfId("closed", o) = {}
    BY <2>1 DEF StripInv
  <2> QED
    BY <1>3, <1>4, <1>5, <2>1, <2>3, <2>4 DEF OfId
<1> QED
  BY <1>4, <1>6, <1>7 DEF StripInv, Resolves

LEMMA StripQuiet == ASSUME Lined, StripInv, Quiet, NextBar, Stays PROVE Lined' /\ StripInv'
<1>1. Lined' /\ UNCHANGED <<leg, baseline, window, ea, real>> /\ bar' \in {bar, bar + 1} /\ bar \in Nat
  BY Unstirred
<1> QED
  BY <1>1 DEF StripInv, Of, OfId

LEMMA StripShown == ASSUME Lined, leg = "sl_verify", StripInv, Grade = "PASS" PROVE real = {} /\ ea.bare = {}
<1>1. ASSUME NEW p \in ea.bare PROVE FALSE
  <2>1. PICK i \in OfId("stripped", p) : window[i].x = 0
    BY DEF StripInv
  <2>2. OfId("restored", p) = {} /\ OfId("closed", p) = {} /\ window[i].id = p
    BY <2>1 DEF StripInv, OfId
  <2>3. Grade = GradeSlVerify
    BY DEF Grade
  <2> QED
    BY <2>1, <2>2, <2>3 DEF GradeSlVerify, OfId
<1> QED
  BY <1>1 DEF StripInv

-----------------------------------------------------------------------------
(* SafetyLegs: the lost answers. *)

Lone(S) == \E x : S = {x}
AtStamp(i) == {j \in Of("request") : window[j].at = window[i].at}
Between(i, r) == {j \in Of("request") : window[i].at <= window[j].at /\ window[j].at <= window[r].at}
Retry == OfId("open_retry", "c1")

\* The log holds what shows that an entry was sent twice or given up.
LostShows ==
    \/ OfId("open_retry_giveup", "c1") # {} \/ OfId("open_queued", "c2") # {}
    \/ \E i \in Of("suppressed"), r \in Retry : \E j, k \in Between(i, r) : j # k
    \/ \E i \in Of("dropped") : ~Lone(AtStamp(i))

\* The log shows a retry that sent nothing, unless a dropped entry was sent in its second.
UnsentShows ==
    \/ LostShows
    \/ \E i \in Of("suppressed"), r \in Retry : Between(i, r) = {}
    \/ \E r \in Retry, d \in Of("dropped") : window[r].at = window[d].at

LostInv ==
    /\ ea.stopped \in 0..2 /\ ea.queued \subseteq {"c1", "c2"}
    /\ ea.stopped = 0 => ea.queued = {} /\ Of("suppressed") = {}
    /\ ea.stopped = 0 \/ "c1" \in ea.queued => Of("request") = {} /\ Retry = {} /\ real = {}
    /\ ea.stopped # 2 => Of("dropped") = {} /\ "c2" \notin ea.queued
    /\ ea.stopped = 2 => "c1" \notin ea.queued
    /\ ea.stopped # 0 => Of("suppressed") # {}
    /\ \A i \in Of("suppressed") : window[i].id = "c1"
    /\ \A i \in Of("dropped") : window[i].id = "c2"
    /\ "c2" \in ea.queued => OfId("open_queued", "c2") # {}
    /\ \A r, t \in Retry : r = t
    /\ real \subseteq {"sends", "nothing"}
    /\ "sends" \in real => LostShows
    /\ "nothing" \in real => UnsentShows

AtBar(s) == \A k \in DOMAIN s : s[k].at = bar

\* The window after some sends and the lines that follow them.
LEMMA AppendedSends ==
    ASSUME Lined, NEW head \in Seq(PrintedLine), NEW tail \in Seq(PrintedLine), AtBar(head), AtBar(tail),
           Prints(head \o tail), NextBar, Stays
    PROVE  /\ Lined' /\ bar' \in {bar, bar + 1} /\ UNCHANGED <<leg, baseline>>
           /\ \A i \in DOMAIN window : i \in DOMAIN window' /\ window'[i] = window[i]
           /\ DOMAIN window = 1..Len(window) /\ Len(window) \in Nat
           /\ DOMAIN window' = 1..(Len(window) + Len(head) + Len(tail)) /\ Len(tail) \in Nat /\ Len(head) \in Nat
           /\ \A k \in 1..Len(head) : window'[Len(window) + k] = head[k]
           /\ \A k \in 1..Len(tail) : window'[Len(window) + Len(head) + k] = tail[k]
<1> DEFINE ls == head \o tail
           sends == Len(head)
<1>1. DOMAIN head = 1..sends /\ sends \in Nat
  OBVIOUS
<1> HIDE DEF sends
<1>2. /\ ls \in Seq(PrintedLine) /\ Len(ls) = sends + Len(tail) /\ DOMAIN ls = 1..(sends + Len(tail)) /\ Len(tail) \in Nat
      /\ DOMAIN tail = 1..Len(tail)
  BY <1>1 DEF sends
<1>3. \A k \in 1..sends : ls[k] = head[k]
  BY <1>1 DEF sends
<1>4. \A k \in 1..Len(tail) : ls[sends + k] = tail[k]
  BY <1>1 DEF sends
<1>5. ASSUME NEW k \in DOMAIN ls PROVE ls[k].at = bar
  <2>1. CASE k \in 1..sends
    BY <1>1, <1>3, <2>1 DEF AtBar
  <2>2. CASE k \notin 1..sends
    <3>1. k - sends \in 1..Len(tail) /\ sends + (k - sends) = k
      BY <1>1, <1>2, <2>2
    <3> QED
      BY <1>2, <1>4, <3>1 DEF AtBar
  <2> QED
    BY <2>1, <2>2
<1>6. Prints(ls)
  OBVIOUS
<1> HIDE DEF ls
<1>7. /\ Lined' /\ bar' \in {bar, bar + 1} /\ UNCHANGED <<leg, baseline>>
      /\ \A i \in DOMAIN window : i \in DOMAIN window' /\ window'[i] = window[i]
      /\ \A k \in DOMAIN ls : window'[Len(window) + k] = ls[k]
      /\ DOMAIN window = 1..Len(window) /\ Len(window) \in Nat /\ DOMAIN window' = 1..(Len(window) + Len(ls))
  BY <1>2, <1>5, <1>6, Appended
<1>8. ASSUME NEW k \in 1..sends PROVE window'[Len(window) + k] = head[k]
  <2>1. k \in DOMAIN ls
    BY <1>1, <1>2
  <2> QED
    BY <1>3, <1>7, <2>1
<1>9. ASSUME NEW k \in 1..Len(tail) PROVE window'[Len(window) + sends + k] = tail[k]
  <2>1. sends + k \in DOMAIN ls /\ Len(window) + (sends + k) = Len(window) + sends + k
    BY <1>1, <1>2, <1>7
  <2>2. window'[Len(window) + (sends + k)] = ls[sends + k]
    BY <1>7, <2>1
  <2> QED
    BY <1>4, <2>1, <2>2
<1>10. DOMAIN window' = 1..(Len(window) + sends + Len(tail))
  BY <1>1, <1>2, <1>7
<1> QED
  BY <1>1, <1>2, <1>7, <1>8, <1>9, <1>10 DEF sends

LEMMA LostSuppresses == ASSUME Lined, EaTyped, LostInv, Suppresses, NextBar, Stays PROVE Lined' /\ LostInv'
<1> DEFINE s == Stamped("suppressed", "c1", 0, 0)
           o == Stamped("open_queued", "c1", 0, 0)
<1>1. /\ s \in PrintedLine /\ s.at = bar /\ s.what = "suppressed" /\ s.id = "c1"
      /\ o \in PrintedLine /\ o.at = bar /\ o.what = "open_queued" /\ o.id = "c1"
  <2>1. "c1" \in Ids /\ 0 \in Nat /\ "suppressed" \in Words /\ "open_queued" \in Words
    BY DEF Ids, Words
  <2> QED
    BY <2>1, StampedIs
<1>2. ea.stopped = 0 /\ Prints(<<s, o>>) /\ ea' = [ea EXCEPT !.stopped = 1, !.queued = {"c1"}] /\ real' = real
  BY DEF Suppresses
<1> HIDE DEF s, o
<1>3. /\ Lined' /\ bar' \in {bar, bar + 1} /\ UNCHANGED <<leg, baseline>>
      /\ \A i \in DOMAIN window : i \in DOMAIN window' /\ window'[i] = window[i] /\ i \in Nat /\ i < Len(window) + 1
      /\ DOMAIN window' = DOMAIN window \cup {Len(window) + 1, Len(window) + 2}
      /\ window'[Len(window) + 1] = s /\ window'[Len(window) + 2] = o /\ Len(window) \in Nat
  BY <1>1, <1>2, AppendedTwo
<1>4. Of("request") = {} /\ Retry = {} /\ real = {} /\ Of("dropped") = {} /\ Of("suppressed") = {}
  BY <1>2 DEF LostInv
<1>5. /\ Of("request")' = {} /\ Of("dropped")' = {} /\ Of("suppressed")' = {Len(window) + 1}
  BY <1>1, <1>3, <1>4 DEF Of
<1>6. Of("open_retry")' = Of("open_retry") /\ \A i \in Of("open_retry") : window'[i] = window[i]
  BY <1>1, <1>3 DEF Of
<1>7. Retry' = {}
  BY <1>4, <1>6 DEF Retry, OfId
<1>8. ea'.stopped = 1 /\ ea'.queued = {"c1"}
  BY <1>2 DEF EaTyped
<1>9. \A i \in Of("suppressed")' : window'[i].id = "c1"
  BY <1>1, <1>3, <1>5
<1>10. real' = {}
  BY <1>2, <1>4
<1>11. /\ ea'.stopped \in 0..2 /\ ea'.queued \subseteq {"c1", "c2"} /\ ea'.stopped # 0 /\ ea'.stopped # 2
       /\ "c2" \notin ea'.queued /\ Of("suppressed")' # {}
  BY <1>5, <1>8
<1> HIDE DEF Of
<1> QED
  BY <1>3, <1>5, <1>7, <1>9, <1>10, <1>11 DEF LostInv

LEMMA LostRetries == ASSUME Lined, EaTyped, LostInv, Retries, NextBar, Stays PROVE Lined' /\ LostInv'
<1>1. PICK c \in ea.queued :
        /\ \E sends \in 0..2, end \in {"open_retry", "open_retry_giveup"} :
            /\ Prints([k \in 1..sends |-> Stamped("request", c, 1, 0)] \o <<Stamped(end, c, 0, 0)>>)
            /\ WentWrong(IF sends = 0 THEN "nothing" ELSE "sends", sends + (IF c = "c2" THEN 1 ELSE 0) # 1)
        /\ ea' = [ea EXCEPT !.queued = @ \ {c}]
  BY DEF Retries
<1>2. PICK sends \in 0..2, end \in {"open_retry", "open_retry_giveup"} :
            /\ Prints([k \in 1..sends |-> Stamped("request", c, 1, 0)] \o <<Stamped(end, c, 0, 0)>>)
            /\ WentWrong(IF sends = 0 THEN "nothing" ELSE "sends", sends + (IF c = "c2" THEN 1 ELSE 0) # 1)
  BY <1>1
<1> DEFINE q == Stamped("request", c, 1, 0)
           e == Stamped(end, c, 0, 0)
<1>3. /\ q \in PrintedLine /\ q.at = bar /\ q.what = "request"
      /\ e \in PrintedLine /\ e.at = bar /\ e.what = end /\ e.id = c /\ c \in {"c1", "c2"}
  <2>1. c \in {"c1", "c2"}
    BY DEF LostInv
  <2>2. c \in Ids /\ 0 \in Nat /\ 1 \in Nat /\ "request" \in Words /\ end \in Words
    BY <2>1 DEF Ids, Words
  <2> QED
    BY <2>1, <2>2, StampedIs
<1>4. Prints([k \in 1..sends |-> q] \o <<e>>)
  BY <1>2
<1> HIDE DEF q, e
<1>n. PICK n : n = Len(window)
  OBVIOUS
<1>5. /\ Lined' /\ bar' \in {bar, bar + 1} /\ UNCHANGED <<leg, baseline>>
      /\ \A i \in DOMAIN window : i \in DOMAIN window' /\ window'[i] = window[i]
      /\ DOMAIN window = 1..n /\ n \in Nat /\ DOMAIN window' = 1..(n + sends + 1)
      /\ \A i \in (n + 1)..(n + sends) : window'[i] = q
      /\ window'[n + sends + 1] = e
  <2> DEFINE tail == <<e>>
             head == [k \in 1..sends |-> q]
  <2>1. tail \in Seq(PrintedLine) /\ Len(tail) = 1 /\ tail[1] = e /\ AtBar(tail) /\ sends \in Nat
    BY <1>3 DEF AtBar
  <2>2. head \in Seq(PrintedLine) /\ Len(head) = sends /\ (\A k \in 1..sends : head[k] = q) /\ AtBar(head)
    BY <1>3, <2>1 DEF AtBar
  <2>3. Prints(head \o tail)
    BY <1>4
  <2> HIDE DEF tail, head
  <2>4. /\ Lined' /\ bar' \in {bar, bar + 1} /\ UNCHANGED <<leg, baseline>>
        /\ \A i \in DOMAIN window : i \in DOMAIN window' /\ window'[i] = window[i]
        /\ DOMAIN window = 1..Len(window) /\ Len(window) \in Nat
        /\ DOMAIN window' = 1..(Len(window) + Len(head) + Len(tail))
        /\ \A k \in 1..Len(head) : window'[Len(window) + k] = head[k]
        /\ \A k \in 1..Len(tail) : window'[Len(window) + Len(head) + k] = tail[k]
    BY <2>1, <2>2, <2>3, AppendedSends
  <2>5. ASSUME NEW i \in (n + 1)..(n + sends) PROVE window'[i] = q
    <3>1. i - n \in 1..sends /\ n + (i - n) = i
      BY <1>n, <2>1, <2>4
    <3> QED
      BY <1>n, <2>2, <2>4, <3>1
  <2> QED
    BY <1>n, <2>1, <2>2, <2>4, <2>5
<1>6. /\ Of("suppressed")' = Of("suppressed") /\ Of("dropped")' = Of("dropped") /\ Of("open_queued")' = Of("open_queued")
      /\ Of("request")' = Of("request") \cup ((n + 1)..(n + sends))
      /\ Of(end)' = Of(end) \cup {n + sends + 1}
      /\ \A w \in {"open_retry", "open_retry_giveup"} : w # end => Of(w)' = Of(w)
      /\ \A i \in DOMAIN window : window'[i] = window[i]
  <2>1. ASSUME NEW i \in DOMAIN window', i \notin DOMAIN window
        PROVE  \/ i \in (n + 1)..(n + sends) /\ window'[i].what = "request"
               \/ i = n + sends + 1 /\ window'[i].what = end
    BY <1>3, <1>5, <2>1
  <2>2. ASSUME NEW i \in (n + 1)..(n + sends) PROVE i \in DOMAIN window' /\ window'[i].what = "request"
    BY <1>3, <1>5
  <2>3. n + sends + 1 \in DOMAIN window' /\ window'[n + sends + 1].what = end
    BY <1>3, <1>5
  <2>4. \A i \in DOMAIN window : i \in DOMAIN window' /\ window'[i] = window[i]
    BY <1>5
  <2> QED
    BY <2>1, <2>2, <2>3, <2>4 DEF Of
<1>7. /\ ea'.stopped = ea.stopped /\ ea'.queued = ea.queued \ {c} /\ ea.stopped # 0
  BY <1>1 DEF EaTyped, LostInv
<1>8. OfId("open_queued", "c2")' = OfId("open_queued", "c2")
  BY <1>6 DEF OfId, Of
<1>9. CASE c = "c1"
  <2>1. ea.stopped = 1 /\ Of("request") = {} /\ Retry = {} /\ real = {} /\ Of("dropped") = {}
    BY <1>7, <1>9 DEF LostInv
  <2>2. ASSUME real' # {}
        PROVE  \/ real' = {"sends"} /\ LostShows'
               \/ real' = {"nothing"} /\ UnsentShows'
    <3>1. \/ sends = 0 /\ real' = {"nothing"}
          \/ sends = 2 /\ real' = {"sends"}
      <4>1. WentWrong(IF sends = 0 THEN "nothing" ELSE "sends", sends # 1) /\ sends \in 0..2
        BY <1>2, <1>9
      <4>2. CASE sends = 0
        BY <2>1, <4>1, <4>2 DEF WentWrong
      <4>3. CASE sends = 1
        BY <2>1, <2>2, <4>1, <4>3 DEF WentWrong
      <4>4. CASE sends = 2
        BY <2>1, <4>1, <4>4 DEF WentWrong
      <4> QED
        BY <4>1, <4>2, <4>3, <4>4
    <3>2. CASE end = "open_retry_giveup"
      <4>1. n + sends + 1 \in OfId("open_retry_giveup", "c1")'
        BY <1>3, <1>5, <1>6, <1>9, <3>2 DEF OfId
      <4>2. LostShows'
        BY <4>1 DEF LostShows
      <4> QED
        BY <3>1, <4>2 DEF UnsentShows
    <3>3. CASE end = "open_retry"
      <4>1. n + sends + 1 \in Retry' /\ window'[n + sends + 1].at = bar
        BY <1>3, <1>5, <1>6, <1>9, <3>3 DEF OfId, Retry
      <4>2. PICK i \in Of("suppressed") : TRUE
        BY <1>7 DEF LostInv
      <4>3. i \in Of("suppressed")' /\ window'[i].at <= bar /\ bar <= bar
        <5>1. window[i] \in PrintedLine /\ window[i].at <= bar /\ bar \in Nat /\ i \in DOMAIN window
          BY DEF Lined, Of
        <5>2. window[i].at \in Nat
          BY <5>1 DEF PrintedLine
        <5> QED
          BY <1>6, <5>1, <5>2
      <4>4. Between(i, n + sends + 1)' = (n + 1)..(n + sends)
        <5>1. Of("request")' = (n + 1)..(n + sends) /\ \A j \in (n + 1)..(n + sends) : window'[j].at = bar
          BY <1>3, <1>5, <1>6, <2>1
        <5> QED
          BY <4>1, <4>3, <5>1 DEF Between
      <4>5. CASE sends = 0
        <5>1. Between(i, n + sends + 1)' = {}
          BY <1>5, <4>4, <4>5
        <5> QED
          BY <3>1, <4>1, <4>3, <4>5, <5>1 DEF UnsentShows
      <4>6. CASE sends = 2
        <5>1. n + 1 \in (n + 1)..(n + sends) /\ n + 2 \in (n + 1)..(n + sends) /\ n + 1 # n + 2
          BY <1>5, <4>6
        <5>2. \E j, k \in Between(i, n + sends + 1)' : j # k
          BY <4>4, <5>1
        <5> QED
          BY <3>1, <4>1, <4>3, <4>6, <5>2 DEF LostShows
      <4> QED
        BY <3>1, <4>5, <4>6
    <3> QED
      BY <3>2, <3>3
  <2>3. \A r, t \in Retry' : r = t
    <3>1. Retry' \subseteq Retry \cup {n + sends + 1}
      BY <1>6 DEF Retry, OfId, Of
    <3> QED
      BY <2>1, <3>1
  <2>4. /\ real' \subseteq {"sends", "nothing"}
        /\ "sends" \in real' => LostShows'
        /\ "nothing" \in real' => UnsentShows'
    BY <2>2
  <2> QED
    BY <1>5, <1>6, <1>7, <1>8, <1>9, <2>1, <2>4, <2>3 DEF LostInv, Of
<1>10. CASE c = "c2"
  <2>1. ea.stopped = 2 /\ OfId("open_queued", "c2") # {} /\ "c1" \notin ea.queued
    BY <1>7, <1>10 DEF LostInv
  <2>2. LostShows'
    BY <1>8, <2>1 DEF LostShows
  <2>3. Retry' = Retry
    <3>1. Retry' \subseteq Retry
      BY <1>3, <1>5, <1>6, <1>10 DEF Retry, OfId, Of
    <3>2. Retry \subseteq Retry'
      BY <1>6 DEF Retry, OfId, Of
    <3> QED
      BY <3>1, <3>2
  <2>4. /\ real' \subseteq {"sends", "nothing"}
        /\ "sends" \in real' => LostShows'
        /\ "nothing" \in real' => UnsentShows'
    BY <1>2, <2>2 DEF UnsentShows, WentWrong, LostInv
  <2> QED
    BY <1>5, <1>6, <1>7, <1>8, <1>10, <2>1, <2>4, <2>3 DEF LostInv, Of
<1> QED
  BY <1>3, <1>9, <1>10

LEMMA LostDrops == ASSUME Lined, EaTyped, LostInv, Drops, NextBar, Stays PROVE Lined' /\ LostInv'
<1>1. PICK sends \in 1..2, end \in {"open_verified", "open_queued"} :
        /\ Prints([k \in 1..sends |-> Stamped("request", "c2", 1, 0)]
                  \o <<Stamped("dropped", "c2", 0, 0), Stamped(end, "c2", 0, 0)>>)
        /\ WentWrong("sends", sends # 1)
        /\ ea' = [ea EXCEPT !.stopped = 2, !.queued = IF end = "open_queued" THEN @ \cup {"c2"} ELSE @]
  BY DEF Drops
<1> DEFINE q == Stamped("request", "c2", 1, 0)
           d == Stamped("dropped", "c2", 0, 0)
           e == Stamped(end, "c2", 0, 0)
<1>2. /\ q \in PrintedLine /\ q.at = bar /\ q.what = "request"
      /\ d \in PrintedLine /\ d.at = bar /\ d.what = "dropped" /\ d.id = "c2"
      /\ e \in PrintedLine /\ e.at = bar /\ e.what = end /\ e.id = "c2"
  <2>1. "c2" \in Ids /\ 0 \in Nat /\ 1 \in Nat /\ "request" \in Words /\ "dropped" \in Words /\ end \in Words
    BY DEF Ids, Words
  <2> QED
    BY <2>1, StampedIs
<1>3. Prints([k \in 1..sends |-> q] \o <<d, e>>)
  BY <1>1
<1> HIDE DEF q, d, e
<1>n. PICK n : n = Len(window)
  OBVIOUS
<1>4. /\ Lined' /\ bar' \in {bar, bar + 1} /\ UNCHANGED <<leg, baseline>>
      /\ \A i \in DOMAIN window : i \in DOMAIN window' /\ window'[i] = window[i]
      /\ DOMAIN window = 1..n /\ n \in Nat /\ DOMAIN window' = 1..(n + sends + 2)
      /\ \A i \in (n + 1)..(n + sends) : window'[i] = q
      /\ window'[n + sends + 1] = d /\ window'[n + sends + 2] = e
  <2> DEFINE tail == <<d, e>>
             head == [k \in 1..sends |-> q]
  <2>1. tail \in Seq(PrintedLine) /\ Len(tail) = 2 /\ tail[1] = d /\ tail[2] = e /\ AtBar(tail) /\ sends \in Nat
    BY <1>2 DEF AtBar
  <2>2. head \in Seq(PrintedLine) /\ Len(head) = sends /\ (\A k \in 1..sends : head[k] = q) /\ AtBar(head)
    BY <1>2, <2>1 DEF AtBar
  <2>3. Prints(head \o tail)
    BY <1>3
  <2> HIDE DEF tail, head
  <2>4. /\ Lined' /\ bar' \in {bar, bar + 1} /\ UNCHANGED <<leg, baseline>>
        /\ \A i \in DOMAIN window : i \in DOMAIN window' /\ window'[i] = window[i]
        /\ DOMAIN window = 1..Len(window) /\ Len(window) \in Nat
        /\ DOMAIN window' = 1..(Len(window) + Len(head) + Len(tail))
        /\ \A k \in 1..Len(head) : window'[Len(window) + k] = head[k]
        /\ \A k \in 1..Len(tail) : window'[Len(window) + Len(head) + k] = tail[k]
    BY <2>1, <2>2, <2>3, AppendedSends
  <2>5. ASSUME NEW i \in (n + 1)..(n + sends) PROVE window'[i] = q
    <3>1. i - n \in 1..sends /\ n + (i - n) = i
      BY <1>n, <2>1, <2>4
    <3> QED
      BY <1>n, <2>2, <2>4, <3>1
  <2> QED
    BY <1>n, <2>1, <2>2, <2>4, <2>5
<1>5. ea.stopped = 1 /\ "c1" \notin ea.queued /\ "c2" \notin ea.queued /\ Of("dropped") = {} /\ Of("suppressed") # {}
  BY DEF Drops, LostInv
<1>6. /\ Of("suppressed")' = Of("suppressed") /\ Of("dropped")' = {n + sends + 1}
      /\ Of("open_retry")' = Of("open_retry") /\ Of("open_retry_giveup")' = Of("open_retry_giveup")
      /\ Of("request")' = Of("request") \cup ((n + 1)..(n + sends))
      /\ \A i \in DOMAIN window : window'[i] = window[i]
  <2>1. ASSUME NEW i \in DOMAIN window', i \notin DOMAIN window
        PROVE  \/ i \in (n + 1)..(n + sends) /\ window'[i].what = "request"
               \/ i = n + sends + 1 /\ window'[i].what = "dropped"
               \/ i = n + sends + 2 /\ window'[i].what = end
    BY <1>2, <1>4, <2>1
  <2>2. ASSUME NEW i \in (n + 1)..(n + sends) PROVE i \in DOMAIN window' /\ window'[i].what = "request"
    BY <1>2, <1>4
  <2>3. n + sends + 1 \in DOMAIN window' /\ window'[n + sends + 1].what = "dropped"
    BY <1>2, <1>4
  <2>4. \A i \in DOMAIN window : i \in DOMAIN window' /\ window'[i] = window[i]
    BY <1>4
  <2> QED
    BY <1>5, <2>1, <2>2, <2>3, <2>4 DEF Of
<1>7. ea'.stopped = 2 /\ ea'.queued = IF end = "open_queued" THEN ea.queued \cup {"c2"} ELSE ea.queued
  BY <1>1 DEF EaTyped
<1>8. end = "open_queued" => OfId("open_queued", "c2")' # {}
  <2>1. SUFFICES ASSUME end = "open_queued" PROVE n + sends + 2 \in OfId("open_queued", "c2")'
    OBVIOUS
  <2> QED
    BY <1>2, <1>4, <2>1 DEF OfId, Of
<1>9. Retry' = Retry /\ OfId("open_retry_giveup", "c1")' = OfId("open_retry_giveup", "c1")
  BY <1>6 DEF Retry, OfId, Of
<1>10. \A i \in DOMAIN window : window[i].at \in Nat /\ window[i].at <= bar /\ bar \in Nat
  <2>1. \A i \in DOMAIN window : window[i] \in PrintedLine
    BY DEF Lined
  <2> QED
    BY <2>1 DEF PrintedLine, Lined
<1>a. /\ n + sends + 1 \in Of("dropped")' /\ window'[n + sends + 1].at = bar
      /\ Of("request") \subseteq DOMAIN window /\ Of("suppressed") \subseteq DOMAIN window /\ Retry \subseteq DOMAIN window
  BY <1>2, <1>4, <1>6 DEF Of, Retry, OfId
<1>b. ASSUME NEW i \in Of("suppressed"), NEW r \in Retry PROVE Between(i, r) \subseteq Between(i, r)'
  <2>1. \A j \in Of("request") : j \in Of("request")' /\ window'[j] = window[j]
    BY <1>6, <1>a
  <2>2. window'[i] = window[i] /\ window'[r] = window[r]
    BY <1>6, <1>a
  <2> QED
    BY <2>1, <2>2 DEF Between
<1>c. ASSUME NEW i \in Of("suppressed"), NEW r \in Retry, window[r].at < bar PROVE Between(i, r)' = Between(i, r)
  <2>1. ASSUME NEW j \in (n + 1)..(n + sends) PROVE ~(window'[j].at <= window'[r].at)
    <3>1. window'[j].at = bar /\ window'[r] = window[r] /\ r \in DOMAIN window
      BY <1>2, <1>4, <1>6, <1>a
    <3> QED
      BY <1>10, <1>c, <3>1
  <2>2. \A j \in Of("request") : window'[j] = window[j]
    BY <1>6, <1>a
  <2>3. window'[i] = window[i] /\ window'[r] = window[r]
    BY <1>6, <1>a
  <2> QED
    BY <1>6, <2>1, <2>2, <2>3 DEF Between
<1>d. ASSUME LostShows PROVE LostShows'
  <2>1. OfId("open_queued", "c2") # {} => OfId("open_queued", "c2")' # {}
    BY <1>4 DEF OfId, Of
  <2>2. ASSUME NEW i \in Of("suppressed"), NEW r \in Retry, \E j, k \in Between(i, r) : j # k PROVE LostShows'
    <3>1. i \in Of("suppressed")' /\ r \in Retry' /\ \E j, k \in Between(i, r)' : j # k
      BY <1>6, <1>9, <1>b, <2>2
    <3> QED
      BY <3>1 DEF LostShows
  <2> QED
    BY <1>5, <1>9, <1>d, <2>1, <2>2 DEF LostShows
<1>e. ASSUME UnsentShows PROVE UnsentShows'
  <2>1. CASE LostShows
    BY <1>d, <2>1 DEF UnsentShows
  <2>2. ASSUME NEW i \in Of("suppressed"), NEW r \in Retry, Between(i, r) = {} PROVE UnsentShows'
    <3>1. i \in Of("suppressed")' /\ r \in Retry' /\ window'[r] = window[r] /\ r \in DOMAIN window
      BY <1>6, <1>9, <1>a
    <3>2. CASE window[r].at < bar
      BY <1>c, <2>2, <3>1, <3>2 DEF UnsentShows
    <3>3. CASE window[r].at = bar
      BY <1>a, <3>1, <3>3 DEF UnsentShows
    <3> QED
      BY <1>10, <3>1, <3>2, <3>3
  <2> QED
    BY <1>5, <1>e, <2>1, <2>2 DEF UnsentShows
<1>11. /\ real' \subseteq {"sends", "nothing"}
       /\ "sends" \in real' => LostShows'
       /\ "nothing" \in real' => UnsentShows'
  <2>1. CASE sends # 1
    <3>2. n + 1 \in Of("request")' /\ n + 2 \in Of("request")' /\ n + 1 # n + 2
          /\ window'[n + 1].at = bar /\ window'[n + 2].at = bar
      BY <1>2, <1>4, <1>6, <2>1
    <3>3. ~Lone(AtStamp(n + sends + 1)')
      BY <1>a, <3>2 DEF AtStamp, Lone
    <3>4. LostShows'
      BY <1>a, <3>3 DEF LostShows, Lone
    <3> QED
      BY <1>1, <3>4 DEF LostInv, WentWrong, UnsentShows
  <2>2. CASE sends = 1
    <3>1. real' = real
      BY <1>1, <2>2 DEF WentWrong
    <3> QED
      BY <1>d, <1>e, <3>1 DEF LostInv
  <2> QED
    BY <2>1, <2>2
<1>12. \A i \in Of("suppressed")' : window'[i].id = "c1"
  BY <1>6 DEF LostInv, Of
<1>13. \A i \in Of("dropped")' : window'[i].id = "c2"
  BY <1>2, <1>4, <1>6
<1>14. /\ ea'.stopped \in 0..2 /\ ea'.queued \subseteq {"c1", "c2"} /\ ea'.stopped = 2
       /\ "c1" \notin ea'.queued /\ Of("suppressed")' # {}
       /\ "c2" \in ea'.queued => OfId("open_queued", "c2")' # {}
  BY <1>5, <1>6, <1>7, <1>8 DEF LostInv
<1>15. \A r, t \in Retry' : r = t
  BY <1>9 DEF LostInv
<1> QED
  BY <1>4, <1>11, <1>12, <1>13, <1>14, <1>15 DEF LostInv

LEMMA LostQuiet == ASSUME Lined, LostInv, Quiet, NextBar, Stays PROVE Lined' /\ LostInv'
<1>1. Lined' /\ UNCHANGED <<window, ea, real>>
  BY Unstirred
<1>2. LostInv' = LostInv
  BY <1>1 DEF LostShows, UnsentShows, LostInv, Of, OfId, Retry, Lone, Between, AtStamp
<1> QED
  BY <1>1, <1>2

LEMMA LostShown ==
    ASSUME Lined, leg = "lost_response", LostInv, Grade = "PASS"
    PROVE  (\A w \in real : Unseen(w)) /\ ea.stopped = 2 /\ ea.queued = {}
<1>1. /\ Of("suppressed") # {} /\ Of("dropped") # {}
      /\ \A i \in Of("suppressed") : RetriedOnce(i)
      /\ \A i \in Of("dropped") : Adopted(i)
  <2>1. Grade = GradeLostResponse
    BY DEF Grade
  <2> QED
    BY <2>1 DEF GradeLostResponse
<1>2. Of("request") \subseteq Nat /\ IsFiniteSet(Of("request"))
  <2>1. DOMAIN window = 1..Len(window) /\ Len(window) \in Nat
    BY DEF Lined
  <2>2. IsFiniteSet(1..Len(window))
    BY <2>1, FS_Interval
  <2> QED
    BY <2>1, <2>2, FS_Subset DEF Of
<1>3. ASSUME NEW S \in SUBSET Of("request"), Cardinality(S) = 1 PROVE Lone(S)
  <2>1. IsFiniteSet(S)
    BY <1>2, FS_Subset
  <2> QED
    BY <1>3, <2>1, FS_Singleton DEF Lone
<1>4. OfId("open_queued", "c2") = {} /\ \A i \in Of("dropped") : Lone(AtStamp(i))
  <2>1. \A i \in Of("dropped") : Adopted(i) /\ window[i].id = "c2"
    BY <1>1 DEF LostInv
  <2>2. OfId("open_queued", "c2") = {}
    BY <1>1, <2>1 DEF Adopted
  <2>3. \A i \in Of("dropped") : AtStamp(i) \in SUBSET Of("request") /\ Cardinality(AtStamp(i)) = 1
    BY <2>1 DEF Adopted, AtStamp
  <2> QED
    BY <1>3, <2>2, <2>3
<1>5. Retry # {} /\ OfId("open_retry_giveup", "c1") = {}
  <2>1. \A i \in Of("suppressed") : RetriedOnce(i) /\ window[i].id = "c1"
    BY <1>1 DEF LostInv
  <2> QED
    BY <1>1, <2>1 DEF RetriedOnce, Retry
<1>6. ASSUME NEW i \in Of("suppressed"), NEW r \in Retry PROVE Lone(Between(i, r))
  <2>1. FirstOf(Retry) = r
    <3>1. Retry \in SUBSET Nat /\ \A t \in Retry : r = t
      BY DEF Retry, OfId, Of, Lined, LostInv
    <3>2. \A t \in Retry : r <= t
      BY <3>1
    <3> QED
      BY <3>1, <3>2, FirstOfIs
  <2>2. Cardinality(Between(i, FirstOf(Retry))) = 1
    <3>1. RetriedOnce(i) /\ window[i].id = "c1"
      BY <1>1 DEF LostInv
    <3> QED
      BY <3>1 DEF RetriedOnce, Between, Retry
  <2> QED
    BY <1>3, <2>1, <2>2 DEF Between
<1>7. ~LostShows /\ ~\E i \in Of("suppressed"), r \in Retry : Between(i, r) = {}
  BY <1>4, <1>5, <1>6 DEF LostShows, Lone
<1>8. \A w \in real : Unseen(w)
  BY <1>7 DEF LostInv, UnsentShows, Unseen, Retry
<1> QED
  BY <1>1, <1>4, <1>5, <1>8 DEF LostInv

-----------------------------------------------------------------------------
(* SafetyLegs: the demo restart. *)

\* Every non-empty set of naturals has a least element: induction without a predicate.
LEMMA HasLeast == ASSUME NEW T \in SUBSET Nat, T # {} PROVE \E x \in T : \A y \in T : x <= y
<1> DEFINE R == {ss \in Nat \X Nat : ss[1] < ss[2]}
<1>1. IsWellFoundedOn(R, Nat)
  BY NatLessThanWellFounded DEF OpToRel
<1>2. \A x, y \in Nat : x < y => <<x, y>> \in R
  OBVIOUS
<1> HIDE DEF R
<1>3. PICK x \in T : \A y \in T : ~ (<<y, x>> \in R)
  BY <1>1, WFMin
<1>4. ASSUME NEW y \in T PROVE x <= y
  <2>1. x \in Nat /\ y \in Nat /\ ~(y < x)
    BY <1>2, <1>3
  <2> QED
    BY <2>1
<1> QED
  BY <1>4

LEMMA FirstOfLeast == ASSUME NEW S \in SUBSET Nat, S # {} PROVE FirstOf(S) \in S /\ \A j \in S : FirstOf(S) <= j
<1>1. PICK m \in S : \A j \in S : m <= j
  BY HasLeast
<1> QED
  BY <1>1, FirstOfIs

\* The relaunches of the probe that opened, and the one the grader looks at.
Relaunch == {i \in OfId("start", 1) : \E o \in Of("opened") : o < i}
Faults(s) ==
    /\ s \in Relaunch /\ \A t \in Relaunch : s <= t
    /\ "lost" \in real => window[s].x # 1
    /\ "duplicate" \in real =>
         \E b \in Of("heartbeat") : s < b /\ window[b].x = 2 /\ \A i \in Of("start") : s < i => b < i

RestartInv ==
    /\ ea.stopped \in 0..3 /\ ea.own \in {0, 1} /\ real \subseteq {"lost", "duplicate"}
    /\ ea.own = 0 <=> Of("opened") = {}
    /\ \A o, p \in Of("opened") : o = p
    /\ ea.stopped = 0 => ea.own = 0
    /\ ea.stopped \in {0, 1} => Relaunch = {} /\ real = {}
    /\ ea.stopped = 2 /\ ea.own = 1 => \E s : Faults(s) /\ \A i \in Of("start") : i <= s
    /\ ea.stopped = 3 /\ ea.own = 1 /\ real # {} => \E s : Faults(s)

LEMMA RestartStarts == ASSUME Lined, EaTyped, RestartInv, Starts, NextBar, Stays PROVE Lined' /\ RestartInv'
<1>1. PICK own \in {ea.own, 0}, probe \in {1, 3} :
        /\ Prints(<<Stamped("start", probe, own, 0)>>)
        /\ WentWrong("lost", own # ea.own /\ ea.stopped = 1 /\ probe = 1)
        /\ ea' = [ea EXCEPT !.stopped = IF probe = 3 THEN 3 ELSE @ + 1]
  BY DEF Starts
<1> DEFINE l == Stamped("start", probe, own, 0)
<1>2. l \in PrintedLine /\ l.at = bar /\ l.what = "start" /\ l.id = probe /\ l.x = own
  <2>1. probe \in Ids /\ own \in Nat /\ 0 \in Nat /\ "start" \in Words
    BY DEF Ids, Words, RestartInv
  <2> QED
    BY <2>1, StampedIs
<1>3. Prints(<<l>>)
  BY <1>1
<1> HIDE DEF l
<1>n. PICK n : n = Len(window) + 1
  OBVIOUS
<1>4. /\ Lined' /\ bar' \in {bar, bar + 1} /\ UNCHANGED <<leg, baseline>>
      /\ \A i \in DOMAIN window : i \in DOMAIN window' /\ window'[i] = window[i] /\ i \in Nat /\ i < n
      /\ DOMAIN window' = DOMAIN window \cup {n} /\ n \notin DOMAIN window /\ n \in Nat
      /\ window'[n] = l
  <2>1. /\ Lined' /\ bar' \in {bar, bar + 1} /\ UNCHANGED <<leg, baseline>>
        /\ \A i \in DOMAIN window : i \in DOMAIN window' /\ window'[i] = window[i] /\ i \in Nat /\ i < Len(window) + 1
        /\ DOMAIN window' = DOMAIN window \cup {Len(window) + 1} /\ Len(window) + 1 \notin DOMAIN window
        /\ window'[Len(window) + 1] = l /\ Len(window) \in Nat
    BY <1>2, <1>3, AppendedOne
  <2> QED
    BY <1>n, <2>1
<1>5. /\ Of("opened")' = Of("opened") /\ Of("heartbeat")' = Of("heartbeat")
      /\ Of("start")' = Of("start") \cup {n}
      /\ \A i \in DOMAIN window : window'[i] = window[i]
      /\ Of("start") \subseteq DOMAIN window /\ Of("opened") \subseteq DOMAIN window /\ Of("heartbeat") \subseteq DOMAIN window
  BY <1>2, <1>4 DEF Of
<1>6. /\ ea'.stopped = (IF probe = 3 THEN 3 ELSE ea.stopped + 1) /\ ea'.own = ea.own /\ ea.stopped < 3
  BY <1>1 DEF EaTyped, Starts
<1>7. Relaunch' = Relaunch \cup (IF probe = 1 /\ ea.own = 1 THEN {n} ELSE {})
  <2>1. OfId("start", 1)' = OfId("start", 1) \cup (IF probe = 1 THEN {n} ELSE {})
    BY <1>2, <1>4, <1>5 DEF OfId
  <2>2. (\E o \in Of("opened") : o < n) <=> ea.own = 1
    BY <1>4, <1>5 DEF RestartInv
  <2> QED
    BY <1>5, <2>1, <2>2 DEF Relaunch
<1>8. ASSUME NEW s, Faults(s), real' = real PROVE Faults(s)'
  <2>1. s \in Relaunch /\ s \in DOMAIN window /\ s < n /\ window'[s] = window[s] /\ s \in Nat
    BY <1>4, <1>5, <1>8 DEF Faults, Relaunch, OfId
  <2>2. s \in Relaunch' /\ \A t \in Relaunch' : s <= t
    BY <1>4, <1>7, <1>8, <2>1 DEF Faults
  <2>3. "lost" \in real' => window'[s].x # 1
    BY <1>8, <2>1 DEF Faults
  <2>4. ASSUME "duplicate" \in real'
        PROVE  \E b \in Of("heartbeat")' : s < b /\ window'[b].x = 2 /\ \A i \in Of("start")' : s < i => b < i
    <3>1. PICK b \in Of("heartbeat") : s < b /\ window[b].x = 2 /\ \A i \in Of("start") : s < i => b < i
      BY <1>8, <2>4 DEF Faults
    <3>2. b \in Of("heartbeat")' /\ window'[b] = window[b] /\ b < n
      BY <1>4, <1>5
    <3> QED
      BY <1>5, <3>1, <3>2
  <2> QED
    BY <2>2, <2>3, <2>4 DEF Faults
<1>9. /\ ea'.stopped \in 0..3 /\ ea'.own \in {0, 1} /\ real' \subseteq {"lost", "duplicate"}
      /\ ea'.own = 0 <=> Of("opened")' = {}
      /\ \A o, p \in Of("opened")' : o = p
      /\ ea'.stopped # 0
  BY <1>1, <1>5, <1>6 DEF RestartInv, WentWrong
<1>10. CASE ea.stopped = 0
  <2>1. Relaunch' = {} /\ real' = {} /\ ea'.own = 0
    BY <1>1, <1>6, <1>7, <1>10 DEF RestartInv, WentWrong
  <2> QED
    BY <1>4, <1>9, <2>1 DEF RestartInv
<1>11. CASE ea.stopped = 1
  <2>1. Relaunch = {} /\ real = {} /\ ea'.stopped \in {2, 3}
    BY <1>6, <1>11 DEF RestartInv
  <2>2. ASSUME ea'.own = 1, probe = 1
        PROVE  Faults(n)' /\ \A i \in Of("start")' : i <= n
    <3>1. Relaunch' = {n}
      BY <1>6, <1>7, <2>1, <2>2
    <3>2. "lost" \in real' => own = 0
      BY <1>1, <1>6, <2>1, <2>2 DEF WentWrong
    <3>3. "duplicate" \notin real'
      BY <1>1, <2>1 DEF WentWrong
    <3> QED
      BY <1>2, <1>4, <1>5, <3>1, <3>2, <3>3 DEF Faults
  <2>3. probe = 3 => real' = {}
    BY <1>1, <2>1 DEF WentWrong
  <2>4. ea'.stopped = 2 /\ ea'.own = 1 => \E s : Faults(s)' /\ \A i \in Of("start")' : i <= s
    BY <1>6, <2>1, <2>2
  <2>5. probe = 3 \/ ea'.stopped = 2
    BY <1>6, <1>11
  <2>6. ea'.stopped = 3 /\ ea'.own = 1 /\ real' # {} => \E s : Faults(s)'
    BY <2>3, <2>5
  <2> HIDE DEF Faults
  <2> QED
    BY <1>4, <1>9, <2>1, <2>4, <2>6 DEF RestartInv
<1>12. CASE ea.stopped = 2
  <2>1. real' = real /\ ea'.stopped = 3
    BY <1>1, <1>6, <1>12 DEF WentWrong
  <2>2. ea'.own = 1 => \E s : Faults(s)'
    <3>1. SUFFICES ASSUME ea'.own = 1 PROVE \E s : Faults(s)'
      OBVIOUS
    <3>2. PICK s : Faults(s)
      BY <1>6, <1>12, <3>1 DEF RestartInv
    <3> QED
      BY <1>8, <2>1, <3>2
  <2> QED
    BY <1>4, <1>9, <2>1, <2>2 DEF RestartInv
<1> QED
  BY <1>6, <1>10, <1>11, <1>12 DEF RestartInv

LEMMA RestartOpens == ASSUME Lined, EaTyped, RestartInv, Opens, NextBar, Stays PROVE Lined' /\ RestartInv'
<1> DEFINE l == Stamped("opened", 0, 0, 0)
<1>1. l \in PrintedLine /\ l.at = bar /\ l.what = "opened"
  <2>1. 0 \in Ids /\ 0 \in Nat /\ "opened" \in Words
    BY DEF Ids, Words
  <2> QED
    BY <2>1, StampedIs
<1>2. Prints(<<l>>) /\ ea.stopped = 1 /\ ea.own = 0 /\ ea' = [ea EXCEPT !.own = 1] /\ real' = real
  BY DEF Opens
<1> HIDE DEF l
<1>n. PICK n : n = Len(window) + 1
  OBVIOUS
<1>3. /\ Lined' /\ bar' \in {bar, bar + 1} /\ UNCHANGED <<leg, baseline>>
      /\ \A i \in DOMAIN window : i \in DOMAIN window' /\ window'[i] = window[i] /\ i \in Nat /\ i < n
      /\ DOMAIN window' = DOMAIN window \cup {n} /\ n \notin DOMAIN window /\ n \in Nat
      /\ window'[n] = l
  <2>1. /\ Lined' /\ bar' \in {bar, bar + 1} /\ UNCHANGED <<leg, baseline>>
        /\ \A i \in DOMAIN window : i \in DOMAIN window' /\ window'[i] = window[i] /\ i \in Nat /\ i < Len(window) + 1
        /\ DOMAIN window' = DOMAIN window \cup {Len(window) + 1} /\ Len(window) + 1 \notin DOMAIN window
        /\ window'[Len(window) + 1] = l /\ Len(window) \in Nat
    BY <1>1, <1>2, AppendedOne
  <2> QED
    BY <1>n, <2>1
<1>4. Of("opened")' = {n} /\ Of("start")' = Of("start") /\ \A i \in Of("start") : i \in Nat /\ i < n
  BY <1>1, <1>2, <1>3 DEF Of, RestartInv
<1>5. Relaunch' = {}
  BY <1>3, <1>4 DEF Relaunch, OfId
<1>6. ea'.stopped = 1 /\ ea'.own = 1 /\ real' = {}
  BY <1>2 DEF EaTyped, RestartInv
<1> QED
  BY <1>3, <1>4, <1>5, <1>6 DEF RestartInv

LEMMA RestartBeats == ASSUME Lined, EaTyped, RestartInv, Beats, NextBar, Stays PROVE Lined' /\ RestartInv'
<1>1. PICK own \in {ea.own, 2}, registry \in {0, 1} :
        /\ Prints(<<Stamped("heartbeat", 0, own, registry)>>)
        /\ WentWrong("duplicate", ea.stopped = 2 /\ own = 2)
  BY DEF Beats
<1> DEFINE l == Stamped("heartbeat", 0, own, registry)
<1>2. l \in PrintedLine /\ l.at = bar /\ l.what = "heartbeat" /\ l.x = own
  <2>1. 0 \in Ids /\ own \in Nat /\ registry \in Nat /\ "heartbeat" \in Words
    BY DEF Ids, Words, RestartInv
  <2> QED
    BY <2>1, StampedIs
<1>3. Prints(<<l>>) /\ ea' = ea /\ ea.stopped \in {1, 2}
  BY <1>1 DEF Beats
<1> HIDE DEF l
<1>n. PICK n : n = Len(window) + 1
  OBVIOUS
<1>4. /\ Lined' /\ bar' \in {bar, bar + 1} /\ UNCHANGED <<leg, baseline>>
      /\ \A i \in DOMAIN window : i \in DOMAIN window' /\ window'[i] = window[i] /\ i \in Nat /\ i < n
      /\ DOMAIN window' = DOMAIN window \cup {n} /\ n \notin DOMAIN window /\ n \in Nat
      /\ window'[n] = l
  <2>1. /\ Lined' /\ bar' \in {bar, bar + 1} /\ UNCHANGED <<leg, baseline>>
        /\ \A i \in DOMAIN window : i \in DOMAIN window' /\ window'[i] = window[i] /\ i \in Nat /\ i < Len(window) + 1
        /\ DOMAIN window' = DOMAIN window \cup {Len(window) + 1} /\ Len(window) + 1 \notin DOMAIN window
        /\ window'[Len(window) + 1] = l /\ Len(window) \in Nat
    BY <1>2, <1>3, AppendedOne
  <2> QED
    BY <1>n, <2>1
<1>5. /\ Of("opened")' = Of("opened") /\ Of("start")' = Of("start")
      /\ Of("heartbeat")' = Of("heartbeat") \cup {n}
      /\ \A i \in DOMAIN window : window'[i] = window[i]
      /\ Of("start") \subseteq DOMAIN window /\ Of("opened") \subseteq DOMAIN window /\ Of("heartbeat") \subseteq DOMAIN window
  BY <1>2, <1>4 DEF Of
<1>6. Relaunch' = Relaunch
  BY <1>5 DEF Relaunch, OfId
<1>7. ASSUME NEW s, Faults(s), ea.stopped = 2, \A i \in Of("start") : i <= s PROVE Faults(s)'
  <2>1. s \in Relaunch' /\ (\A t \in Relaunch' : s <= t) /\ window'[s] = window[s] /\ s < n /\ s \in Nat
    BY <1>4, <1>5, <1>6, <1>7 DEF Faults, Relaunch, OfId
  <2>2. real' \subseteq real \cup {"duplicate"}
    BY <1>1 DEF WentWrong
  <2>3. "lost" \in real' => window'[s].x # 1
    BY <1>7, <2>1, <2>2 DEF Faults
  <2>4. \A i \in Of("start")' : ~(s < i)
    BY <1>4, <1>5, <1>7, <2>1
  <2>5. "duplicate" \in real' => \E b \in Of("heartbeat")' : s < b /\ window'[b].x = 2
    <3>1. CASE own = 2
      BY <1>2, <1>4, <1>5, <2>1, <3>1
    <3>2. CASE own # 2
      <4>1. real' = real
        BY <1>1, <3>2 DEF WentWrong
      <4> QED
        BY <1>5, <1>7, <4>1 DEF Faults
    <3> QED
      BY <3>1, <3>2
  <2> QED
    BY <2>1, <2>3, <2>4, <2>5 DEF Faults
<1>8. CASE ea.stopped = 1
  <2>1. real' = real
    BY <1>1, <1>8 DEF WentWrong
  <2> QED
    BY <1>3, <1>4, <1>5, <1>6, <1>8, <2>1 DEF RestartInv
<1>9. CASE ea.stopped = 2
  <2>1. real' \subseteq {"lost", "duplicate"}
    BY <1>1 DEF RestartInv, WentWrong
  <2>2. ea'.own = 1 => \E s : Faults(s)' /\ \A i \in Of("start")' : i <= s
    <3>1. SUFFICES ASSUME ea'.own = 1 PROVE \E s : Faults(s)' /\ \A i \in Of("start")' : i <= s
      OBVIOUS
    <3>2. PICK s : Faults(s) /\ \A i \in Of("start") : i <= s
      BY <1>3, <1>9, <3>1 DEF RestartInv
    <3> QED
      BY <1>5, <1>7, <1>9, <3>2
  <2> QED
    BY <1>3, <1>4, <1>5, <1>6, <1>9, <2>1, <2>2 DEF RestartInv
<1> QED
  BY <1>3, <1>8, <1>9

LEMMA RestartQuiet == ASSUME Lined, RestartInv, Quiet, NextBar, Stays PROVE Lined' /\ RestartInv'
<1>1. Lined' /\ UNCHANGED <<window, ea, real>>
  BY Unstirred
<1>2. RestartInv' = RestartInv
  BY <1>1 DEF RestartInv, Faults, Relaunch, Of, OfId
<1> QED
  BY <1>1, <1>2

LEMMA RestartShown ==
    ASSUME Lined, leg = "restart", RestartInv, Grade = "PASS"
    PROVE  real = {} /\ ea.own = 1
<1> DEFINE again == FirstOf(Relaunch)
           next == {i \in Of("start") : i > again}
           beats == {i \in Of("heartbeat") : i > again /\ (next = {} \/ i < FirstOf(next))}
<1>1. Of("opened") # {} /\ Grade = GradeRestart
  BY DEF Grade, GradeRestart
<1>2. PICK o : Of("opened") = {o}
  BY <1>1 DEF RestartInv
<1>3. /\ o \in Nat /\ Relaunch \subseteq Nat /\ Of("start") \subseteq Nat /\ Of("heartbeat") \subseteq DOMAIN window
      /\ Of("heartbeat") \subseteq Nat
  BY <1>2 DEF Of, OfId, Relaunch, Lined
<1>4. FirstOf(Of("opened")) = o
  BY <1>2, <1>3, FirstOfIs
<1>5. {i \in OfId("start", 1) : i > FirstOf(Of("opened"))} = Relaunch
  BY <1>2, <1>3, <1>4 DEF Relaunch, OfId
<1>6. Relaunch # {} /\ window[again].x = 1 /\ ~\E i \in beats : window[i].x > 1
  BY <1>1, <1>5 DEF GradeRestart
<1>7. again \in Relaunch /\ \A j \in Relaunch : again <= j
  BY <1>3, <1>6, FirstOfLeast
<1>8. ASSUME real # {} PROVE FALSE
  <2>1. ea.own = 1 /\ ea.stopped \in {2, 3}
    BY <1>1, <1>6, <1>8 DEF RestartInv
  <2>2. PICK s : Faults(s)
    BY <1>8, <2>1 DEF RestartInv
  <2>3. s = again
    <3>1. s \in Relaunch /\ s <= again /\ again <= s
      BY <1>7, <2>2 DEF Faults
    <3>2. s \in Nat /\ again \in Nat
      BY <1>3, <1>7, <3>1
    <3> HIDE DEF again
    <3> QED
      BY <3>1, <3>2
  <2>4. "lost" \notin real
    BY <1>6, <2>2, <2>3 DEF Faults
  <2>5. "duplicate" \in real
    BY <1>8, <2>4 DEF RestartInv
  <2>6. PICK b \in Of("heartbeat") : s < b /\ window[b].x = 2 /\ \A i \in Of("start") : s < i => b < i
    BY <2>2, <2>5 DEF Faults
  <2>7. next = {} \/ b < FirstOf(next)
    <3>1. CASE next # {}
      <4>1. next \in SUBSET Nat
        BY <1>3
      <4> HIDE DEF next
      <4>2. FirstOf(next) \in next
        BY <3>1, <4>1, FirstOfLeast
      <4> QED
        BY <1>3, <1>7, <2>3, <2>6, <4>2 DEF next
    <3> QED
      BY <3>1
  <2>8. b \in beats
    BY <1>3, <1>7, <2>3, <2>6, <2>7
  <2> QED
    BY <1>6, <2>6, <2>8
<1> QED
  BY <1>1, <1>8 DEF RestartInv

-----------------------------------------------------------------------------
(* SafetyLegs: the demo account. *)

Labels == <<"after_A", "after_B", "after_F">>

\* The log is the snapshots of the probe's steps; what was mixed shows in one of them.
AccountInv ==
    /\ ea.stopped \in 0..3 /\ DOMAIN window = 1..ea.stopped /\ Len(window) = ea.stopped /\ real \subseteq {"mixed"}
    /\ \A k \in DOMAIN window : window[k].what = "snapshot" /\ window[k].id = Labels[k]
    /\ "mixed" \in real /\ ea.mode = leg =>
         \/ leg = "netting" /\ \E k \in DOMAIN window : k # 3 /\ window[k].x # 1
         \/ leg = "hedging" /\ \E k \in DOMAIN window : k # 1 /\ window[k].x # 2

LEMMA AccountProbes ==
    ASSUME Lined, EaTyped, leg \in {"netting", "hedging"}, AccountInv, Probes, NextBar, Stays
    PROVE  Lined' /\ AccountInv'
<1> DEFINE label == Labels[ea.stopped + 1]
           own == IF ea.mode = "netting" \/ label = "after_A" THEN 1 ELSE 2
<1>1. PICK isolated \in BOOLEAN :
        /\ Prints(<<Stamped("snapshot", label, IF isolated THEN own ELSE own + 1,
                            IF label = "after_F" /\ ea.mode = "hedging" THEN 1 ELSE 0)>>)
        /\ WentWrong("mixed", ~isolated /\ (label # "after_A" \/ leg = "netting")
                              /\ (label # "after_F" \/ leg = "hedging"))
  BY DEF Probes, Labels
<1> DEFINE x == IF isolated THEN own ELSE own + 1
           y == IF label = "after_F" /\ ea.mode = "hedging" THEN 1 ELSE 0
           l == Stamped("snapshot", label, x, y)
<1>2. PICK n : n = ea.stopped + 1
  OBVIOUS
<1>3. n \in 1..3 /\ n = Len(window) + 1
  BY <1>2 DEF AccountInv, Probes
<1>4. (n = 1 => label = "after_A") /\ (n = 2 => label = "after_B") /\ (n = 3 => label = "after_F")
  BY <1>2 DEF Labels
<1>5. own \in {1, 2} /\ x \in Nat /\ y \in Nat /\ label \in Ids
  BY <1>3, <1>4 DEF Ids
<1>6. l \in PrintedLine /\ l.at = bar /\ l.what = "snapshot" /\ l.id = label /\ l.x = x
  <2> HIDE DEF label, x, y
  <2>1. "snapshot" \in Words
    BY DEF Words
  <2> QED
    BY <1>5, <2>1, StampedIs
<1>7. Prints(<<l>>)
  BY <1>1
<1> HIDE DEF l
<1>8. /\ Lined' /\ bar' \in {bar, bar + 1} /\ UNCHANGED <<leg, baseline>>
      /\ \A i \in DOMAIN window : i \in DOMAIN window' /\ window'[i] = window[i]
      /\ DOMAIN window' = DOMAIN window \cup {n} /\ window'[n] = l /\ Len(window') = n
  <2>1. /\ Lined' /\ bar' \in {bar, bar + 1} /\ UNCHANGED <<leg, baseline>>
        /\ \A i \in DOMAIN window : i \in DOMAIN window' /\ window'[i] = window[i] /\ i \in Nat /\ i < Len(window) + 1
        /\ DOMAIN window' = DOMAIN window \cup {Len(window) + 1} /\ Len(window) + 1 \notin DOMAIN window
        /\ window'[Len(window) + 1] = l /\ Len(window) \in Nat /\ Len(window') = Len(window) + 1
    BY <1>6, <1>7, AppendedOne
  <2> QED
    BY <1>3, <2>1
<1>9. ea'.stopped = n /\ ea'.mode = ea.mode
  BY <1>2 DEF Probes, EaTyped
<1>10. DOMAIN window' = 1..n
  BY <1>2, <1>3, <1>8 DEF AccountInv
<1>11. \A k \in DOMAIN window' : window'[k].what = "snapshot" /\ window'[k].id = Labels[k]
  BY <1>2, <1>6, <1>8 DEF AccountInv
<1>12. real' \subseteq {"mixed"}
  BY <1>1 DEF AccountInv, WentWrong
<1>13. ASSUME "mixed" \in real', ea.mode = leg
       PROVE  \/ leg = "netting" /\ \E k \in DOMAIN window' : k # 3 /\ window'[k].x # 1
              \/ leg = "hedging" /\ \E k \in DOMAIN window' : k # 1 /\ window'[k].x # 2
  <2>1. CASE "mixed" \in real
    BY <1>8, <1>13, <2>1 DEF AccountInv
  <2>2. CASE ~isolated /\ (label # "after_A" \/ leg = "netting") /\ (label # "after_F" \/ leg = "hedging")
    <3>1. n \in DOMAIN window' /\ window'[n].x = own + 1
      BY <1>6, <1>8, <2>2
    <3>2. CASE leg = "netting"
      <4>1. n # 3 /\ own = 1
        BY <1>4, <1>13, <2>2, <3>2
      <4> QED
        BY <3>1, <3>2, <4>1
    <3>3. CASE leg = "hedging"
      <4>1. n # 1 /\ own = 2
        BY <1>3, <1>4, <1>13, <2>2, <3>3
      <4> QED
        BY <3>1, <3>3, <4>1
    <3> QED
      BY <3>2, <3>3
  <2> QED
    BY <1>1, <1>13, <2>1, <2>2 DEF WentWrong
<1> QED
  BY <1>3, <1>8, <1>9, <1>10, <1>11, <1>12, <1>13 DEF AccountInv

LEMMA AccountQuiet == ASSUME Lined, AccountInv, Quiet, NextBar, Stays PROVE Lined' /\ AccountInv'
<1>1. Lined' /\ UNCHANGED <<leg, window, ea, real>>
  BY Unstirred
<1> QED
  BY <1>1 DEF AccountInv

LEMMA AccountShown ==
    ASSUME Lined, leg \in {"netting", "hedging"}, AccountInv, Grade = "PASS"
    PROVE  real = {} /\ ea.mode = leg
<1>1. /\ Grade = GradeAccount(leg)
  BY DEF Grade
<1>2. ea.mode = leg /\ OfId("snapshot", "after_A") # {} /\ OfId("snapshot", "after_B") # {}
  BY <1>1 DEF GradeAccount
<1>3. ASSUME NEW k \in DOMAIN window PROVE LastOf(OfId("snapshot", Labels[k])) = k
  <2>1. OfId("snapshot", Labels[k]) = {k}
    BY DEF AccountInv, OfId, Of, Labels
  <2>2. k \in Nat
    BY DEF AccountInv
  <2> QED
    BY <2>1, <2>2, LastOfIs
<1>4. Labels[1] = "after_A" /\ Labels[2] = "after_B" /\ Labels[3] = "after_F"
  BY DEF Labels
<1>5. 1 \in DOMAIN window /\ 2 \in DOMAIN window
  BY <1>2 DEF AccountInv, OfId, Of, Labels
<1>6. CASE leg = "netting"
  <2>1. window[LastOf(OfId("snapshot", "after_A"))].x = 1 /\ window[LastOf(OfId("snapshot", "after_B"))].x = 1
    BY <1>1, <1>2, <1>6 DEF GradeAccount
  <2>2. window[1].x = 1 /\ window[2].x = 1
    BY <1>3, <1>4, <1>5, <2>1
  <2> QED
    BY <1>2, <1>6, <2>2 DEF AccountInv
<1>7. CASE leg = "hedging"
  <2>1. OfId("snapshot", "after_F") # {}
    BY <1>1, <1>2, <1>7 DEF GradeAccount
  <2>2. 3 \in DOMAIN window
    BY <2>1 DEF AccountInv, OfId, Of, Labels
  <2>3. window[LastOf(OfId("snapshot", "after_B"))].x = 2 /\ window[LastOf(OfId("snapshot", "after_F"))].x = 2
    BY <1>1, <1>2, <1>7, <2>1 DEF GradeAccount
  <2>4. window[2].x = 2 /\ window[3].x = 2
    BY <1>3, <1>4, <1>5, <2>2, <2>3
  <2> QED
    BY <1>2, <1>7, <2>4 DEF AccountInv
<1> QED
  BY <1>6, <1>7

-----------------------------------------------------------------------------
(* SafetyLegs: a pass is shown. *)

LegInv ==
    /\ Lined /\ EaTyped
    /\ Tripping => TripInv
    /\ leg = "meta_reduce" => MetaInv
    /\ leg = "sl_verify" => StripInv
    /\ leg = "lost_response" => LostInv
    /\ leg = "restart" => RestartInv
    /\ leg \in {"netting", "hedging"} => AccountInv

LEMMA LegInvInit == LegInit => LegInv
<1> SUFFICES ASSUME LegInit PROVE LegInv
  OBVIOUS
<1>1. PICK mode \in {"netting", "hedging"} :
        ea = [stopped |-> 0, bare |-> {}, queued |-> {}, own |-> 0, mode |-> mode]
  BY DEF LegInit
<1>2. window = <<>> /\ bar = 1 /\ real = {} /\ DOMAIN window = {} /\ Len(window) = 0
  BY DEF LegInit
<1>3. window \in Seq(PrintedLine)
  BY <1>2
<1>4. Lined /\ EaTyped
  BY <1>1, <1>2, <1>3 DEF Lined, EaTyped
<1>5. \A what : Of(what) = {}
  BY <1>2 DEF Of
<1>6. \A what, id : OfId(what, id) = {}
  BY <1>5 DEF OfId
<1>7. TripInv /\ MetaInv
  BY <1>1, <1>2, <1>5 DEF TripInv, MetaInv
<1>8. StripInv
  BY <1>1, <1>2, <1>5 DEF StripInv
<1>9. LostInv
  BY <1>1, <1>2, <1>5, <1>6 DEF LostInv, Retry
<1>10. RestartInv
  BY <1>1, <1>2, <1>5, <1>6 DEF RestartInv, Relaunch
<1>11. AccountInv
  BY <1>1, <1>2 DEF AccountInv
<1> QED
  BY <1>4, <1>7, <1>8, <1>9, <1>10, <1>11 DEF LegInv

LEMMA EaKept == ASSUME Lined, EaTyped, EaStep \/ Quiet PROVE EaTyped'
<1>0. bar \in Nat /\ Len(window) + 1 \in Nat
  BY DEF Lined
<1>1. CASE Enters
  BY <1>0, <1>1 DEF Enters, EaTyped
<1>2. CASE Sizes \/ Beats \/ Quiet
  BY <1>2 DEF Sizes, Beats, Quiet, EaTyped
<1>3. CASE Strips \/ Resolves
  <2>1. PICK b \in SUBSET Nat : ea' = [ea EXCEPT !.bare = b]
    BY <1>0, <1>3 DEF Strips, Resolves, EaTyped
  <2> QED
    BY <2>1 DEF EaTyped
<1>4. CASE Suppresses
  BY <1>4 DEF Suppresses, EaTyped
<1>7. CASE Retries
  <2>1. PICK q \in SUBSET {"c1", "c2"} : ea' = [ea EXCEPT !.queued = q]
    BY <1>7 DEF Retries, EaTyped
  <2> QED
    BY <2>1 DEF EaTyped
<1>5. CASE Drops
  <2>1. PICK q \in SUBSET {"c1", "c2"} : ea' = [ea EXCEPT !.stopped = 2, !.queued = q]
    BY <1>5 DEF Drops, EaTyped
  <2> QED
    BY <2>1 DEF EaTyped
<1>6. CASE Starts \/ Opens \/ Probes
  BY <1>6 DEF Starts, Opens, Probes, EaTyped
<1> QED
  BY <1>1, <1>2, <1>3, <1>4, <1>5, <1>6, <1>7 DEF EaStep

LEMMA LegInvNext == LegInv /\ LegNext => LegInv'
<1> SUFFICES ASSUME LegInv, LegNext PROVE LegInv'
  OBVIOUS
<1>1. Lined /\ EaTyped /\ NextBar /\ Stays /\ (EaStep \/ Quiet) /\ leg' = leg /\ (Tripping' <=> Tripping)
  BY DEF LegInv, LegNext, Stays, Tripping
<1>2. EaTyped'
  BY <1>1, EaKept
<1>3. CASE Quiet
  BY <1>1, <1>2, <1>3, Unstirred, TripQuiet, MetaQuiet, StripQuiet, LostQuiet, RestartQuiet, AccountQuiet DEF LegInv
<1>4. CASE Enters
  BY <1>1, <1>2, <1>4, TripEnters DEF LegInv, Enters, Tripping
<1>5. CASE Sizes
  BY <1>1, <1>2, <1>5, MetaSizes DEF LegInv, Sizes, Tripping
<1>6. CASE Strips
  BY <1>1, <1>2, <1>6, StripStrips DEF LegInv, Strips, Tripping
<1>7. CASE Resolves
  BY <1>1, <1>2, <1>7, StripResolves DEF LegInv, Resolves, Tripping
<1>8. CASE Suppresses
  BY <1>1, <1>2, <1>8, LostSuppresses DEF LegInv, Suppresses, Tripping
<1>9. CASE Retries
  BY <1>1, <1>2, <1>9, LostRetries DEF LegInv, Retries, Tripping
<1>10. CASE Drops
  BY <1>1, <1>2, <1>10, LostDrops DEF LegInv, Drops, Tripping
<1>11. CASE Starts
  BY <1>1, <1>2, <1>11, RestartStarts DEF LegInv, Starts, Tripping
<1>12. CASE Opens
  BY <1>1, <1>2, <1>12, RestartOpens DEF LegInv, Opens, Tripping
<1>13. CASE Beats
  BY <1>1, <1>2, <1>13, RestartBeats DEF LegInv, Beats, Tripping
<1>14. CASE Probes
  BY <1>1, <1>2, <1>14, AccountProbes DEF LegInv, Probes, Tripping
<1> QED
  BY <1>1, <1>3, <1>4, <1>5, <1>6, <1>7, <1>8, <1>9, <1>10, <1>11, <1>12, <1>13, <1>14 DEF EaStep

LEMMA PassIsShown == LegInv => PassedMeansShown
<1> SUFFICES ASSUME LegInv, Grade = "PASS"
             PROVE  /\ \A w \in real : Unseen(w)
                    /\ leg = "sl_verify" => ea.bare = {}
                    /\ leg \in {"kill_switch", "risk_veto"} => \E b \in baseline : b > ea.stopped
                    /\ leg = "lost_response" => ea.stopped = 2 /\ ea.queued = {}
                    /\ leg = "restart" => ea.own = 1
                    /\ leg \in {"netting", "hedging"} => ea.mode = leg
  BY DEF PassedMeansShown
<1>1. CASE leg \in {"kill_switch", "risk_veto"}
  BY <1>1, TripShown DEF LegInv, Tripping, Unseen
<1>2. CASE leg = "meta_reduce"
  BY <1>2, MetaShown DEF LegInv, Unseen
<1>3. CASE leg = "sl_verify"
  BY <1>3, StripShown DEF LegInv
<1>4. CASE leg = "lost_response"
  BY <1>4, LostShown DEF LegInv
<1>5. CASE leg = "restart"
  BY <1>5, RestartShown DEF LegInv
<1>6. CASE leg \in {"netting", "hedging"}
  BY <1>6, AccountShown DEF LegInv
<1>7. CASE leg \notin {"kill_switch", "risk_veto", "meta_reduce", "sl_verify", "lost_response", "restart",
                       "netting", "hedging"}
  <2>1. Grade = GradeAccount(leg) /\ ea.mode # leg
    BY <1>7 DEF Grade, LegInv, EaTyped
  <2> QED
    BY <2>1 DEF GradeAccount
<1> QED
  BY <1>1, <1>2, <1>3, <1>4, <1>5, <1>6, <1>7

\* Whatever the Expert Advisor under test does, and however long its log grows, a
\* grader that says PASS saw a run in which nothing the test forbids happened but
\* what hides in one second, and what the test needs did happen (safety_legs.grade_*).
THEOREM GradesAreEarned == LegSpec => []PassedMeansShown
<1>1. LegInit => LegInv
  BY LegInvInit
<1>2. LegInv /\ [LegNext]_legVars => LegInv'
  <2>1. LegInv /\ UNCHANGED legVars => LegInv'
    <3> SUFFICES ASSUME LegInv, UNCHANGED <<leg, baseline, bar, window, ea, real>> PROVE LegInv'
      BY DEF legVars
    <3>1. Lined' = Lined /\ EaTyped' = EaTyped /\ Tripping' = Tripping
      BY DEF Lined, EaTyped, Tripping
    <3>2. TripInv' = TripInv /\ MetaInv' = MetaInv /\ StripInv' = StripInv
      BY DEF TripInv, MetaInv, Leads, StripInv, Hook, Of, OfId
    <3>3. LostInv' = LostInv
      BY DEF LostInv, LostShows, UnsentShows, Retry, Lone, Between, AtStamp, Of, OfId
    <3>4. RestartInv' = RestartInv /\ AccountInv' = AccountInv
      BY DEF RestartInv, Faults, Relaunch, AccountInv, Of, OfId
    <3> QED
      BY <3>1, <3>2, <3>3, <3>4 DEF LegInv
  <2> QED
    BY <2>1, LegInvNext
<1>3. LegInv => PassedMeansShown
  BY PassIsShown
<1> QED
  BY <1>1, <1>2, <1>3, PTL DEF LegSpec

-----------------------------------------------------------------------------
(* Reconcile: the comparison *)

ReconcileSpec == ReconcileInit /\ [][ReconcileNext]_reconcileVars

\* The deals of a leg alternate, an opening one first.
Alternates ==
    /\ DOMAIN deals = Legs
    /\ \A m \in Legs : /\ \E S : deals[m] \in Seq(S)
                       /\ \A k \in DOMAIN deals[m] : deals[m][k].entry = "open" <=> k % 2 = 1

\* What the builder wrote, and what an edit leaves of it: each event still tells
\* of one that was written, each that was written is still told of, and only the
\* volume of a deal after the tick path is stated anew.
Written == UNION {LegEvents(m) : m \in UsableLegs}

Shaped(e) ==
    /\ DOMAIN e = {"model", "pairing", "when", "ticket", "time", "onEquity", "equity", "fields"}
    /\ \A f \in e.fields : DOMAIN f = {"name", "py", "mt5", "status"}

Reads(f, g, o) ==
    /\ f.name = g.name /\ f.mt5 = g.mt5
    /\ f.py = g.py \/ (f.name = "volume" /\ AfterTickPath(o.model, o.ticket))

Tells(e, o) ==
    /\ e.model = o.model /\ e.pairing = o.pairing /\ e.when = o.when /\ e.ticket = o.ticket
    /\ e.time = o.time /\ e.equity = o.equity
    /\ \A f \in e.fields : \E g \in o.fields : Reads(f, g, o)
    /\ \A g \in o.fields : \E f \in e.fields : Reads(f, g, o)

TellsOfWritten ==
    doc # NoDoc =>
        /\ DOMAIN doc = {"events", "record"}
        /\ \A e \in doc.events : Shaped(e) /\ \E o \in Written : Tells(e, o)
        /\ \A o \in Written : \E e \in doc.events : Tells(e, o)

AsWritten ==
    doc # NoDoc /\ edits = 0 => doc.events = Written /\ doc.record = TickPathOf("every_tick")

ReconcileInv == Alternates /\ edits \in Nat /\ TellsOfWritten /\ AsWritten

LEMMA ReconcileStart == ReconcileInit => ReconcileInv
<1> SUFFICES ASSUME ReconcileInit PROVE ReconcileInv
  OBVIOUS
<1>1. Alternates
  <2>1. deals = [m \in Legs |-> <<>>]
    BY DEF ReconcileInit
  <2> SUFFICES ASSUME NEW m \in Legs
               PROVE  (\E S : deals[m] \in Seq(S))
                      /\ \A k \in DOMAIN deals[m] : deals[m][k].entry = "open" <=> k % 2 = 1
    BY <2>1 DEF Alternates
  <2>2. deals[m] = <<>> /\ <<>> \in Seq({}) /\ DOMAIN <<>> = {}
    BY <2>1
  <2> QED
    BY <2>2
<1> QED
  BY <1>1 DEF ReconcileInit, ReconcileInv, TellsOfWritten, AsWritten

LEMMA AppendIs ==
    ASSUME NEW s, \E S : s \in Seq(S), NEW d
    PROVE  /\ \E S : Append(s, d) \in Seq(S)
           /\ Len(s) \in Nat /\ DOMAIN s = 1..Len(s) /\ DOMAIN Append(s, d) = 1..(Len(s) + 1)
           /\ \A k \in DOMAIN s : Append(s, d)[k] = s[k]
           /\ Append(s, d)[Len(s) + 1] = d
<1>1. PICK S : s \in Seq(S)
  OBVIOUS
<1>2. s \in Seq(S \cup {d}) /\ d \in S \cup {d}
  BY <1>1
<1>3. Append(s, d) \in Seq(S \cup {d}) /\ Len(Append(s, d)) = Len(s) + 1 /\ Len(s) \in Nat
  BY <1>2
<1> QED
  BY <1>2, <1>3

\* One more deal keeps the deals alternating when it opens from flat or closes.
LEMMA DealKeeps ==
    ASSUME Alternates, NEW m \in Legs, NEW d, (d.entry = "open") <=> Flat(m),
           deals' = [deals EXCEPT ![m] = Append(@, d)]
    PROVE  Alternates'
<1> DEFINE s == deals[m]
           t == Append(s, d)
<1>1. /\ \E S : t \in Seq(S)
      /\ Len(s) \in Nat /\ DOMAIN s = 1..Len(s) /\ DOMAIN t = 1..(Len(s) + 1)
      /\ \A k \in DOMAIN s : t[k] = s[k]
      /\ t[Len(s) + 1] = d
  BY AppendIs DEF Alternates
<1>2. \A k \in DOMAIN s : s[k].entry = "open" <=> k % 2 = 1
  BY DEF Alternates
<1>3. (d.entry = "open") <=> Len(s) % 2 = 0
  BY DEF Flat
<1>4. DOMAIN deals' = Legs /\ deals'[m] = t /\ \A q \in Legs \ {m} : deals'[q] = deals[q]
  BY DEF Alternates
<1> HIDE DEF s, t
<1>5. \A k \in DOMAIN t : t[k].entry = "open" <=> k % 2 = 1
  <2> SUFFICES ASSUME NEW k \in DOMAIN t PROVE t[k].entry = "open" <=> k % 2 = 1
    OBVIOUS
  <2>1. CASE k \in DOMAIN s
    BY <2>1, <1>1, <1>2
  <2>2. CASE k \notin DOMAIN s
    <3>1. k = Len(s) + 1 /\ t[k] = d
      BY <2>2, <1>1
    <3>2. Len(s) % 2 = 0 <=> (Len(s) + 1) % 2 = 1
      BY <1>1
    <3> QED
      BY <3>1, <3>2, <1>3
  <2> QED
    BY <2>1, <2>2
<1>6. \A k \in DOMAIN deals'[m] : deals'[m][k].entry = "open" <=> k % 2 = 1
  BY <1>4, <1>5
<1>7. \A q \in Legs \ {m} : (\E S : deals'[q] \in Seq(S))
                            /\ \A k \in DOMAIN deals'[q] : deals'[q][k].entry = "open" <=> k % 2 = 1
  BY <1>4, Zenon DEF Alternates
<1>8. \E S : deals'[m] \in Seq(S)
  BY <1>1, <1>4
<1>9. \A q \in Legs : (\E S : deals'[q] \in Seq(S))
                      /\ \A k \in DOMAIN deals'[q] : deals'[q][k].entry = "open" <=> k % 2 = 1
  BY <1>6, <1>7, <1>8, Zenon
<1> QED
  BY <1>4, <1>9, Zenon DEF Alternates

LEMMA OpensAsOpen ==
    ASSUME NEW m \in Legs, NEW minute, NEW d \in Entries(m, minute).good \cup Entries(m, minute).odd
    PROVE  d.entry = "open"
<1> DEFINE ds == deals[m]
           base == Deal(ds, minute, "open", Side(minute), 1, ExpectedFill(minute, Side(minute)), 0)
<1>1. \A v : Deal(ds, minute, "open", Side(minute), v, ExpectedFill(minute, Side(minute)), 0).entry = "open"
  BY DEF Deal
<1>2. DOMAIN base = {"ticket", "time", "entry", "side", "vol", "price", "pnl", "level"} /\ base.entry = "open"
  BY DEF Deal
<1>3. CASE d \in Entries(m, minute).good
  BY <1>1, <1>3 DEF Entries
<1>4. CASE d \in Entries(m, minute).odd
  <2>1. d \in {[base EXCEPT !.vol = 3], [base EXCEPT !.price = @ + 5],
               [base EXCEPT !.side = IF @ = "buy" THEN "sell" ELSE "buy"],
               [base EXCEPT !.level = 0], [base EXCEPT !.pnl = 1]}
    BY <1>4 DEF Entries
  <2> HIDE DEF base
  <2> QED
    BY <2>1, <1>2
<1> QED
  BY <1>3, <1>4

LEMMA LegsAlternate ==
    ASSUME Alternates, NEW m \in Legs, LegOpens(m) \/ LegSkips(m) \/ LegCloses(m)
    PROVE  Alternates' /\ doc = NoDoc /\ UNCHANGED <<doc, edits>>
<1>1. CASE LegOpens(m)
  <2>1. PICK d \in Entries(m, legAt[m]).good \cup Entries(m, legAt[m]).odd : deals' = [deals EXCEPT ![m] = Append(@, d)]
    BY <1>1 DEF LegOpens
  <2>2. d.entry = "open" /\ Flat(m)
    BY <1>1, OpensAsOpen DEF LegOpens
  <2>3. Alternates'
    BY <2>1, <2>2, DealKeeps
  <2> QED
    BY <1>1, <2>3 DEF LegOpens, Runs
<1>2. CASE LegSkips(m)
  BY <1>2 DEF LegSkips, Runs, Alternates
<1>3. CASE LegCloses(m)
  <2>1. PICK d \in Exits(deals[m], legAt[m] - 1) : deals' = [deals EXCEPT ![m] = Append(@, d)]
    BY <1>3 DEF LegCloses
  <2>2. d.entry = "none" /\ ~Flat(m)
    BY <1>3 DEF LegCloses, Exits, Deal
  <2>3. Alternates'
    BY <2>1, <2>2, DealKeeps
  <2> QED
    BY <1>3, <2>3 DEF LegCloses, Runs
<1> QED
  BY <1>1, <1>2, <1>3
\* Nothing but the builder and the edits touches what was written, and neither
\* touches the deals it was written from.
LEMMA WrittenStays ==
    ASSUME UNCHANGED <<expected, path, refused, starts, deals>>
    PROVE  /\ Written' = Written /\ TickPathOf("every_tick")' = TickPathOf("every_tick")
           /\ \A m, k : AfterTickPath(m, k)' = AfterTickPath(m, k)
<1>1. \A m : TickPathOf(m)' = TickPathOf(m)
  BY DEF TickPathOf
<1>2. \A m, k : AfterTickPath(m, k)' = AfterTickPath(m, k) /\ EquityAt(m, k)' = EquityAt(m, k)
  BY <1>1 DEF AfterTickPath, EquityAt
<1>3. ExpectedSet' = ExpectedSet
  BY DEF ExpectedSet, WindowRun
<1>4. Rows' = Rows /\ InWindow' = InWindow
  BY <1>3 DEF Rows, InWindow
<1>5. \A m : PairsOf(m)' = PairsOf(m)
  BY <1>4 DEF PairsOf
<1>6. \A m, t, k : PairedEvent(m, t, k)' = PairedEvent(m, t, k)
  BY <1>2, <1>3 DEF PairedEvent
<1>7. \A m : LegEvents(m)' = LegEvents(m)
  BY <1>4, <1>5, <1>6 DEF LegEvents
<1>8. UsableLegs' = UsableLegs
  BY DEF UsableLegs
<1> QED
  BY <1>1, <1>2, <1>7, <1>8 DEF Written
\* What an event of a leg can be.
LEMMA EventIs ==
    ASSUME NEW m, NEW o \in LegEvents(m)
    PROVE  \/ \E p \in PairsOf(m) : o = PairedEvent(m, p[1], p[2])
           \/ \E t \in InWindow \ {p[1] : p \in PairsOf(m)} : o = BareEvent(m, "MISSING_IN_MT5", t, None, TRUE)
           \/ \E k \in Mt5Entries(deals[m]) \ {p[2] : p \in PairsOf(m)} :
                o = BareEvent(m, "EXTRA_IN_MT5", MinuteOf(deals[m][k].time), k, TRUE)
           \/ \E t : o = BareEvent(m, "OUT_OF_TESTED_WINDOW", t, None, FALSE)
           \/ \E t : o = BareEvent(m, "FROZEN_ONLY_SCHEDULED_WEIGHT", t, None, FALSE)
BY Zenon DEF LegEvents

LEMMA FieldIs ==
    ASSUME NEW name, NEW py, NEW mt5
    PROVE  /\ DOMAIN Field(name, py, mt5) = {"name", "py", "mt5", "status"}
           /\ Field(name, py, mt5).name = name /\ Field(name, py, mt5).py = py
           /\ Field(name, py, mt5).mt5 = mt5 /\ Field(name, py, mt5).status = "stated"
BY DEF Field

LEMMA BareIs ==
    ASSUME NEW m, NEW pairing, NEW t, NEW k, NEW differs \in BOOLEAN
    PROVE  LET e == BareEvent(m, pairing, t, k, differs) IN
           /\ Shaped(e) /\ e.model = m /\ e.pairing = pairing /\ e.when = t /\ e.ticket = k
           /\ e.onEquity = FALSE
           /\ e.fields = IF differs THEN {Field("state", "python", "mt5")} ELSE {}
<1> DEFINE e == BareEvent(m, pairing, t, k, differs)
<1>1. /\ DOMAIN e = {"model", "pairing", "when", "ticket", "time", "onEquity", "equity", "fields"}
      /\ e.model = m /\ e.pairing = pairing /\ e.when = t /\ e.ticket = k /\ e.onEquity = FALSE
      /\ e.fields = IF differs THEN {Field("state", "python", "mt5")} ELSE {}
  BY DEF BareEvent
<1> HIDE DEF e
<1>2. \A f \in e.fields : DOMAIN f = {"name", "py", "mt5", "status"}
  BY <1>1, FieldIs
<1>3. Shaped(e)
  BY <1>1, <1>2, Zenon DEF Shaped
<1> QED
  BY <1>1, <1>3, Zenon DEF e

LEMMA PairedIs ==
    ASSUME NEW m, NEW t, NEW k
    PROVE  LET e == PairedEvent(m, t, k)
               d == deals[m][k]
           IN
           /\ Shaped(e) /\ e.model = m /\ e.pairing = "PAIRED_BY_TIME" /\ e.when = t /\ e.ticket = k
           /\ e.time = d.time /\ e.onEquity = AfterTickPath(m, k)
           /\ AfterTickPath(m, k) => e.equity = EquityAt(m, k)
           /\ Field("entry_side", Side(t), d.side) \in e.fields
           /\ Field("entry_price", ExpectedFill(t, Side(t)), d.price) \in e.fields
           /\ Field("levels", StopLevel(ExpectedFill(t, Side(t)), Side(t)), d.level) \in e.fields
           /\ AfterTickPath(m, k) => Field("volume", FrozenRuleLots(EquityAt(m, k)), d.vol) \in e.fields
           /\ ~AfterTickPath(m, k) /\ ExpectedSet[t] # 0 => Field("volume", ExpectedSet[t], d.vol) \in e.fields
           /\ \A f \in e.fields : \/ f = Field("timestamp", t, MinuteOf(d.time))
                                  \/ f = Field("entry_side", Side(t), d.side)
                                  \/ f = Field("entry_price", ExpectedFill(t, Side(t)), d.price)
                                  \/ f = Field("levels", StopLevel(ExpectedFill(t, Side(t)), Side(t)), d.level)
                                  \/ AfterTickPath(m, k) /\ f = Field("volume", FrozenRuleLots(EquityAt(m, k)), d.vol)
                                  \/ ~AfterTickPath(m, k) /\ f = Field("volume", ExpectedSet[t], d.vol)
<1> DEFINE e == PairedEvent(m, t, k)
           d == deals[m][k]
           after == AfterTickPath(m, k)
           fields == {Field("timestamp", t, MinuteOf(d.time)),
                      Field("entry_side", Side(t), d.side),
                      Field("entry_price", ExpectedFill(t, Side(t)), d.price),
                      Field("levels", StopLevel(ExpectedFill(t, Side(t)), Side(t)), d.level)}
             \cup IF after THEN {Field("volume", FrozenRuleLots(EquityAt(m, k)), d.vol)}
                  ELSE IF ExpectedSet[t] # 0 THEN {Field("volume", ExpectedSet[t], d.vol)}
                  ELSE {}
<1>1. e = [model |-> m, pairing |-> "PAIRED_BY_TIME", when |-> t, ticket |-> k,
           time |-> d.time, onEquity |-> after, equity |-> IF after THEN EquityAt(m, k) ELSE None,
           fields |-> fields]
  BY DEF PairedEvent
<1> HIDE DEF e
<1>2. /\ DOMAIN e = {"model", "pairing", "when", "ticket", "time", "onEquity", "equity", "fields"}
      /\ e.model = m /\ e.pairing = "PAIRED_BY_TIME" /\ e.when = t /\ e.ticket = k /\ e.time = d.time
      /\ (after => e.equity = EquityAt(m, k)) /\ e.fields = fields
  <2> HIDE DEF fields
  <2> QED
    BY <1>1
<1>3. e.onEquity = after
  <2> HIDE DEF fields, after
  <2> QED
    BY <1>1
<1>4. /\ Field("entry_side", Side(t), d.side) \in fields
      /\ Field("entry_price", ExpectedFill(t, Side(t)), d.price) \in fields
      /\ Field("levels", StopLevel(ExpectedFill(t, Side(t)), Side(t)), d.level) \in fields
      /\ after => Field("volume", FrozenRuleLots(EquityAt(m, k)), d.vol) \in fields
      /\ ~after /\ ExpectedSet[t] # 0 => Field("volume", ExpectedSet[t], d.vol) \in fields
      /\ \A f \in fields :
              \/ f = Field("timestamp", t, MinuteOf(d.time))
              \/ f = Field("entry_side", Side(t), d.side)
              \/ f = Field("entry_price", ExpectedFill(t, Side(t)), d.price)
              \/ f = Field("levels", StopLevel(ExpectedFill(t, Side(t)), Side(t)), d.level)
              \/ after /\ f = Field("volume", FrozenRuleLots(EquityAt(m, k)), d.vol)
              \/ ~after /\ f = Field("volume", ExpectedSet[t], d.vol)
  <2> HIDE DEF after
  <2> QED
    OBVIOUS
<1> HIDE DEF fields
<1>5. \A f \in fields : DOMAIN f = {"name", "py", "mt5", "status"}
  BY <1>4, FieldIs
<1>6. Shaped(e)
  BY <1>2, <1>5, Zenon DEF Shaped
<1> QED
  BY <1>2, <1>3, <1>4, <1>6, Zenon DEF e

LEMMA WrittenShaped == ASSUME NEW o \in Written PROVE Shaped(o) /\ Tells(o, o)
<1>1. PICK m \in UsableLegs : o \in LegEvents(m)
  BY DEF Written
<1>2. Shaped(o)
  <2>1. \A t, k : Shaped(PairedEvent(m, t, k))
    BY PairedIs
  <2>2. \A w, t, k : \A differs \in BOOLEAN : Shaped(BareEvent(m, w, t, k, differs))
    BY BareIs
  <2>3. \/ \E t, k : o = PairedEvent(m, t, k)
        \/ \E w, t, k : \E differs \in BOOLEAN : o = BareEvent(m, w, t, k, differs)
    <3>1. TRUE \in BOOLEAN /\ FALSE \in BOOLEAN
      OBVIOUS
    <3>2. o \in LegEvents(m)
      BY <1>1
    <3>3. CASE \E p \in PairsOf(m) : o = PairedEvent(m, p[1], p[2])
      BY <3>3, Zenon
    <3>4. CASE \E t \in InWindow \ {p[1] : p \in PairsOf(m)} : o = BareEvent(m, "MISSING_IN_MT5", t, None, TRUE)
      BY <3>1, <3>4, Zenon
    <3>5. CASE \E k \in Mt5Entries(deals[m]) \ {p[2] : p \in PairsOf(m)} :
                 o = BareEvent(m, "EXTRA_IN_MT5", MinuteOf(deals[m][k].time), k, TRUE)
      BY <3>1, <3>5, Zenon
    <3>6. CASE \E t : o = BareEvent(m, "OUT_OF_TESTED_WINDOW", t, None, FALSE)
      BY <3>1, <3>6, Zenon
    <3>7. CASE \E t : o = BareEvent(m, "FROZEN_ONLY_SCHEDULED_WEIGHT", t, None, FALSE)
      BY <3>1, <3>7, Zenon
    <3> QED
      BY <3>2, <3>3, <3>4, <3>5, <3>6, <3>7, EventIs, Zenon
  <2> QED
    BY <2>1, <2>2, <2>3, Zenon
<1>3. Tells(o, o)
  BY DEF Tells, Reads
<1> QED
  BY <1>2, <1>3

LEMMA BuildWrites == ASSUME ReconcileInv, BuildReconciliation PROVE ReconcileInv'
<1>1. UNCHANGED <<expected, path, refused, starts, deals>> /\ edits' = edits /\ Alternates'
      /\ doc' = [events |-> Written, record |-> TickPathOf("every_tick")]
  BY Zenon DEF BuildReconciliation, ReconcileInv, Written, Alternates
<1>2. Written' = Written /\ TickPathOf("every_tick")' = TickPathOf("every_tick")
  BY <1>1, WrittenStays
<1>3. DOMAIN doc' = {"events", "record"} /\ doc'.events = Written /\ doc'.record = TickPathOf("every_tick")
  BY <1>1
<1>4. \A o \in Written' : Shaped(o) /\ Tells(o, o)'
  <2>1. \A o \in Written : Shaped(o)
    BY WrittenShaped
  <2>2. \A o : Tells(o, o)'
    BY DEF Tells, Reads
  <2> QED
    BY <2>1, <2>2, <1>2
<1>5. TellsOfWritten'
  BY <1>2, <1>3, <1>4, Zenon DEF TellsOfWritten
<1>6. AsWritten'
  BY <1>2, <1>3, Zenon DEF AsWritten
<1> QED
  BY <1>1, <1>5, <1>6 DEF ReconcileInv
\* An event edited: its label, its basis, or a volume stated after the tick path.
LEMMA EditTells ==
    ASSUME NEW e, NEW o, Shaped(e), Tells(e, o), NEW kind,
           kind = "volume" \/ kind = "label" \/ kind = "basis",
           kind = "volume" => AfterTickPath(e.model, e.ticket)
    PROVE  Shaped(Edited(e, kind)) /\ Tells(Edited(e, kind), o)
<1> DEFINE x == Edited(e, kind)
<1>1. CASE kind = "label"
  <2> DEFINE Marked(f) == [f EXCEPT !.status = "MATCH"]
             fields == {Marked(f) : f \in e.fields}
  <2>1. \A f \in e.fields : /\ DOMAIN Marked(f) = {"name", "py", "mt5", "status"}
                            /\ Marked(f).name = f.name /\ Marked(f).py = f.py /\ Marked(f).mt5 = f.mt5
    BY DEF Shaped
  <2>2. x = [e EXCEPT !.fields = fields]
    BY <1>1 DEF Edited
  <2> HIDE DEF fields, x
  <2>3. /\ DOMAIN x = {"model", "pairing", "when", "ticket", "time", "onEquity", "equity", "fields"}
        /\ x.model = e.model /\ x.pairing = e.pairing /\ x.when = e.when /\ x.ticket = e.ticket
        /\ x.time = e.time /\ x.equity = e.equity /\ x.fields = fields
    BY <2>2 DEF Shaped
  <2> HIDE DEF Marked
  <2>4. \A f \in fields : \E g \in e.fields : f = Marked(g)
    BY DEF fields
  <2>5. \A g \in e.fields : Marked(g) \in fields
    BY DEF fields
  <2>6. Shaped(x)
    BY <2>1, <2>3, <2>4 DEF Shaped
  <2>7. \A f \in x.fields : \E g \in o.fields : Reads(f, g, o)
    BY <2>1, <2>3, <2>4 DEF Tells, Reads
  <2>8. \A g \in o.fields : \E f \in x.fields : Reads(f, g, o)
    BY <2>1, <2>3, <2>5 DEF Tells, Reads
  <2>9. Tells(x, o)
    BY <2>3, <2>7, <2>8 DEF Tells
  <2> QED
    BY <2>6, <2>9 DEF x
<1>2. CASE kind = "basis"
  <2>1. x = [e EXCEPT !.onEquity = ~@]
    BY <1>2 DEF Edited
  <2> HIDE DEF x
  <2>2. /\ DOMAIN x = {"model", "pairing", "when", "ticket", "time", "onEquity", "equity", "fields"}
        /\ x.model = e.model /\ x.pairing = e.pairing /\ x.when = e.when /\ x.ticket = e.ticket
        /\ x.time = e.time /\ x.equity = e.equity /\ x.fields = e.fields
    BY <2>1 DEF Shaped
  <2>3. Shaped(x)
    BY <2>2 DEF Shaped
  <2>4. Tells(x, o)
    BY <2>2 DEF Tells
  <2> QED
    BY <2>3, <2>4 DEF x
<1>3. CASE kind = "volume"
  <2> DEFINE Stated(f) == IF f.name = "volume" THEN [f EXCEPT !.py = f.mt5] ELSE f
             fields == {Stated(f) : f \in e.fields}
  <2>1. \A f \in e.fields : /\ DOMAIN Stated(f) = {"name", "py", "mt5", "status"}
                            /\ Stated(f).name = f.name /\ Stated(f).mt5 = f.mt5
                            /\ f.name # "volume" => Stated(f).py = f.py
    BY DEF Shaped
  <2>2. x = [e EXCEPT !.fields = fields]
    BY <1>3 DEF Edited
  <2> HIDE DEF fields, x
  <2>3. /\ DOMAIN x = {"model", "pairing", "when", "ticket", "time", "onEquity", "equity", "fields"}
        /\ x.model = e.model /\ x.pairing = e.pairing /\ x.when = e.when /\ x.ticket = e.ticket
        /\ x.time = e.time /\ x.equity = e.equity /\ x.fields = fields
    BY <2>2 DEF Shaped
  <2> HIDE DEF Stated
  <2>4. \A f \in fields : \E g \in e.fields : f = Stated(g)
    BY DEF fields
  <2>5. \A g \in e.fields : Stated(g) \in fields
    BY DEF fields
  <2>6. Shaped(x)
    BY <2>1, <2>3, <2>4 DEF Shaped
  <2>10. AfterTickPath(o.model, o.ticket)
    BY <1>3 DEF Tells
  <2>11. \A f \in e.fields, g \in o.fields : Reads(f, g, o) => Reads(Stated(f), g, o)
    BY <2>1, <2>10 DEF Reads
  <2>7. \A f \in x.fields : \E g \in o.fields : Reads(f, g, o)
    BY <2>3, <2>4, <2>11 DEF Tells
  <2>8. \A g \in o.fields : \E f \in x.fields : Reads(f, g, o)
    BY <2>3, <2>5, <2>11 DEF Tells
  <2>9. Tells(x, o)
    BY <2>3, <2>7, <2>8 DEF Tells
  <2> QED
    BY <2>6, <2>9 DEF x
<1> QED
  BY <1>1, <1>2, <1>3

LEMMA EditKeeps ==
    ASSUME ReconcileInv, EditEvent PROVE ReconcileInv'
<1>1. UNCHANGED <<expected, path, refused, starts, deals>> /\ edits' = edits + 1 /\ doc # NoDoc /\ edits \in Nat
  BY DEF EditEvent, ReconcileInv
<1>2. PICK e \in doc.events, kind \in Edits :
           /\ kind = "volume" => AfterTickPath(e.model, e.ticket)
           /\ doc' = [doc EXCEPT !.events = (@ \ {e}) \cup {Edited(e, kind)}]
  BY DEF EditEvent
<1> DEFINE x == Edited(e, kind)
<1>3. kind = "volume" \/ kind = "label" \/ kind = "basis"
  BY ReconcileAssumption
<1>4. /\ DOMAIN doc = {"events", "record"}
      /\ \A u \in doc.events : Shaped(u) /\ \E o \in Written : Tells(u, o)
      /\ \A o \in Written : \E u \in doc.events : Tells(u, o)
  BY <1>1 DEF ReconcileInv, TellsOfWritten
<1>5. PICK w \in Written : Tells(e, w)
  BY <1>4
<1>6. Shaped(x) /\ \A o : Tells(e, o) => Tells(x, o)
  BY <1>2, <1>3, <1>4, EditTells
<1> HIDE DEF x
<1>7. DOMAIN doc' = {"events", "record"} /\ doc'.events = (doc.events \ {e}) \cup {x}
  BY <1>2, <1>4 DEF x
<1>8. \A u \in doc'.events : Shaped(u) /\ \E o \in Written : Tells(u, o)
  BY <1>4, <1>5, <1>6, <1>7
<1>9. \A o \in Written : \E u \in doc'.events : Tells(u, o)
  BY <1>4, <1>6, <1>7
<1>10. TellsOfWritten'
  <2>1. Written' = Written /\ \A m, k : AfterTickPath(m, k)' = AfterTickPath(m, k)
    BY <1>1, WrittenStays
  <2>2. \A u, o : Tells(u, o)' = Tells(u, o)
    BY <2>1 DEF Tells, Reads
  <2> QED
    BY <1>7, <1>8, <1>9, <2>1, <2>2, Zenon DEF TellsOfWritten
<1>11. AsWritten' /\ Alternates' /\ edits' \in Nat
  BY <1>1 DEF AsWritten, Alternates, ReconcileInv
<1> QED
  BY <1>10, <1>11 DEF ReconcileInv

LEMMA RecordKeeps ==
    ASSUME ReconcileInv, EditRecord PROVE ReconcileInv'
<1>1. UNCHANGED <<expected, path, refused, starts, deals>> /\ edits' = edits + 1 /\ doc # NoDoc /\ edits \in Nat
  BY DEF EditRecord, ReconcileInv
<1>2. PICK r \in {None, 2} : doc' = [doc EXCEPT !.record = r]
  BY DEF EditRecord
<1>3. /\ DOMAIN doc = {"events", "record"}
      /\ \A u \in doc.events : Shaped(u) /\ \E o \in Written : Tells(u, o)
      /\ \A o \in Written : \E u \in doc.events : Tells(u, o)
  BY <1>1 DEF ReconcileInv, TellsOfWritten
<1>4. DOMAIN doc' = {"events", "record"} /\ doc'.events = doc.events
  BY <1>2, <1>3
<1>5. TellsOfWritten'
  <2>1. Written' = Written /\ \A m, k : AfterTickPath(m, k)' = AfterTickPath(m, k)
    BY <1>1, WrittenStays
  <2>2. \A u, o : Tells(u, o)' = Tells(u, o)
    BY <2>1 DEF Tells, Reads
  <2> QED
    BY <1>3, <1>4, <2>1, <2>2, Zenon DEF TellsOfWritten
<1>6. AsWritten' /\ Alternates' /\ edits' \in Nat
  BY <1>1 DEF AsWritten, Alternates, ReconcileInv
<1> QED
  BY <1>5, <1>6 DEF ReconcileInv

LEMMA ReconcileStep == ReconcileInv /\ [ReconcileNext]_reconcileVars => ReconcileInv'
<1> SUFFICES ASSUME ReconcileInv, [ReconcileNext]_reconcileVars PROVE ReconcileInv'
  OBVIOUS
<1>1. ASSUME NEW m \in Legs, LegOpens(m) \/ LegSkips(m) \/ LegCloses(m) PROVE ReconcileInv'
  <2>1. Alternates' /\ doc = NoDoc /\ UNCHANGED <<doc, edits>>
    BY <1>1, LegsAlternate DEF ReconcileInv
  <2>2. doc' = NoDoc' /\ edits' \in Nat
    BY <2>1 DEF NoDoc, ReconcileInv
  <2> QED
    BY <2>1, <2>2 DEF ReconcileInv, TellsOfWritten, AsWritten
<1>2. CASE UNCHANGED reconcileVars
  <2>1. UNCHANGED <<expected, path, refused, starts, deals, doc, edits>>
    BY <1>2 DEF reconcileVars
  <2>2. Written' = Written /\ TickPathOf("every_tick")' = TickPathOf("every_tick")
        /\ \A m, k : AfterTickPath(m, k)' = AfterTickPath(m, k)
    BY <2>1, WrittenStays
  <2>3. \A u, o : Tells(u, o)' = Tells(u, o)
    BY <2>2 DEF Tells, Reads
  <2>4. TellsOfWritten' = TellsOfWritten
    BY <2>1, <2>2, <2>3 DEF TellsOfWritten
  <2>5. AsWritten' = AsWritten /\ Alternates' = Alternates
    BY <2>1, <2>2 DEF AsWritten, Alternates
  <2> QED
    BY <2>1, <2>4, <2>5 DEF ReconcileInv
<1> QED
  BY <1>1, <1>2, BuildWrites, EditKeeps, RecordKeeps DEF ReconcileNext
LEMMA OpeningDeals ==
    ASSUME Alternates, NEW m \in Legs
    PROVE  /\ LogEntryDeals(deals[m]) = Mt5Entries(deals[m]) /\ IsFiniteSet(Mt5Entries(deals[m]))
           /\ Mt5Entries(deals[m]) \subseteq Nat \ {0} /\ DOMAIN deals[m] = 1..Len(deals[m]) /\ Len(deals[m]) \in Nat
           /\ \A k \in Mt5Entries(deals[m]) : k % 2 = 1 /\ k <= Len(deals[m])
<1>1. DOMAIN deals[m] = 1..Len(deals[m]) /\ Len(deals[m]) \in Nat
  BY AppendIs DEF Alternates
<1>2. \A k \in DOMAIN deals[m] : deals[m][k].entry = "open" <=> k % 2 = 1
  BY DEF Alternates
<1>3. LogEntryDeals(deals[m]) = Mt5Entries(deals[m])
  BY <1>2 DEF LogEntryDeals, Mt5Entries
<1>4. Mt5Entries(deals[m]) \subseteq 1..Len(deals[m])
  BY <1>1 DEF Mt5Entries
<1>5. IsFiniteSet(1..Len(deals[m]))
  BY <1>1, FS_Interval
<1>6. IsFiniteSet(Mt5Entries(deals[m]))
  BY <1>4, <1>5, FS_Subset
<1>7. \A k \in Mt5Entries(deals[m]) : k % 2 = 1 /\ k <= Len(deals[m]) /\ k \in Nat \ {0}
  BY <1>1, <1>4 DEF Mt5Entries
<1> QED
  BY <1>1, <1>3, <1>6, <1>7

LEMMA ModelOf == ASSUME NEW m, NEW o \in LegEvents(m) PROVE o.model = m
<1>1. \A t, k : PairedEvent(m, t, k).model = m
  BY PairedIs
<1>2. \A w, t, k : \A differs \in BOOLEAN : BareEvent(m, w, t, k, differs).model = m
  BY DEF BareEvent
<1>3. TRUE \in BOOLEAN /\ FALSE \in BOOLEAN
  OBVIOUS
<1>4. CASE \E p \in PairsOf(m) : o = PairedEvent(m, p[1], p[2])
  BY <1>1, <1>4, Zenon
<1>5. CASE \E t \in InWindow \ {p[1] : p \in PairsOf(m)} : o = BareEvent(m, "MISSING_IN_MT5", t, None, TRUE)
  BY <1>2, <1>3, <1>5, Zenon
<1>6. CASE \E k \in Mt5Entries(deals[m]) \ {p[2] : p \in PairsOf(m)} :
             o = BareEvent(m, "EXTRA_IN_MT5", MinuteOf(deals[m][k].time), k, TRUE)
  BY <1>2, <1>3, <1>6, Zenon
<1>7. CASE \E t : o = BareEvent(m, "OUT_OF_TESTED_WINDOW", t, None, FALSE)
  BY <1>2, <1>3, <1>7, Zenon
<1>8. CASE \E t : o = BareEvent(m, "FROZEN_ONLY_SCHEDULED_WEIGHT", t, None, FALSE)
  BY <1>2, <1>3, <1>8, Zenon
<1> QED
  BY <1>4, <1>5, <1>6, <1>7, <1>8, EventIs, Zenon

\* A comparison found VALID has no problem on any leg and no divergent event.
LEMMA ValidIs ==
    ASSUME VerifyEvents = "VALID"
    PROVE  (\A m \in Legs : ~Problems(m)) /\ \A e \in doc.events : ~EventDivergent(e)
BY DEF VerifyEvents

LEMMA FoundTrue == ReconcileInv => MatchIsReal
<1> SUFFICES ASSUME ReconcileInv, doc # NoDoc, VerifyEvents = "VALID", NEW m \in Legs
             PROVE  /\ \A t \in InWindow : \E k \in LogEntryDeals(deals[m]) : MinuteOf(deals[m][k].time) = t
                    /\ \A k \in LogEntryDeals(deals[m]) :
                         LET d == deals[m][k]
                             t == MinuteOf(d.time)
                         IN /\ t \in InWindow
                            /\ d.side = Side(t) /\ d.price = ExpectedFill(t, Side(t))
                            /\ d.level = StopLevel(d.price, d.side)
                            /\ IF AfterTickPath(m, k) THEN d.vol = FrozenRuleLots(EquityAt(m, k))
                               ELSE ExpectedSet[t] \in {0, d.vol}
  BY Zenon DEF MatchIsReal
<1> DEFINE entries == Mt5Entries(deals[m])
<1>1. ~Problems(m) /\ \A e \in doc.events : ~EventDivergent(e)
  BY ValidIs
<1>2. LogEntryDeals(deals[m]) = entries /\ IsFiniteSet(entries)
  BY OpeningDeals DEF ReconcileInv
<1>3. /\ \A e \in doc.events : Shaped(e) /\ \E o \in Written : Tells(e, o)
      /\ \A o \in Written : \E e \in doc.events : Tells(e, o)
  BY DEF ReconcileInv, TellsOfWritten
<1>4. m \in UsableLegs
  <2> SUFFICES ASSUME m \notin UsableLegs PROVE FALSE
    OBVIOUS
  <2>1. entries # {}
    BY DEF UsableLegs, PairingRefused
  <2>2. \A o \in Written : o.model # m
    BY ModelOf DEF Written
  <2>3. \A e \in doc.events : e.model # m
    BY <1>3, <2>2 DEF Tells
  <2>4. EventsOf(m, "PAIRED_BY_TIME") = {} /\ EventsOf(m, "EXTRA_IN_MT5") = {}
    BY <2>3 DEF EventsOf
  <2>5. Cardinality({}) = 0 /\ Cardinality(entries) # 0
    BY <1>2, <2>1, FS_EmptySet
  <2>6. Cardinality(entries) = 0 + 0
    BY <1>1, <1>2, <2>4, <2>5 DEF Problems, CountProblem
  <2> QED
    BY <2>5, <2>6
<1>5. LegEvents(m) \subseteq Written
  BY <1>4 DEF Written
<1>6. \A o \in Written : Field("state", "python", "mt5") \notin o.fields
  <2> SUFFICES ASSUME NEW o \in Written, Field("state", "python", "mt5") \in o.fields PROVE FALSE
    OBVIOUS
  <2>1. PICK e \in doc.events : Tells(e, o)
    BY <1>3
  <2>2. PICK f \in e.fields : Reads(f, Field("state", "python", "mt5"), o)
    BY <2>1 DEF Tells
  <2>3. f.name = "state" /\ f.mt5 = "mt5" /\ (f.py = "python" \/ f.name = "volume")
    BY <2>2, FieldIs DEF Reads
  <2>4. FieldDivergent(f)
    BY <2>3 DEF FieldDivergent
  <2> QED
    BY <1>1, <2>4 DEF EventDivergent
<1>7. \A w, t, k : BareEvent(m, w, t, k, TRUE) \notin LegEvents(m)
  <2>1. \A w, t, k : BareEvent(m, w, t, k, TRUE).fields = {Field("state", "python", "mt5")}
    BY DEF BareEvent
  <2> QED
    BY <2>1, <1>5, <1>6
<1>8. \A t \in InWindow : \E p \in PairsOf(m) : p[1] = t
  <2> SUFFICES ASSUME NEW t \in InWindow, ~\E p \in PairsOf(m) : p[1] = t PROVE FALSE
    OBVIOUS
  <2>1. t \in InWindow \ {p[1] : p \in PairsOf(m)}
    OBVIOUS
  <2>2. BareEvent(m, "MISSING_IN_MT5", t, None, TRUE) \in LegEvents(m)
    BY <2>1 DEF LegEvents
  <2> QED
    BY <2>2, <1>7
<1>9. \A k \in entries : \E p \in PairsOf(m) : p[2] = k
  <2> SUFFICES ASSUME NEW k \in entries, ~\E p \in PairsOf(m) : p[2] = k PROVE FALSE
    OBVIOUS
  <2>1. k \in Mt5Entries(deals[m]) \ {p[2] : p \in PairsOf(m)}
    OBVIOUS
  <2>2. BareEvent(m, "EXTRA_IN_MT5", MinuteOf(deals[m][k].time), k, TRUE) \in LegEvents(m)
    BY <2>1 DEF LegEvents
  <2> QED
    BY <2>2, <1>7
<1>10. \A p \in PairsOf(m) : p[1] \in InWindow /\ p[2] \in entries /\ MinuteOf(deals[m][p[2]].time) = p[1]
                             /\ PairedEvent(m, p[1], p[2]) \in Written
  <2>1. \A p \in PairsOf(m) : p[1] \in InWindow /\ p[2] \in entries /\ MinuteOf(deals[m][p[2]].time) = p[1]
    BY DEF PairsOf
  <2>2. \A p \in PairsOf(m) : PairedEvent(m, p[1], p[2]) \in LegEvents(m)
    BY Zenon DEF LegEvents
  <2> QED
    BY <2>1, <2>2, <1>5, Zenon
<1>11. ASSUME NEW t \in InWindow PROVE \E k \in entries : MinuteOf(deals[m][k].time) = t
  BY <1>8, <1>10
<1>12. ASSUME NEW k \in entries
       PROVE  LET d == deals[m][k]
                  t == MinuteOf(d.time)
              IN /\ t \in InWindow
                 /\ d.side = Side(t) /\ d.price = ExpectedFill(t, Side(t))
                 /\ d.level = StopLevel(d.price, d.side)
                 /\ IF AfterTickPath(m, k) THEN d.vol = FrozenRuleLots(EquityAt(m, k))
                    ELSE ExpectedSet[t] \in {0, d.vol}
  <2> DEFINE d == deals[m][k]
             t == MinuteOf(d.time)
             o == PairedEvent(m, t, k)
  <2>1. t \in InWindow /\ o \in Written
    BY <1>9, <1>10
  <2>2. PICK e \in doc.events : Tells(e, o)
    BY <1>3, <2>1
  <2>3. /\ o.model = m /\ o.pairing = "PAIRED_BY_TIME" /\ o.ticket = k
        /\ Field("entry_side", Side(t), d.side) \in o.fields
        /\ Field("entry_price", ExpectedFill(t, Side(t)), d.price) \in o.fields
        /\ Field("levels", StopLevel(ExpectedFill(t, Side(t)), Side(t)), d.level) \in o.fields
        /\ AfterTickPath(m, k) => Field("volume", FrozenRuleLots(EquityAt(m, k)), d.vol) \in o.fields
        /\ ~AfterTickPath(m, k) /\ ExpectedSet[t] # 0 => Field("volume", ExpectedSet[t], d.vol) \in o.fields
    BY PairedIs
  <2> HIDE DEF o
  <2>4. e.model = m /\ e.pairing = "PAIRED_BY_TIME" /\ e.ticket = k /\ ~EventProblem(e)
    BY <1>1, <2>2, <2>3 DEF Tells, Problems, EventsOf
  <2>5. \A f \in e.fields : f.py = f.mt5
    BY <1>1 DEF EventDivergent, FieldDivergent
  \* A field that is not a volume says what was written, and agrees with the deal.
  <2>6. ASSUME NEW name, NEW py, NEW mt5, name # "volume", Field(name, py, mt5) \in o.fields PROVE mt5 = py
    <3>1. PICK f \in e.fields : Reads(f, Field(name, py, mt5), o)
      BY <2>2, <2>6 DEF Tells
    <3>2. f.name = name /\ f.mt5 = mt5 /\ (f.py = py \/ f.name = "volume")
      BY <3>1, FieldIs DEF Reads
    <3> QED
      BY <2>5, <2>6, <3>2
  <2>7. d.side = Side(t) /\ d.price = ExpectedFill(t, Side(t)) /\ d.level = StopLevel(ExpectedFill(t, Side(t)), Side(t))
    BY <2>3, <2>6
  <2>8. CASE AfterTickPath(m, k)
    <3>1. PICK f \in e.fields : Reads(f, Field("volume", FrozenRuleLots(EquityAt(m, k)), d.vol), o)
      BY <2>2, <2>3, <2>8 DEF Tells
    <3>2. f.name = "volume" /\ f.mt5 = d.vol
      BY <3>1, FieldIs DEF Reads
    <3>3. f.py = FrozenRuleLots(EquityAt(m, k))
      BY <2>4, <2>8, <3>2 DEF EventProblem, VolumeOf
    <3>4. d.vol = FrozenRuleLots(EquityAt(m, k))
      BY <2>5, <3>2, <3>3
    <3> QED
      BY <2>1, <2>7, <2>8, <3>4
  <2>9. CASE ~AfterTickPath(m, k)
    <3>1. ExpectedSet[t] \in {0, d.vol}
      <4>1. CASE ExpectedSet[t] # 0
        <5>1. PICK f \in e.fields : Reads(f, Field("volume", ExpectedSet[t], d.vol), o)
          BY <2>2, <2>3, <2>9, <4>1 DEF Tells
        <5>2. f.mt5 = d.vol /\ f.py = ExpectedSet[t]
          BY <2>3, <2>9, <5>1, FieldIs DEF Reads
        <5> QED
          BY <2>5, <5>2
      <4> QED
        BY <4>1
    <3> QED
      BY <2>1, <2>7, <2>9, <3>1
  <2> QED
    BY <2>8, <2>9
<1> QED
  BY <1>2, <1>11, <1>12
\* A leg is flat before each entry: the entries before it are every second deal.
LEMMA FlatBefore ==
    ASSUME Alternates, NEW m \in Legs, NEW k \in Mt5Entries(deals[m])
    PROVE  FlatAt(deals[m], k)
<1> DEFINE before == {j \in LogEntryDeals(deals[m]) : j < k}
<1>1. /\ LogEntryDeals(deals[m]) = Mt5Entries(deals[m]) /\ Len(deals[m]) \in Nat
      /\ DOMAIN deals[m] = 1..Len(deals[m]) /\ k \in Nat \ {0} /\ k % 2 = 1 /\ k <= Len(deals[m])
  BY OpeningDeals
<1>2. PICK n \in Nat : k = 2 * n + 1
  <2>1. k \div 2 \in Nat /\ k = 2 * (k \div 2) + 1
    BY <1>1
  <2> QED
    BY <2>1
<1>3. \A j : j \in before <=> j \in 1..(2 * n) /\ j % 2 = 1
  BY <1>1, <1>2 DEF Mt5Entries
<1> HIDE DEF before
<1> DEFINE f == [i \in 1..n |-> 2 * i - 1]
<1>4. f \in [1..n -> before]
  BY <1>3
<1>5. \A i, j \in 1..n : f[i] = f[j] => i = j
  OBVIOUS
<1>6. \A j \in before : \E i \in 1..n : f[i] = j
  <2> SUFFICES ASSUME NEW j \in before PROVE \E i \in 1..n : f[i] = j
    OBVIOUS
  <2>1. j \in 1..(2 * n) /\ j % 2 = 1
    BY <1>3
  <2>2. (j + 1) \div 2 \in 1..n /\ 2 * ((j + 1) \div 2) - 1 = j
    BY <2>1
  <2> QED
    BY <2>2
<1>7. ExistsBijection(1..n, before)
  BY <1>4, <1>5, <1>6 DEF ExistsBijection, Bijection, Injection, Surjection, IsInjective
<1>8. IsFiniteSet(1..n) /\ Cardinality(1..n) = n
  BY FS_Interval
<1>9. Cardinality(before) = n
  BY <1>7, <1>8, FS_Bijection
<1> QED
  BY <1>2, <1>9 DEF FlatAt, before

\* Every entry deal is told of once, paired or extra.
LEMMA EntriesToldOnce ==
    ASSUME Alternates, doc.events = Written, UsableLegs = Legs, NEW m \in Legs
    PROVE  Cardinality(EventsOf(m, "PAIRED_BY_TIME")) + Cardinality(EventsOf(m, "EXTRA_IN_MT5"))
             = Cardinality(LogEntryDeals(deals[m]))
<1> DEFINE entries == Mt5Entries(deals[m])
           P == EventsOf(m, "PAIRED_BY_TIME")
           X == EventsOf(m, "EXTRA_IN_MT5")
           At(k) == MinuteOf(deals[m][k].time)
           paired == {p[2] : p \in PairsOf(m)}
           Ev(k) == IF k \in paired THEN PairedEvent(m, At(k), k) ELSE BareEvent(m, "EXTRA_IN_MT5", At(k), k, TRUE)
<1>1. LogEntryDeals(deals[m]) = entries /\ IsFiniteSet(entries)
  BY OpeningDeals
<1>2. \A e : e \in P <=> e \in LegEvents(m) /\ e.pairing = "PAIRED_BY_TIME"
  BY ModelOf DEF EventsOf, Written
<1>3. \A e : e \in X <=> e \in LegEvents(m) /\ e.pairing = "EXTRA_IN_MT5"
  BY ModelOf DEF EventsOf, Written
<1>4. \A t, k : PairedEvent(m, t, k).pairing = "PAIRED_BY_TIME" /\ PairedEvent(m, t, k).ticket = k
  BY PairedIs
<1>5. \A w, t, k : /\ BareEvent(m, w, t, k, TRUE).pairing = w /\ BareEvent(m, w, t, k, TRUE).ticket = k
                  /\ BareEvent(m, w, t, k, FALSE).pairing = w
  BY DEF BareEvent
<1>6. \A p \in PairsOf(m) : p[2] \in entries /\ At(p[2]) = p[1]
  BY DEF PairsOf
<1>7. \A k \in entries : Ev(k) \in P \cup X /\ Ev(k).ticket = k
  <2> SUFFICES ASSUME NEW k \in entries PROVE Ev(k) \in P \cup X /\ Ev(k).ticket = k
    OBVIOUS
  <2>1. CASE k \in paired
    <3>1. PICK p \in PairsOf(m) : p[2] = k
      BY <2>1
    <3>2. PairedEvent(m, p[1], p[2]) \in LegEvents(m)
      BY Zenon DEF LegEvents
    <3>3. PairedEvent(m, At(k), k) \in P
      BY <1>2, <1>4, <1>6, <3>1, <3>2
    <3> QED
      BY <2>1, <3>3, <1>4
  <2>2. CASE k \notin paired
    <3>1. BareEvent(m, "EXTRA_IN_MT5", At(k), k, TRUE) \in LegEvents(m)
      BY <2>2 DEF LegEvents
    <3>2. BareEvent(m, "EXTRA_IN_MT5", At(k), k, TRUE) \in X
      BY <1>3, <1>5, <3>1
    <3>3. Ev(k) = BareEvent(m, "EXTRA_IN_MT5", At(k), k, TRUE)
      BY <2>2
    <3>4. BareEvent(m, "EXTRA_IN_MT5", At(k), k, TRUE).ticket = k
      BY DEF BareEvent
    <3> QED
      BY <3>2, <3>3, <3>4, Zenon
  <2> QED
    BY <2>1, <2>2
<1>8. \A e \in P \cup X : \E k \in entries : e = Ev(k)
  <2> SUFFICES ASSUME NEW e \in P \cup X PROVE \E k \in entries : e = Ev(k)
    OBVIOUS
  <2>1. e \in LegEvents(m) /\ e.pairing \in {"PAIRED_BY_TIME", "EXTRA_IN_MT5"}
    BY <1>2, <1>3
  <2>2. CASE \E p \in PairsOf(m) : e = PairedEvent(m, p[1], p[2])
    <3>1. PICK p \in PairsOf(m) : e = PairedEvent(m, p[1], p[2])
      BY <2>2
    <3>2. p[2] \in entries /\ p[2] \in paired /\ e = PairedEvent(m, At(p[2]), p[2])
      BY <3>1, <1>6
    <3> QED
      BY <3>2
  <2>3. CASE \E k \in entries \ paired : e = BareEvent(m, "EXTRA_IN_MT5", At(k), k, TRUE)
    BY <2>3
  <2>4. CASE \E t \in InWindow \ {p[1] : p \in PairsOf(m)} : e = BareEvent(m, "MISSING_IN_MT5", t, None, TRUE)
    BY <2>1, <2>4 DEF BareEvent
  <2>5. CASE \E t : e = BareEvent(m, "OUT_OF_TESTED_WINDOW", t, None, FALSE)
    BY <2>1, <2>5 DEF BareEvent
  <2>6. CASE \E t : e = BareEvent(m, "FROZEN_ONLY_SCHEDULED_WEIGHT", t, None, FALSE)
    BY <2>1, <2>6 DEF BareEvent
  <2> QED
    BY <2>1, <2>2, <2>3, <2>4, <2>5, <2>6, EventIs, Zenon
<1>9. P \cap X = {}
  BY <1>2, <1>3
<1> HIDE DEF P, X, Ev, entries
<1> DEFINE g == [k \in entries |-> Ev(k)]
<1>10. ExistsBijection(entries, P \cup X)
  <2>1. g \in [entries -> P \cup X] /\ \A i, j \in entries : g[i] = g[j] => i = j
    BY <1>7
  <2>2. \A e \in P \cup X : \E k \in entries : g[k] = e
    BY <1>8
  <2> HIDE DEF g
  <2> QED
    BY <2>1, <2>2 DEF ExistsBijection, Bijection, Injection, Surjection, IsInjective
<1>11. IsFiniteSet(P \cup X) /\ Cardinality(P \cup X) = Cardinality(entries)
  BY <1>1, <1>10, FS_Bijection
<1>12. IsFiniteSet(P) /\ IsFiniteSet(X)
  BY <1>11, FS_Subset
<1>13. Cardinality(P \cup X) = Cardinality(P) + Cardinality(X) - Cardinality(P \cap X)
  BY <1>12, FS_Union
<1>14. Cardinality(P \cap X) = 0 /\ Cardinality(P) \in Nat /\ Cardinality(X) \in Nat
  BY <1>9, <1>12, FS_EmptySet, FS_CardinalityType
<1>15. Cardinality(P) + Cardinality(X) = Cardinality(entries)
  BY <1>11, <1>13, <1>14
<1> QED
  BY <1>1, <1>15 DEF P, X

\* Every fill minute has an event of the python side.
LEMMA MinutesTold ==
    ASSUME NEW m, NEW t \in Minutes
    PROVE  \E e \in LegEvents(m) : e.pairing \in PythonSide
<1>1. \A x, k : PairedEvent(m, x, k).pairing = "PAIRED_BY_TIME"
  BY PairedIs
<1>2. \A w, x, k : BareEvent(m, w, x, k, TRUE).pairing = w /\ BareEvent(m, w, x, k, FALSE).pairing = w
  BY DEF BareEvent
<1>3. CASE t \notin Rows
  <2>1. BareEvent(m, "FROZEN_ONLY_SCHEDULED_WEIGHT", t, None, FALSE) \in LegEvents(m)
    BY <1>3 DEF LegEvents
  <2> QED
    BY <2>1, <1>2 DEF PythonSide
<1>4. CASE t \in Rows \ InWindow
  <2>1. BareEvent(m, "OUT_OF_TESTED_WINDOW", t, None, FALSE) \in LegEvents(m)
    BY <1>4 DEF LegEvents
  <2> QED
    BY <2>1, <1>2 DEF PythonSide
<1>5. CASE t \in InWindow /\ \E p \in PairsOf(m) : p[1] = t
  <2>1. \E p \in PairsOf(m) : PairedEvent(m, p[1], p[2]) \in LegEvents(m)
    BY <1>5, Zenon DEF LegEvents
  <2> QED
    BY <2>1, <1>1 DEF PythonSide
<1>6. CASE t \in InWindow /\ ~\E p \in PairsOf(m) : p[1] = t
  <2>1. t \in InWindow \ {p[1] : p \in PairsOf(m)}
    BY <1>6
  <2>2. BareEvent(m, "MISSING_IN_MT5", t, None, TRUE) \in LegEvents(m)
    BY <2>1 DEF LegEvents
  <2> QED
    BY <2>2, <1>2 DEF PythonSide
<1> QED
  BY <1>3, <1>4, <1>5, <1>6

LEMMA PairedHasNoProblem ==
    ASSUME Alternates, NEW m \in Legs, NEW p \in PairsOf(m)
    PROVE  ~EventProblem(PairedEvent(m, p[1], p[2]))
<1> DEFINE k == p[2]
           e == PairedEvent(m, p[1], k)
           d == deals[m][k]
           after == AfterTickPath(m, k)
<1>1. k \in Mt5Entries(deals[m])
  BY DEF PairsOf
<1>2. FlatAt(deals[m], k)
  BY <1>1, FlatBefore
<1>3. e.model = m /\ e.ticket = k /\ e.onEquity = after /\ (after => e.equity = EquityAt(m, k))
  BY PairedIs
<1>4. \A f \in e.fields : \/ f = Field("timestamp", p[1], MinuteOf(d.time))
                          \/ f = Field("entry_side", Side(p[1]), d.side)
                          \/ f = Field("entry_price", ExpectedFill(p[1], Side(p[1])), d.price)
                          \/ f = Field("levels", StopLevel(ExpectedFill(p[1], Side(p[1])), Side(p[1])), d.level)
                          \/ after /\ f = Field("volume", FrozenRuleLots(EquityAt(m, k)), d.vol)
                          \/ ~after /\ f = Field("volume", ExpectedSet[p[1]], d.vol)
  BY PairedIs
<1>5. \A f \in e.fields : f.name = "levels" => f.mt5 = d.level
  BY <1>4, FieldIs
<1>6. after => \A f \in e.fields : f.name = "volume" => f.py = FrozenRuleLots(EquityAt(m, k))
  BY <1>4, FieldIs
<1> HIDE DEF e, k
<1> QED
  BY <1>2, <1>3, <1>5, <1>6 DEF EventProblem, VolumeOf, e, k

LEMMA BuiltIsRead == ReconcileInv => BuilderAgreesWithVerifier
<1> SUFFICES ASSUME ReconcileInv, doc # NoDoc, edits = 0, UsableLegs = Legs, NEW m \in Legs
             PROVE  ~Problems(m)
  BY DEF BuilderAgreesWithVerifier, VerifyEvents
<1>1. doc.events = Written /\ doc.record = TickPathOf("every_tick") /\ Alternates
  BY DEF ReconcileInv, AsWritten
<1>2. ~CountProblem(m)
  <2>1. Cardinality(EventsOf(m, "PAIRED_BY_TIME")) + Cardinality(EventsOf(m, "EXTRA_IN_MT5"))
          = Cardinality(LogEntryDeals(deals[m]))
    BY <1>1, EntriesToldOnce
  <2>2. ASSUME Minutes # {} PROVE \E e \in doc.events : e.model = m /\ e.pairing \in PythonSide
    <3>1. PICK e \in LegEvents(m) : e.pairing \in PythonSide
      BY <2>2, MinutesTold
    <3>2. e.model = m /\ e \in Written
      BY ModelOf DEF Written
    <3> QED
      BY <1>1, <3>1, <3>2
  <2> QED
    BY <2>1, <2>2 DEF CountProblem
<1>3. ~TickPathProblem(m)
  BY <1>1 DEF TickPathProblem, TickPathModels
<1>4. ASSUME NEW e \in EventsOf(m, "PAIRED_BY_TIME") PROVE ~EventProblem(e)
  <2>1. e \in LegEvents(m) /\ e.pairing = "PAIRED_BY_TIME"
    BY <1>1, ModelOf DEF EventsOf, Written
  <2>3. \E p \in PairsOf(m) : e = PairedEvent(m, p[1], p[2])
    <3>1. ~\E t \in InWindow \ {p[1] : p \in PairsOf(m)} : e = BareEvent(m, "MISSING_IN_MT5", t, None, TRUE)
      BY <2>1 DEF BareEvent
    <3>2. ~\E k \in Mt5Entries(deals[m]) \ {p[2] : p \in PairsOf(m)} :
             e = BareEvent(m, "EXTRA_IN_MT5", MinuteOf(deals[m][k].time), k, TRUE)
      BY <2>1 DEF BareEvent
    <3>3. ~\E t : e = BareEvent(m, "OUT_OF_TESTED_WINDOW", t, None, FALSE)
      BY <2>1 DEF BareEvent
    <3>4. ~\E t : e = BareEvent(m, "FROZEN_ONLY_SCHEDULED_WEIGHT", t, None, FALSE)
      BY <2>1 DEF BareEvent
    <3> QED
      BY <2>1, <3>1, <3>2, <3>3, <3>4, EventIs, Zenon
  <2> QED
    BY <1>1, <2>3, PairedHasNoProblem
<1> QED
  BY <1>2, <1>3, <1>4 DEF Problems

\* The comparison of the golds' trades (stage8_package.reconciliation_events, owner_gate.verify_reconciliation):
\* for any fill minutes, frozen columns, tester window and number of edits, what the builder writes
\* the verifier can read, and a comparison found VALID is a match of every deal.
THEOREM ComparisonHolds == ReconcileSpec => []ComparisonIsSound
<1>1. ReconcileInv => ComparisonIsSound
  BY BuiltIsRead, FoundTrue DEF ComparisonIsSound
<1> QED
  BY <1>1, ReconcileStart, ReconcileStep, PTL DEF ReconcileSpec

-----------------------------------------------------------------------------
(* OwnerGate: what a positive verdict is worth *)

GateSpec == GateInit /\ [][GateNext]_gateVars

\* What can be wrong with a file of each kind when it is written.
Allowed == [stage5 |-> {"none"}, compile_log |-> {"none", "errors"}, ex5 |-> {"none", "old"},
            compile_metadata |-> {"none", "commit", "fields"},
            symbolspec |-> {"none", "unparsable", "gap", "decision"},
            environment |-> {"none", "gap"},
            coverage |-> {"NONE", "FULL", "PARTIAL", "UNKNOWN", "fallback", "unproved"},
            manifest |-> {"none"}, list |-> {"none", "trades"}, window |-> {"none", "trades"},
            recon |-> {"none", "broken", "commit", "divergent"},
            safety |-> {"none", "failed"}, raw |-> {"none", "failed"}]

Phase ==
    /\ pc \in {"idle"} \cup DOMAIN After /\ touches \in Nat /\ interrupts \in Nat
    /\ pc # "idle" => touches = 0 /\ run > 0
    /\ run \in 0..MaxRuns /\ scope \subseteq Golds /\ scope # {} /\ DOMAIN na = 1..MaxRuns

\* A file is what a run put into it, or an edit of the owner's.
Unmarked(f, v) ==
    /\ f \in Files /\ DOMAIN v = {"run", "fault"} /\ v.run \in 1..run /\ v.fault \in Allowed[f[1]]
Altered(f, v) ==
    /\ f \in Evidence \cup Safety /\ DOMAIN v = {"run", "fault"} /\ v.run \in 1..run
    /\ v.fault = "edited" /\ touches > 0
\* A file that states the commit shows an accepted one unless it says otherwise.
CommitShown(f, v) ==
    f[1] \in {"compile_metadata", "recon"} /\ v.fault \in {"none", "fields", "divergent"} =>
        CommitAccepted(na[v.run].head)

FilesTyped ==
    \A f \in DOMAIN file : (Unmarked(f, file[f]) \/ Altered(f, file[f])) /\ CommitShown(f, file[f])

\* What a recorder other than the manifest records, and that it recorded it unedited.
Recorded(r, f) ==
    \/ r = <<"compile_metadata">> /\ f \in {<<"ex5">>, <<"compile_log">>}
    \/ r \in Recons /\ f \in {<<"ex5">>, <<"symbolspec">>} \cup {l \in Lists : l[2] = r[2]}
    \/ r \in Safety /\ f = <<"raw", r[2]>>
SaysTyped ==
    /\ Recorders \subseteq DOMAIN says
    /\ \A r \in Recorders \ {<<"manifest">>} : \A f \in DOMAIN says[r] :
            f \in Files /\ says[r][f].fault \in Allowed[f[1]] /\ Recorded(r, f)
    /\ \A r \in Recons \cap DOMAIN file : file[r].fault = "none" =>
            \A l \in Lists \cap DOMAIN says[r] : says[r][l].fault # "trades"

EvTyped ==
    \A p \in DOMAIN ev : /\ p \in Pieces /\ DOMAIN ev[p] = {"run", "fault"} /\ ev[p].run = run
                         /\ ev[p].fault \in ({"none"} \cup FaultsOf(p)) \ {"absent"}

LEMMA OverIs ==
    ASSUME NEW a, NEW b
    PROVE  /\ DOMAIN Over(a, b) = DOMAIN a \cup DOMAIN b
           /\ \A f \in DOMAIN a : Over(a, b)[f] = a[f]
           /\ \A f \in DOMAIN b : f \notin DOMAIN a => Over(a, b)[f] = b[f]
BY DEF Over

LEMMA JustIs == ASSUME NEW f, NEW v PROVE DOMAIN Just(f, v) = {f} /\ Just(f, v)[f] = v
BY DEF Just

LEMMA NothingIs == DOMAIN Nothing = {}
BY DEF Nothing, Restrict

LEMMA OnlyIs ==
    ASSUME NEW pkg, NEW S
    PROVE  DOMAIN Only(pkg, S) = S \cap DOMAIN pkg /\ \A f \in S \cap DOMAIN pkg : Only(pkg, S)[f] = pkg[f]
BY DEF Only, Restrict

LEMMA MadeIs ==
    ASSUME NEW r, NEW fault
    PROVE  DOMAIN Made(r, fault) = {"run", "fault"} /\ Made(r, fault).run = r /\ Made(r, fault).fault = fault
BY DEF Made

\* The kind of a file is its first part.
LEMMA KindsOfFiles ==
    /\ \A f \in Lists : f[1] = "list" /\ f[2] \in Golds /\ f[3] \in Models /\ f = <<"list", f[2], f[3]>>
    /\ \A f \in Windows : f[1] = "window" /\ f[2] \in Golds /\ f[3] \in Models /\ f = <<"window", f[2], f[3]>>
    /\ \A f \in Recons : f[1] = "recon" /\ f[2] \in Golds /\ f = <<"recon", f[2]>>
    /\ \A f \in Safety : f[1] = "safety" /\ f[2] \in Tests /\ f = <<"safety", f[2]>>
    /\ \A f \in Raws : f[1] = "raw" /\ f[2] \in Tests /\ f = <<"raw", f[2]>>
BY DEF Lists, Windows, Recons, Safety, Raws

LEMMA FilesOfKinds ==
    /\ \A g \in Golds, m \in Models : <<"list", g, m>> \in Lists /\ <<"window", g, m>> \in Windows
    /\ \A g \in Golds : <<"recon", g>> \in Recons
    /\ \A t \in Tests : <<"safety", t>> \in Safety /\ <<"raw", t>> \in Raws
BY DEF Lists, Windows, Recons, Safety, Raws

LEMMA FaultKinds ==
    /\ FaultsOf(<<"stage5">>) = {"absent"}
    /\ FaultsOf(<<"compile_log">>) = {"absent", "errors"}
    /\ FaultsOf(<<"ex5">>) = {"absent", "foreign", "old"}
    /\ FaultsOf(<<"export">>) = {"absent", "unparsable", "gap", "decision"}
    /\ \A t : FaultsOf(<<"leg", t>>) = {"absent", "failed"}
    /\ \A t : FaultsOf(<<"demo", t>>) = {"absent", "failed", "interrupted", "restore", "other_ex5"}
<1>1. FaultsOf(<<"stage5">>) = {"absent"}
  BY DEF FaultsOf
<1>2. FaultsOf(<<"compile_log">>) = {"absent", "errors"}
  BY DEF FaultsOf
<1>3. FaultsOf(<<"ex5">>) = {"absent", "foreign", "old"}
  BY DEF FaultsOf
<1>4. FaultsOf(<<"export">>) = {"absent", "unparsable", "gap", "decision"}
  BY DEF FaultsOf
<1>5. ASSUME NEW t PROVE FaultsOf(<<"leg", t>>) = {"absent", "failed"}
  <2>1. <<"leg", t>> \notin Windows
    BY KindsOfFiles
  <2>2. /\ <<"leg", t>> # <<"stage5">> /\ <<"leg", t>> # <<"compile_log">>
        /\ <<"leg", t>> # <<"ex5">> /\ <<"leg", t>> # <<"export">>
    OBVIOUS
  <2> QED
    BY <2>1, <2>2 DEF FaultsOf
<1>6. ASSUME NEW t PROVE FaultsOf(<<"demo", t>>) = {"absent", "failed", "interrupted", "restore", "other_ex5"}
  <2>1. <<"demo", t>> \notin Windows
    BY KindsOfFiles
  <2>2. /\ <<"demo", t>> # <<"stage5">> /\ <<"demo", t>> # <<"compile_log">>
        /\ <<"demo", t>> # <<"ex5">> /\ <<"demo", t>> # <<"export">>
    OBVIOUS
  <2> QED
    BY <2>1, <2>2 DEF FaultsOf
<1> QED
  BY <1>1, <1>2, <1>3, <1>4, <1>5, <1>6

\* What a step of the builder writes: a file of this run, and no list.
NewFile(f, v) == Unmarked(f, v) /\ v.run = run /\ CommitShown(f, v) /\ f \notin Lists

LEMMA CommonIs ==
    /\ Common \subseteq Files
    /\ {<<"stage5">>, <<"compile_log">>, <<"ex5">>, <<"compile_metadata">>, <<"symbolspec">>, <<"environment">>,
        <<"coverage">>, <<"manifest">>} = Common
    /\ Common \cap Lists = {} /\ Common \cap Recons = {}
<1>1. \A f \in Common : f[1] # "list" /\ f[1] # "recon"
  BY DEF Common
<1> QED
  BY <1>1, KindsOfFiles DEF Common, Files

LEMMA CompiledIs ==
    ASSUME Phase, EvTyped, run > 0
    PROVE  DOMAIN CompiledEx5 = {"run", "fault"} /\ CompiledEx5.run = run /\ CompiledEx5.fault \in {"none", "old"}
BY MadeIs DEF CompiledEx5, EvTyped, Measured, Has

\* A file of a kind that states no commit.
LEMMA NewPlain ==
    ASSUME Phase, run > 0, NEW f \in Files, NEW v, DOMAIN v = {"run", "fault"}, v.run = run,
           v.fault \in Allowed[f[1]], f[1] \notin {"compile_metadata", "recon", "list"}
    PROVE  NewFile(f, v)
BY KindsOfFiles DEF NewFile, Unmarked, CommitShown, Phase

LEMMA CopyNew ==
    ASSUME Phase, EvTyped, run > 0, NEW f \in Files, NEW p, f[1] \notin {"compile_metadata", "recon", "list"},
           ({"none"} \cup FaultsOf(p)) \ {"absent"} \subseteq Allowed[f[1]]
    PROVE  \A x \in DOMAIN Copy(f, p) : NewFile(x, Copy(f, p)[x])
<1>1. CASE Measured(p)
  <2>1. DOMAIN ev[p] = {"run", "fault"} /\ ev[p].run = run /\ ev[p].fault \in Allowed[f[1]]
    BY <1>1 DEF EvTyped, Measured, Has
  <2>2. NewFile(f, ev[p])
    BY <2>1, NewPlain
  <2>3. Copy(f, p) = Just(f, ev[p])
    BY <1>1 DEF Copy
  <2>4. DOMAIN Just(f, ev[p]) = {f} /\ Just(f, ev[p])[f] = ev[p]
    BY JustIs
  <2> QED
    BY <2>2, <2>3, <2>4
<1>2. CASE ~Measured(p)
  <2>1. Copy(f, p) = Nothing
    BY <1>2 DEF Copy
  <2> QED
    BY <2>1, NothingIs
<1> QED
  BY <1>1, <1>2

LEMMA CopyOnly == ASSUME NEW f, NEW p PROVE \A x \in DOMAIN Copy(f, p) : x = f
<1>1. Copy(f, p) = Just(f, ev[p]) \/ Copy(f, p) = Nothing
  BY DEF Copy
<1>2. DOMAIN Just(f, ev[p]) = {f}
  BY JustIs
<1> QED
  BY <1>1, <1>2, NothingIs

LEMMA CompileNew ==
    ASSUME Phase, EvTyped, run > 0
    PROVE  \A x \in DOMAIN CompileWrites : NewFile(x, CompileWrites[x])
<1>1. CASE ~Measured(<<"compile_log">>)
  BY <1>1, NothingIs DEF CompileWrites
<1>2. CASE Measured(<<"compile_log">>)
  <2>1. /\ DOMAIN ev[<<"compile_log">>] = {"run", "fault"} /\ ev[<<"compile_log">>].run = run
        /\ ev[<<"compile_log">>].fault \in {"none", "errors"}
    BY <1>2, FaultKinds DEF EvTyped, Measured, Has
  <2>2. <<"compile_log">> \in Files /\ <<"ex5">> \in Files
    BY CommonIs
  <2>3. NewFile(<<"compile_log">>, ev[<<"compile_log">>])
    BY <2>1, <2>2, NewPlain DEF Allowed
  <2>4. NewFile(<<"ex5">>, CompiledEx5)
    BY <2>2, CompiledIs, NewPlain DEF Allowed
  <2> DEFINE a == Just(<<"compile_log">>, ev[<<"compile_log">>])
             b == Just(<<"ex5">>, CompiledEx5)
  <2>5. /\ DOMAIN a = {<<"compile_log">>} /\ a[<<"compile_log">>] = ev[<<"compile_log">>]
        /\ DOMAIN b = {<<"ex5">>} /\ b[<<"ex5">>] = CompiledEx5
    BY JustIs
  <2>6. CompileWrites = a \/ CompileWrites = Over(a, b)
    BY <1>2 DEF CompileWrites
  <2> HIDE DEF a, b
  <2>7. \A x \in DOMAIN a : NewFile(x, a[x])
    BY <2>3, <2>5
  <2>8. \A x \in DOMAIN b : NewFile(x, b[x])
    BY <2>4, <2>5
  <2>9. \A x \in DOMAIN Over(a, b) : NewFile(x, Over(a, b)[x])
    <3>1. /\ DOMAIN Over(a, b) = DOMAIN a \cup DOMAIN b
          /\ \A f \in DOMAIN a : Over(a, b)[f] = a[f]
          /\ \A f \in DOMAIN b : f \notin DOMAIN a => Over(a, b)[f] = b[f]
      BY OverIs
    <3> QED
      BY <2>7, <2>8, <3>1
  <2> QED
    BY <2>6, <2>7, <2>9
<1> QED
  BY <1>1, <1>2

LEMMA MetadataNew ==
    ASSUME Phase, EvTyped, run > 0
    PROVE  \A x \in DOMAIN MetadataWrites : NewFile(x, MetadataWrites[x])
<1> DEFINE f == <<"compile_metadata">>
           v == Made(run, MetadataFault)
<1>1. DOMAIN v = {"run", "fault"} /\ v.run = run /\ v.fault = MetadataFault
  BY MadeIs
<1>2. f \in Files /\ f \notin Lists /\ f[1] = "compile_metadata"
  BY CommonIs
<1>3. MetadataFault \in {"none", "commit", "fields"} /\ (MetadataFault # "commit" => CommitAccepted(na[run].head))
  BY DEF MetadataFault
<1> HIDE DEF v
<1>4. NewFile(f, v)
  BY <1>1, <1>2, <1>3 DEF NewFile, Unmarked, CommitShown, Phase, Allowed
<1>5. MetadataWrites = Just(f, v) \/ MetadataWrites = Nothing
  BY DEF MetadataWrites, v
<1>6. DOMAIN Just(f, v) = {f} /\ Just(f, v)[f] = v
  BY JustIs
<1> QED
  BY <1>4, <1>5, <1>6, NothingIs

LEMMA WindowsNew ==
    ASSUME Phase, EvTyped, run > 0
    PROVE  \A x \in DOMAIN WindowWrites : NewFile(x, WindowWrites[x]) /\ x \in Windows
<1> SUFFICES ASSUME NEW x \in DOMAIN WindowWrites PROVE NewFile(x, WindowWrites[x]) /\ x \in Windows
  OBVIOUS
<1>1. x \in Windows /\ PassFromLog(ev, x) /\ WindowWrites[x] = ev[x]
  BY DEF WindowWrites
<1>2. DOMAIN ev[x] = {"run", "fault"} /\ ev[x].run = run /\ ev[x].fault \in {"none", "trades"}
  BY <1>1 DEF PassFromLog, Has, EvTyped
<1>3. x \in Files /\ x[1] = "window"
  BY <1>1, KindsOfFiles DEF Files
<1> QED
  BY <1>1, <1>2, <1>3, NewPlain DEF Allowed

LEMMA ReconNew ==
    ASSUME Phase, EvTyped, run > 0
    PROVE  \A x \in DOMAIN ReconWrites : NewFile(x, ReconWrites[x]) /\ x \in Recons /\ ReconWrites[x].fault = ReconFault(x[2])
<1> SUFFICES ASSUME NEW x \in DOMAIN ReconWrites
             PROVE  NewFile(x, ReconWrites[x]) /\ x \in Recons /\ ReconWrites[x].fault = ReconFault(x[2])
  OBVIOUS
<1>1. x \in Recons /\ ReconWrites[x] = Made(run, ReconFault(x[2]))
  BY DEF ReconWrites
<1>2. /\ ReconFault(x[2]) \in {"none", "broken", "commit", "divergent"}
      /\ ReconFault(x[2]) \in {"none", "divergent"} => CommitAccepted(na[run].head)
  BY DEF ReconFault
<1>3. x \in Files /\ x[1] = "recon" /\ x \notin Lists
  BY <1>1, KindsOfFiles DEF Files
<1> QED
  BY <1>1, <1>2, <1>3, MadeIs DEF NewFile, Unmarked, CommitShown, Phase, Allowed

LEMMA SafetyNew ==
    ASSUME Phase, EvTyped, run > 0
    PROVE  \A x \in DOMAIN SafetyWrites : NewFile(x, SafetyWrites[x]) /\ x \in Raws \cup Safety
<1> SUFFICES ASSUME NEW x \in DOMAIN SafetyWrites PROVE NewFile(x, SafetyWrites[x]) /\ x \in Raws \cup Safety
  OBVIOUS
<1>1. x \in Raws \cup Safety /\ x[2] \in SafetyBuilt /\ SafetyWrites[x] = SafetyEvidence(x[2])
  BY DEF SafetyWrites
<1>2. PICK t \in SafetyBuilt : t = x[2]
  BY <1>1
<1>3. CASE t \in DemoTests
  <2>1. Measured(<<"demo", t>>) /\ ev[<<"demo", t>>].fault \notin {"interrupted", "restore", "other_ex5"}
    BY <1>3, GateAssumption DEF SafetyBuilt, DemoUsable
  <2>2. DOMAIN ev[<<"demo", t>>] = {"run", "fault"} /\ ev[<<"demo", t>>].run = run /\ ev[<<"demo", t>>].fault \in {"none", "failed"}
    BY <2>1, FaultKinds DEF Measured, Has, EvTyped
  <2>3. x \in Files /\ x[1] \in {"raw", "safety"}
    BY <1>1, KindsOfFiles DEF Files
  <2>4. NewFile(x, ev[<<"demo", t>>])
    <3>1. Allowed[x[1]] = {"none", "failed"}
      BY <2>3 DEF Allowed
    <3> QED
      BY <2>2, <2>3, <3>1, NewPlain
  <2> QED
    BY <1>1, <1>2, <1>3, <2>4 DEF SafetyEvidence
<1>4. CASE t \notin DemoTests
  <2>1. Measured(<<"leg", t>>)
    BY <1>4 DEF SafetyBuilt
  <2>2. DOMAIN ev[<<"leg", t>>] = {"run", "fault"} /\ ev[<<"leg", t>>].run = run /\ ev[<<"leg", t>>].fault \in {"none", "failed"}
    BY <2>1, FaultKinds DEF Measured, Has, EvTyped
  <2>3. x \in Files /\ x[1] \in {"raw", "safety"}
    BY <1>1, KindsOfFiles DEF Files
  <2>4. NewFile(x, ev[<<"leg", t>>])
    <3>1. Allowed[x[1]] = {"none", "failed"}
      BY <2>3 DEF Allowed
    <3> QED
      BY <2>2, <2>3, <3>1, NewPlain
  <2> QED
    BY <1>1, <1>2, <1>4, <2>4 DEF SafetyEvidence
<1> QED
  BY <1>3, <1>4

LEMMA StepWritesNew ==
    ASSUME Phase, EvTyped, run > 0, NEW step
    PROVE  \A x \in DOMAIN StepWrites(step) :
              /\ NewFile(x, StepWrites(step)[x])
              /\ x \in Recons => step = "recon" /\ StepWrites(step)[x].fault = ReconFault(x[2])
              /\ x = <<"manifest">> => step = "manifest"
<1>a. \A x \in Recons \cup Windows \cup Raws \cup Safety : x # <<"manifest">>
  BY KindsOfFiles
<1>b. \A x \in Windows \cup Raws \cup Safety : x \notin Recons
  BY KindsOfFiles
<1>c. \A x \in {<<"stage5">>, <<"compile_log">>, <<"ex5">>, <<"compile_metadata">>, <<"symbolspec">>, <<"environment">>,
                  <<"coverage">>} : x \notin Recons /\ x # <<"manifest">>
  BY KindsOfFiles
<1>1. CASE step = "stage5"
  <2>1. \A x \in DOMAIN Copy(<<"stage5">>, <<"stage5">>) : NewFile(x, Copy(<<"stage5">>, <<"stage5">>)[x])
    BY CommonIs, CopyNew, FaultKinds DEF Allowed
  <2>2. \A x \in DOMAIN Copy(<<"stage5">>, <<"stage5">>) : x = <<"stage5">>
    BY CopyOnly
  <2> QED
    BY <1>1, <2>1, <2>2, <1>c DEF StepWrites
<1>2. CASE step = "compile"
  <2>1. \A x \in DOMAIN CompileWrites : x \in {<<"compile_log">>, <<"ex5">>}
    <3> DEFINE a == Just(<<"compile_log">>, ev[<<"compile_log">>])
               b == Just(<<"ex5">>, CompiledEx5)
    <3>1. CompileWrites = Nothing \/ CompileWrites = a \/ CompileWrites = Over(a, b)
      BY DEF CompileWrites
    <3>2. DOMAIN a = {<<"compile_log">>} /\ DOMAIN b = {<<"ex5">>}
      BY JustIs
    <3> HIDE DEF a, b
    <3>3. DOMAIN Over(a, b) = DOMAIN a \cup DOMAIN b
      BY OverIs
    <3> QED
      BY <3>1, <3>2, <3>3, NothingIs
  <2> QED
    BY <1>2, <2>1, <1>c, CompileNew DEF StepWrites
<1>3. CASE step = "symbolspec"
  <2>1. \A x \in DOMAIN Copy(<<"symbolspec">>, <<"export">>) : NewFile(x, Copy(<<"symbolspec">>, <<"export">>)[x])
    BY CommonIs, CopyNew, FaultKinds DEF Allowed
  <2>2. \A x \in DOMAIN Copy(<<"symbolspec">>, <<"export">>) : x = <<"symbolspec">>
    BY CopyOnly
  <2> QED
    BY <1>3, <2>1, <2>2, <1>c DEF StepWrites
<1>4. CASE step = "metadata"
  <2>1. \A x \in DOMAIN MetadataWrites : x = <<"compile_metadata">>
    <3>1. MetadataWrites = Just(<<"compile_metadata">>, Made(run, MetadataFault)) \/ MetadataWrites = Nothing
      BY DEF MetadataWrites
    <3>2. DOMAIN Just(<<"compile_metadata">>, Made(run, MetadataFault)) = {<<"compile_metadata">>}
      BY JustIs
    <3> QED
      BY <3>1, <3>2, NothingIs
  <2> QED
    BY <1>4, <2>1, <1>c, MetadataNew DEF StepWrites
<1>5. CASE step = "environment"
  <2> DEFINE v == Made(run, IF Measured(<<"export">>) THEN "none" ELSE "gap")
  <2>1. NewFile(<<"environment">>, v)
    <3>1. DOMAIN v = {"run", "fault"} /\ v.run = run /\ v.fault \in {"none", "gap"}
      BY MadeIs
    <3> QED
      BY <3>1, CommonIs, NewPlain DEF Allowed
  <2>2. DOMAIN EnvironmentWrites = {<<"environment">>} /\ EnvironmentWrites[<<"environment">>] = v
    BY JustIs DEF EnvironmentWrites
  <2> QED
    BY <1>5, <2>1, <2>2, <1>c DEF StepWrites
<1>6. CASE step = "coverage"
  <2>1. NewFile(<<"coverage">>, Made(run, "NONE"))
    BY MadeIs, CommonIs, NewPlain DEF Allowed
  <2>2. \A x \in DOMAIN CoverageWrites : x = <<"coverage">> /\ CoverageWrites[x] = Made(run, "NONE")
    <3>1. CoverageWrites = Just(<<"coverage">>, Made(run, "NONE")) \/ CoverageWrites = Nothing
      BY DEF CoverageWrites
    <3>2. /\ DOMAIN Just(<<"coverage">>, Made(run, "NONE")) = {<<"coverage">>}
          /\ Just(<<"coverage">>, Made(run, "NONE"))[<<"coverage">>] = Made(run, "NONE")
      BY JustIs
    <3> QED
      BY <3>1, <3>2, NothingIs
  <2> QED
    BY <1>6, <2>1, <2>2, <1>c DEF StepWrites
<1>7. CASE step = "windows"
  BY <1>7, <1>a, <1>b, WindowsNew DEF StepWrites
<1>8. CASE step = "recon"
  BY <1>8, <1>a, ReconNew DEF StepWrites
<1>9. CASE step = "safety"
  BY <1>9, <1>a, <1>b, SafetyNew DEF StepWrites
<1>10. CASE step = "manifest"
  <2>1. NewFile(<<"manifest">>, Made(run, "none"))
    BY MadeIs, CommonIs, NewPlain DEF Allowed
  <2>2. DOMAIN StepWrites(step) = {<<"manifest">>} /\ StepWrites(step)[<<"manifest">>] = Made(run, "none")
    BY <1>10, JustIs DEF StepWrites
  <2>3. <<"manifest">> \notin Recons
    BY <1>a
  <2> QED
    BY <1>10, <2>1, <2>2, <2>3
<1>11. CASE step \notin {"stage5", "compile", "symbolspec", "metadata", "environment", "coverage", "windows",
                         "recon", "safety", "manifest"}
  <2>1. StepWrites(step) = Nothing
    BY <1>11 DEF StepWrites
  <2> QED
    BY <2>1, NothingIs
<1> QED
  BY <1>1, <1>2, <1>3, <1>4, <1>5, <1>6, <1>7, <1>8, <1>9, <1>10, <1>11

GateOK == Phase /\ FilesTyped /\ SaysTyped /\ EvTyped

\* What a step records, from a package nobody has touched.
LEMMA RecordsTyped ==
    ASSUME Phase, EvTyped, run > 0, NEW step, NEW pkg, \A f \in DOMAIN pkg : Unmarked(f, pkg[f])
    PROVE  \A r \in DOMAIN Records(step, pkg) :
              /\ r \in Recorders
              /\ r = <<"manifest">> => step = "manifest"
              /\ r \in Recons => /\ step = "recon" /\ r \in DOMAIN ReconWrites
                                 /\ \A l \in Lists \cap DOMAIN Records(step, pkg)[r] :
                                      l \in ListsOf(pkg, r[2]) /\ Records(step, pkg)[r][l] = pkg[l]
              /\ r # <<"manifest">> => \A f \in DOMAIN Records(step, pkg)[r] :
                    f \in Files /\ Records(step, pkg)[r][f].fault \in Allowed[f[1]] /\ Recorded(r, f)
<1> DEFINE R == Records(step, pkg)
<1>a. \A f \in DOMAIN pkg : f \in Files /\ pkg[f].fault \in Allowed[f[1]]
  BY DEF Unmarked
<1>b. \A r \in Recons \cup Safety : r # <<"manifest">> /\ r # <<"compile_metadata">>
  BY KindsOfFiles
<1>c. \A r \in Safety : r \notin Recons
  BY KindsOfFiles
<1>1. CASE step = "metadata"
  <2> DEFINE a == Just(<<"ex5">>, CompiledEx5)
             b == Only(pkg, {<<"compile_log">>})
  <2>1. R = [f \in DOMAIN MetadataWrites |-> Over(a, b)]
    BY <1>1 DEF Records
  <2>2. \A x \in DOMAIN MetadataWrites : x = <<"compile_metadata">>
    <3>1. MetadataWrites = Just(<<"compile_metadata">>, Made(run, MetadataFault)) \/ MetadataWrites = Nothing
      BY DEF MetadataWrites
    <3>2. DOMAIN Just(<<"compile_metadata">>, Made(run, MetadataFault)) = {<<"compile_metadata">>}
      BY JustIs
    <3> QED
      BY <3>1, <3>2, NothingIs
  <2>3. DOMAIN a = {<<"ex5">>} /\ a[<<"ex5">>] = CompiledEx5
    BY JustIs
  <2>4. DOMAIN b = {<<"compile_log">>} \cap DOMAIN pkg /\ \A f \in DOMAIN b : b[f] = pkg[f]
    BY OnlyIs
  <2> HIDE DEF a, b
  <2>5. /\ DOMAIN Over(a, b) = DOMAIN a \cup DOMAIN b
        /\ \A f \in DOMAIN a : Over(a, b)[f] = a[f]
        /\ \A f \in DOMAIN b : f \notin DOMAIN a => Over(a, b)[f] = b[f]
    BY OverIs
  <2>6. CompiledEx5.fault \in Allowed["ex5"] /\ <<"ex5">> \in Files
    BY CompiledIs, CommonIs DEF Allowed
  <2>7. \A f \in DOMAIN Over(a, b) : /\ f \in Files /\ Over(a, b)[f].fault \in Allowed[f[1]]
                                     /\ f \in {<<"ex5">>, <<"compile_log">>}
    BY <2>3, <2>4, <2>5, <2>6, <1>a
  <2>8. \A r \in DOMAIN R : r = <<"compile_metadata">> /\ R[r] = Over(a, b)
    BY <2>1, <2>2
  <2>9. <<"compile_metadata">> \notin Recons /\ <<"compile_metadata">> # <<"manifest">> /\ <<"compile_metadata">> \in Recorders
    BY <1>b DEF Recorders
  <2> HIDE DEF R
  <2>10. \A r \in DOMAIN R : \A f \in DOMAIN R[r] : f \in Files /\ R[r][f].fault \in Allowed[f[1]] /\ Recorded(r, f)
    BY <2>7, <2>8 DEF Recorded
  <2> QED
    BY <2>8, <2>9, <2>10 DEF R
<1>2. CASE step = "recon"
  <2>1. R = [f \in DOMAIN ReconWrites |-> Only(pkg, {<<"ex5">>, <<"symbolspec">>} \cup ListsOf(pkg, f[2]))]
    BY <1>2 DEF Records
  <2>2. DOMAIN ReconWrites \subseteq Recons
    BY DEF ReconWrites
  <2>3. \A r \in DOMAIN R : r \in Recons /\ r \in DOMAIN ReconWrites
                            /\ R[r] = Only(pkg, {<<"ex5">>, <<"symbolspec">>} \cup ListsOf(pkg, r[2]))
    BY <2>1, <2>2
  <2> HIDE DEF R
  <2>4. \A r \in DOMAIN R : \A f \in DOMAIN R[r] :
           f \in DOMAIN pkg /\ f \in {<<"ex5">>, <<"symbolspec">>} \cup ListsOf(pkg, r[2]) /\ R[r][f] = pkg[f]
    <3> SUFFICES ASSUME NEW r \in DOMAIN R, NEW f \in DOMAIN R[r]
                 PROVE  f \in DOMAIN pkg /\ f \in {<<"ex5">>, <<"symbolspec">>} \cup ListsOf(pkg, r[2]) /\ R[r][f] = pkg[f]
      OBVIOUS
    <3> DEFINE S == {<<"ex5">>, <<"symbolspec">>} \cup ListsOf(pkg, r[2])
    <3>1. R[r] = Only(pkg, S)
      BY <2>3
    <3> HIDE DEF S
    <3>2. DOMAIN Only(pkg, S) = S \cap DOMAIN pkg /\ \A x \in S \cap DOMAIN pkg : Only(pkg, S)[x] = pkg[x]
      BY OnlyIs
    <3>3. f \in S /\ f \in DOMAIN pkg /\ R[r][f] = pkg[f]
      BY <3>1, <3>2
    <3> QED
      BY <3>3 DEF S
  <2>5. \A r : ListsOf(pkg, r[2]) \subseteq {l \in Lists : l[2] = r[2]}
    BY DEF ListsOf, LogLegs
  <2>6. \A r \in DOMAIN R : \A f \in DOMAIN R[r] : f \in Files /\ R[r][f].fault \in Allowed[f[1]] /\ Recorded(r, f)
    BY <2>3, <2>4, <2>5, <1>a DEF Recorded
  <2>7. \A r \in DOMAIN R : \A l \in Lists \cap DOMAIN R[r] : l \in ListsOf(pkg, r[2]) /\ R[r][l] = pkg[l]
    <3>1. \A l \in Lists : l # <<"ex5">> /\ l # <<"symbolspec">>
      BY KindsOfFiles
    <3> QED
      BY <2>4, <3>1
  <2>8. \A r \in DOMAIN R : r \in Recorders /\ r # <<"manifest">>
    BY <2>3, <1>b DEF Recorders
  <2> QED
    BY <1>2, <2>3, <2>6, <2>7, <2>8 DEF R
<1>3. CASE step = "safety"
  <2>1. R = [f \in Safety \cap DOMAIN SafetyWrites |-> Only(pkg, {<<"raw", f[2]>>})]
    BY <1>3 DEF Records
  <2>2. \A r \in DOMAIN R : r \in Safety /\ R[r] = Only(pkg, {<<"raw", r[2]>>})
    BY <2>1
  <2> HIDE DEF R
  <2>3. \A r \in DOMAIN R : \A f \in DOMAIN R[r] : f \in DOMAIN pkg /\ f = <<"raw", r[2]>> /\ R[r][f] = pkg[f]
    <3> SUFFICES ASSUME NEW r \in DOMAIN R, NEW f \in DOMAIN R[r]
                 PROVE  f \in DOMAIN pkg /\ f = <<"raw", r[2]>> /\ R[r][f] = pkg[f]
      OBVIOUS
    <3> DEFINE S == {<<"raw", r[2]>>}
    <3>1. R[r] = Only(pkg, S)
      BY <2>2
    <3> HIDE DEF S
    <3>2. DOMAIN Only(pkg, S) = S \cap DOMAIN pkg /\ \A x \in S \cap DOMAIN pkg : Only(pkg, S)[x] = pkg[x]
      BY OnlyIs
    <3>3. f \in S /\ f \in DOMAIN pkg /\ R[r][f] = pkg[f]
      BY <3>1, <3>2
    <3> QED
      BY <3>3 DEF S
  <2>4. \A r \in DOMAIN R : \A f \in DOMAIN R[r] : f \in Files /\ R[r][f].fault \in Allowed[f[1]] /\ Recorded(r, f)
    BY <2>2, <2>3, <1>a DEF Recorded
  <2>5. \A r \in DOMAIN R : r \in Recorders /\ r # <<"manifest">> /\ r \notin Recons
    BY <2>2, <1>b, <1>c DEF Recorders
  <2> QED
    BY <2>4, <2>5 DEF R
<1>4. CASE step = "manifest"
  <2>1. DOMAIN R = {<<"manifest">>}
    BY <1>4, JustIs DEF Records
  <2>2. <<"manifest">> \notin Recons /\ <<"manifest">> \in Recorders
    BY <1>b DEF Recorders
  <2> HIDE DEF R
  <2> QED
    BY <1>4, <2>1, <2>2 DEF R
<1>5. CASE step \notin {"metadata", "recon", "safety", "manifest"}
  <2>1. R = Nothing
    BY <1>5 DEF Records
  <2> QED
    BY <2>1, NothingIs
<1> QED
  BY <1>1, <1>2, <1>3, <1>4, <1>5

\* A build step keeps the package a package: it removes, or writes files of this run.
LEMMA BuildFiles ==
    ASSUME GateOK, BuildStep
    PROVE  /\ FilesTyped' /\ \A f \in DOMAIN file' : Unmarked(f, file'[f])
           /\ \A f \in DOMAIN file : Unmarked(f, file[f])
<1>1. touches = 0 /\ run > 0 /\ UNCHANGED <<run, na, touches>>
  BY DEF GateOK, Phase, BuildStep
<1>2. \A f \in DOMAIN file : Unmarked(f, file[f]) /\ CommitShown(f, file[f])
  BY <1>1 DEF GateOK, FilesTyped, Altered
<1>3. \A f \in DOMAIN StepWrites(pc) : NewFile(f, StepWrites(pc)[f])
  BY <1>1, StepWritesNew DEF GateOK
<1>4. CASE pc = "remove"
  <2>1. file' = Restrict(file, DOMAIN file \ built)
    BY <1>4 DEF BuildStep
  <2>2. \A f \in DOMAIN file' : f \in DOMAIN file /\ file'[f] = file[f]
    BY <2>1 DEF Restrict
  <2>3. \A f \in DOMAIN file' : Unmarked(f, file'[f]) /\ CommitShown(f, file'[f])
    BY <1>2, <2>2
  <2> QED
    BY <1>1, <1>2, <2>3 DEF FilesTyped, Unmarked, CommitShown
<1>5. CASE pc # "remove"
  <2>1. file' = Over(StepWrites(pc), file)
    BY <1>5 DEF BuildStep
  <2>2. /\ DOMAIN Over(StepWrites(pc), file) = DOMAIN StepWrites(pc) \cup DOMAIN file
        /\ \A f \in DOMAIN StepWrites(pc) : Over(StepWrites(pc), file)[f] = StepWrites(pc)[f]
        /\ \A f \in DOMAIN file : f \notin DOMAIN StepWrites(pc) => Over(StepWrites(pc), file)[f] = file[f]
    BY OverIs
  <2>3. \A f \in DOMAIN file' : Unmarked(f, file'[f]) /\ CommitShown(f, file'[f])
    BY <1>2, <1>3, <2>1, <2>2 DEF NewFile
  <2> QED
    BY <1>1, <1>2, <2>3 DEF FilesTyped, Unmarked, CommitShown
<1> QED
  BY <1>4, <1>5

LEMMA BuildSays == ASSUME GateOK, BuildStep PROVE SaysTyped'
<1>1. run > 0 /\ Phase /\ EvTyped /\ SaysTyped
  BY DEF GateOK, Phase, BuildStep
<1>2. (\A f \in DOMAIN file' : Unmarked(f, file'[f])) /\ \A f \in DOMAIN file : Unmarked(f, file[f])
  BY BuildFiles
<1> DEFINE R == Records(pc, file')
<1>3. \A r \in DOMAIN R :
         /\ r \in Recorders
         /\ r = <<"manifest">> => pc = "manifest"
         /\ r \in Recons => /\ pc = "recon" /\ r \in DOMAIN ReconWrites
                            /\ \A l \in Lists \cap DOMAIN R[r] : l \in ListsOf(file', r[2]) /\ R[r][l] = file'[l]
         /\ r # <<"manifest">> => \A f \in DOMAIN R[r] :
               f \in Files /\ R[r][f].fault \in Allowed[f[1]] /\ Recorded(r, f)
  BY <1>1, <1>2, RecordsTyped
<1>4. says' = Over(R, says)
  BY DEF BuildStep
<1> HIDE DEF R
<1>5. /\ DOMAIN says' = DOMAIN R \cup DOMAIN says
      /\ \A r \in DOMAIN R : says'[r] = R[r]
      /\ \A r \in DOMAIN says : r \notin DOMAIN R => says'[r] = says[r]
  <2>1. /\ DOMAIN Over(R, says) = DOMAIN R \cup DOMAIN says
        /\ \A f \in DOMAIN R : Over(R, says)[f] = R[f]
        /\ \A f \in DOMAIN says : f \notin DOMAIN R => Over(R, says)[f] = says[f]
    BY OverIs
  <2> QED
    BY <1>4, <2>1
<1>6. Recorders \subseteq DOMAIN says'
  BY <1>1, <1>5 DEF SaysTyped
<1>7. \A r \in Recorders \ {<<"manifest">>} : \A f \in DOMAIN says'[r] :
         f \in Files /\ says'[r][f].fault \in Allowed[f[1]] /\ Recorded(r, f)
  BY <1>1, <1>3, <1>5 DEF SaysTyped
<1>8. ASSUME NEW r \in Recons \cap DOMAIN file', file'[r].fault = "none", NEW l \in Lists \cap DOMAIN says'[r]
      PROVE  says'[r][l].fault # "trades"
  <2>1. \A x \in DOMAIN StepWrites(pc) : /\ NewFile(x, StepWrites(pc)[x])
                                         /\ x \in Recons => pc = "recon" /\ StepWrites(pc)[x].fault = ReconFault(x[2])
    BY <1>1, StepWritesNew
  <2>2. CASE r \in DOMAIN R
    <3>1. pc = "recon" /\ r \in DOMAIN ReconWrites /\ l \in ListsOf(file', r[2]) /\ says'[r][l] = file'[l]
      BY <1>3, <1>5, <2>2, <1>8
    <3>2. file' = Over(ReconWrites, file) /\ StepWrites(pc) = ReconWrites
      BY <3>1 DEF BuildStep, StepWrites
    <3>3. /\ DOMAIN file' = DOMAIN ReconWrites \cup DOMAIN file
          /\ \A f \in DOMAIN ReconWrites : file'[f] = ReconWrites[f]
          /\ \A f \in DOMAIN file : f \notin DOMAIN ReconWrites => file'[f] = file[f]
      <4>1. /\ DOMAIN Over(ReconWrites, file) = DOMAIN ReconWrites \cup DOMAIN file
            /\ \A f \in DOMAIN ReconWrites : Over(ReconWrites, file)[f] = ReconWrites[f]
            /\ \A f \in DOMAIN file : f \notin DOMAIN ReconWrites => Over(ReconWrites, file)[f] = file[f]
        BY OverIs
      <4> QED
        BY <3>2, <4>1
    <3>4. file'[r].fault = ReconFault(r[2])
      BY <2>1, <3>1, <3>2, <3>3
    <3>5. l \in Lists /\ l \in DOMAIN file' /\ l[2] = r[2] /\ l \notin DOMAIN ReconWrites
      BY <2>1, <3>1, <3>2 DEF ListsOf, LogLegs, Has, NewFile
    <3>6. l \in ListsOf(file, r[2]) /\ file'[l] = file[l]
      BY <3>3, <3>5 DEF ListsOf, LogLegs, Has
    <3>7. file[l].fault # "trades"
      BY <1>8, <3>4, <3>6 DEF ReconFault
    <3> QED
      BY <3>1, <3>6, <3>7
  <2>3. CASE r \notin DOMAIN R
    <3>1. says'[r] = says[r] /\ r \in Recorders
      BY <1>1, <1>5, <2>3 DEF SaysTyped, Recorders
    <3>2. r \notin DOMAIN StepWrites(pc)
      <4> SUFFICES ASSUME r \in DOMAIN StepWrites(pc) PROVE FALSE
        OBVIOUS
      <4>1. pc = "recon"
        BY <2>1, <1>8
      <4>2. r \in DOMAIN ReconWrites
        BY <4>1 DEF StepWrites
      <4>3. r \in DOMAIN R
        BY <4>1, <4>2 DEF R, Records
      <4> QED
        BY <4>3, <2>3
    <3>3. r \in DOMAIN file /\ file'[r] = file[r]
      <4>1. CASE pc = "remove"
        BY <4>1, <1>8 DEF BuildStep, Restrict
      <4>2. CASE pc # "remove"
        <5>1. file' = Over(StepWrites(pc), file)
          BY <4>2 DEF BuildStep
        <5> QED
          <6>1. /\ DOMAIN Over(StepWrites(pc), file) = DOMAIN StepWrites(pc) \cup DOMAIN file
                /\ \A f \in DOMAIN StepWrites(pc) : Over(StepWrites(pc), file)[f] = StepWrites(pc)[f]
                /\ \A f \in DOMAIN file : f \notin DOMAIN StepWrites(pc) => Over(StepWrites(pc), file)[f] = file[f]
            BY OverIs
          <6> QED
            BY <5>1, <6>1, <3>2, <1>8
      <4> QED
        BY <4>1, <4>2
    <3> QED
      BY <1>1, <3>1, <3>3, <1>8 DEF SaysTyped
  <2> QED
    BY <2>2, <2>3
<1> QED
  BY <1>6, <1>7, <1>8 DEF SaysTyped, Recorded

LEMMA BuildKeeps == ASSUME GateOK, BuildStep PROVE GateOK'
<1>1. FilesTyped' /\ SaysTyped'
  BY BuildFiles, BuildSays
<1>2. Phase'
  <2>1. Phase /\ pc \in DOMAIN After
    BY DEF GateOK, Phase, BuildStep
  <2>2. \A p \in DOMAIN After : After[p] \in {"idle"} \cup DOMAIN After
    BY DEF After
  <2>3. pc' \in {"idle"} \cup DOMAIN After
    BY <2>1, <2>2 DEF BuildStep
  <2>4. pc # "idle" /\ UNCHANGED <<scope, run, na, touches, interrupts>>
    BY DEF BuildStep
  <2> QED
    BY <2>1, <2>3, <2>4 DEF Phase
<1>3. EvTyped'
  <2>1. ev' = Nothing \/ ev' = ev
    BY DEF BuildStep
  <2>2. run' = run /\ EvTyped
    BY DEF BuildStep, GateOK
  <2> QED
    BY <2>1, <2>2, NothingIs DEF EvTyped
<1> QED
  BY <1>1, <1>2, <1>3 DEF GateOK

\* The typing of the package and of what it says of itself depends on nothing else.
LEMMA PackageStays ==
    ASSUME FilesTyped, SaysTyped, UNCHANGED <<run, na, touches, file, says>>
    PROVE  FilesTyped' /\ SaysTyped'
<1>1. FilesTyped'
  BY DEF FilesTyped, Unmarked, Altered, CommitShown
<1>2. SaysTyped'
  BY DEF SaysTyped, Recorded
<1> QED
  BY <1>1, <1>2

LEMMA InterruptKeeps == ASSUME GateOK, Interrupt PROVE GateOK'
<1>1. FilesTyped' /\ SaysTyped'
  BY PackageStays DEF GateOK, Interrupt
<1>2. Phase'
  BY DEF GateOK, Phase, Interrupt
<1>3. EvTyped'
  BY NothingIs DEF Interrupt, EvTyped
<1> QED
  BY <1>1, <1>2, <1>3 DEF GateOK

LEMMA RunKeeps == ASSUME GateOK, GateRun PROVE GateOK'
<1>1. /\ pc = "idle" /\ run < MaxRuns /\ touches = 0 /\ run' = run + 1 /\ run \in Nat /\ run' \in 0..MaxRuns
      /\ UNCHANGED <<scope, says, built, wrote, touches, interrupts, report, bound, certified>>
      /\ pc' = "remove" /\ Phase
  BY GateAssumption DEF GateOK, Phase, GateRun
<1>2. PICK golds \in NaChoices, bad \in SUBSET Pieces, head \in Heads :
        /\ na' = [na EXCEPT ![run + 1] = [golds |-> golds, head |-> head]]
        /\ \E why \in [bad -> UNION {FaultsOf(p) : p \in bad}] :
            /\ \A p \in bad : why[p] \in FaultsOf(p)
            /\ LET unlaunched == {"window"} \X golds \X {"real_ticks"}
                   lost == {p \in bad : why[p] = "absent"}
               IN ev' = [p \in Pieces \ (unlaunched \cup lost) |->
                            Made(run + 1, IF p \in bad THEN why[p] ELSE "none")]
            /\ file' = Over(PlacedLists(run + 1, ev'), file)
  BY Zenon DEF GateRun
<1>3. PICK why \in [bad -> UNION {FaultsOf(p) : p \in bad}] :
            /\ \A p \in bad : why[p] \in FaultsOf(p)
            /\ LET unlaunched == {"window"} \X golds \X {"real_ticks"}
                   lost == {p \in bad : why[p] = "absent"}
               IN ev' = [p \in Pieces \ (unlaunched \cup lost) |->
                            Made(run + 1, IF p \in bad THEN why[p] ELSE "none")]
            /\ file' = Over(PlacedLists(run + 1, ev'), file)
  BY <1>2
<1>4. \A p \in DOMAIN ev' : /\ p \in Pieces /\ (p \in bad => why[p] # "absent")
                            /\ ev'[p] = Made(run + 1, IF p \in bad THEN why[p] ELSE "none")
  BY <1>3
<1>5. \A p : "none" \in ({"none"} \cup FaultsOf(p)) \ {"absent"}
  OBVIOUS
<1>6. EvTyped'
  <2> SUFFICES ASSUME NEW p \in DOMAIN ev'
               PROVE  /\ p \in Pieces /\ DOMAIN ev'[p] = {"run", "fault"} /\ ev'[p].run = run'
                      /\ ev'[p].fault \in ({"none"} \cup FaultsOf(p)) \ {"absent"}
    BY DEF EvTyped
  <2> DEFINE x == IF p \in bad THEN why[p] ELSE "none"
  <2>1. x \in ({"none"} \cup FaultsOf(p)) \ {"absent"}
    BY <1>3, <1>4
  <2>2. ev'[p] = Made(run + 1, x) /\ p \in Pieces
    BY <1>4
  <2> HIDE DEF x
  <2>3. DOMAIN Made(run + 1, x) = {"run", "fault"} /\ Made(run + 1, x).run = run + 1 /\ Made(run + 1, x).fault = x
    BY MadeIs
  <2> QED
    BY <1>1, <2>1, <2>2, <2>3
<1>7. Phase'
  BY <1>1, <1>2 DEF Phase, After
<1> DEFINE L == PlacedLists(run + 1, ev')
<1>8. /\ DOMAIN Over(L, file) = DOMAIN L \cup DOMAIN file
      /\ \A f \in DOMAIN L : Over(L, file)[f] = L[f]
      /\ \A f \in DOMAIN file : f \notin DOMAIN L => Over(L, file)[f] = file[f]
  BY OverIs
<1>9. \A f \in DOMAIN L : f \in Lists /\ L[f].run = run + 1 /\ DOMAIN L[f] = {"run", "fault"} /\ L[f].fault \in {"none", "trades"}
  <2> SUFFICES ASSUME NEW f \in DOMAIN L
               PROVE  f \in Lists /\ L[f].run = run + 1 /\ DOMAIN L[f] = {"run", "fault"} /\ L[f].fault \in {"none", "trades"}
    OBVIOUS
  <2> DEFINE w == <<"window", f[2], f[3]>>
  <2>1. f \in Lists /\ PassFromLog(ev', w) /\ L[f] = Made(run + 1, ev'[w].fault)
    BY DEF PlacedLists
  <2>2. ev'[w].fault \in {"none", "trades"}
    BY <2>1 DEF PassFromLog
  <2> QED
    BY <2>1, <2>2, MadeIs
<1> HIDE DEF L
<1>10. \A v \in 1..run : na'[v] = na[v]
  BY <1>1, <1>2 DEF Phase
<1>11. FilesTyped'
  <2> SUFFICES ASSUME NEW f \in DOMAIN file'
               PROVE  Unmarked(f, file[f])' /\ CommitShown(f, file[f])'
    BY DEF FilesTyped
  <2>1. file' = Over(L, file)
    BY <1>3 DEF L
  <2>2. CASE f \in DOMAIN L
    <3>1. file'[f] = L[f] /\ f[1] = "list" /\ f \in Files
      BY <1>8, <1>9, <2>1, <2>2, KindsOfFiles DEF Files
    <3>2. L[f].fault \in Allowed[f[1]]
      BY <1>9, <2>2, <3>1 DEF Allowed
    <3>3. L[f].run \in 1..run' /\ DOMAIN L[f] = {"run", "fault"}
      BY <1>1, <1>9, <2>2
    <3> QED
      BY <3>1, <3>2, <3>3 DEF Unmarked, CommitShown
  <2>3. CASE f \notin DOMAIN L
    <3>1. f \in DOMAIN file /\ file'[f] = file[f]
      BY <1>8, <2>1, <2>3
    <3>2. Unmarked(f, file[f]) /\ CommitShown(f, file[f])
      BY <1>1, <3>1 DEF GateOK, FilesTyped, Altered
    <3>3. file[f].run \in 1..run /\ file[f].run \in 1..run'
      BY <1>1, <3>2 DEF Unmarked
    <3> QED
      BY <1>10, <3>1, <3>2, <3>3 DEF Unmarked, CommitShown
  <2> QED
    BY <2>2, <2>3
<1>12. SaysTyped'
  <2>1. \A r \in Recons \cap DOMAIN file' : r \in DOMAIN file /\ file'[r] = file[r]
    <3>1. file' = Over(L, file)
      BY <1>3 DEF L
    <3>2. \A r \in Recons : r \notin DOMAIN L
      BY <1>9, KindsOfFiles
    <3> QED
      BY <1>8, <3>1, <3>2
  <2>2. SaysTyped /\ says' = says
    BY <1>1 DEF GateOK
  <2> QED
    BY <2>1, <2>2 DEF SaysTyped, Recorded
<1> QED
  BY <1>6, <1>7, <1>11, <1>12 DEF GateOK

\* The owner's edits are of evidence and safety files, and never undone by a build.
LEMMA AlterKeeps == ASSUME GateOK, AlterFile PROVE GateOK'
<1>1. PICK f \in Evidence \cup Safety : Has(file, f) /\ Touch([file EXCEPT ![f].fault = "edited"])
  BY DEF AlterFile
<1>2. /\ touches' = touches + 1 /\ touches \in Nat /\ pc = "idle" /\ UNCHANGED <<scope, run, na, ev, says, pc, interrupts>>
      /\ file' = [file EXCEPT ![f].fault = "edited"]
  BY <1>1 DEF Touch, GateOK, Phase
<1>3. f \in DOMAIN file /\ (Unmarked(f, file[f]) \/ Altered(f, file[f]))
  BY <1>1 DEF Has, GateOK, FilesTyped
<1>4. /\ DOMAIN file' = DOMAIN file /\ \A x \in DOMAIN file : x # f => file'[x] = file[x]
      /\ DOMAIN file'[f] = {"run", "fault"} /\ file'[f].run = file[f].run /\ file'[f].fault = "edited"
      /\ file[f].run \in 1..run
  BY <1>2, <1>3 DEF Unmarked, Altered
<1>5. f \notin Recons
  BY KindsOfFiles DEF Evidence
<1>6. FilesTyped'
  <2> SUFFICES ASSUME NEW x \in DOMAIN file'
               PROVE  (Unmarked(x, file[x]) \/ Altered(x, file[x]))' /\ CommitShown(x, file[x])'
    BY DEF FilesTyped
  <2>1. CASE x = f
    BY <1>2, <1>4, <2>1 DEF Altered, CommitShown
  <2>2. CASE x # f
    <3>1. file'[x] = file[x] /\ x \in DOMAIN file
      BY <1>4, <2>2
    <3>2. (Unmarked(x, file[x]) \/ Altered(x, file[x])) /\ CommitShown(x, file[x])
      BY <3>1 DEF GateOK, FilesTyped
    <3> QED
      BY <1>2, <3>1, <3>2 DEF Unmarked, Altered, CommitShown
  <2> QED
    BY <2>1, <2>2
<1>7. SaysTyped'
  <2>1. \A r \in Recons \cap DOMAIN file' : r \in DOMAIN file /\ file'[r] = file[r]
    BY <1>4, <1>5
  <2>2. SaysTyped /\ says' = says
    BY <1>2 DEF GateOK
  <2> QED
    BY <2>1, <2>2 DEF SaysTyped, Recorded
<1>8. Phase' /\ EvTyped'
  BY <1>2 DEF GateOK, Phase, EvTyped
<1> QED
  BY <1>6, <1>7, <1>8 DEF GateOK

LEMMA RemoveKeeps == ASSUME GateOK, RemoveFile PROVE GateOK'
<1>1. PICK f \in DOMAIN file : Touch(AllBut(file, f))
  BY DEF RemoveFile
<1>2. /\ touches' = touches + 1 /\ touches \in Nat /\ pc = "idle" /\ UNCHANGED <<scope, run, na, ev, says, pc, interrupts>>
      /\ file' = AllBut(file, f)
  BY <1>1 DEF Touch, GateOK, Phase
<1>3. \A x \in DOMAIN file' : x \in DOMAIN file /\ file'[x] = file[x]
  BY <1>2 DEF AllBut, Restrict
<1>4. FilesTyped'
  BY <1>2, <1>3 DEF GateOK, FilesTyped, Unmarked, Altered, CommitShown
<1>5. SaysTyped'
  BY <1>2, <1>3 DEF GateOK, SaysTyped, Recorded
<1>6. Phase' /\ EvTyped'
  BY <1>2 DEF GateOK, Phase, EvTyped
<1> QED
  BY <1>4, <1>5, <1>6 DEF GateOK

LEMMA CoverageKeeps == ASSUME GateOK, OwnerCoverage PROVE GateOK'
<1>1. PICK kind \in {"FULL", "PARTIAL", "UNKNOWN", "fallback", "unproved"} :
           file' = Over(Just(<<"coverage">>, Made(run, kind)), file)
  BY DEF OwnerCoverage
<1>2. /\ pc = "idle" /\ UNCHANGED <<scope, run, na, ev, pc, touches, interrupts>> /\ Has(file, <<"manifest">>)
      /\ says' = [says EXCEPT ![<<"manifest">>] = AllBut(file', <<"manifest">>)]
  BY DEF OwnerCoverage
<1> DEFINE c == <<"coverage">>
           v == Made(run, kind)
           J == Just(c, v)
<1>3. DOMAIN v = {"run", "fault"} /\ v.run = run /\ v.fault = kind
  BY MadeIs
<1>4. DOMAIN J = {c} /\ J[c] = v
  BY JustIs
<1>5. /\ DOMAIN Over(J, file) = DOMAIN J \cup DOMAIN file
      /\ \A f \in DOMAIN J : Over(J, file)[f] = J[f]
      /\ \A f \in DOMAIN file : f \notin DOMAIN J => Over(J, file)[f] = file[f]
  BY OverIs
<1>6. c \in Files /\ c[1] = "coverage" /\ c \notin Recons
  BY CommonIs
<1>7. run \in 1..run
  <2>1. file[<<"manifest">>].run \in 1..run /\ run \in Nat
    BY <1>2 DEF Has, GateOK, FilesTyped, Unmarked, Altered, Phase
  <2> QED
    BY <2>1
<1> HIDE DEF J, v, c
<1>8. file' = Over(J, file)
  BY <1>1 DEF J, v, c
<1>9. FilesTyped'
  <2> SUFFICES ASSUME NEW x \in DOMAIN file'
               PROVE  (Unmarked(x, file[x]) \/ Altered(x, file[x]))' /\ CommitShown(x, file[x])'
    BY DEF FilesTyped
  <2>1. CASE x = c
    <3>1. file'[x] = v
      BY <1>4, <1>5, <1>8, <2>1
    <3>2. v.fault \in Allowed[c[1]]
      BY <1>3, <1>6 DEF Allowed
    <3> QED
      BY <1>2, <1>3, <1>6, <1>7, <2>1, <3>1, <3>2 DEF Unmarked, CommitShown
  <2>2. CASE x # c
    <3>1. file'[x] = file[x] /\ x \in DOMAIN file
      BY <1>4, <1>5, <1>8, <2>2
    <3>2. (Unmarked(x, file[x]) \/ Altered(x, file[x])) /\ CommitShown(x, file[x])
      BY <3>1 DEF GateOK, FilesTyped
    <3> QED
      BY <1>2, <3>1, <3>2 DEF Unmarked, Altered, CommitShown
  <2> QED
    BY <2>1, <2>2
<1>10. SaysTyped'
  <2>1. \A r \in Recons \cap DOMAIN file' : r \in DOMAIN file /\ file'[r] = file[r]
    BY <1>4, <1>5, <1>6, <1>8
  <2>2. DOMAIN says' = DOMAIN says /\ \A r \in DOMAIN says : r # <<"manifest">> => says'[r] = says[r]
    BY <1>2
  <2>3. SaysTyped /\ \A r \in Recons : r # <<"manifest">> /\ r \in Recorders
    BY KindsOfFiles DEF GateOK, Recorders
  <2> QED
    BY <2>1, <2>2, <2>3 DEF SaysTyped, Recorded
<1>11. Phase' /\ EvTyped'
  BY <1>2 DEF GateOK, Phase, EvTyped
<1> QED
  BY <1>9, <1>10, <1>11 DEF GateOK

LEMMA RebindKeeps == ASSUME GateOK, Rebind PROVE GateOK'
<1>1. /\ UNCHANGED <<scope, run, na, ev, file, pc, touches, interrupts>>
      /\ says' = [says EXCEPT ![<<"manifest">>] = AllBut(file, <<"manifest">>)]
  BY DEF Rebind
<1>2. FilesTyped'
  BY <1>1 DEF GateOK, FilesTyped, Unmarked, Altered, CommitShown
<1>3. SaysTyped'
  <2>1. DOMAIN says' = DOMAIN says /\ \A r \in DOMAIN says : r # <<"manifest">> => says'[r] = says[r]
    BY <1>1
  <2>2. SaysTyped /\ \A r \in Recons : r # <<"manifest">> /\ r \in Recorders
    BY KindsOfFiles DEF GateOK, Recorders
  <2> QED
    BY <1>1, <2>1, <2>2 DEF SaysTyped, Recorded
<1>4. Phase' /\ EvTyped'
  BY <1>1 DEF GateOK, Phase, EvTyped
<1> QED
  BY <1>2, <1>3, <1>4 DEF GateOK

\* The verifier, stage 9 and the certificate read.
LEMMA ReadersKeep ==
    ASSUME GateOK, Verify \/ Archive \/ IssueCertificate \/ UNCHANGED gateVars PROVE GateOK'
<1>1. UNCHANGED <<scope, run, na, ev, file, says, pc, touches, interrupts>>
  BY DEF Verify, Archive, IssueCertificate, gateVars
<1>2. FilesTyped' /\ SaysTyped'
  BY <1>1, PackageStays DEF GateOK
<1>3. Phase' /\ EvTyped'
  BY <1>1 DEF GateOK, Phase, EvTyped
<1> QED
  BY <1>2, <1>3 DEF GateOK

LEMMA GateStart == GateInit => GateOK
<1> SUFFICES ASSUME GateInit PROVE GateOK
  OBVIOUS
<1>1. file = Nothing /\ ev = Nothing /\ says = [r \in Recorders |-> Nothing] /\ scope \in Scopes
      /\ pc = "idle" /\ run = 0 /\ touches = 0 /\ interrupts = 0
      /\ na = [r \in 1..MaxRuns |-> [golds |-> {}, head |-> "anchor"]]
  BY DEF GateInit
<1>2. FilesTyped /\ EvTyped
  BY <1>1, NothingIs DEF FilesTyped, EvTyped
<1>3. SaysTyped
  BY <1>1, NothingIs DEF SaysTyped
<1>4. Phase
  BY <1>1, GateAssumption DEF Phase
<1> QED
  BY <1>2, <1>3, <1>4 DEF GateOK

LEMMA GateKeeps == GateOK /\ [GateNext]_gateVars => GateOK'
BY RunKeeps, BuildKeeps, InterruptKeeps, AlterKeeps, RemoveKeeps, CoverageKeeps, RebindKeeps, ReadersKeep DEF GateNext

LEMMA ReportIs ==
    /\ DOMAIN Report = {"golds", "safety", "missing", "ambiguous", "partial", "clean", "identity", "coverage"}
    /\ Report.identity = <<VerifyCompile, VerifySymbolspec, VerifyEnvironment, VerifyManifest>>
    /\ Report.golds = [g \in scope |-> VerifyRecon(g)] /\ Report.safety = [t \in Tests |-> VerifySafety(t)]
    /\ Report.missing = MissingFiles /\ Report.ambiguous = Ambiguous
    /\ Report.coverage = IF VerifyCoverage = "VALID" THEN file[<<"coverage">>].fault ELSE VerifyCoverage
<1> DEFINE golds == [g \in scope |-> VerifyRecon(g)]
           safety == [t \in Tests |-> VerifySafety(t)]
           identity == <<VerifyCompile, VerifySymbolspec, VerifyEnvironment, VerifyManifest>>
           coverage == IF VerifyCoverage = "VALID" THEN file[<<"coverage">>].fault ELSE VerifyCoverage
           partial == scope # Golds
<1>1. Report = [golds |-> golds, safety |-> safety, missing |-> MissingFiles,
                ambiguous |-> Ambiguous, partial |-> partial, clean |-> FALSE, identity |-> identity, coverage |-> coverage]
  BY DEF Report
<1> HIDE DEF golds, safety, identity, coverage, partial
<1>2. /\ DOMAIN Report = {"golds", "safety", "missing", "ambiguous", "partial", "clean", "identity", "coverage"}
      /\ Report.identity = identity /\ Report.golds = golds /\ Report.safety = safety
      /\ Report.missing = MissingFiles /\ Report.ambiguous = Ambiguous /\ Report.coverage = coverage
  BY <1>1
<1> QED
  BY <1>2 DEF golds, safety, identity, coverage

\* A verdict that is not a refusal passed every rung of the ladder.
LEMMA LadderClimbed ==
    ASSUME NEW r, Verdict(r) \in {"MT5_VALIDATED", "MT5_VALIDATED_BAR_MODELS", "MT5_VALIDATED_PARTIAL_SCOPE",
                                  "MT5_VALIDATED_BAR_MODELS_PARTIAL_SCOPE"}
    PROVE  /\ \A i \in DOMAIN r.identity : r.identity[i] \notin Wrong
           /\ \A g \in DOMAIN r.golds : r.golds[g] \notin {"INVALID", "MISMATCHED", "MISSING"}
           /\ \A t \in Tests : r.safety[t] \notin {"INVALID", "MISSING"}
           /\ r.missing = {} /\ r.coverage \in {"NONE", "FULL"}
<1> DEFINE A == \/ r.ambiguous # {} \/ \E i \in DOMAIN r.identity : r.identity[i] \in Wrong
                \/ \E g \in DOMAIN r.golds : r.golds[g] \in {"INVALID", "MISMATCHED"}
                \/ \E t \in Tests : r.safety[t] = "INVALID"
                \/ r.coverage = "MISMATCHED"
           B == \E g \in DOMAIN r.golds : r.golds[g] = "MISSING"
           C == \/ r.missing # {} \/ \E t \in Tests : r.safety[t] = "MISSING"
                \/ r.coverage \in {"MISSING", "INVALID"}
<1>1. ~A /\ ~B /\ ~C /\ r.coverage \in {"NONE", "FULL"}
  <2>1. A => Verdict(r) = "NOT_VERIFIED_ARTIFACT_MISMATCH"
    BY Zenon DEF Verdict
  <2>2. ~A /\ B => Verdict(r) = "NOT_VERIFIED_RECONCILIATION_MISSING"
    BY Zenon DEF Verdict
  <2>3. ~A /\ ~B /\ C => Verdict(r) = "NOT_VERIFIED_MISSING_MT5_EVIDENCE"
    BY Zenon DEF Verdict
  <2>4. ~A /\ ~B /\ ~C /\ r.coverage # "NONE" /\ r.coverage # "FULL" =>
            Verdict(r) = "NOT_VERIFIED_REAL_TICK_COVERAGE_UNKNOWN"
    BY Zenon DEF Verdict
  <2> HIDE DEF A, B, C
  <2> QED
    BY <2>1, <2>2, <2>3, <2>4
<1> QED
  BY <1>1

LEMMA YesMeans ==
    ASSUME SaysYes, scope # {}
    PROVE  /\ VerifyCompile \notin Wrong /\ VerifySymbolspec \notin Wrong
           /\ VerifyEnvironment \notin Wrong /\ VerifyManifest \notin Wrong
           /\ \A g \in scope : VerifyRecon(g) \notin {"INVALID", "MISMATCHED", "MISSING"}
           /\ \A t \in Tests : VerifySafety(t) \notin {"INVALID", "MISSING"}
           /\ MissingFiles = {} /\ VerifyCoverage = "VALID" /\ file[<<"coverage">>].fault \in {"NONE", "FULL"}
<1>1. /\ \A i \in DOMAIN Report.identity : Report.identity[i] \notin Wrong
      /\ \A g \in DOMAIN Report.golds : Report.golds[g] \notin {"INVALID", "MISMATCHED", "MISSING"}
      /\ \A t \in Tests : Report.safety[t] \notin {"INVALID", "MISSING"}
      /\ Report.missing = {} /\ Report.coverage \in {"NONE", "FULL"}
  BY LadderClimbed DEF SaysYes, Positive
<1>2. /\ Report.identity = <<VerifyCompile, VerifySymbolspec, VerifyEnvironment, VerifyManifest>>
      /\ Report.golds = [g \in scope |-> VerifyRecon(g)] /\ Report.safety = [t \in Tests |-> VerifySafety(t)]
      /\ Report.missing = MissingFiles
      /\ Report.coverage = IF VerifyCoverage = "VALID" THEN file[<<"coverage">>].fault ELSE VerifyCoverage
  BY ReportIs
<1>3. VerifyCompile \notin Wrong /\ VerifySymbolspec \notin Wrong /\ VerifyEnvironment \notin Wrong /\ VerifyManifest \notin Wrong
  <2> DEFINE id == <<VerifyCompile, VerifySymbolspec, VerifyEnvironment, VerifyManifest>>
  <2>1. DOMAIN id = 1..4 /\ id[1] = VerifyCompile /\ id[2] = VerifySymbolspec /\ id[3] = VerifyEnvironment /\ id[4] = VerifyManifest
    OBVIOUS
  <2> HIDE DEF id
  <2>2. \A i \in 1..4 : id[i] \notin Wrong
    BY <1>1, <1>2, <2>1 DEF id
  <2> QED
    BY <2>1, <2>2
<1>4. VerifyCoverage \in {"MISSING", "INVALID", "MISMATCHED", "VALID"}
  BY DEF VerifyCoverage
<1>5. VerifyCoverage = "VALID" /\ file[<<"coverage">>].fault \in {"NONE", "FULL"}
  BY <1>1, <1>2, <1>4
<1>6. \A g \in scope : VerifyRecon(g) \notin {"INVALID", "MISMATCHED", "MISSING"}
  BY <1>1, <1>2
<1>7. \A t \in Tests : VerifySafety(t) \notin {"INVALID", "MISSING"}
  BY <1>1, <1>2
<1> QED
  BY <1>1, <1>2, <1>3, <1>5, <1>6, <1>7

LEMMA NothingMissing ==
    ASSUME MissingFiles = {}, scope \subseteq Golds
    PROVE  /\ \A f \in (Common \cup Safety) : f # <<"stage5">> => Has(file, f)
           /\ \A g \in scope : Has(file, <<"recon", g>>)
           /\ \A g \in scope, m \in BarLegs : Has(file, <<"list", g, m>>)
<1>1. \A f \in Required : f # <<"stage5">> => Has(file, f)
  BY DEF MissingFiles
<1>2. \A g \in scope : <<"recon", g>> \in Required
  BY FilesOfKinds DEF Required
<1>3. \A g \in scope : <<"recon", g>> # <<"stage5">>
  OBVIOUS
<1>4. MissingLegs = {}
  BY DEF MissingFiles
<1>5. ASSUME NEW g \in scope, NEW m \in BarLegs PROVE Has(file, <<"list", g, m>>)
  <2>1. <<"list", g, m>> \in Lists /\ m # "real_ticks"
    BY GateAssumption, FilesOfKinds DEF Models
  <2>2. <<"list", g, m>> \notin NaLegs
    BY <2>1 DEF NaLegs
  <2> QED
    BY <1>4, <2>1, <2>2 DEF MissingLegs
<1> QED
  BY <1>1, <1>2, <1>3, <1>5 DEF Required

\* What a VALID comparison of a gold says.
LEMMA ReconValid ==
    ASSUME NEW g \in scope, VerifyRecon(g) \notin {"INVALID", "MISMATCHED", "MISSING"}
    PROVE  /\ Has(file, <<"recon", g>>) /\ file[<<"recon", g>>].fault \notin {"broken", "commit", "divergent"}
           /\ \A f \in {<<"ex5">>, <<"symbolspec">>} : Has(file, f) => Matches(<<"recon", g>>, f)
           /\ \A l \in ListsOf(file, g) : Matches(<<"recon", g>>, l)
           /\ \A l \in Lists : l[2] = g =>
                 (Has(says[<<"recon", g>>], l) => Has(file, l)) /\ (Has(file, l) => WindowBound(l))
<1> DEFINE fault == file[<<"recon", g>>].fault
           B == \/ fault = "commit"
                \/ \E f \in {<<"ex5">>, <<"symbolspec">>} : Has(file, f) /\ ~Matches(<<"recon", g>>, f)
                \/ \E l \in ListsOf(file, g) : ~Matches(<<"recon", g>>, l)
           C == \E l \in Lists : /\ l[2] = g
                                 /\ \/ Has(says[<<"recon", g>>], l) /\ ~Has(file, l)
                                    \/ Has(file, l) /\ ~WindowBound(l)
<1>1. VerifyRecon(g) = IF ~Has(file, <<"recon", g>>) THEN "MISSING"
                       ELSE IF fault = "broken" THEN "INVALID"
                       ELSE IF B THEN "MISMATCHED"
                       ELSE IF C THEN "INVALID"
                       ELSE IF fault = "divergent" THEN "MISMATCHED" ELSE "VALID"
  BY Zenon DEF VerifyRecon
<1>2. Has(file, <<"recon", g>>) /\ fault # "broken" /\ ~B /\ ~C /\ fault # "divergent"
  <2> HIDE DEF B, C, fault
  <2> QED
    BY <1>1
<1>3. fault # "commit"
  BY <1>2
<1>4. \A f \in {<<"ex5">>, <<"symbolspec">>} : Has(file, f) => Matches(<<"recon", g>>, f)
  BY <1>2, Zenon
<1>5. \A l \in ListsOf(file, g) : Matches(<<"recon", g>>, l)
  BY <1>2, Zenon
<1>6. \A l \in Lists : l[2] = g =>
          (Has(says[<<"recon", g>>], l) => Has(file, l)) /\ (Has(file, l) => WindowBound(l))
  BY <1>2, Zenon
<1> QED
  BY <1>2, <1>3, <1>4, <1>5, <1>6

\* A safety result that is neither missing, invalid nor at odds with its evidence.
LEMMA SafetyValid ==
    ASSUME NEW t, VerifySafety(t) \notin {"INVALID", "MISSING", "MISMATCHED"}
    PROVE  /\ Has(file, <<"safety", t>>) /\ Has(file, <<"raw", t>>) /\ Matches(<<"safety", t>>, <<"raw", t>>)
           /\ file[<<"raw", t>>].fault = file[<<"safety", t>>].fault /\ file[<<"safety", t>>].fault # "failed"
BY DEF VerifySafety, Regraded

\* A compile record found good.
LEMMA CompileValid ==
    ASSUME VerifyCompile \notin Wrong, \A f \in {<<"compile_log">>, <<"compile_metadata">>, <<"ex5">>} : Has(file, f)
    PROVE  /\ file[<<"ex5">>].fault # "old" /\ file[<<"compile_log">>].fault # "errors"
           /\ file[<<"compile_metadata">>].fault \notin {"commit", "fields"}
           /\ Matches(<<"compile_metadata">>, <<"ex5">>) /\ Matches(<<"compile_metadata">>, <<"compile_log">>)
BY Zenon DEF VerifyCompile, Wrong

LEMMA SymbolspecValid ==
    ASSUME VerifySymbolspec \notin Wrong, Has(file, <<"symbolspec">>)
    PROVE  file[<<"symbolspec">>].fault \notin {"unparsable", "gap", "decision"}
BY Zenon DEF VerifySymbolspec, Wrong

LEMMA EnvironmentValid ==
    ASSUME VerifyEnvironment \notin Wrong, Has(file, <<"environment">>)
    PROVE  file[<<"environment">>].fault # "gap"
BY DEF VerifyEnvironment, Wrong

LEMMA ManifestValid ==
    ASSUME VerifyManifest \notin Wrong, Has(file, <<"manifest">>)
    PROVE  \A f \in DOMAIN says[<<"manifest">>] : Matches(<<"manifest">>, f)
<1> DEFINE arts == says[<<"manifest">>]
           A == \E f \in ManifestRequired : ~Has(arts, f)
           B == \E f \in DOMAIN arts : ~Has(file, f) \/ arts[f] # file[f]
<1>1. VerifyManifest = IF ~Has(file, <<"manifest">>) THEN "MISSING"
                       ELSE IF A THEN "INVALID" ELSE IF B THEN "MISMATCHED" ELSE "VALID"
  BY Zenon DEF VerifyManifest
<1>2. ~B
  <2> HIDE DEF A, B
  <2> QED
    BY <1>1 DEF Wrong
<1> QED
  BY <1>2, Zenon DEF Matches, Has

\* No safety file is at odds with its own evidence.
SafetyAgrees == \A t \in Tests : VerifySafety(t) # "MISMATCHED"

LEMMA PresentWhenYes ==
    ASSUME GateOK, SaysYes
    PROVE  /\ \A f \in (Common \cup Safety) : f # <<"stage5">> => Has(file, f)
           /\ \A g \in scope : Has(file, <<"recon", g>>)
           /\ \A g \in scope, m \in BarLegs : Has(file, <<"list", g, m>>)
<1>1. scope # {} /\ scope \subseteq Golds
  BY DEF GateOK, Phase
<1>2. MissingFiles = {}
  BY <1>1, YesMeans
<1> QED
  BY <1>1, <1>2, NothingMissing

LEMMA ReconsWhenYes ==
    ASSUME GateOK, SaysYes, NEW g \in scope
    PROVE  /\ file[<<"recon", g>>].fault \notin {"broken", "commit", "divergent"}
           /\ Matches(<<"recon", g>>, <<"ex5">>) /\ Matches(<<"recon", g>>, <<"symbolspec">>)
           /\ \A l \in ListsOf(file, g) : Matches(<<"recon", g>>, l)
           /\ \A l \in Lists : l[2] = g =>
                 (Has(says[<<"recon", g>>], l) => Has(file, l)) /\ (Has(file, l) => WindowBound(l))
<1>1. scope # {}
  OBVIOUS
<1>2. VerifyRecon(g) \notin {"INVALID", "MISMATCHED", "MISSING"}
  BY <1>1, YesMeans
<1>3. Has(file, <<"ex5">>) /\ Has(file, <<"symbolspec">>)
  BY PresentWhenYes, CommonIs
<1> QED
  BY <1>2, <1>3, ReconValid

LEMMA SafetyWhenYes ==
    ASSUME GateOK, SaysYes, SafetyAgrees, NEW t \in Tests
    PROVE  /\ Matches(<<"safety", t>>, <<"raw", t>>)
           /\ file[<<"raw", t>>].fault = file[<<"safety", t>>].fault /\ file[<<"safety", t>>].fault # "failed"
<1>1. scope # {}
  BY DEF GateOK, Phase
<1>2. VerifySafety(t) \notin {"INVALID", "MISSING", "MISMATCHED"}
  BY <1>1, YesMeans DEF SafetyAgrees
<1> QED
  BY <1>2, SafetyValid

LEMMA CommonWhenYes ==
    ASSUME GateOK, SaysYes
    PROVE  /\ file[<<"ex5">>].fault # "old" /\ file[<<"compile_log">>].fault # "errors"
           /\ file[<<"compile_metadata">>].fault \notin {"commit", "fields"}
           /\ Matches(<<"compile_metadata">>, <<"ex5">>) /\ Matches(<<"compile_metadata">>, <<"compile_log">>)
           /\ file[<<"symbolspec">>].fault \notin {"unparsable", "gap", "decision"}
           /\ file[<<"environment">>].fault # "gap" /\ file[<<"coverage">>].fault \in {"NONE", "FULL"}
           /\ \A f \in DOMAIN says[<<"manifest">>] : Matches(<<"manifest">>, f)
<1>1. scope # {}
  BY DEF GateOK, Phase
<1>2. /\ VerifyCompile \notin Wrong /\ VerifySymbolspec \notin Wrong
      /\ VerifyEnvironment \notin Wrong /\ VerifyManifest \notin Wrong
      /\ file[<<"coverage">>].fault \in {"NONE", "FULL"}
  BY <1>1, YesMeans
<1>3. /\ \A f \in {<<"compile_log">>, <<"compile_metadata">>, <<"ex5">>} : Has(file, f)
      /\ Has(file, <<"symbolspec">>) /\ Has(file, <<"environment">>) /\ Has(file, <<"manifest">>)
  <2>1. /\ {<<"compile_log">>, <<"compile_metadata">>, <<"ex5">>, <<"symbolspec">>, <<"environment">>,
            <<"manifest">>} \subseteq Common
        /\ <<"stage5">> \notin {<<"compile_log">>, <<"compile_metadata">>, <<"ex5">>, <<"symbolspec">>,
                                <<"environment">>, <<"manifest">>}
    BY CommonIs
  <2> QED
    BY <2>1, PresentWhenYes
<1> QED
  BY <1>2, <1>3, CompileValid, SymbolspecValid, EnvironmentValid, ManifestValid

\* A file that matches what another than the manifest recorded is unedited.
LEMMA Unedited ==
    ASSUME SaysTyped, NEW r \in Recorders \ {<<"manifest">>}, NEW f, Matches(r, f)
    PROVE  f \in Files /\ file[f].fault \in Allowed[f[1]] /\ Recorded(r, f)
BY DEF SaysTyped, Matches, Has

LEMMA RecordersAre ==
    /\ \A g \in Golds : <<"recon", g>> \in Recorders \ {<<"manifest">>}
    /\ \A t \in Tests : <<"safety", t>> \in Recorders \ {<<"manifest">>}
    /\ <<"compile_metadata">> \in Recorders \ {<<"manifest">>} /\ <<"manifest">> \in Recorders
BY FilesOfKinds DEF Recorders

\* A list in scope, and the window it was read from, are in order.
LEMMA ListSound ==
    ASSUME GateOK, SaysYes, NEW l \in Lists, l[2] \in scope, Has(file, l)
    PROVE  file[l].fault = "none" /\ WindowBound(l)
<1> DEFINE g == l[2]
           r == <<"recon", g>>
<1>1. l \in ListsOf(file, g) /\ g \in Golds
  BY KindsOfFiles DEF ListsOf, LogLegs
<1>2. Matches(r, l) /\ WindowBound(l) /\ file[r].fault \notin {"broken", "commit", "divergent"}
  BY <1>1, ReconsWhenYes
<1>3. r \in Recorders \ {<<"manifest">>} /\ r \in Recons /\ r[1] = "recon"
  BY <1>1, RecordersAre, FilesOfKinds
<1>4. file[l].fault \in {"none", "trades"}
  <2>1. file[l].fault \in Allowed[l[1]]
    BY <1>2, <1>3, Unedited DEF GateOK
  <2> QED
    BY <2>1, KindsOfFiles DEF Allowed
<1>5. Has(file, r) /\ file[r].fault = "none"
  <2>1. Has(file, r)
    BY PresentWhenYes
  <2>2. Unmarked(r, file[r]) \/ Altered(r, file[r])
    BY <2>1 DEF GateOK, FilesTyped, Has
  <2>3. r \notin Evidence \cup Safety
    BY <1>3, KindsOfFiles DEF Evidence
  <2>4. file[r].fault \in Allowed["recon"]
    BY <1>3, <2>2, <2>3 DEF Unmarked, Altered
  <2> QED
    BY <1>2, <2>1, <2>4 DEF Allowed
<1>6. says[r][l].fault # "trades" /\ says[r][l] = file[l]
  <2>1. r \in Recons \cap DOMAIN file /\ l \in Lists \cap DOMAIN says[r]
    BY <1>2, <1>3, <1>5 DEF Matches, Has
  <2> QED
    BY <1>2, <1>5, <2>1 DEF GateOK, SaysTyped, Matches
<1> QED
  BY <1>2, <1>4, <1>6

\* A file nobody may edit unseen is as it was written.
LEMMA AsPut ==
    ASSUME GateOK, NEW f \in DOMAIN file, f \notin Evidence \cup Safety
    PROVE  file[f].fault \in Allowed[f[1]]
BY DEF GateOK, FilesTyped, Unmarked, Altered

LEMMA CommonSound ==
    ASSUME GateOK, SaysYes, NEW f \in Common \cap InScope, Has(file, f)
    PROVE  file[f].fault \in Sound
<1>1. \/ f = <<"stage5">> \/ f = <<"compile_log">> \/ f = <<"ex5">> \/ f = <<"compile_metadata">>
      \/ f = <<"symbolspec">> \/ f = <<"environment">> \/ f = <<"coverage">> \/ f = <<"manifest">>
  BY DEF Common
<1>2. <<"compile_metadata">> \in Recorders \ {<<"manifest">>} /\ SaysTyped /\ scope # {} /\ scope \subseteq Golds
  BY RecordersAre DEF GateOK, Phase
<1>3. CASE f = <<"stage5">>
  <2>1. NaLegs # {}
    BY <1>3 DEF InScope
  <2> QED
    BY <2>1, <1>3 DEF NaLegs, Sound
<1>4. CASE f = <<"compile_log">>
  <2>1. file[f].fault \in Allowed["compile_log"] /\ file[f].fault # "errors"
    BY <1>2, <1>4, CommonWhenYes, Unedited
  <2> QED
    BY <2>1 DEF Allowed, Sound
<1>5. CASE f = <<"ex5">>
  <2>1. file[f].fault \in Allowed["ex5"] /\ file[f].fault # "old"
    BY <1>2, <1>5, CommonWhenYes, Unedited
  <2> QED
    BY <2>1 DEF Allowed, Sound
<1>6. CASE f = <<"symbolspec">>
  <2>1. PICK g \in scope : TRUE
    BY <1>2
  <2>2. Matches(<<"recon", g>>, f) /\ <<"recon", g>> \in Recorders \ {<<"manifest">>}
    BY <1>2, <1>6, <2>1, ReconsWhenYes, RecordersAre
  <2>3. file[f].fault \in Allowed["symbolspec"] /\ file[f].fault \notin {"unparsable", "gap", "decision"}
    BY <1>2, <1>6, <2>2, CommonWhenYes, Unedited
  <2> QED
    BY <2>3 DEF Allowed, Sound
<1>7. CASE f \in {<<"compile_metadata">>, <<"environment">>, <<"coverage">>, <<"manifest">>}
  <2>1. f \notin Evidence \cup Safety
    <3>1. \A x \in Lists \cup Windows \cup Raws \cup Safety : x[1] \in {"list", "window", "raw", "safety"}
      BY KindsOfFiles
    <3>2. f[1] \notin {"list", "window", "raw", "safety"}
      BY <1>7
    <3> QED
      BY <1>7, <3>1, <3>2 DEF Evidence
  <2>2. file[f].fault \in Allowed[f[1]]
    BY <2>1, AsPut DEF Has
  <2>3. CASE f = <<"compile_metadata">>
    BY <2>2, <2>3, CommonWhenYes DEF Allowed, Sound
  <2>4. CASE f = <<"environment">>
    BY <2>2, <2>4, CommonWhenYes DEF Allowed, Sound
  <2>5. CASE f = <<"coverage">>
    BY <2>5, CommonWhenYes DEF Sound
  <2>6. CASE f = <<"manifest">>
    BY <2>2, <2>6 DEF Allowed, Sound
  <2> QED
    BY <1>7, <2>3, <2>4, <2>5, <2>6
<1> QED
  BY <1>1, <1>3, <1>4, <1>5, <1>6, <1>7

LEMMA SafetySound ==
    ASSUME GateOK, SaysYes, SafetyAgrees, NEW t \in Tests
    PROVE  file[<<"raw", t>>].fault = "none" /\ file[<<"safety", t>>].fault = "none"
<1>1. /\ Matches(<<"safety", t>>, <<"raw", t>>)
      /\ file[<<"raw", t>>].fault = file[<<"safety", t>>].fault /\ file[<<"safety", t>>].fault # "failed"
  BY SafetyWhenYes
<1>2. file[<<"raw", t>>].fault \in Allowed["raw"]
  <2>1. <<"safety", t>> \in Recorders \ {<<"manifest">>} /\ SaysTyped
    BY RecordersAre DEF GateOK
  <2>2. file[<<"raw", t>>].fault \in Allowed[<<"raw", t>>[1]]
    BY <1>1, <2>1, Unedited
  <2> QED
    BY <2>2
<1> QED
  BY <1>1, <1>2 DEF Allowed

LEMMA FilesSound ==
    ASSUME GateOK, SaysYes, SafetyAgrees
    PROVE  \A f \in InScope \cap DOMAIN file : file[f].fault \in Sound
<1> SUFFICES ASSUME NEW f \in InScope, f \in DOMAIN file PROVE file[f].fault \in Sound
  OBVIOUS
<1>1. f \in Common \cup Lists \cup Windows \cup Recons \cup Safety \cup Raws /\ Has(file, f)
  BY DEF InScope, Files, Has
<1>2. CASE f \in Common
  BY <1>1, <1>2, CommonSound
<1>3. CASE f \in Lists
  <2>1. f[2] \in scope
    BY <1>3, KindsOfFiles DEF InScope
  <2> QED
    BY <1>1, <1>3, <2>1, ListSound DEF Sound
<1>4. CASE f \in Windows
  <2> DEFINE l == <<"list", f[2], f[3]>>
  <2>1. f[2] \in scope /\ Has(file, l) /\ l \in Lists /\ f = <<"window", f[2], f[3]>> /\ l[2] = f[2] /\ l[3] = f[3]
    BY <1>4, KindsOfFiles, FilesOfKinds DEF InScope
  <2>2. file[l].fault = "none" /\ WindowBound(l)
    <3> HIDE DEF l
    <3> QED
      BY <2>1, ListSound
  <2>3. file[f] = file[l]
    BY <2>1, <2>2 DEF WindowBound
  <2> QED
    BY <2>2, <2>3 DEF Sound
<1>5. CASE f \in Recons
  <2>1. f[2] \in scope /\ f = <<"recon", f[2]>> /\ f[1] = "recon"
    BY <1>5, KindsOfFiles DEF InScope
  <2>2. f \notin Evidence \cup Safety
    BY <2>1, KindsOfFiles DEF Evidence
  <2>3. file[f].fault \in Allowed["recon"]
    BY <2>1, <2>2, AsPut
  <2>4. file[<<"recon", f[2]>>].fault \notin {"broken", "commit", "divergent"}
    BY <2>1, ReconsWhenYes
  <2> QED
    BY <2>1, <2>3, <2>4 DEF Allowed, Sound
<1>6. CASE f \in Safety
  <2>1. f = <<"safety", f[2]>> /\ f[2] \in Tests
    BY <1>6, KindsOfFiles
  <2> QED
    BY <2>1, SafetySound DEF Sound
<1>7. CASE f \in Raws
  <2>1. f = <<"raw", f[2]>> /\ f[2] \in Tests
    BY <1>7, KindsOfFiles
  <2> QED
    BY <2>1, SafetySound DEF Sound
<1> QED
  BY <1>1, <1>2, <1>3, <1>4, <1>5, <1>6, <1>7

\* Everything required is there.
LEMMA AllPresent ==
    ASSUME GateOK, SaysYes
    PROVE  \A f \in (Required \ {<<"stage5">>}) \cup UNION {LegFiles(g, m) : g \in scope, m \in BarLegs} :
              Has(file, f)
<1>1. ASSUME NEW f \in Required \ {<<"stage5">>} PROVE Has(file, f)
  <2>1. CASE f \in Common \cup Safety
    BY <2>1, PresentWhenYes
  <2>2. CASE f \in Recons /\ f[2] \in scope
    <3>1. f = <<"recon", f[2]>>
      BY <2>2, KindsOfFiles
    <3> QED
      BY <2>2, <3>1, PresentWhenYes
  <2> QED
    BY <2>1, <2>2 DEF Required
<1>2. ASSUME NEW g \in scope, NEW m \in BarLegs, NEW f \in LegFiles(g, m) PROVE Has(file, f)
  <2> DEFINE l == <<"list", g, m>>
  <2>1. g \in Golds /\ m \in Models
    BY DEF GateOK, Phase, Models
  <2>2. Has(file, l) /\ l \in Lists /\ l[2] = g /\ l[3] = m
    BY <2>1, PresentWhenYes, FilesOfKinds
  <2>3. WindowBound(l)
    <3> HIDE DEF l
    <3> QED
      BY <2>2, ListSound
  <2>4. Has(file, <<"window", g, m>>)
    BY <2>2, <2>3 DEF WindowBound, BoundBytes
  <2> QED
    BY <2>2, <2>4 DEF LegFiles
<1> QED
  BY <1>1, <1>2

\* The commit of the package's own records is an accepted one.
LEMMA CommitsAccepted ==
    ASSUME GateOK, SaysYes
    PROVE  \A f \in {<<"compile_metadata">>} \cup (Recons \cap InScope) : CommitAccepted(na[file[f].run].head)
<1> SUFFICES ASSUME NEW f \in {<<"compile_metadata">>} \cup (Recons \cap InScope)
             PROVE  CommitAccepted(na[file[f].run].head)
  OBVIOUS
<1>1. CASE f = <<"compile_metadata">>
  <2>1. Has(file, f) /\ f \in Common /\ f[1] = "compile_metadata"
    BY <1>1, PresentWhenYes, CommonIs
  <2>2. f \notin Evidence \cup Safety
    BY <1>1, KindsOfFiles DEF Evidence
  <2>3. file[f].fault \in Allowed["compile_metadata"]
    BY <2>1, <2>2, AsPut DEF Has
  <2>4. file[f].fault = "none"
    BY <1>1, <2>3, CommonWhenYes DEF Allowed
  <2> QED
    BY <2>1, <2>4 DEF GateOK, FilesTyped, CommitShown, Has
<1>2. CASE f \in Recons \cap InScope
  <2>1. f[2] \in scope /\ f = <<"recon", f[2]>> /\ f[1] = "recon"
    BY <1>2, KindsOfFiles DEF InScope
  <2>2. f \notin Evidence \cup Safety
    BY <2>1, KindsOfFiles DEF Evidence
  <2>3. Has(file, f)
    BY <2>1, PresentWhenYes
  <2>4. file[f].fault \in Allowed["recon"]
    BY <2>1, <2>2, <2>3, AsPut DEF Has
  <2>5. file[<<"recon", f[2]>>].fault \notin {"broken", "commit", "divergent"}
    BY <2>1, ReconsWhenYes
  <2>6. file[f].fault = "none"
    BY <2>1, <2>4, <2>5 DEF Allowed
  <2> QED
    BY <2>1, <2>3, <2>6 DEF GateOK, FilesTyped, CommitShown, Has
<1> QED
  BY <1>1, <1>2

\* The evidence is what its recorders recorded.
LEMMA RecordersAgree ==
    ASSUME GateOK, SaysYes, SafetyAgrees
    PROVE  \A r \in Recorders \cap InScope : \A f \in InScope \cap DOMAIN says[r] : Matches(r, f)
<1> SUFFICES ASSUME NEW r \in Recorders \cap InScope, NEW f \in InScope, f \in DOMAIN says[r]
             PROVE  Matches(r, f)
  OBVIOUS
<1>1. CASE r = <<"manifest">>
  BY <1>1, CommonWhenYes
<1>2. CASE r # <<"manifest">>
  <2>1. Recorded(r, f)
    BY <1>2 DEF GateOK, SaysTyped
  <2>2. CASE r = <<"compile_metadata">> /\ f \in {<<"ex5">>, <<"compile_log">>}
    BY <2>2, CommonWhenYes
  <2>3. CASE r \in Recons /\ f \in {<<"ex5">>, <<"symbolspec">>} \cup {l \in Lists : l[2] = r[2]}
    <3>1. r[2] \in scope /\ r = <<"recon", r[2]>>
      BY <2>3, KindsOfFiles DEF InScope
    <3>2. CASE f \in {<<"ex5">>, <<"symbolspec">>}
      BY <3>1, <3>2, ReconsWhenYes
    <3>3. CASE f \in Lists /\ f[2] = r[2]
      <4>1. Has(says[r], f)
        BY DEF Has
      <4>2. Has(file, f)
        BY <3>1, <3>3, <4>1, ReconsWhenYes
      <4>3. f \in ListsOf(file, r[2])
        BY <3>3, <4>2 DEF ListsOf, LogLegs
      <4> QED
        BY <3>1, <4>3, ReconsWhenYes
    <3> QED
      BY <2>3, <3>2, <3>3
  <2>4. CASE r \in Safety /\ f = <<"raw", r[2]>>
    <3>1. r = <<"safety", r[2]>> /\ r[2] \in Tests
      BY <2>4, KindsOfFiles
    <3> QED
      BY <2>4, <3>1, SafetyWhenYes
  <2> QED
    BY <2>1, <2>2, <2>3, <2>4 DEF Recorded
<1> QED
  BY <1>1, <1>2

LEMMA CleanWhenYes == ASSUME GateOK, SaysYes, SafetyAgrees PROVE PackageClean
<1>1. \A f \in (Required \ {<<"stage5">>}) \cup UNION {LegFiles(g, m) : g \in scope, m \in BarLegs} : Has(file, f)
  BY AllPresent
<1>2. \A f \in InScope \cap DOMAIN file : file[f].fault \in Sound
  BY FilesSound
<1>3. \A f \in {<<"compile_metadata">>} \cup (Recons \cap InScope) : CommitAccepted(na[file[f].run].head)
  BY CommitsAccepted
<1>4. \A r \in Recorders \cap InScope : \A f \in InScope \cap DOMAIN says[r] : Matches(r, f)
  BY RecordersAgree
<1> QED
  BY <1>1, <1>2, <1>3, <1>4 DEF PackageClean

\* Lists stay while the gate run makes no new one, and the owner's record of
\* coverage outlives a run; every other file of an uninterrupted history is of
\* the current run and in the list the next build removes.
Lasting(f) == f \in Lists \/ f = <<"coverage">>
Current ==
    interrupts = 0 => \A f \in DOMAIN file : ~Lasting(f) =>
        /\ pc = "idle" => file[f].run = run /\ f \in built \cup {<<"manifest">>}
        /\ pc = "remove" => f \in built \cup {<<"manifest">>}
        /\ pc = "manifest" => f = <<"manifest">> \/ (file[f].run = run /\ f \in built)
        /\ pc \notin {"idle", "remove", "manifest"} => f = <<"manifest">> \/ (file[f].run = run /\ f \in wrote)

LEMMA CurrentBuild == ASSUME GateOK, Current, BuildStep PROVE Current'
<1> SUFFICES ASSUME interrupts = 0, NEW f \in DOMAIN file', ~Lasting(f)
             PROVE  /\ pc' = "idle" => file'[f].run = run /\ f \in built' \cup {<<"manifest">>}
                    /\ pc' = "remove" => f \in built' \cup {<<"manifest">>}
                    /\ pc' = "manifest" => f = <<"manifest">> \/ (file'[f].run = run /\ f \in built')
                    /\ pc' \notin {"idle", "remove", "manifest"} =>
                            f = <<"manifest">> \/ (file'[f].run = run /\ f \in wrote')
  BY DEF BuildStep, Current, Lasting
<1>1. Phase /\ EvTyped /\ run > 0 /\ pc \in DOMAIN After
  BY DEF GateOK, Phase, BuildStep
<1>2. \A x \in DOMAIN StepWrites(pc) : StepWrites(pc)[x].run = run /\ (x = <<"manifest">> => pc = "manifest")
  BY <1>1, StepWritesNew DEF NewFile
<1>3. pc' = After[pc]
  BY DEF BuildStep
<1>4. CASE pc = "remove"
  <2>1. f \in DOMAIN file /\ f \notin built
    BY <1>4 DEF BuildStep, Restrict
  <2>2. f = <<"manifest">>
    BY <1>4, <2>1 DEF Current
  <2>3. pc' = "stage5"
    BY <1>3, <1>4 DEF After
  <2> QED
    BY <2>2, <2>3
<1>5. CASE pc # "remove"
  <2>1. file' = Over(StepWrites(pc), file)
    BY <1>5 DEF BuildStep
  <2>2. /\ DOMAIN Over(StepWrites(pc), file) = DOMAIN StepWrites(pc) \cup DOMAIN file
        /\ \A x \in DOMAIN StepWrites(pc) : Over(StepWrites(pc), file)[x] = StepWrites(pc)[x]
        /\ \A x \in DOMAIN file : x \notin DOMAIN StepWrites(pc) => Over(StepWrites(pc), file)[x] = file[x]
    BY OverIs
  <2>3. CASE pc = "record"
    <3>1. DOMAIN StepWrites(pc) = {}
      BY <2>3, NothingIs DEF StepWrites
    <3>2. pc' = "manifest" /\ built' = wrote
      BY <1>3, <2>3 DEF After, BuildStep
    <3>3. f = <<"manifest">> \/ (file[f].run = run /\ f \in wrote)
      BY <2>1, <2>2, <2>3, <3>1 DEF Current
    <3> QED
      BY <2>1, <2>2, <3>1, <3>2, <3>3
  <2>4. CASE pc = "manifest"
    <3>1. DOMAIN StepWrites(pc) = {<<"manifest">>}
      BY <2>4, JustIs DEF StepWrites
    <3>2. pc' = "idle" /\ built' = built
      BY <1>3, <2>4 DEF After, BuildStep
    <3>3. CASE f = <<"manifest">>
      BY <1>2, <2>1, <2>2, <3>1, <3>2, <3>3
    <3>4. CASE f # <<"manifest">>
      <4>1. f \in DOMAIN file /\ file'[f] = file[f]
        BY <2>1, <2>2, <3>1, <3>4
      <4>2. file[f].run = run /\ f \in built
        BY <2>4, <3>4, <4>1 DEF Current
      <4> QED
        BY <3>2, <4>1, <4>2
    <3> QED
      BY <3>3, <3>4
  <2>5. CASE pc \notin {"record", "manifest"}
    <3>1. pc' \notin {"idle", "remove", "manifest"}
      BY <1>1, <1>3, <1>5, <2>5 DEF After
    <3>2. wrote' = wrote \cup DOMAIN StepWrites(pc)
      BY <1>5, <2>5 DEF BuildStep
    <3>3. CASE f \in DOMAIN StepWrites(pc)
      <4>1. file'[f].run = run
        BY <1>2, <2>1, <2>2, <3>3
      <4> QED
        BY <3>1, <3>2, <3>3, <4>1
    <3>4. CASE f \notin DOMAIN StepWrites(pc)
      <4>1. f \in DOMAIN file /\ file'[f] = file[f]
        BY <2>1, <2>2, <3>4
      <4>2. pc \notin {"idle", "remove", "manifest"}
        BY <1>5, <2>5 DEF BuildStep
      <4>3. f = <<"manifest">> \/ (file[f].run = run /\ f \in wrote)
        BY <4>1, <4>2 DEF Current
      <4> QED
        BY <3>1, <3>2, <4>1, <4>3
    <3> QED
      BY <3>3, <3>4
  <2> QED
    BY <2>3, <2>4, <2>5
<1> QED
  BY <1>4, <1>5

LEMMA CurrentRun == ASSUME GateOK, Current, GateRun PROVE Current'
<1>1. pc = "idle" /\ pc' = "remove" /\ UNCHANGED <<built, interrupts>>
  BY DEF GateRun
<1>2. file' = Over(PlacedLists(run + 1, ev'), file)
  BY DEF GateRun
<1> DEFINE placed == PlacedLists(run + 1, ev')
<1>3. DOMAIN placed \subseteq Lists
  BY DEF PlacedLists
<1>4. \A f \in DOMAIN file' : f \in Lists \/ f \in DOMAIN file
  <2> HIDE DEF placed
  <2>1. DOMAIN Over(placed, file) = DOMAIN placed \cup DOMAIN file
    BY OverIs
  <2> QED
    BY <1>2, <1>3, <2>1 DEF placed
<1>5. ASSUME interrupts = 0, NEW f \in DOMAIN file', ~Lasting(f) PROVE f \in built \cup {<<"manifest">>}
  BY <1>1, <1>4, <1>5 DEF Current, Lasting
<1>6. pc' # "idle" /\ pc' # "manifest" /\ pc' \in {"idle", "remove", "manifest"}
  BY <1>1
<1> QED
  BY <1>1, <1>5, <1>6 DEF Current, Lasting

LEMMA CurrentTouch ==
    ASSUME GateOK, Current, AlterFile \/ RemoveFile \/ OwnerCoverage
    PROVE  Current'
<1>1. pc = "idle" /\ UNCHANGED <<pc, run, built, interrupts>>
  BY DEF AlterFile, RemoveFile, OwnerCoverage, Touch
<1>2. \A f \in DOMAIN file' : ~Lasting(f) => f \in DOMAIN file /\ file'[f].run = file[f].run
  <2>1. CASE AlterFile
    <3>1. PICK x \in DOMAIN file : file' = [file EXCEPT ![x].fault = "edited"]
      BY <2>1 DEF AlterFile, Touch, Has
    <3>2. DOMAIN file' = DOMAIN file /\ \A f \in DOMAIN file : f # x => file'[f] = file[f]
      BY <3>1
    <3>3. file'[x] = [file[x] EXCEPT !.fault = "edited"]
      BY <3>1
    <3>4. file'[x].run = file[x].run
      <4>1. DOMAIN file[x] = {"run", "fault"}
        BY DEF GateOK, FilesTyped, Unmarked, Altered
      <4> QED
        BY <3>3, <4>1
    <3> QED
      BY <3>2, <3>4
  <2>2. CASE RemoveFile
    <3>1. PICK x \in DOMAIN file : file' = AllBut(file, x)
      BY <2>2 DEF RemoveFile, Touch
    <3> QED
      BY <3>1 DEF AllBut, Restrict
  <2>3. CASE OwnerCoverage
    <3>1. PICK kind : file' = Over(Just(<<"coverage">>, Made(run, kind)), file)
      BY <2>3 DEF OwnerCoverage
    <3> DEFINE just == Just(<<"coverage">>, Made(run, kind))
    <3>2. DOMAIN just = {<<"coverage">>}
      BY JustIs
    <3> HIDE DEF just
    <3>3. /\ DOMAIN Over(just, file) = DOMAIN just \cup DOMAIN file
          /\ \A f \in DOMAIN file : f \notin DOMAIN just => Over(just, file)[f] = file[f]
      BY OverIs
    <3>4. file' = Over(just, file)
      BY <3>1 DEF just
    <3> QED
      BY <3>2, <3>3, <3>4 DEF Lasting
  <2> QED
    BY <2>1, <2>2, <2>3
<1> QED
  BY <1>1, <1>2 DEF Current, Lasting

LEMMA CurrentKeeps == ASSUME GateOK, Current, [GateNext]_gateVars PROVE Current'
<1>1. CASE Interrupt
  <2>1. interrupts' # 0
    BY <1>1 DEF Interrupt, GateOK, Phase
  <2> QED
    BY <2>1 DEF Current
<1>2. CASE Rebind \/ Verify \/ Archive \/ IssueCertificate \/ UNCHANGED gateVars
  <2>1. UNCHANGED <<pc, run, file, built, wrote, interrupts>>
    BY <1>2 DEF Rebind, Verify, Archive, IssueCertificate, gateVars
  <2> QED
    BY <2>1 DEF Current, Lasting
<1> QED
  BY <1>1, <1>2, CurrentBuild, CurrentRun, CurrentTouch DEF GateNext

LEMMA CurrentStart == GateInit => Current
BY NothingIs DEF GateInit, Current

LEMMA OneRunWhenYes == ASSUME GateOK, Current, SaysYes, pc = "idle", interrupts = 0 PROVE OneRun
<1> SUFFICES ASSUME NEW f \in InScope, f \in DOMAIN file, f # <<"coverage">> PROVE file[f].run = run
  BY DEF OneRun
<1>1. CASE f \notin Lists
  BY <1>1 DEF Current, Lasting
<1>2. CASE f \in Lists
  <2> DEFINE w == <<"window", f[2], f[3]>>
  <2>1. f[2] \in scope /\ Has(file, f)
    BY <1>2, KindsOfFiles DEF InScope, Has
  <2>2. WindowBound(f)
    BY <1>2, <2>1, ListSound
  <2>3. w \in DOMAIN file /\ file[w] = file[f]
    BY <2>2 DEF WindowBound, BoundBytes, Has
  <2>4. w \notin Lists /\ w # <<"coverage">>
    BY KindsOfFiles
  <2>5. file[w].run = run
    <3> HIDE DEF w
    <3> QED
      BY <2>3, <2>4 DEF Current, Lasting
  <2> QED
    BY <2>3, <2>5
<1> QED
  BY <1>1, <1>2

\* A report that would carry a certificate is of a clean package.
Honest(x) == (Verdict(x) \in Positive /\ \A t \in Tests : x.safety[t] = "VALID") => x.clean
ReportsHonest ==
    /\ report = NoReport \/ Honest(report)
    /\ bound = NoReport \/ Honest(bound)
    /\ certified # NoReport => (certified.clean /\ DOMAIN certified.golds = Golds)

LEMMA VerdictOf ==
    ASSUME NEW x, NEW y, x.identity = y.identity, x.golds = y.golds, x.safety = y.safety, x.missing = y.missing,
           x.ambiguous = y.ambiguous, x.partial = y.partial, x.coverage = y.coverage
    PROVE  Verdict(x) = Verdict(y)
BY DEF Verdict

LEMMA VerifyHonest == ASSUME GateOK, Verify PROVE Honest(report')
<1> DEFINE R == [Report EXCEPT !.clean = PackageClean]
<1>1. report' = R
  BY DEF Verify
<1>2. R.identity = Report.identity /\ R.golds = Report.golds /\ R.safety = Report.safety /\ R.missing = Report.missing
      /\ R.ambiguous = Report.ambiguous /\ R.partial = Report.partial /\ R.coverage = Report.coverage
  BY ReportIs
<1>3. PackageClean => R.clean
  <2> SUFFICES ASSUME PackageClean PROVE R.clean
    OBVIOUS
  <2>1. R = [Report EXCEPT !.clean = TRUE]
    BY Zenon
  <2> HIDE DEF R
  <2> QED
    BY <2>1, ReportIs
<1> HIDE DEF R
<1>4. Verdict(R) = Verdict(Report)
  BY <1>2, VerdictOf
<1> SUFFICES ASSUME Verdict(R) \in Positive, \A t \in Tests : R.safety[t] = "VALID" PROVE R.clean
  BY <1>1 DEF Honest
<1>5. SaysYes
  BY <1>4 DEF SaysYes
<1>6. \A t \in Tests : VerifySafety(t) # "MISMATCHED"
  BY <1>2, ReportIs
<1> QED
  BY <1>3, <1>5, <1>6, CleanWhenYes DEF SafetyAgrees

LEMMA ReportsKeep == ASSUME GateOK, ReportsHonest, [GateNext]_gateVars PROVE ReportsHonest'
<1>1. CASE Verify
  <2>1. Honest(report') /\ UNCHANGED <<bound, certified>>
    BY <1>1, VerifyHonest DEF Verify
  <2> QED
    BY <2>1, Zenon DEF ReportsHonest
<1>2. CASE Archive
  <2>1. bound' = report /\ UNCHANGED <<report, certified>>
    BY <1>2 DEF Archive
  <2> QED
    BY <2>1, Zenon DEF ReportsHonest
<1>3. CASE IssueCertificate
  <2>1. UNCHANGED <<report, bound>> /\ certified' = report /\ report # NoReport /\ DOMAIN report.golds = Golds
        /\ Verdict(report) \in Positive /\ \A t \in Tests : report.safety[t] = "VALID"
    BY <1>3 DEF IssueCertificate
  <2>2. report.clean
    BY <2>1, Zenon DEF ReportsHonest, Honest
  <2> QED
    BY <2>1, <2>2, Zenon DEF ReportsHonest
<1>4. CASE UNCHANGED <<report, bound, certified>>
  BY <1>4, Zenon DEF ReportsHonest
<1>5. GateRun \/ BuildStep \/ Interrupt \/ AlterFile \/ RemoveFile \/ OwnerCoverage \/ Rebind \/ UNCHANGED gateVars
      => UNCHANGED <<report, bound, certified>>
  BY DEF GateRun, BuildStep, Interrupt, AlterFile, RemoveFile, OwnerCoverage, Rebind, Touch, gateVars
<1> QED
  BY <1>1, <1>2, <1>3, <1>4, <1>5 DEF GateNext

LEMMA ReportsStart == GateInit => ReportsHonest
BY DEF GateInit, ReportsHonest

LEMMA SoundWhenKept == ASSUME GateOK, Current, ReportsHonest PROVE PositiveIsSound
<1>1. PositiveIsClean
  BY CleanWhenYes DEF PositiveIsClean, SafetyAgrees
<1>2. PositiveIsOneRun
  <2> SUFFICES ASSUME Idle, SaysYes, interrupts = 0 PROVE OneRun
    BY DEF PositiveIsOneRun
  <2> QED
    BY OneRunWhenYes DEF Idle
<1>3. CertifiedIsClean
  BY Zenon DEF ReportsHonest, CertifiedIsClean
<1> QED
  BY <1>1, <1>2, <1>3 DEF PositiveIsSound

\* What a positive verdict and a certificate are worth, of any golds, tests,
\* commits, runs and troubles (stage8_package.build_package, owner_gate.run_gate,
\* gate_certificate.issue_certificate): the package is clean unless a safety
\* file is at odds with its own evidence, it is of one run when no build was
\* interrupted, and a certificate was issued of a clean one.
THEOREM PositiveHolds == GateSpec => []PositiveIsSound
<1>1. GateInit => GateOK /\ Current /\ ReportsHonest
  BY GateStart, CurrentStart, ReportsStart
<1>2. GateOK /\ Current /\ ReportsHonest /\ [GateNext]_gateVars => (GateOK /\ Current /\ ReportsHonest)'
  BY GateKeeps, CurrentKeeps, ReportsKeep
<1>3. GateOK /\ Current /\ ReportsHonest => PositiveIsSound
  BY SoundWhenKept
<1> QED
  BY <1>1, <1>2, <1>3, PTL DEF GateSpec

-----------------------------------------------------------------------------
(* DemoHarness: what a demo run leaves behind *)

DemoSpec == DemoInit /\ [][DemoNext]_demoVars

\* A program with n steps left.
Rest(prog, n) == SubSeq(prog, Len(prog) - n + 1, Len(prog))
Left(prog) == Len(todo) \in 0..Len(prog) /\ todo = Rest(prog, Len(todo))
\* In a program that launches and waits, or in the one that proves the login.
Entering == at \in {"step", "wait_start"}
Persisting == todo # <<>> /\ Head(todo)[1] \in {"script", "check"}

\* The steps programs are made of, and what the terminal and its log can say.
DemoSteps == {<<"start", "hedging", "restart">>, <<"start", "hedging", "cleanup">>, <<"start", "hedging", "account">>,
              <<"start", "netting", "account">>, <<"wait", "opened">>, <<"wait", "closed">>, <<"observe">>, <<"kill">>,
              <<"script", "hedging">>, <<"script", "none">>, <<"check">>}
Logins == {"none", "hedging", "netting"}
ProbeKinds == {"none", "restart", "cleanup", "account"}
EaStates == {"none", "loading", "started", "holds", "idle", "gone"}
Terminals == [up : BOOLEAN, account : Logins, probe : ProbeKinds, ea : EaStates]
LogLines == [what : {"start", "refused", "gave_up", "opened", "closed"}, probe : ProbeKinds, mode : Logins, launch : Nat]
DemoTypeOK ==
    /\ test \in {"restart", "netting", "hedging"} /\ kept \in Logins
    /\ at \in {"step", "wait_start", "wait_script", "final", "kill_failed", "kill", "done", "raised"}
    /\ todo \in Seq(DemoSteps) /\ launched \in Seq({"test", "restore"})
    /\ seen \in Seq(LogLines) /\ lines \in Seq(LogLines) /\ eaLog \in Seq(LogLines)
    /\ mark \in Nat /\ outer \in Nat /\ term \in Terminals

\* Where the harness is in its programs.
Placed ==
    /\ at \in {"step", "wait_start", "wait_script"} =>
          \/ at # "wait_script" /\ Left(IF restoring THEN RestoreProgram ELSE Program(test))
          \/ at # "wait_start" /\ restoring /\ Left(PersistProgram) /\ Len(todo) > 0
    /\ at \notin {"step", "wait_start", "wait_script"} => todo = <<>>
    /\ at = "wait_start" => todo # <<>> /\ Head(todo)[1] = "start"
    /\ at = "wait_script" => todo # <<>> /\ Head(todo)[1] = "script"
    /\ at \in {"final", "kill_failed"} => failed
    /\ failed /\ ~restoring => at \in {"final", "kill_failed"}
    /\ suspended => failed
    /\ at # "done" => demoRecord = NoRecord

\* The login the terminal keeps, once it is being proved and when it was.
LoginProved ==
    /\ Persisting => term.ea = "none"
    /\ Persisting /\ at = "wait_script" /\ Head(todo)[2] = "none" => term.account = kept /\ ~ini
    /\ Persisting /\ Head(todo)[1] = "check" => term.account = kept /\ ~term.up
    /\ at = "done" /\ demoRecord.restoreOk => kept = "hedging" /\ ~term.up /\ term.ea = "none"

\* A line that says the probe closed its position, unread or read since the launch.
ClosedUnread == \E i \in 1..Len(Fresh) : Fresh[i].what = "closed"
ReadSince(k) == \E i \in (k + 1)..Len(lines) : lines[i].what = "closed"
ClosedSeen == ClosedUnread \/ ReadSince(IF restoring THEN outer ELSE mark)

Alive == {"loading", "started", "holds"}
\* A restart test: its first launches close nothing, the last one only closes.
RestartPos ==
    /\ open \subseteq {"hedging"} /\ (term.probe # "none" => term.account = "hedging")
    /\ Len(todo) > 2 => term.probe \in {"restart", "none"} /\ ~ClosedSeen
    /\ Len(todo) <= 2 => term.probe \in {"cleanup", "none"} /\ (ClosedSeen => open = {})
    /\ Len(todo) = 0 => open = {}
\* An account test: its probe writes that it closed when it is done.
AccountPos ==
    /\ open \subseteq {"hedging", test} /\ term.probe \in {"account", "none"}
    /\ term.probe # "none" => term.account = test
    /\ Len(todo) = 2 /\ at = "step" => ~ClosedUnread /\ term.ea \notin Alive
    /\ (Len(todo) = 2 /\ at = "wait_start") \/ Len(todo) = 1 =>
            (ClosedSeen => test \notin open /\ term.ea \notin Alive)
    /\ Len(todo) = 0 => ~ClosedUnread /\ test \notin open /\ term.ea \notin Alive
\* The restore closes what is left, and opens nothing.
RestorePos ==
    /\ open \subseteq {"hedging"} /\ term.probe \in {"cleanup", "none"}
    /\ term.probe # "none" => term.account = "hedging"
    /\ IF Entering /\ Len(todo) > 0 /\ ~Persisting THEN ClosedSeen => open = {} ELSE open = {}
Positions ==
    /\ ~failed /\ ~restoring /\ at # "raised" => IF test = "restart" THEN RestartPos ELSE AccountPos
    /\ ~failed /\ restoring /\ at # "raised" => RestorePos
    /\ demoRecord.status = "COMPLETED" => demoRecord.restoreOk /\ at = "done" /\ open = {}

DemoInv == DemoTypeOK /\ Placed /\ LoginProved /\ Positions /\ CredentialsOffDisk

LEMMA RestIs ==
    ASSUME NEW S, NEW prog \in Seq(S)
    PROVE  /\ Rest(prog, 0) = <<>>
           /\ \A n \in 1..Len(prog) :
                 /\ Len(Rest(prog, n)) = n /\ Rest(prog, n) # <<>>
                 /\ Head(Rest(prog, n)) = prog[Len(prog) - n + 1]
                 /\ Tail(Rest(prog, n)) = Rest(prog, n - 1)
<1>1. Rest(prog, 0) = <<>>
  BY DEF Rest
<1>2. ASSUME NEW n \in 1..Len(prog)
      PROVE  /\ Len(Rest(prog, n)) = n /\ Rest(prog, n) # <<>>
             /\ Head(Rest(prog, n)) = prog[Len(prog) - n + 1]
             /\ Tail(Rest(prog, n)) = Rest(prog, n - 1)
  <2> DEFINE r == Rest(prog, n)
             q == Rest(prog, n - 1)
  <2>1. r \in Seq(S) /\ Len(r) = n /\ \A i \in 1..n : r[i] = prog[Len(prog) - n + i]
    BY DEF Rest
  <2>2. q \in Seq(S) /\ Len(q) = n - 1 /\ \A i \in 1..(n - 1) : q[i] = prog[Len(prog) - (n - 1) + i]
    BY DEF Rest
  <2> HIDE DEF r, q
  <2>3. r # <<>> /\ Head(r) = r[1]
    BY <2>1
  <2>4. Tail(r) \in Seq(S) /\ Len(Tail(r)) = n - 1 /\ \A i \in 1..(n - 1) : Tail(r)[i] = r[i + 1]
    BY <2>1, <2>3
  <2>5. ASSUME NEW i \in 1..(n - 1) PROVE Tail(r)[i] = q[i]
    <3>1. Tail(r)[i] = prog[Len(prog) - n + (i + 1)] /\ q[i] = prog[Len(prog) - (n - 1) + i]
      BY <2>1, <2>2, <2>4
    <3>2. Len(prog) - n + (i + 1) = Len(prog) - (n - 1) + i
      <4> DEFINE k == Len(prog)
      <4>1. k \in Nat
        OBVIOUS
      <4> HIDE DEF k
      <4>2. k - n + (i + 1) = k - (n - 1) + i
        BY <4>1
      <4> QED
        BY <4>2 DEF k
    <3> QED
      BY <3>1, <3>2
  <2>6. Tail(r) = q
    BY <2>2, <2>4, <2>5
  <2> QED
    BY <2>1, <2>3, <2>6 DEF r, q
<1> QED
  BY <1>1, <1>2

LEMMA ProgramsAre ==
    /\ \A t \in {"restart", "netting", "hedging"} : Program(t) \in Seq(DemoSteps)
    /\ RestoreProgram \in Seq(DemoSteps) /\ PersistProgram \in Seq(DemoSteps)
    /\ Len(Program("restart")) = 9 /\ (\A t : t # "restart" => Len(Program(t)) = 2)
    /\ Len(RestoreProgram) = 2 /\ Len(PersistProgram) = 3
<1>1. Program("restart") = << <<"start", "hedging", "restart">>, <<"wait", "opened">>, <<"observe">>, <<"kill">>,
            <<"start", "hedging", "restart">>, <<"observe">>, <<"kill">>,
            <<"start", "hedging", "cleanup">>, <<"wait", "closed">> >>
  BY DEF Program
<1>2. \A t : t # "restart" => Program(t) = << <<"start", t, "account">>, <<"wait", "closed">> >>
  BY DEF Program
<1>3. Program("restart") \in Seq(DemoSteps) /\ Len(Program("restart")) = 9
  <2> DEFINE p == << <<"start", "hedging", "restart">>, <<"wait", "opened">>, <<"observe">>, <<"kill">>,
            <<"start", "hedging", "restart">>, <<"observe">>, <<"kill">>,
            <<"start", "hedging", "cleanup">>, <<"wait", "closed">> >>
  <2>1. p \in Seq(DemoSteps) /\ Len(p) = 9
    BY DEF DemoSteps
  <2> QED
    BY <1>1, <2>1
<1>4. \A t : t # "restart" => Len(Program(t)) = 2
  BY <1>2
<1>5. ASSUME NEW t \in {"netting", "hedging"} PROVE Program(t) \in Seq(DemoSteps)
  <2>1. << <<"start", t, "account">>, <<"wait", "closed">> >> \in Seq(DemoSteps)
    BY DEF DemoSteps
  <2> QED
    BY <1>2, <2>1
<1>6. /\ RestoreProgram \in Seq(DemoSteps) /\ PersistProgram \in Seq(DemoSteps)
      /\ Len(RestoreProgram) = 2 /\ Len(PersistProgram) = 3
  BY DEF RestoreProgram, PersistProgram, DemoSteps
<1> QED
  BY <1>3, <1>4, <1>5, <1>6

\* The step a program is at, by the number of steps left.
LEMMA StepsAre ==
    /\ LET p == Program("restart")
       IN /\ p[1] = <<"start", "hedging", "restart">> /\ p[2] = <<"wait", "opened">> /\ p[3] = <<"observe">>
          /\ p[4] = <<"kill">> /\ p[5] = <<"start", "hedging", "restart">> /\ p[6] = <<"observe">>
          /\ p[7] = <<"kill">> /\ p[8] = <<"start", "hedging", "cleanup">> /\ p[9] = <<"wait", "closed">>
    /\ \A t : t # "restart" => Program(t)[1] = <<"start", t, "account">> /\ Program(t)[2] = <<"wait", "closed">>
    /\ RestoreProgram[1] = <<"start", "hedging", "cleanup">> /\ RestoreProgram[2] = <<"wait", "closed">>
    /\ PersistProgram[1] = <<"script", "hedging">> /\ PersistProgram[2] = <<"script", "none">>
    /\ PersistProgram[3] = <<"check">>
BY DEF Program, RestoreProgram, PersistProgram

\* The step the harness is at.
LEMMA HeadIs ==
    ASSUME DemoTypeOK, Placed, at \in {"step", "wait_start", "wait_script"}, todo # <<>>
    PROVE  /\ ~restoring /\ test = "restart" =>
                /\ Len(todo) \in 1..9 /\ ~Persisting
                /\ Len(todo) \in {9, 5} => Head(todo) = <<"start", "hedging", "restart">>
                /\ Len(todo) = 8 => Head(todo) = <<"wait", "opened">>
                /\ Len(todo) \in {7, 4} => Head(todo) = <<"observe">>
                /\ Len(todo) \in {6, 3} => Head(todo) = <<"kill">>
                /\ Len(todo) = 2 => Head(todo) = <<"start", "hedging", "cleanup">>
                /\ Len(todo) = 1 => Head(todo) = <<"wait", "closed">>
           /\ ~restoring /\ test # "restart" =>
                /\ Len(todo) \in 1..2 /\ ~Persisting
                /\ Len(todo) = 2 => Head(todo) = <<"start", test, "account">>
                /\ Len(todo) = 1 => Head(todo) = <<"wait", "closed">>
           /\ restoring =>
                \/ Len(todo) = 2 /\ Head(todo) = <<"start", "hedging", "cleanup">> /\ ~Persisting
                \/ Len(todo) = 1 /\ Head(todo) = <<"wait", "closed">> /\ ~Persisting
                \/ Len(todo) = 3 /\ Head(todo) = <<"script", "hedging">> /\ Left(PersistProgram)
                \/ Len(todo) = 2 /\ Head(todo) = <<"script", "none">> /\ Left(PersistProgram)
                \/ Len(todo) = 1 /\ Head(todo) = <<"check">> /\ Left(PersistProgram)
<1> DEFINE n == Len(todo)
<1>1. n \in Nat /\ n > 0
  BY DEF DemoTypeOK
<1>2. ASSUME NEW prog \in Seq(DemoSteps), Left(prog), NEW k \in Nat, Len(prog) = k
      PROVE  n \in 1..k /\ Head(todo) = prog[k - n + 1]
  <2>1. Len(todo) \in 1..Len(prog) /\ todo = Rest(prog, Len(todo))
    BY <1>1, <1>2 DEF Left
  <2> QED
    BY <1>2, <2>1, RestIs
<1>3. CASE ~restoring /\ test = "restart"
  <2>1. Left(Program("restart")) /\ Program("restart") \in Seq(DemoSteps) /\ Len(Program("restart")) = 9
    BY <1>3, ProgramsAre DEF Placed
  <2>2. n \in 1..9 /\ Head(todo) = Program("restart")[9 - n + 1]
    BY <1>2, <2>1
  <2> HIDE DEF n
  <2>3. n = 9 \/ n = 8 \/ n = 7 \/ n = 6 \/ n = 5 \/ n = 4 \/ n = 3 \/ n = 2 \/ n = 1
    BY <2>2
  <2>4. /\ n \in 1..9 /\ ~Persisting
        /\ n \in {9, 5} => Head(todo) = <<"start", "hedging", "restart">>
        /\ n = 8 => Head(todo) = <<"wait", "opened">>
        /\ n \in {7, 4} => Head(todo) = <<"observe">>
        /\ n \in {6, 3} => Head(todo) = <<"kill">>
        /\ n = 2 => Head(todo) = <<"start", "hedging", "cleanup">>
        /\ n = 1 => Head(todo) = <<"wait", "closed">>
    BY <2>2, <2>3, StepsAre DEF Persisting
  <2> QED
    BY <1>3, <2>4 DEF n
<1>4. CASE ~restoring /\ test # "restart"
  <2>1. Left(Program(test)) /\ test \in {"restart", "netting", "hedging"}
    BY <1>4 DEF Placed, DemoTypeOK
  <2>2. n \in 1..2 /\ Head(todo) = Program(test)[2 - n + 1]
    BY <1>2, <1>4, <2>1, ProgramsAre
  <2> HIDE DEF n
  <2>3. n = 2 \/ n = 1
    BY <2>2
  <2>4. /\ n \in 1..2 /\ ~Persisting
        /\ n = 2 => Head(todo) = <<"start", test, "account">>
        /\ n = 1 => Head(todo) = <<"wait", "closed">>
    BY <1>4, <2>2, <2>3, StepsAre DEF Persisting
  <2> QED
    BY <1>4, <2>4 DEF n
<1>5. CASE restoring
  <2>1. CASE Left(RestoreProgram)
    <3>1. n \in 1..2 /\ Head(todo) = RestoreProgram[2 - n + 1]
      BY <1>2, <2>1, ProgramsAre
    <3> HIDE DEF n
    <3>2. n = 2 \/ n = 1
      BY <3>1
    <3>3. \/ n = 2 /\ Head(todo) = <<"start", "hedging", "cleanup">> /\ ~Persisting
          \/ n = 1 /\ Head(todo) = <<"wait", "closed">> /\ ~Persisting
      BY <3>1, <3>2, StepsAre DEF Persisting
    <3> QED
      BY <1>5, <3>3 DEF n
  <2>2. CASE Left(PersistProgram)
    <3>1. n \in 1..3 /\ Head(todo) = PersistProgram[3 - n + 1]
      BY <1>2, <2>2, ProgramsAre
    <3> HIDE DEF n
    <3>2. n = 3 \/ n = 2 \/ n = 1
      BY <3>1
    <3>3. \/ n = 3 /\ Head(todo) = <<"script", "hedging">>
          \/ n = 2 /\ Head(todo) = <<"script", "none">>
          \/ n = 1 /\ Head(todo) = <<"check">>
      BY <3>1, <3>2, StepsAre
    <3> QED
      BY <1>5, <2>2, <3>3 DEF n
  <2> QED
    BY <1>5, <2>1, <2>2 DEF Placed
<1> QED
  BY <1>3, <1>4, <1>5

\* A program begun, and a program one step on.
LEMMA LeftIs ==
    ASSUME DemoTypeOK
    PROVE  /\ \A prog \in Seq(DemoSteps) : todo' = prog => Left(prog)'
           /\ \A prog \in Seq(DemoSteps) : Left(prog) /\ todo # <<>> /\ todo' = Tail(todo) => Left(prog)'
           /\ todo # <<>> /\ todo' = Tail(todo) => Len(todo') = Len(todo) - 1 /\ todo' \in Seq(DemoSteps)
           /\ Len(todo) = 0 <=> todo = <<>>
<1>1. ASSUME NEW prog \in Seq(DemoSteps), todo' = prog PROVE Left(prog)'
  <2>1. Rest(prog, Len(prog)) = prog
    BY DEF Rest
  <2> QED
    BY <1>1, <2>1 DEF Left, Rest
<1>2. ASSUME todo # <<>>, todo' = Tail(todo) PROVE Len(todo') = Len(todo) - 1 /\ todo' \in Seq(DemoSteps)
  BY <1>2 DEF DemoTypeOK
<1>3. ASSUME NEW prog \in Seq(DemoSteps), Left(prog), todo # <<>>, todo' = Tail(todo) PROVE Left(prog)'
  <2>1. Len(todo) \in 1..Len(prog) /\ todo = Rest(prog, Len(todo))
    BY <1>3 DEF Left, DemoTypeOK
  <2>2. todo' = Rest(prog, Len(todo) - 1)
    BY <1>3, <2>1, RestIs
  <2> QED
    BY <1>2, <1>3, <2>1, <2>2 DEF Left, Rest
<1>4. Len(todo) = 0 <=> todo = <<>>
  BY DEF DemoTypeOK
<1> QED
  BY <1>1, <1>2, <1>3, <1>4

\* What the follower has not read is in the EA's log.
LEMMA FreshIs ==
    ASSUME DemoTypeOK
    PROVE  /\ Fresh \in Seq(LogLines) /\ (seen = eaLog => Fresh = <<>>)
           /\ \A i \in 1..Len(Fresh) : \E j \in 1..Len(eaLog) : Fresh[i] = eaLog[j]
           /\ IsPrefix(seen, eaLog) => /\ Len(seen) <= Len(eaLog) /\ Len(Fresh) = Len(eaLog) - Len(seen)
                                       /\ \A i \in 1..Len(Fresh) : Fresh[i] = eaLog[Len(seen) + i]
           /\ ~IsPrefix(seen, eaLog) => Fresh = eaLog
<1> seen \in Seq(LogLines) /\ eaLog \in Seq(LogLines)
  BY DEF DemoTypeOK
<1>1. CASE IsPrefix(seen, eaLog)
  <2>1. Len(seen) <= Len(eaLog)
    BY <1>1 DEF IsPrefix
  <2>2. Fresh = SubSeq(eaLog, Len(seen) + 1, Len(eaLog))
    BY <1>1 DEF Fresh
  <2>3. /\ SubSeq(eaLog, Len(seen) + 1, Len(eaLog)) \in Seq(LogLines)
        /\ Len(SubSeq(eaLog, Len(seen) + 1, Len(eaLog))) = Len(eaLog) - Len(seen)
        /\ \A i \in 1..(Len(eaLog) - Len(seen)) : SubSeq(eaLog, Len(seen) + 1, Len(eaLog))[i] = eaLog[Len(seen) + i]
    BY <2>1
  <2>4. \A i \in 1..(Len(eaLog) - Len(seen)) : Len(seen) + i \in 1..Len(eaLog)
    BY <2>1
  <2>5. seen = eaLog => SubSeq(eaLog, Len(seen) + 1, Len(eaLog)) = <<>>
    BY <2>3
  <2> QED
    BY <1>1, <2>1, <2>2, <2>3, <2>4, <2>5
<1>2. CASE ~IsPrefix(seen, eaLog)
  <2>1. Fresh = eaLog
    BY <1>2 DEF Fresh
  <2>2. seen # eaLog
    <3> SUFFICES ASSUME seen = eaLog PROVE IsPrefix(seen, eaLog)
      BY <1>2
    <3> QED
      BY DEF IsPrefix
  <2> QED
    BY <1>2, <2>1, <2>2
<1> QED
  BY <1>1, <1>2

LEMMA PolledIs ==
    ASSUME DemoTypeOK
    PROVE  /\ Polled \in Seq(LogLines) /\ Len(Polled) = Len(lines) + Len(Fresh)
           /\ \A i \in 1..Len(lines) : Polled[i] = lines[i]
           /\ \A i \in 1..Len(Fresh) : Polled[Len(lines) + i] = Fresh[i]
<1>1. Fresh \in Seq(LogLines) /\ lines \in Seq(LogLines)
  BY FreshIs DEF DemoTypeOK
<1> QED
  BY <1>1 DEF Polled

\* What a poll shows was read before or is read now.
LEMMA ShownIs ==
    ASSUME DemoTypeOK, NEW k \in Nat, Shows("closed", k)
    PROVE  ClosedUnread \/ ReadSince(k)
<1>1. PICK i \in (k + 1)..Len(Polled) : Polled[i].what = "closed"
  BY DEF Shows
<1>2. Len(lines) \in Nat /\ Len(Fresh) \in Nat /\ Len(Polled) = Len(lines) + Len(Fresh)
  BY PolledIs, FreshIs DEF DemoTypeOK
<1>3. CASE i <= Len(lines)
  <2>1. i \in 1..Len(lines) /\ i \in (k + 1)..Len(lines)
    BY <1>2, <1>3
  <2> QED
    BY <1>1, <2>1, PolledIs DEF ReadSince
<1>4. CASE i > Len(lines)
  <2>1. PICK j \in 1..Len(Fresh) : i = Len(lines) + j
    <3>1. i - Len(lines) \in 1..Len(Fresh) /\ i = Len(lines) + (i - Len(lines))
      BY <1>2, <1>4
    <3> QED
      BY <3>1
  <2> QED
    BY <1>1, <2>1, PolledIs DEF ClosedUnread
<1> QED
  BY <1>2, <1>3, <1>4

\* A poll leaves nothing unread; what is read since a mark was read before or unread.
LEMMA PollReads ==
    ASSUME DemoTypeOK, Poll, eaLog' = eaLog
    PROVE  /\ ~ClosedUnread' /\ \A k \in Nat : ReadSince(k)' => ReadSince(k) \/ ClosedUnread
           /\ lines' \in Seq(LogLines) /\ seen' \in Seq(LogLines)
<1>1. lines' = Polled /\ seen' = eaLog /\ Polled \in Seq(LogLines)
  BY PolledIs DEF Poll
<1>2. ~ClosedUnread'
  <2>1. Fresh' = <<>>
    <3>1. eaLog \in Seq(LogLines)
      BY DEF DemoTypeOK
    <3>2. IsPrefix(seen', eaLog')
      BY <1>1, <3>1 DEF IsPrefix
    <3>3. SubSeq(eaLog, Len(eaLog) + 1, Len(eaLog)) = <<>>
      BY <3>1
    <3>4. Fresh' = SubSeq(eaLog', Len(seen') + 1, Len(eaLog'))
      BY <3>2 DEF Fresh
    <3> QED
      BY <1>1, <3>3, <3>4
  <2>2. Len(<<>>) = 0 /\ 1..0 = {}
    OBVIOUS
  <2> QED
    BY <2>1, <2>2 DEF ClosedUnread
<1>3. ASSUME NEW k \in Nat, ReadSince(k)' PROVE ReadSince(k) \/ ClosedUnread
  <2>1. Shows("closed", k)
    BY <1>1, <1>3 DEF ReadSince, Shows
  <2> QED
    BY <2>1, ShownIs
<1> QED
  BY <1>1, <1>2, <1>3 DEF DemoTypeOK

LEMMA FromIs ==
    ASSUME NEW S, NEW s \in Seq(S), NEW a \in Nat, NEW n \in Nat, Len(s) = n, a <= n
    PROVE  /\ Len(SubSeq(s, a + 1, n)) = n - a
           /\ \A x \in 1..(n - a) : SubSeq(s, a + 1, n)[x] = s[a + x]
OBVIOUS

LEMMA IndexWithin ==
    ASSUME NEW a \in Nat, NEW b \in Nat, a <= b, NEW i \in 1..((b + 1) - a), a + i # b + 1
    PROVE  i \in 1..(b - a) /\ a + i \in 1..b
OBVIOUS

\* A line written to the log is the only new one unread.
LEMMA LineUnread ==
    ASSUME DemoTypeOK, NEW l \in LogLines, eaLog' = Append(eaLog, l), seen' = seen, ClosedUnread'
    PROVE  ClosedUnread \/ l.what = "closed"
<1> eaLog \in Seq(LogLines) /\ seen \in Seq(LogLines) /\ eaLog' \in Seq(LogLines)
  BY DEF DemoTypeOK
<1>1. Len(eaLog') = Len(eaLog) + 1 /\ eaLog'[Len(eaLog) + 1] = l /\ \A j \in 1..Len(eaLog) : eaLog'[j] = eaLog[j]
  OBVIOUS
<1>2. CASE IsPrefix(seen, eaLog)
  <2>1. Len(seen) <= Len(eaLog) /\ SubSeq(seen, 1, Len(seen)) = SubSeq(eaLog, 1, Len(seen))
    BY <1>2 DEF IsPrefix
  <2>2. SubSeq(eaLog', 1, Len(seen)) = SubSeq(eaLog, 1, Len(seen))
    <3> DEFINE a == SubSeq(eaLog', 1, Len(seen))
               b == SubSeq(eaLog, 1, Len(seen))
    <3>1. a \in Seq(LogLines) /\ Len(a) = Len(seen) /\ \A i \in 1..Len(seen) : a[i] = eaLog'[i]
      BY <1>1, <2>1
    <3>2. b \in Seq(LogLines) /\ Len(b) = Len(seen) /\ \A i \in 1..Len(seen) : b[i] = eaLog[i]
      BY <2>1
    <3>3. \A i \in 1..Len(seen) : a[i] = b[i]
      BY <1>1, <2>1, <3>1, <3>2
    <3> HIDE DEF a, b
    <3>4. a = b
      BY <3>1, <3>2, <3>3
    <3> QED
      BY <3>4 DEF a, b
  <2>3. IsPrefix(seen', eaLog')
    BY <1>1, <2>1, <2>2 DEF IsPrefix
  <2>4. Fresh' = SubSeq(eaLog', Len(seen) + 1, Len(eaLog'))
    BY <2>3 DEF Fresh
  <2>5. PICK i \in 1..Len(Fresh') : Fresh'[i].what = "closed"
    BY DEF ClosedUnread
  <2> DEFINE a == Len(seen)
             b == Len(eaLog)
  <2>6. i \in 1..((b + 1) - a) /\ Fresh'[i] = eaLog'[a + i]
    <3>1. Len(seen) \in Nat /\ Len(eaLog) + 1 \in Nat /\ Len(seen) <= Len(eaLog) + 1
      BY <2>1
    <3>2. /\ Len(SubSeq(eaLog', Len(seen) + 1, Len(eaLog) + 1)) = (Len(eaLog) + 1) - Len(seen)
          /\ \A x \in 1..((Len(eaLog) + 1) - Len(seen)) :
                SubSeq(eaLog', Len(seen) + 1, Len(eaLog) + 1)[x] = eaLog'[Len(seen) + x]
      <4> DEFINE m == Len(seen)
                 n == Len(eaLog) + 1
                 e == eaLog'
      <4>1. m \in Nat /\ n \in Nat /\ m <= n /\ e \in Seq(LogLines) /\ Len(e) = n
        BY <1>1, <3>1
      <4> HIDE DEF m, n, e
      <4>2. Len(SubSeq(e, m + 1, n)) = n - m /\ \A x \in 1..(n - m) : SubSeq(e, m + 1, n)[x] = e[m + x]
        BY <4>1, FromIs
      <4> QED
        BY <4>2 DEF m, n, e
    <3>3. Fresh' = SubSeq(eaLog', Len(seen) + 1, Len(eaLog) + 1)
      BY <1>1, <2>4
    <3> DEFINE q == SubSeq(eaLog', Len(seen) + 1, Len(eaLog) + 1)
               f == Fresh'
    <3>4. f = q /\ i \in 1..Len(f)
      BY <2>5, <3>3
    <3>5. Len(q) = (b + 1) - a /\ \A x \in 1..((b + 1) - a) : q[x] = eaLog'[a + x]
      BY <3>2
    <3> HIDE DEF q, f, a, b
    <3>6. i \in 1..((b + 1) - a) /\ f[i] = eaLog'[a + i]
      BY <3>4, <3>5
    <3> QED
      BY <3>6 DEF f
  <2>7. CASE Len(seen) + i = Len(eaLog) + 1
    BY <1>1, <2>5, <2>6, <2>7
  <2>8. CASE Len(seen) + i # Len(eaLog) + 1
    <3>1. a \in Nat /\ b \in Nat /\ a <= b
      BY <2>1
    <3>2. Len(Fresh) = b - a /\ \A x \in 1..Len(Fresh) : Fresh[x] = eaLog[a + x]
      BY <1>2, FreshIs
    <3>0. a + i # b + 1
      BY <2>8
    <3>3. i \in 1..(b - a) /\ a + i \in 1..b
      <4>1. i \in 1..((b + 1) - a)
        BY <2>6
      <4> HIDE DEF a, b
      <4> QED
        BY <3>0, <3>1, <4>1, IndexWithin
    <3>4. i \in 1..Len(Fresh) /\ Fresh[i] = eaLog[Len(seen) + i] /\ Len(seen) + i \in 1..Len(eaLog)
      BY <3>2, <3>3
    <3> QED
      BY <1>1, <2>5, <2>6, <3>4 DEF ClosedUnread
  <2> QED
    BY <2>7, <2>8
<1>3. CASE ~IsPrefix(seen, eaLog)
  <2>1. Fresh = eaLog
    BY <1>3 DEF Fresh
  <2>2. PICK i \in 1..Len(Fresh') : Fresh'[i].what = "closed"
    BY DEF ClosedUnread
  <2>3. PICK j \in 1..Len(eaLog') : Fresh'[i] = eaLog'[j]
    <3>1. CASE Fresh' = eaLog'
      BY <2>2, <3>1
    <3>2. CASE Fresh' = SubSeq(eaLog', Len(seen) + 1, Len(eaLog'))
      <4>1. i \in 1..(Len(eaLog') - Len(seen)) /\ Fresh'[i] = eaLog'[Len(seen) + i] /\ Len(seen) + i \in 1..Len(eaLog')
        BY <2>2, <3>2
      <4> QED
        BY <4>1
    <3>3. Fresh' = eaLog' \/ Fresh' = SubSeq(eaLog', Len(seen) + 1, Len(eaLog'))
      BY DEF Fresh
    <3> QED
      BY <3>1, <3>2, <3>3
  <2>4. j = Len(eaLog) + 1 \/ j \in 1..Len(eaLog)
    BY <1>1
  <2>5. CASE j = Len(eaLog) + 1
    BY <1>1, <2>2, <2>3, <2>5
  <2>6. CASE j \in 1..Len(eaLog)
    BY <1>1, <2>1, <2>2, <2>3, <2>6 DEF ClosedUnread
  <2> QED
    BY <2>4, <2>5, <2>6
<1> QED
  BY <1>2, <1>3

\* A log begun again has no line of the probe yet.
LEMMA LogBegun ==
    ASSUME DemoTypeOK, eaLog' \in Seq(LogLines), \A j \in 1..Len(eaLog') : eaLog'[j].what # "closed", seen' = seen
    PROVE  ~ClosedUnread'
<1> SUFFICES ASSUME NEW i \in 1..Len(Fresh'), Fresh'[i].what = "closed" PROVE FALSE
  BY DEF ClosedUnread
<1>1. Fresh' = eaLog' \/ Fresh' = SubSeq(eaLog', Len(seen) + 1, Len(eaLog'))
  BY DEF Fresh
<1>2. CASE Fresh' = eaLog'
  BY <1>2
<1>3. CASE Fresh' = SubSeq(eaLog', Len(seen) + 1, Len(eaLog'))
  <2>1. seen \in Seq(LogLines)
    BY DEF DemoTypeOK
  <2>2. Fresh'[i] = eaLog'[Len(seen) + i] /\ Len(seen) + i \in 1..Len(eaLog')
    BY <1>3, <2>1
  <2> QED
    BY <2>2
<1> QED
  BY <1>1, <1>2, <1>3

LEMMA OffIs == Off \in Terminals /\ ~Off.up /\ Off.account = "none" /\ Off.probe = "none" /\ Off.ea = "none"
<1>1. Off = [up |-> FALSE, account |-> "none", probe |-> "none", ea |-> "none"]
  BY DEF Off
<1>2. Off \in Terminals
  <2>1. FALSE \in BOOLEAN /\ "none" \in Logins /\ "none" \in ProbeKinds /\ "none" \in EaStates
    BY DEF Logins, ProbeKinds, EaStates
  <2> QED
    BY <1>1, <2>1 DEF Terminals
<1>3. Off.up = FALSE /\ Off.account = "none" /\ Off.probe = "none" /\ Off.ea = "none"
  BY <1>1
<1> QED
  BY <1>2, <1>3

\* A failure closes the program it happens in; nothing is claimed of what it leaves.
LEMMA Failing ==
    ASSUME DemoInv, Fails, at \in {"step", "wait_start"}, eaLog' = eaLog, lines' \in Seq(LogLines), seen' \in Seq(LogLines),
           term' = term \/ term' = Off,
           UNCHANGED <<test, restoring, mark, outer, launched, kept, open, demoRecord>>
    PROVE  DemoInv'
<1>1. at' = "final" /\ todo' = <<>> /\ ~ini' /\ failed'
  BY DEF Fails, Goto
<1>2. DemoTypeOK'
  BY <1>1, OffIs DEF DemoInv, DemoTypeOK
<1>3. demoRecord' = NoRecord
  BY DEF DemoInv, Placed
<1>4. Placed'
  BY <1>1, <1>3 DEF Placed
<1>5. LoginProved'
  BY <1>1 DEF LoginProved, Persisting
<1>6. Positions'
  BY <1>1, <1>3 DEF Positions, NoRecord
<1>7. CredentialsOffDisk'
  BY <1>1 DEF CredentialsOffDisk
<1> QED
  BY <1>2, <1>4, <1>5, <1>6, <1>7 DEF DemoInv

LEMMA FailuresKeep ==
    ASSUME DemoInv, SeeInitFailure \/ TimesOut \/ HostSuspends \/ (SeeRefusal /\ launchNo = 2)
    PROVE  DemoInv'
<1>1. at \in {"step", "wait_start"}
  BY DEF SeeInitFailure, TimesOut, HostSuspends, SeeRefusal, Waiting, Polling, Pausing, Do
<1>2. Fails
  BY DEF SeeInitFailure, TimesOut, HostSuspends, SeeRefusal
<1>3. eaLog' = eaLog /\ UNCHANGED <<test, restoring, mark, outer, launched, kept, open, demoRecord>>
  BY DEF SeeInitFailure, TimesOut, HostSuspends, SeeRefusal, inputVars, markVars, worldVars
<1>4. term' = term \/ term' = Off
  BY DEF SeeInitFailure, TimesOut, HostSuspends, SeeRefusal
<1>5. Poll \/ UNCHANGED <<seen, lines>>
  BY DEF SeeInitFailure, TimesOut, HostSuspends, SeeRefusal, logVars
<1>6. lines' \in Seq(LogLines) /\ seen' \in Seq(LogLines)
  BY <1>3, <1>5, PollReads DEF DemoInv, DemoTypeOK
<1> QED
  BY <1>1, <1>2, <1>3, <1>4, <1>6, Failing

\* A step of a program that is over leaves the rest of it.
LEMMA Advanced ==
    ASSUME DemoInv, at \in {"step", "wait_start", "wait_script"}, todo # <<>>, Head(todo)[1] # "check", todo' = Tail(todo),
           at' = "step", UNCHANGED <<test, restoring, failed, suspended, demoRecord>>
    PROVE  Placed'
<1>1. DemoTypeOK /\ Placed
  BY DEF DemoInv
<1>2. ~(failed /\ ~restoring) /\ demoRecord = NoRecord /\ (suspended => failed)
  BY <1>1 DEF Placed
<1>3. \/ Left(IF restoring THEN RestoreProgram ELSE Program(test))
      \/ restoring /\ Left(PersistProgram)
  BY <1>1 DEF Placed
<1>4. CASE Left(IF restoring THEN RestoreProgram ELSE Program(test))
  <2>1. (IF restoring THEN RestoreProgram ELSE Program(test)) \in Seq(DemoSteps)
    BY <1>1, ProgramsAre DEF DemoTypeOK
  <2>2. Left(IF restoring THEN RestoreProgram ELSE Program(test))'
    <3> DEFINE p == IF restoring THEN RestoreProgram ELSE Program(test)
    <3>1. p \in Seq(DemoSteps) /\ Left(p)
      BY <1>4, <2>1
    <3>2. Len(todo') \in 0..Len(p) /\ todo' = Rest(p, Len(todo'))
      <4> HIDE DEF p
      <4> QED
        BY <1>1, <3>1, LeftIs DEF Left, Rest
    <3>3. p' = p
      OBVIOUS
    <3> QED
      BY <3>2, <3>3 DEF Left, Rest
  <2> QED
    BY <1>2, <2>2 DEF Placed
<1>5. CASE restoring /\ Left(PersistProgram)
  <2>1. Len(todo) # 1
    <3> SUFFICES ASSUME Len(todo) = 1 PROVE Head(todo) = <<"check">>
      OBVIOUS
    <3>1. PersistProgram \in Seq(DemoSteps) /\ Len(PersistProgram) = 3
      BY ProgramsAre
    <3>2. 1 \in 1..Len(PersistProgram) /\ todo = Rest(PersistProgram, 1)
      BY <1>5, <3>1 DEF Left
    <3>3. Head(todo) = PersistProgram[3]
      <4>1. Head(Rest(PersistProgram, 1)) = PersistProgram[(Len(PersistProgram) - 1) + 1]
        BY <3>1, <3>2, RestIs
      <4> QED
        BY <3>1, <3>2, <4>1
    <3> QED
      BY <3>3, StepsAre
  <2>2. Left(PersistProgram)' /\ Len(todo') = Len(todo) - 1
    BY <1>1, <1>5, ProgramsAre, LeftIs
  <2>3. Len(todo') > 0
    <3>1. Len(todo) \in Nat /\ Len(todo) # 0
      BY <1>1, LeftIs DEF DemoTypeOK
    <3> QED
      BY <2>1, <2>2, <3>1
  <2> QED
    BY <1>2, <1>5, <2>2, <2>3 DEF Placed
<1> QED
  BY <1>3, <1>4, <1>5

\* A launch, a wait or a kill is not followed by a step of the proof of the login.
LEMMA Unpersisted ==
    ASSUME DemoTypeOK, Placed, at \in {"step", "wait_start"}, todo # <<>>, ~Persisting,
           todo' = Tail(todo)
    PROVE  ~Persisting'
<1>1. PICK p \in {RestoreProgram, Program("restart"), Program(test)} : Left(p) /\ (p = Program(test) => p = Program("restart") \/ test # "restart")
  <2>1. CASE Left(PersistProgram)
    <3>1. Len(todo) \in 1..3 /\ todo = Rest(PersistProgram, Len(todo))
      BY <2>1, ProgramsAre, LeftIs DEF Left
    <3>2. PersistProgram \in Seq(DemoSteps) /\ Len(PersistProgram) = 3
      BY ProgramsAre
    <3>3. Head(todo) = PersistProgram[3 - Len(todo) + 1]
      <4>1. Len(todo) \in 1..Len(PersistProgram) /\ todo = Rest(PersistProgram, Len(todo))
        BY <3>1, <3>2
      <4>2. Head(todo) = PersistProgram[Len(PersistProgram) - Len(todo) + 1]
        BY <3>2, <4>1, RestIs
      <4> QED
        BY <3>2, <4>2
    <3> DEFINE n == Len(todo)
    <3>4. n \in 1..3 /\ Head(todo) = PersistProgram[3 - n + 1]
      BY <3>1, <3>3
    <3> HIDE DEF n
    <3>5. n = 1 \/ n = 2 \/ n = 3
      BY <3>4
    <3>6. Head(todo)[1] \in {"script", "check"}
      BY <3>4, <3>5, StepsAre
    <3> QED
      BY <3>6 DEF Persisting
  <2>2. CASE Left(IF restoring THEN RestoreProgram ELSE Program(test))
    BY <2>2
  <2> QED
    BY <2>1, <2>2 DEF Placed
<1>2. p \in Seq(DemoSteps)
  BY <1>1, ProgramsAre DEF DemoTypeOK
<1>3. ASSUME NEW i \in 1..Len(p) PROVE p[i][1] \notin {"script", "check"}
  <2>1. CASE p = Program("restart")
    <3>1. i \in 1..9
      BY <2>1, ProgramsAre
    <3>2. i = 1 \/ i = 2 \/ i = 3 \/ i = 4 \/ i = 5 \/ i = 6 \/ i = 7 \/ i = 8 \/ i = 9
      BY <3>1
    <3> QED
      BY <2>1, <3>2, StepsAre
  <2>2. CASE p = RestoreProgram
    <3>1. i = 1 \/ i = 2
      BY <2>2, ProgramsAre
    <3> QED
      BY <2>2, <3>1, StepsAre
  <2>3. CASE p = Program(test) /\ test # "restart"
    <3>0. Len(p) = 2
      BY <2>3, ProgramsAre
    <3>1. i = 1 \/ i = 2
      BY <3>0
    <3> QED
      BY <2>3, <3>1, StepsAre
  <2> QED
    BY <1>1, <2>1, <2>2, <2>3
<1>4. SUFFICES ASSUME todo' # <<>> PROVE Head(todo')[1] \notin {"script", "check"}
  BY DEF Persisting
<1>5. Len(todo) \in 1..Len(p) /\ todo = Rest(p, Len(todo))
  BY <1>1, LeftIs DEF Left
<1>6. todo' = Rest(p, Len(todo) - 1) /\ Len(todo') = Len(todo) - 1 /\ todo' \in Seq(DemoSteps)
  BY <1>2, <1>5, RestIs, LeftIs
<1>7. Len(todo) - 1 \in 1..Len(p)
  BY <1>4, <1>5, <1>6
<1>8. Head(todo') = p[Len(p) - (Len(todo) - 1) + 1] /\ Len(p) - (Len(todo) - 1) + 1 \in 1..Len(p)
  <2> DEFINE n == Len(todo) - 1
             k == Len(p)
  <2>1. n \in 1..Len(p)
    BY <1>7
  <2>2. Head(Rest(p, n)) = p[Len(p) - n + 1]
    <3> HIDE DEF n
    <3> QED
      BY <1>2, <2>1, RestIs
  <2>3. k - n + 1 \in 1..k
    <3>1. k \in Nat /\ n \in 1..k
      BY <1>2, <2>1
    <3> HIDE DEF n, k
    <3> QED
      BY <3>1
  <2> QED
    BY <1>6, <2>2, <2>3
<1> QED
  BY <1>3, <1>8

\* After the launch with the login comes the one without, and then the check.
LEMMA PersistAfter ==
    ASSUME DemoTypeOK, Placed, at = "wait_script", todo' = Tail(todo)
    PROVE  /\ restoring /\ Persisting /\ todo' # <<>>
           /\ \/ Head(todo) = <<"script", "hedging">> /\ Head(todo') = <<"script", "none">>
              \/ Head(todo) = <<"script", "none">> /\ Head(todo') = <<"check">>
<1>1. restoring /\ Left(PersistProgram) /\ todo # <<>> /\ Head(todo)[1] = "script"
  BY DEF Placed
<1>2. PersistProgram \in Seq(DemoSteps) /\ Len(PersistProgram) = 3
  BY ProgramsAre
<1>3. Len(todo) \in 1..3 /\ todo = Rest(PersistProgram, Len(todo))
  BY <1>1, <1>2, LeftIs DEF Left
<1>4. /\ Head(Rest(PersistProgram, 1)) = PersistProgram[3] /\ Head(Rest(PersistProgram, 2)) = PersistProgram[2]
      /\ Head(Rest(PersistProgram, 3)) = PersistProgram[1]
      /\ Tail(Rest(PersistProgram, 3)) = Rest(PersistProgram, 2) /\ Tail(Rest(PersistProgram, 2)) = Rest(PersistProgram, 1)
      /\ Rest(PersistProgram, 1) # <<>> /\ Rest(PersistProgram, 2) # <<>>
  <2>1. \A n \in 1..3 : /\ Rest(PersistProgram, n) # <<>>
                        /\ Head(Rest(PersistProgram, n)) = PersistProgram[3 - n + 1]
                        /\ Tail(Rest(PersistProgram, n)) = Rest(PersistProgram, n - 1)
    <3>1. ASSUME NEW n \in 1..3
          PROVE  /\ Rest(PersistProgram, n) # <<>>
                 /\ Head(Rest(PersistProgram, n)) = PersistProgram[3 - n + 1]
                 /\ Tail(Rest(PersistProgram, n)) = Rest(PersistProgram, n - 1)
      <4>1. n \in 1..Len(PersistProgram)
        BY <1>2
      <4>2. /\ Rest(PersistProgram, n) # <<>>
            /\ Head(Rest(PersistProgram, n)) = PersistProgram[Len(PersistProgram) - n + 1]
            /\ Tail(Rest(PersistProgram, n)) = Rest(PersistProgram, n - 1)
        BY <1>2, <4>1, RestIs
      <4> QED
        BY <1>2, <4>2
    <3> QED
      BY <3>1
  <2>2. 3 - 1 + 1 = 3 /\ 3 - 2 + 1 = 2 /\ 3 - 3 + 1 = 1 /\ 3 - 1 = 2 /\ 2 - 1 = 1
    OBVIOUS
  <2> HIDE DEF Rest
  <2> QED
    BY <2>1, <2>2
<1>5. CASE todo = Rest(PersistProgram, 3)
  BY <1>1, <1>4, <1>5, StepsAre DEF Persisting
<1>6. CASE todo = Rest(PersistProgram, 2)
  BY <1>1, <1>4, <1>6, StepsAre DEF Persisting
<1>7. CASE todo = Rest(PersistProgram, 1)
  BY <1>1, <1>4, <1>7, StepsAre
<1>8. Len(todo) = 1 \/ Len(todo) = 2 \/ Len(todo) = 3
  BY <1>3
<1> QED
  BY <1>3, <1>5, <1>6, <1>7, <1>8

\* What the follower and the EA leave alone is as unread, and as read, as before.
LEMMA LogKept ==
    ASSUME UNCHANGED <<seen, lines, eaLog>>
    PROVE  /\ ClosedUnread' <=> ClosedUnread
           /\ \A k : ReadSince(k)' <=> ReadSince(k)
BY DEF ClosedUnread, Fresh, ReadSince

LEMMA NothingSince == ASSUME DemoTypeOK PROVE ~ReadSince(Len(lines))
<1>1. Len(lines) \in Nat
  BY DEF DemoTypeOK
<1>2. (Len(lines) + 1)..Len(lines) = {}
  BY <1>1
<1> QED
  BY <1>2 DEF ReadSince

LEMMA DemoStart == DemoInit => DemoInv
<1> SUFFICES ASSUME DemoInit PROVE DemoInv
  OBVIOUS
<1>1. test \in {"restart", "netting", "hedging"}
  BY DemoAssumption DEF DemoInit
<1>2. DemoTypeOK
  <2>1. todo \in Seq(DemoSteps)
    BY <1>1, ProgramsAre DEF DemoInit
  <2>2. <<>> \in Seq({"test", "restore"}) /\ <<>> \in Seq(LogLines) /\ 0 \in Nat
    OBVIOUS
  <2>3. kept \in Logins
    BY DEF DemoInit, Logins
  <2>4. at \in {"step", "wait_start", "wait_script", "final", "kill_failed", "kill", "done", "raised"}
    BY DEF DemoInit
  <2> QED
    BY <1>1, <2>1, <2>2, <2>3, <2>4, OffIs DEF DemoInit, DemoTypeOK
<1>3. Left(Program(test))
  <2>1. Program(test) \in Seq(DemoSteps) /\ todo = Program(test)
    BY <1>1, ProgramsAre DEF DemoInit
  <2>2. Rest(todo, Len(todo)) = todo
    BY <2>1 DEF Rest
  <2> QED
    BY <2>1, <2>2 DEF Left
<1>4. Placed
  BY <1>3 DEF DemoInit, Placed
<1>5. todo # <<>> /\ ~Persisting
  <2>1. todo # <<>>
    <3>1. Len(Program(test)) \in {2, 9}
      BY <1>1, ProgramsAre
    <3>2. Len(<<>>) = 0
      OBVIOUS
    <3>3. todo = Program(test)
      BY DEF DemoInit
    <3> QED
      BY <3>1, <3>2, <3>3
  <2> QED
    BY <1>2, <1>4, <2>1, HeadIs DEF DemoInit
<1>6. LoginProved
  BY <1>5 DEF LoginProved, DemoInit
<1>7. Fresh = <<>> /\ ~ClosedUnread /\ ~ClosedSeen
  <2>1. Fresh = <<>>
    BY <1>2, FreshIs DEF DemoInit
  <2>2. 1..0 = {} /\ (0 + 1)..0 = {} /\ Len(<<>>) = 0
    OBVIOUS
  <2>3. ~ClosedUnread
    BY <2>1, <2>2 DEF ClosedUnread
  <2>4. ~ReadSince(mark)
    BY <2>2 DEF ReadSince, DemoInit
  <2> QED
    BY <2>1, <2>3, <2>4 DEF ClosedSeen, DemoInit
<1>8. Positions
  <2>1. term.probe = "none" /\ term.ea = "none" /\ open \subseteq {"hedging"} /\ at = "step"
    BY OffIs DEF DemoInit
  <2>2. CASE test = "restart"
    <3>1. Len(todo) = 9
      BY <2>2, ProgramsAre DEF DemoInit
    <3>2. RestartPos
      BY <1>7, <2>1, <3>1 DEF RestartPos
    <3> QED
      BY <2>2, <3>2 DEF Positions, DemoInit, NoRecord
  <2>3. CASE test # "restart"
    <3>1. Len(todo) = 2
      BY <2>3, ProgramsAre DEF DemoInit
    <3>2. AccountPos
      BY <1>7, <2>1, <3>1 DEF AccountPos, Alive
    <3> QED
      BY <2>3, <3>2 DEF Positions, DemoInit, NoRecord
  <2> QED
    BY <2>2, <2>3
<1>9. CredentialsOffDisk
  BY DEF CredentialsOffDisk, DemoInit
<1> QED
  BY <1>2, <1>4, <1>6, <1>8, <1>9 DEF DemoInv

\* A poll, or none, finds no line that was not there.
LEMMA SeenBefore ==
    ASSUME DemoTypeOK, Poll \/ UNCHANGED <<seen, lines>>, UNCHANGED <<eaLog, restoring, mark, outer>>
    PROVE  /\ ClosedSeen' => ClosedSeen
           /\ Poll => ~ClosedUnread'
           /\ lines' \in Seq(LogLines) /\ seen' \in Seq(LogLines)
<1> DEFINE k == IF restoring THEN outer ELSE mark
<1>1. k \in Nat /\ k' = k
  BY DEF DemoTypeOK
<1>2. (ClosedSeen <=> ClosedUnread \/ ReadSince(k)) /\ (ClosedSeen' <=> ClosedUnread' \/ ReadSince(k)')
  BY DEF ClosedSeen
<1> HIDE DEF k
<1>3. CASE Poll
  BY <1>1, <1>2, <1>3, PollReads
<1>4. CASE UNCHANGED <<seen, lines>>
  BY <1>1, <1>2, <1>4, LogKept, PollReads DEF DemoTypeOK
<1> QED
  BY <1>3, <1>4

\* A step of the programs that launch and wait that went through.
LEMMA Steps ==
    ASSUME DemoInv, at \in {"step", "wait_start"}, todo # <<>>, ~Persisting, todo' = Tail(todo), at' = "step", ~ini',
           Poll \/ UNCHANGED <<seen, lines>>, term' = term \/ term' = Off,
           Head(todo)[1] = "start" => at = "wait_start",
           Head(todo)[1] = "kill" => term' = Off,
           Head(todo) = <<"wait", "closed">> => Poll /\ Shows("closed", IF restoring THEN outer ELSE mark),
           UNCHANGED <<test, restoring, failed, suspended, demoRecord, mark, outer, launched, kept, open, eaLog>>
    PROVE  DemoInv'
<1>1. DemoTypeOK /\ Placed /\ Positions
  BY DEF DemoInv
<1>2. Head(todo)[1] # "check"
  BY DEF Persisting
<1>3. Placed'
  BY <1>2, Advanced
<1>4. (ClosedSeen' => ClosedSeen) /\ (Poll => ~ClosedUnread') /\ lines' \in Seq(LogLines) /\ seen' \in Seq(LogLines)
  BY <1>1, SeenBefore
<1>5. Len(todo') = Len(todo) - 1 /\ todo' \in Seq(DemoSteps)
  BY <1>1, LeftIs
<1>6. term' \in Terminals
  BY <1>1, OffIs DEF DemoTypeOK
<1>7. DemoTypeOK'
  BY <1>1, <1>4, <1>5, <1>6 DEF DemoTypeOK
<1>8. ~Persisting'
  BY <1>1, Unpersisted
<1>9. LoginProved'
  BY <1>8 DEF LoginProved
<1>10. CredentialsOffDisk'
  BY DEF CredentialsOffDisk
<1>11. /\ term'.probe \in {term.probe, "none"} /\ term'.ea \in {term.ea, "none"}
       /\ term'.probe # "none" => term'.account = term.account
  BY OffIs
<1>12. Head(todo) = <<"wait", "closed">> => ClosedSeen /\ ~ClosedUnread'
  <2>1. (IF restoring THEN outer ELSE mark) \in Nat
    BY <1>1 DEF DemoTypeOK
  <2> QED
    BY <1>1, <1>4, <2>1, ShownIs DEF ClosedSeen
<1> DEFINE n == Len(todo)
<1>13. ASSUME ~failed, ~restoring, test = "restart" PROVE RestartPos'
  <2>1. RestartPos
    BY <1>1, <1>13 DEF Positions
  <2>2. /\ n \in 1..9
        /\ n = 3 => Head(todo) = <<"kill">>
        /\ n = 1 => Head(todo) = <<"wait", "closed">>
    BY <1>1, <1>13, HeadIs
  <2>3. n = 3 => term'.probe = "none"
    BY <2>2, OffIs
  <2>4. n \in 1..9 /\ Len(todo') = n - 1
    BY <1>5, <2>2
  <2> HIDE DEF n
  <2>5. /\ n > 3 => n > 2 /\ n - 1 > 2
        /\ n = 3 => n > 2
        /\ n < 3 => n <= 2
        /\ n - 1 > 2 => n > 3
        /\ n - 1 <= 2 => n = 3 \/ n < 3
        /\ n - 1 = 0 => n = 1
    BY <2>4
  <2>6. /\ n > 2 => term.probe \in {"restart", "none"} /\ ~ClosedSeen
        /\ n <= 2 => term.probe \in {"cleanup", "none"} /\ (ClosedSeen => open = {})
        /\ open \subseteq {"hedging"} /\ (term.probe # "none" => term.account = "hedging")
    BY <2>1 DEF RestartPos, n
  <2>7. n = 1 => open = {}
    BY <1>12, <2>2, <2>6 DEF n
  <2>8. open' \subseteq {"hedging"} /\ (term'.probe # "none" => term'.account = "hedging")
    BY <1>11, <2>6
  <2>9. n - 1 > 2 => term'.probe \in {"restart", "none"} /\ ~ClosedSeen'
    BY <1>4, <1>11, <2>5, <2>6
  <2>10. n - 1 <= 2 => term'.probe \in {"cleanup", "none"} /\ (ClosedSeen' => open' = {})
    BY <1>4, <1>11, <2>3, <2>5, <2>6
  <2>11. n - 1 = 0 => open' = {}
    BY <2>5, <2>7
  <2> QED
    BY <2>4, <2>8, <2>9, <2>10, <2>11 DEF RestartPos
<1>14. ASSUME ~failed, ~restoring, test # "restart" PROVE AccountPos'
  <2>1. AccountPos
    BY <1>1, <1>14 DEF Positions
  <2>2. /\ n \in 1..2
        /\ n = 2 => Head(todo) = <<"start", test, "account">>
        /\ n = 1 => Head(todo) = <<"wait", "closed">>
    BY <1>1, <1>14, HeadIs
  <2>3. n = 2 => at = "wait_start"
    BY <2>2
  <2>4. n \in 1..2 /\ Len(todo') = n - 1
    BY <1>5, <2>2
  <2>5. /\ open \subseteq {"hedging", test} /\ term.probe \in {"account", "none"}
        /\ term.probe # "none" => term.account = test
        /\ ClosedSeen => test \notin open /\ term.ea \notin Alive
    BY <2>1, <2>2, <2>3 DEF AccountPos
  <2> HIDE DEF n
  <2>6. (n = 2 \/ n = 1) /\ (n = 2 => n - 1 = 1) /\ (n = 1 => n - 1 = 0)
    BY <2>4
  <2>7. term'.ea \in Alive => term.ea \in Alive
    BY <1>11 DEF Alive
  <2>8. n = 1 => ~ClosedUnread' /\ test \notin open /\ term.ea \notin Alive
    BY <1>12, <2>2, <2>5
  <2>9. CASE n = 2
    <3>1. Len(todo') = 1
      BY <2>4, <2>6, <2>9
    <3>2. ClosedSeen' => test' \notin open' /\ term'.ea \notin Alive
      BY <1>4, <2>5, <2>7
    <3>3. /\ open' \subseteq {"hedging", test'} /\ term'.probe \in {"account", "none"}
          /\ term'.probe # "none" => term'.account = test'
      BY <1>11, <2>5
    <3>4. Alive' = Alive
      BY DEF Alive
    <3> QED
      BY <3>1, <3>2, <3>3, <3>4 DEF AccountPos
  <2>10. CASE n = 1
    BY <1>11, <2>4, <2>5, <2>6, <2>7, <2>8, <2>10 DEF AccountPos
  <2> QED
    BY <2>6, <2>9, <2>10
<1>15. ASSUME ~failed, restoring PROVE RestorePos'
  <2>1. RestorePos
    BY <1>1, <1>15 DEF Positions
  <2>2. n \in 1..2 /\ (n = 1 => Head(todo) = <<"wait", "closed">>)
    <3>1. \/ Len(todo) = 2 /\ Head(todo) = <<"start", "hedging", "cleanup">>
          \/ Len(todo) = 1 /\ Head(todo) = <<"wait", "closed">>
          \/ Head(todo) = <<"script", "hedging">> \/ Head(todo) = <<"script", "none">> \/ Head(todo) = <<"check">>
      BY <1>1, <1>15, HeadIs
    <3>2. Head(todo)[1] # "script" /\ Head(todo)[1] # "check"
      BY DEF Persisting
    <3>3. Len(todo) = 2 \/ (Len(todo) = 1 /\ Head(todo) = <<"wait", "closed">>)
      BY <3>1, <3>2
    <3> HIDE DEF n
    <3>4. n = 2 \/ (n = 1 /\ Head(todo) = <<"wait", "closed">>)
      BY <3>3 DEF n
    <3> QED
      BY <3>4
  <2>3. Entering /\ Len(todo) > 0
    BY <2>2 DEF Entering
  <2>4. ClosedSeen => open = {}
    BY <2>1, <2>3 DEF RestorePos
  <2>5. n = 2 \/ (n = 1 /\ open = {})
    BY <1>12, <2>2, <2>4
  <2>6. IF Entering' /\ Len(todo') > 0 /\ ~Persisting' THEN ClosedSeen' => open' = {} ELSE open' = {}
    <3>1. CASE n = 2
      <4>1. Len(todo') = 1
        BY <1>5, <3>1
      <4>2. Entering' /\ Len(todo') > 0
        <5> DEFINE m == Len(todo')
        <5>1. m = 1
          BY <4>1
        <5> HIDE DEF m
        <5>2. m > 0
          BY <5>1
        <5> QED
          BY <5>2 DEF m, Entering
      <4> QED
        BY <1>4, <1>8, <2>4, <4>2
    <3>2. CASE n = 1 /\ open = {}
      BY <3>2
    <3> QED
      BY <2>5, <3>1, <3>2
  <2> QED
    BY <1>11, <2>1, <2>6 DEF RestorePos
<1>16. demoRecord' = NoRecord
  BY <1>1 DEF Placed
<1>17. Positions'
  BY <1>13, <1>14, <1>15, <1>16 DEF Positions, NoRecord
<1> QED
  BY <1>3, <1>7, <1>9, <1>10, <1>17 DEF DemoInv

LEMMA SeesStart == DemoInv /\ SeeStart => DemoInv'
<1> SUFFICES ASSUME DemoInv, SeeStart PROVE DemoInv'
  OBVIOUS
<1>1. /\ at = "wait_start" /\ Poll /\ at' = "step" /\ todo' = Tail(todo) /\ ~ini' /\ term' = term
      /\ UNCHANGED <<test, restoring, failed, suspended, demoRecord, mark, outer, launched, kept, open, eaLog>>
  BY DEF SeeStart, Goto, inputVars, markVars, worldVars
<1>2. todo # <<>> /\ Head(todo)[1] = "start" /\ ~Persisting
  BY <1>1 DEF DemoInv, Placed, Persisting
<1> QED
  BY <1>1, <1>2, Steps

LEMMA SeesLine == DemoInv /\ SeeLine => DemoInv'
<1> SUFFICES ASSUME DemoInv, SeeLine PROVE DemoInv'
  OBVIOUS
<1>1. /\ at = "step" /\ todo # <<>> /\ Head(todo)[1] = "wait" /\ Poll /\ at' = "step" /\ todo' = Tail(todo) /\ term' = term
      /\ Shows(Head(todo)[2], IF restoring THEN outer ELSE mark) /\ ini' = ini
      /\ UNCHANGED <<test, restoring, failed, suspended, demoRecord, mark, outer, launched, kept, open, eaLog>>
  BY DEF SeeLine, Do, Goto, inputVars, markVars, stateVars, worldVars
<1>2. ~Persisting /\ ~ini'
  BY <1>1 DEF DemoInv, CredentialsOffDisk, Persisting
<1>3. Head(todo) = <<"wait", "closed">> => Shows("closed", IF restoring THEN outer ELSE mark)
  BY <1>1
<1> QED
  BY <1>1, <1>2, <1>3, Steps

LEMMA Observes == DemoInv /\ ObserveEnds => DemoInv'
<1> SUFFICES ASSUME DemoInv, ObserveEnds PROVE DemoInv'
  OBVIOUS
<1>1. /\ at = "step" /\ todo # <<>> /\ Head(todo)[1] = "observe" /\ Poll /\ at' = "step" /\ todo' = Tail(todo)
      /\ term' = term /\ ini' = ini
      /\ UNCHANGED <<test, restoring, failed, suspended, demoRecord, mark, outer, launched, kept, open, eaLog>>
  BY DEF ObserveEnds, Do, Goto, inputVars, markVars, stateVars, worldVars
<1>2. ~Persisting /\ ~ini'
  BY <1>1 DEF DemoInv, CredentialsOffDisk, Persisting
<1>3. Head(todo) # <<"wait", "closed">>
  BY <1>1
<1> QED
  BY <1>1, <1>2, <1>3, Steps

LEMMA Kills == DemoInv /\ Kill => DemoInv'
<1> SUFFICES ASSUME DemoInv, Kill PROVE DemoInv'
  OBVIOUS
<1>1. /\ at = "step" /\ todo # <<>> /\ Head(todo)[1] = "kill" /\ at' = "step" /\ todo' = Tail(todo)
      /\ term' = Off /\ ini' = ini /\ UNCHANGED <<seen, lines>>
      /\ UNCHANGED <<test, restoring, failed, suspended, demoRecord, mark, outer, launched, kept, open, eaLog>>
  BY DEF Kill, Do, Goto, inputVars, logVars, markVars, stateVars, worldVars
<1>2. ~Persisting /\ ~ini'
  BY <1>1 DEF DemoInv, CredentialsOffDisk, Persisting
<1>3. Head(todo) # <<"wait", "closed">>
  BY <1>1
<1> QED
  BY <1>1, <1>2, <1>3, Steps

\* Nothing moves in the programs: a poll, or a login to try again.
LEMMA StaysPut ==
    ASSUME DemoInv, at \in {"step", "wait_start"}, ~Persisting, todo' = todo, Poll,
           \/ at' = at /\ ini' = ini /\ term' = term
           \/ at' = "step" /\ ~ini' /\ term' = Off,
           UNCHANGED <<test, restoring, failed, suspended, demoRecord, mark, outer, launched, kept, open, eaLog>>
    PROVE  DemoInv'
<1>1. DemoTypeOK /\ Placed /\ Positions /\ CredentialsOffDisk
  BY DEF DemoInv
<1>2. (ClosedSeen' => ClosedSeen) /\ ~ClosedUnread' /\ lines' \in Seq(LogLines) /\ seen' \in Seq(LogLines)
  BY <1>1, SeenBefore
<1>3. term' \in Terminals /\ at' \in {at, "step"}
  BY <1>1, OffIs DEF DemoTypeOK
<1>4. DemoTypeOK'
  BY <1>1, <1>2, <1>3 DEF DemoTypeOK
<1>5. \A prog \in {RestoreProgram, PersistProgram, Program(test)} : Left(prog) => Left(prog)'
  BY DEF Left, Rest
<1>6. Placed'
  <2>1. Left(PersistProgram) => Left(PersistProgram)'
    BY <1>5
  <2>2. Left(IF restoring THEN RestoreProgram ELSE Program(test))
            => Left(IF restoring THEN RestoreProgram ELSE Program(test))'
    BY DEF Left, Rest
  <2> QED
    BY <1>1, <1>3, <2>1, <2>2 DEF Placed
<1>7. ~Persisting'
  BY DEF Persisting
<1>8. LoginProved'
  BY <1>3, <1>7 DEF LoginProved
<1>9. CredentialsOffDisk'
  BY <1>1 DEF CredentialsOffDisk
<1>10. /\ term'.probe \in {term.probe, "none"} /\ term'.ea \in {term.ea, "none"}
       /\ term'.probe # "none" => term'.account = term.account
  BY OffIs
<1>11. ASSUME RestartPos PROVE RestartPos'
  BY <1>2, <1>10, <1>11 DEF RestartPos
<1>12. ASSUME AccountPos PROVE AccountPos'
  <2>1. term'.ea \in Alive => term.ea \in Alive
    BY <1>10 DEF Alive
  <2>2. Alive' = Alive
    BY DEF Alive
  <2>3. Len(todo) = 2 /\ at' = "step" => term'.ea \notin Alive
    BY <1>12, <2>1, OffIs DEF AccountPos, Alive
  <2>4. (Len(todo) = 2 /\ at' = "wait_start") \/ Len(todo) = 1 => (ClosedSeen => test \notin open /\ term.ea \notin Alive)
    BY <1>3, <1>12 DEF AccountPos
  <2> QED
    BY <1>2, <1>10, <1>12, <2>1, <2>2, <2>3, <2>4 DEF AccountPos
<1>13. ASSUME RestorePos PROVE RestorePos'
  <2>1. Entering /\ Entering'
    BY <1>3 DEF Entering
  <2> QED
    BY <1>2, <1>7, <1>10, <1>13, <2>1 DEF RestorePos
<1>14. demoRecord' = NoRecord /\ at # "raised"
  BY <1>1 DEF Placed
<1>15. Positions'
  BY <1>1, <1>11, <1>12, <1>13, <1>14 DEF Positions, NoRecord
<1> QED
  BY <1>4, <1>6, <1>8, <1>9, <1>15 DEF DemoInv

LEMMA SeesRefusal == DemoInv /\ SeeRefusal => DemoInv'
<1> SUFFICES ASSUME DemoInv, SeeRefusal, launchNo # 2 PROVE DemoInv'
  BY FailuresKeep
<1>1. /\ at = "wait_start" /\ Poll /\ at' = "step" /\ todo' = todo /\ ~ini' /\ term' = Off
      /\ UNCHANGED <<test, restoring, failed, suspended, demoRecord, mark, outer, launched, kept, open, eaLog>>
  BY DEF SeeRefusal, Goto, inputVars, markVars, worldVars
<1>2. ~Persisting
  BY <1>1 DEF DemoInv, Placed, Persisting
<1> QED
  BY <1>1, <1>2, StaysPut

LEMMA PollsOnly == DemoInv /\ PollOnly => DemoInv'
<1> SUFFICES ASSUME DemoInv, PollOnly PROVE DemoInv'
  OBVIOUS
<1>1. /\ Polling /\ Poll /\ at' = at /\ todo' = todo /\ ini' = ini /\ term' = term
      /\ UNCHANGED <<test, restoring, failed, suspended, demoRecord, mark, outer, launched, kept, open, eaLog>>
  BY DEF PollOnly, inputVars, placeVars, markVars, stateVars, worldVars
<1>2. at \in {"step", "wait_start"} /\ ~Persisting
  BY <1>1 DEF Polling, Waiting, Do, DemoInv, Placed, Persisting
<1> QED
  BY <1>1, <1>2, StaysPut

LEMMA Launches == DemoInv /\ Launch => DemoInv'
<1> SUFFICES ASSUME DemoInv, Launch PROVE DemoInv'
  OBVIOUS
<1>1. DemoTypeOK /\ Placed /\ Positions /\ CredentialsOffDisk
  BY DEF DemoInv
<1>2. /\ at = "step" /\ todo # <<>> /\ Head(todo)[1] = "start"
      /\ UNCHANGED <<test, accounts, restoring, seen, lines, outer, suspended, demoRecord, kept, open, eaLog>>
  BY DEF Launch, Do, inputVars, logVars
<1>3. demoRecord = NoRecord /\ ~ini /\ ~Persisting /\ (failed => restoring)
  BY <1>1, <1>2 DEF Placed, CredentialsOffDisk, Persisting
<1>4. CASE HasAccount(Head(todo)[2])
  <2>1. /\ at' = "wait_start" /\ UNCHANGED <<todo, failed>> /\ ini' = TRUE /\ mark' = Len(lines)
        /\ launched' = Append(launched, IF restoring THEN "restore" ELSE "test")
        /\ term' = [up |-> TRUE, account |-> Head(todo)[2], probe |-> Head(todo)[3], ea |-> "loading"]
    BY <1>4 DEF Launch
  <2>2. \/ Head(todo) = <<"start", "hedging", "restart">>
        \/ Head(todo) = <<"start", "hedging", "cleanup">>
        \/ Head(todo) = <<"start", "hedging", "account">>
        \/ Head(todo) = <<"start", "netting", "account">>
    <3>1. Head(todo) \in DemoSteps
      BY <1>1, <1>2 DEF DemoTypeOK
    <3> QED
      BY <1>2, <3>1 DEF DemoSteps
  <2>3. Head(todo)[2] \in Logins /\ Head(todo)[3] \in ProbeKinds /\ "loading" \in EaStates /\ TRUE \in BOOLEAN
    BY <2>2 DEF Logins, ProbeKinds, EaStates
  <2>4. term' \in Terminals
    BY <2>1, <2>3 DEF Terminals
  <2>5. launched' \in Seq({"test", "restore"})
    <3>1. (IF restoring THEN "restore" ELSE "test") \in {"test", "restore"}
      OBVIOUS
    <3> QED
      BY <1>1, <2>1, <3>1 DEF DemoTypeOK
  <2>6. DemoTypeOK'
    BY <1>1, <1>2, <2>1, <2>4, <2>5 DEF DemoTypeOK
  <2>7. Left(IF restoring THEN RestoreProgram ELSE Program(test))
    <3>1. Left(PersistProgram) => Persisting
      <4> SUFFICES ASSUME Left(PersistProgram) PROVE Persisting
        OBVIOUS
      <4>1. PersistProgram \in Seq(DemoSteps) /\ Len(PersistProgram) = 3
        BY ProgramsAre
      <4>2. Len(todo) \in 1..Len(PersistProgram) /\ todo = Rest(PersistProgram, Len(todo))
        BY <1>1, <1>2, <4>1, LeftIs DEF Left
      <4> DEFINE n == Len(todo)
      <4>3. n \in 1..3 /\ Head(todo) = PersistProgram[3 - n + 1]
        <5>1. Head(todo) = PersistProgram[Len(PersistProgram) - Len(todo) + 1]
          BY <4>1, <4>2, RestIs
        <5> QED
          BY <4>1, <4>2, <5>1
      <4> HIDE DEF n
      <4>4. n = 1 \/ n = 2 \/ n = 3
        BY <4>3
      <4>5. Head(todo)[1] \in {"script", "check"}
        BY <4>3, <4>4, StepsAre
      <4> QED
        BY <1>2, <4>5
    <3> QED
      BY <1>1, <1>2, <1>3, <3>1 DEF Placed
  <2>8. Placed'
    <3>1. Left(IF restoring THEN RestoreProgram ELSE Program(test))'
      BY <1>2, <2>1, <2>7 DEF Left, Rest
    <3> QED
      BY <1>1, <1>2, <1>3, <2>1, <3>1 DEF Placed
  <2>9. LoginProved'
    BY <1>3, <2>1 DEF LoginProved, Persisting
  <2>10. CredentialsOffDisk'
    BY <2>1 DEF CredentialsOffDisk
  <2>11. (ClosedUnread' <=> ClosedUnread) /\ ~ReadSince(Len(lines)) /\ \A k : ReadSince(k)' <=> ReadSince(k)
    BY <1>1, <1>2, LogKept, NothingSince
  <2>12. ~restoring => (ClosedSeen' => ClosedUnread) /\ (ClosedUnread => ClosedSeen)
    <3>1. ASSUME ~restoring, ClosedSeen' PROVE ClosedUnread
      <4>1. ClosedUnread' \/ ReadSince(mark)'
        BY <1>2, <3>1 DEF ClosedSeen
      <4>2. ReadSince(mark)' => ReadSince(Len(lines))
        BY <1>2, <2>1 DEF ReadSince
      <4> QED
        BY <2>11, <4>1, <4>2
    <3> QED
      BY <3>1 DEF ClosedSeen
  <2>13. restoring => (ClosedSeen' => ClosedSeen)
    <3>1. ASSUME restoring, ClosedSeen' PROVE ClosedSeen
      <4>1. ClosedUnread' \/ ReadSince(outer)'
        BY <1>2, <3>1 DEF ClosedSeen
      <4>2. ReadSince(outer)' => ReadSince(outer)
        BY <1>2 DEF ReadSince
      <4> QED
        BY <2>11, <3>1, <4>1, <4>2 DEF ClosedSeen
    <3> QED
      BY <3>1
  <2>14. term'.probe = Head(todo)[3] /\ term'.account = Head(todo)[2]
    BY <2>1
  <2> DEFINE n == Len(todo)
  <2>15. ASSUME ~failed, ~restoring, test = "restart" PROVE RestartPos'
    <3>1. RestartPos
      BY <1>1, <1>2, <2>15 DEF Positions
    <3>2. /\ n \in 1..9
          /\ n \in {9, 5} => Head(todo) = <<"start", "hedging", "restart">>
          /\ n = 2 => Head(todo) = <<"start", "hedging", "cleanup">>
          /\ n \in {9, 5, 2}
      <4>1. /\ n \in 1..9
            /\ n \in {9, 5} => Head(todo) = <<"start", "hedging", "restart">>
            /\ n = 8 => Head(todo) = <<"wait", "opened">>
            /\ n \in {7, 4} => Head(todo) = <<"observe">>
            /\ n \in {6, 3} => Head(todo) = <<"kill">>
            /\ n = 2 => Head(todo) = <<"start", "hedging", "cleanup">>
            /\ n = 1 => Head(todo) = <<"wait", "closed">>
        BY <1>1, <1>2, <2>15, HeadIs
      <4> HIDE DEF n
      <4>2. n = 1 \/ n = 2 \/ n = 3 \/ n = 4 \/ n = 5 \/ n = 6 \/ n = 7 \/ n = 8 \/ n = 9
        BY <4>1
      <4> QED
        BY <1>2, <4>1, <4>2
    <3>3. /\ n > 2 => ~ClosedSeen
          /\ n <= 2 => (ClosedSeen => open = {})
          /\ open \subseteq {"hedging"}
      BY <3>1 DEF RestartPos
    <3> HIDE DEF n
    <3>4. (n = 2 /\ n <= 2) \/ (n \in {9, 5} /\ n > 2 /\ ~(n <= 2) /\ n # 0)
      BY <3>2
    <3>5. Len(todo') = n
      BY <2>1 DEF n
    <3>6. term'.account = "hedging"
      BY <2>14, <3>2, <3>4
    <3>7. CASE n = 2 /\ n <= 2
      <4>1. term'.probe = "cleanup" /\ (ClosedSeen' => open' = {})
        BY <1>2, <2>12, <2>14, <2>15, <3>2, <3>3, <3>7
      <4> QED
        BY <1>2, <3>3, <3>5, <3>6, <3>7, <4>1 DEF RestartPos
    <3>8. CASE n \in {9, 5} /\ n > 2 /\ ~(n <= 2) /\ n # 0
      <4>1. term'.probe = "restart" /\ ~ClosedSeen'
        BY <2>12, <2>14, <2>15, <3>2, <3>3, <3>8
      <4> QED
        BY <1>2, <3>3, <3>5, <3>6, <3>8, <4>1 DEF RestartPos
    <3> QED
      BY <3>4, <3>7, <3>8
  <2>16. ASSUME ~failed, ~restoring, test # "restart" PROVE AccountPos'
    <3>1. AccountPos
      BY <1>1, <1>2, <2>16 DEF Positions
    <3>2. n = 2 /\ Head(todo) = <<"start", test, "account">>
      <4>1. /\ n \in 1..2
            /\ n = 2 => Head(todo) = <<"start", test, "account">>
            /\ n = 1 => Head(todo) = <<"wait", "closed">>
        BY <1>1, <1>2, <2>16, HeadIs
      <4> HIDE DEF n
      <4>2. n = 1 \/ n = 2
        BY <4>1
      <4> QED
        BY <1>2, <4>1, <4>2
    <3>3. ~ClosedUnread /\ open \subseteq {"hedging", test}
      BY <1>2, <3>1, <3>2 DEF AccountPos
    <3>4. term'.probe = "account" /\ term'.account = test
      BY <2>14, <3>2
    <3>5. ~ClosedSeen' /\ Len(todo') = 2 /\ at' # "step"
      BY <2>1, <2>12, <2>16, <3>2, <3>3
    <3> QED
      BY <1>2, <3>3, <3>4, <3>5 DEF AccountPos
  <2>17. ASSUME ~failed, restoring PROVE RestorePos'
    <3>1. RestorePos
      BY <1>1, <1>2, <2>17 DEF Positions
    <3>2. Head(todo) = <<"start", "hedging", "cleanup">>
      <4>1. \/ Head(todo) = <<"start", "hedging", "cleanup">> \/ Head(todo) = <<"wait", "closed">>
            \/ Head(todo) = <<"script", "hedging">> \/ Head(todo) = <<"script", "none">> \/ Head(todo) = <<"check">>
        BY <1>1, <1>2, <2>17, HeadIs
      <4> QED
        BY <1>2, <4>1
    <3>3. Entering /\ Entering' /\ ~Persisting'
      BY <1>2, <1>3, <2>1 DEF Entering, Persisting
    <3>4. term'.probe = "cleanup" /\ term'.account = "hedging"
      BY <2>14, <3>2
    <3> QED
      BY <1>2, <1>3, <2>1, <2>13, <2>17, <3>1, <3>3, <3>4 DEF RestorePos
  <2>18. Positions'
    BY <1>2, <1>3, <2>1, <2>15, <2>16, <2>17 DEF Positions, NoRecord
  <2> QED
    BY <2>6, <2>8, <2>9, <2>10, <2>18 DEF DemoInv
<1>5. CASE ~HasAccount(Head(todo)[2]) /\ accounts # {"malformed"}
  <2>1. Fails /\ UNCHANGED <<mark, launched, term>>
    BY <1>5 DEF Launch
  <2>2. lines' \in Seq(LogLines) /\ seen' \in Seq(LogLines)
    BY <1>1, <1>2 DEF DemoTypeOK
  <2> QED
    BY <1>2, <2>1, <2>2, Failing
<1>6. CASE ~HasAccount(Head(todo)[2]) /\ accounts = {"malformed"}
  <2>1. at' = "raised" /\ todo' = <<>> /\ UNCHANGED <<ini, failed, mark, launched, term>>
    BY <1>6 DEF Launch, Goto
  <2>2. DemoTypeOK'
    BY <1>1, <1>2, <2>1 DEF DemoTypeOK
  <2>3. Placed'
    BY <1>1, <1>2, <1>3, <2>1 DEF Placed
  <2>4. LoginProved'
    BY <2>1 DEF LoginProved, Persisting
  <2>5. Positions'
    BY <1>2, <1>3, <2>1 DEF Positions, NoRecord
  <2>6. CredentialsOffDisk'
    BY <1>3, <2>1 DEF CredentialsOffDisk
  <2> QED
    BY <2>2, <2>3, <2>4, <2>5, <2>6 DEF DemoInv
<1> QED
  BY <1>4, <1>5, <1>6

\* The last poll of a block: the program is through, or it has failed.
LEMMA PollsLast == DemoInv /\ FinalPoll => DemoInv'
<1> SUFFICES ASSUME DemoInv, FinalPoll PROVE DemoInv'
  OBVIOUS
<1>1. DemoTypeOK /\ Placed /\ Positions
  BY DEF DemoInv
<1>2. /\ Poll /\ ~ini' /\ at' = IF at = "final" THEN "kill_failed" ELSE "kill"
      /\ UNCHANGED <<test, todo, restoring, failed, suspended, demoRecord, mark, outer, launched, term, kept, open, eaLog>>
  BY DEF FinalPoll, inputVars, markVars, worldVars
<1>3. todo = <<>> /\ at \in {"final", "step"}
  BY <1>1 DEF FinalPoll, Placed
<1>4. (ClosedSeen' => ClosedSeen) /\ ~ClosedUnread' /\ lines' \in Seq(LogLines) /\ seen' \in Seq(LogLines)
  BY <1>1, <1>2, SeenBefore
<1>5. DemoTypeOK'
  BY <1>1, <1>2, <1>4 DEF DemoTypeOK
<1>6. Placed'
  BY <1>1, <1>2, <1>3 DEF Placed
<1>7. LoginProved'
  BY <1>2, <1>3 DEF LoginProved, Persisting
<1>8. CredentialsOffDisk'
  BY <1>2 DEF CredentialsOffDisk
<1>9. Len(todo) = 0 /\ ~(Len(todo) > 0) /\ ~(Len(todo) > 2) /\ Len(todo) <= 2
  BY <1>3
<1>10. ASSUME RestartPos PROVE RestartPos'
  BY <1>2, <1>4, <1>9, <1>10 DEF RestartPos
<1>11. ASSUME AccountPos PROVE AccountPos'
  BY <1>2, <1>4, <1>9, <1>11 DEF AccountPos, Alive
<1>12. ASSUME RestorePos PROVE RestorePos'
  BY <1>2, <1>9, <1>12 DEF RestorePos
<1>13. demoRecord' = NoRecord /\ at # "raised"
  BY <1>1, <1>2, <1>3 DEF Placed
<1>14. Positions'
  BY <1>1, <1>2, <1>10, <1>11, <1>12, <1>13 DEF Positions, NoRecord
<1> QED
  BY <1>5, <1>6, <1>7, <1>8, <1>14 DEF DemoInv

\* The record a run ends with.
LEMMA RecordIs ==
    ASSUME NEW good \in BOOLEAN, WriteRecord(good)
    PROVE  /\ at' = "done" /\ todo' = <<>> /\ (demoRecord'.restoreOk <=> good)
           /\ demoRecord'.status = "COMPLETED" => ~suspended /\ ~failed /\ good
<1> DEFINE status == IF suspended THEN "INTERRUPTED" ELSE IF failed \/ ~good THEN "FAILED" ELSE "COMPLETED"
<1>1. demoRecord' = [status |-> status, restoreOk |-> good] /\ at' = "done" /\ todo' = <<>>
  BY DEF WriteRecord, Goto
<1>2. status = "COMPLETED" => ~suspended /\ ~failed /\ good
  OBVIOUS
<1> HIDE DEF status
<1>3. demoRecord'.status = status /\ demoRecord'.restoreOk = good
  BY <1>1
<1> QED
  BY <1>1, <1>2, <1>3

LEMMA KillsLast == DemoInv /\ FinalKill => DemoInv'
<1> SUFFICES ASSUME DemoInv, FinalKill PROVE DemoInv'
  OBVIOUS
<1>1. DemoTypeOK /\ Placed /\ Positions /\ CredentialsOffDisk
  BY DEF DemoInv
<1>2. /\ at \in {"kill", "kill_failed"} /\ term' = Off
      /\ UNCHANGED <<test, seen, lines, mark, ini, suspended, failed, launched, kept, open, eaLog>>
  BY DEF FinalKill, inputVars, logVars, worldVars
<1>3. todo = <<>> /\ ~ini /\ demoRecord = NoRecord
  BY <1>1, <1>2 DEF Placed, CredentialsOffDisk
<1>4. Len(todo) = 0
  BY <1>3
<1>5. CredentialsOffDisk'
  BY <1>2, <1>3 DEF CredentialsOffDisk
<1>6. /\ term' \in Terminals /\ term'.probe = "none" /\ term'.ea = "none" /\ ~term'.up
  BY <1>2, OffIs
<1>7. CASE ~restoring
  <2>1. /\ restoring' = TRUE /\ outer' = Len(lines) /\ at' = "step" /\ todo' = RestoreProgram /\ demoRecord' = demoRecord
    BY <1>7 DEF FinalKill, Goto
  <2>2. RestoreProgram \in Seq(DemoSteps) /\ Len(RestoreProgram) = 2
    BY ProgramsAre
  <2>3. DemoTypeOK'
    <3>1. Len(lines) \in Nat
      BY <1>1 DEF DemoTypeOK
    <3> QED
      BY <1>1, <1>2, <1>6, <2>1, <2>2, <3>1 DEF DemoTypeOK
  <2>4. Left(RestoreProgram)'
    BY <1>1, <2>1, <2>2, LeftIs
  <2>5. Placed'
    BY <1>1, <1>2, <1>3, <2>1, <2>4 DEF Placed
  <2>6. todo' # <<>> /\ Head(todo') = <<"start", "hedging", "cleanup">>
    BY <2>1 DEF RestoreProgram
  <2>7. ~Persisting'
    BY <2>6 DEF Persisting
  <2>8. LoginProved'
    BY <2>1, <2>7 DEF LoginProved
  <2>9. (ClosedUnread' <=> ClosedUnread) /\ (ClosedSeen' => ClosedUnread)
    <3>1. (ClosedUnread' <=> ClosedUnread) /\ ~ReadSince(Len(lines)) /\ \A k : ReadSince(k)' <=> ReadSince(k)
      BY <1>1, <1>2, LogKept, NothingSince
    <3>2. ReadSince(outer)' => ReadSince(Len(lines))
      BY <1>2, <2>1 DEF ReadSince
    <3> QED
      BY <2>1, <3>1, <3>2 DEF ClosedSeen
  <2>10. ASSUME ~failed PROVE RestorePos'
    <3>1. at # "raised"
      BY <1>2
    <3>2. CASE test = "restart"
      <4>1. RestartPos
        BY <1>1, <1>7, <2>10, <3>1, <3>2 DEF Positions
      <4>2. open = {}
        BY <1>4, <4>1 DEF RestartPos
      <4> QED
        BY <1>2, <1>6, <4>2 DEF RestorePos
    <3>3. CASE test # "restart"
      <4>1. AccountPos
        BY <1>1, <1>7, <2>10, <3>1, <3>3 DEF Positions
      <4>2. ~ClosedUnread /\ open \subseteq {"hedging"}
        BY <1>4, <4>1 DEF AccountPos
      <4>3. ~ClosedSeen' /\ Entering'
        BY <2>1, <2>9, <4>2 DEF Entering
      <4>4. Len(todo') > 0
        BY <2>1, <2>2
      <4> QED
        BY <1>2, <1>6, <2>7, <4>2, <4>3, <4>4 DEF RestorePos
    <3> QED
      BY <3>2, <3>3
  <2>11. Positions'
    BY <1>2, <1>3, <2>1, <2>10 DEF Positions, NoRecord
  <2> QED
    BY <1>5, <2>3, <2>5, <2>8, <2>11 DEF DemoInv
<1>8. ASSUME restoring, ~failed PROVE open = {} /\ open' = {}
  <2>1. RestorePos
    BY <1>1, <1>2, <1>8 DEF Positions
  <2> QED
    BY <1>2, <2>1 DEF RestorePos, Entering
<1>9. restoring => restoring' /\ outer' = outer
  BY DEF FinalKill
<1>10. restoring => (~failed => RestorePos')
  BY <1>2, <1>6, <1>8 DEF RestorePos
<1>11. CASE restoring /\ Shown
  <2>1. at' = "step" /\ todo' = PersistProgram /\ demoRecord' = demoRecord /\ at = "kill"
    BY <1>11 DEF FinalKill, Goto, Shown
  <2>2. PersistProgram \in Seq(DemoSteps) /\ Len(PersistProgram) = 3
    BY ProgramsAre
  <2>3. DemoTypeOK'
    BY <1>1, <1>2, <1>6, <1>9, <1>11, <2>1, <2>2 DEF DemoTypeOK
  <2>4. Left(PersistProgram)' /\ Len(todo') > 0
    BY <1>1, <2>1, <2>2, LeftIs
  <2>5. Placed'
    BY <1>1, <1>2, <1>3, <1>9, <1>11, <2>1, <2>4 DEF Placed
  <2>6. Head(todo') = <<"script", "hedging">>
    BY <2>1 DEF PersistProgram
  <2>7. LoginProved'
    BY <1>6, <2>1, <2>6 DEF LoginProved, Persisting
  <2>8. Positions'
    BY <1>2, <1>3, <1>9, <1>10, <1>11, <2>1 DEF Positions, NoRecord
  <2> QED
    BY <1>5, <2>3, <2>5, <2>7, <2>8 DEF DemoInv
<1>12. CASE restoring /\ ~Shown
  <2>1. WriteRecord(FALSE)
    BY <1>12 DEF FinalKill
  <2>2. at' = "done" /\ todo' = <<>> /\ ~demoRecord'.restoreOk /\ demoRecord'.status # "COMPLETED"
    <3>1. FALSE \in BOOLEAN
      OBVIOUS
    <3> QED
      BY <2>1, <3>1, RecordIs
  <2>3. DemoTypeOK'
    BY <1>1, <1>2, <1>6, <1>9, <1>12, <2>2 DEF DemoTypeOK
  <2>4. Placed'
    BY <1>1, <1>2, <1>9, <1>12, <2>2 DEF Placed
  <2>5. LoginProved'
    BY <2>2 DEF LoginProved, Persisting
  <2>6. Positions'
    BY <1>2, <1>9, <1>10, <1>12, <2>2 DEF Positions
  <2> QED
    BY <1>5, <2>3, <2>4, <2>5, <2>6 DEF DemoInv
<1> QED
  BY <1>7, <1>11, <1>12

\* The launches that prove the login.
LEMMA StartsScript == DemoInv /\ ScriptStarts => DemoInv'
<1> SUFFICES ASSUME DemoInv, ScriptStarts PROVE DemoInv'
  OBVIOUS
<1>1. DemoTypeOK /\ Placed /\ Positions
  BY DEF DemoInv
<1>2. /\ at = "step" /\ todo # <<>> /\ Head(todo)[1] = "script" /\ at' = "wait_script"
      /\ (ini' <=> Head(todo)[2] # "none")
      /\ term' = [Off EXCEPT !.up = TRUE, !.account = IF Head(todo)[2] = "none" THEN kept ELSE Head(todo)[2]]
      /\ UNCHANGED <<test, todo, restoring, seen, lines, mark, outer, suspended, failed, demoRecord, launched, kept, open, eaLog>>
  BY DEF ScriptStarts, Do, inputVars, logVars, markVars, worldVars
<1>3. Persisting /\ demoRecord = NoRecord
  BY <1>1, <1>2 DEF Persisting, Placed
<1>4. Head(todo) \in {<<"script", "hedging">>, <<"script", "none">>}
  <2>1. Head(todo) \in DemoSteps
    BY <1>1, <1>2 DEF DemoTypeOK
  <2> QED
    BY <1>2, <2>1 DEF DemoSteps
<1>5. restoring /\ Left(PersistProgram)
  <2>1. restoring
    <3> SUFFICES ASSUME ~restoring PROVE FALSE
      OBVIOUS
    <3>1. ~Persisting
      BY <1>1, <1>2, HeadIs
    <3> QED
      BY <1>3, <3>1
  <2>2. \/ Head(todo) = <<"start", "hedging", "cleanup">> \/ Head(todo) = <<"wait", "closed">> \/ Left(PersistProgram)
    BY <1>1, <1>2, <2>1, HeadIs
  <2> QED
    BY <1>2, <2>1, <2>2
<1>6. /\ term' \in Terminals /\ term'.probe = "none" /\ term'.ea = "none"
      /\ Head(todo)[2] = "none" => term'.account = kept
  <2> DEFINE a == IF Head(todo)[2] = "none" THEN kept ELSE Head(todo)[2]
  <2>1. a \in Logins /\ TRUE \in BOOLEAN
    BY <1>1, <1>4 DEF Logins, DemoTypeOK
  <2>2. Head(todo)[2] = "none" => a = kept
    OBVIOUS
  <2>3. term' = [Off EXCEPT !.up = TRUE, !.account = a]
    BY <1>2
  <2> HIDE DEF a
  <2>4. term' \in Terminals /\ term'.probe = Off.probe /\ term'.ea = Off.ea /\ term'.account = a
    BY <2>1, <2>3, OffIs DEF Terminals
  <2> QED
    BY <2>2, <2>4, OffIs
<1>7. DemoTypeOK'
  BY <1>1, <1>2, <1>6 DEF DemoTypeOK
<1>8. Len(todo) > 0
  BY <1>1, <1>2 DEF DemoTypeOK
<1>9. Left(PersistProgram)' /\ Len(todo') > 0
  BY <1>2, <1>5, <1>8 DEF Left, Rest
<1>10. Placed'
  BY <1>1, <1>2, <1>3, <1>5, <1>9 DEF Placed
<1>11. LoginProved'
  BY <1>2, <1>6 DEF LoginProved, Persisting
<1>12. Positions'
  <2>1. ASSUME ~failed PROVE RestorePos'
    <3>1. RestorePos
      BY <1>1, <1>2, <1>5, <2>1 DEF Positions
    <3>2. open = {} /\ open' = {}
      BY <1>2, <1>3, <3>1 DEF RestorePos
    <3> QED
      BY <1>6, <3>2 DEF RestorePos
  <2> QED
    BY <1>2, <1>3, <1>5, <2>1 DEF Positions, NoRecord
<1>13. CredentialsOffDisk'
  BY <1>2 DEF CredentialsOffDisk
<1> QED
  BY <1>7, <1>10, <1>11, <1>12, <1>13 DEF DemoInv

LEMMA EndsScript == DemoInv /\ ScriptEnds => DemoInv'
<1> SUFFICES ASSUME DemoInv, ScriptEnds PROVE DemoInv'
  OBVIOUS
<1>1. DemoTypeOK /\ Placed /\ Positions /\ LoginProved
  BY DEF DemoInv
<1>2. /\ at = "wait_script" /\ ~ini'
      /\ UNCHANGED <<test, restoring, seen, lines, mark, outer, suspended, failed, launched, kept, open, eaLog>>
  BY DEF ScriptEnds, inputVars, logVars, markVars, worldVars
<1>3. todo # <<>> /\ Head(todo)[1] = "script" /\ restoring /\ Left(PersistProgram) /\ demoRecord = NoRecord /\ Persisting
  BY <1>1, <1>2 DEF Placed, Persisting
<1>4. ~failed => open = {} /\ open' = {} /\ RestorePos
  <2>1. ASSUME ~failed PROVE RestorePos
    BY <1>1, <1>2, <1>3, <2>1 DEF Positions
  <2> QED
    BY <1>2, <1>3, <2>1 DEF RestorePos
<1>5. CredentialsOffDisk'
  BY <1>2 DEF CredentialsOffDisk
<1>6. CASE ~term.up /\ at' = "step" /\ todo' = Tail(todo) /\ UNCHANGED <<term, demoRecord>>
  <2>1. Len(todo') = Len(todo) - 1 /\ todo' \in Seq(DemoSteps)
    BY <1>1, <1>3, <1>6, LeftIs
  <2>2. DemoTypeOK'
    BY <1>1, <1>2, <1>6, <2>1 DEF DemoTypeOK
  <2>3. Placed'
    BY <1>2, <1>3, <1>6, Advanced
  <2>4. /\ todo' # <<>>
        /\ \/ Head(todo) = <<"script", "hedging">> /\ Head(todo') = <<"script", "none">>
           \/ Head(todo) = <<"script", "none">> /\ Head(todo') = <<"check">>
    BY <1>1, <1>2, <1>6, PersistAfter
  <2>5. term.ea = "none" /\ (Head(todo) = <<"script", "none">> => term.account = kept)
    BY <1>1, <1>2, <1>3 DEF LoginProved
  <2>6. Head(todo')[1] = "check" => Head(todo) = <<"script", "none">>
    BY <2>4
  <2>7. LoginProved'
    BY <1>2, <1>6, <2>5, <2>6 DEF LoginProved
  <2>8. Positions'
    <3>1. ~failed => RestorePos'
      BY <1>4, <1>6 DEF RestorePos
    <3> QED
      BY <1>2, <1>3, <1>6, <3>1 DEF Positions, NoRecord
  <2> QED
    BY <1>5, <2>2, <2>3, <2>7, <2>8 DEF DemoInv
<1>7. CASE term' = Off /\ WriteRecord(FALSE)
  <2>1. at' = "done" /\ todo' = <<>> /\ ~demoRecord'.restoreOk /\ demoRecord'.status # "COMPLETED"
    <3>1. FALSE \in BOOLEAN
      OBVIOUS
    <3> QED
      BY <1>7, <3>1, RecordIs
  <2>2. term' \in Terminals /\ term'.probe = "none"
    BY <1>7, OffIs
  <2>3. DemoTypeOK'
    BY <1>1, <1>2, <2>1, <2>2 DEF DemoTypeOK
  <2>4. Placed'
    BY <1>1, <1>2, <1>3, <2>1 DEF Placed
  <2>5. LoginProved'
    BY <2>1 DEF LoginProved, Persisting
  <2>6. Positions'
    <3>1. ~failed => RestorePos'
      BY <1>4, <2>2 DEF RestorePos
    <3> QED
      BY <1>2, <1>3, <2>1, <3>1 DEF Positions
  <2> QED
    BY <1>5, <2>3, <2>4, <2>5, <2>6 DEF DemoInv
<1> QED
  BY <1>6, <1>7 DEF ScriptEnds, Goto

LEMMA ChecksConnection == DemoInv /\ CheckConnection => DemoInv'
<1> SUFFICES ASSUME DemoInv, CheckConnection PROVE DemoInv'
  OBVIOUS
<1>1. DemoTypeOK /\ Placed /\ Positions /\ LoginProved /\ CredentialsOffDisk
  BY DEF DemoInv
<1>2. /\ at = "step" /\ todo # <<>> /\ Head(todo)[1] = "check"
      /\ UNCHANGED <<test, restoring, seen, lines, mark, outer, ini, suspended, failed, launched, term, kept, open, eaLog>>
  BY DEF CheckConnection, Do, inputVars, logVars, markVars, worldVars
<1>3. Persisting
  BY <1>2 DEF Persisting
<1>4. restoring
  <2> SUFFICES ASSUME ~restoring PROVE FALSE
    OBVIOUS
  <2>1. ~Persisting
    BY <1>1, <1>2, HeadIs
  <2> QED
    BY <1>3, <2>1
<1>5. /\ at' \in {"done", "raised"} /\ todo' = <<>>
      /\ at' = "done" => (demoRecord'.restoreOk => term.account = "hedging")
      /\ at' = "done" /\ demoRecord'.status = "COMPLETED" => ~suspended /\ ~failed /\ demoRecord'.restoreOk
      /\ at' = "raised" => demoRecord' = NoRecord
  <2>1. ASSUME NEW connected \in BOOLEAN, WriteRecord(connected /\ term.account = "hedging")
        PROVE  /\ at' = "done" /\ todo' = <<>> /\ (demoRecord'.restoreOk => term.account = "hedging")
               /\ demoRecord'.status = "COMPLETED" => ~suspended /\ ~failed /\ demoRecord'.restoreOk
    <3> DEFINE good == connected /\ term.account = "hedging"
    <3>1. good \in BOOLEAN /\ WriteRecord(good)
      BY <2>1
    <3> HIDE DEF good
    <3>2. /\ at' = "done" /\ todo' = <<>> /\ (demoRecord'.restoreOk <=> good)
          /\ demoRecord'.status = "COMPLETED" => ~suspended /\ ~failed /\ good
      BY <3>1, RecordIs
    <3> QED
      BY <3>2 DEF good
  <2>2. ASSUME Goto("raised", <<>>), UNCHANGED demoRecord
        PROVE  at' = "raised" /\ todo' = <<>> /\ demoRecord' = NoRecord
    BY <1>1, <1>2, <2>2 DEF Goto, Placed
  <2> QED
    BY <2>1, <2>2 DEF CheckConnection
<1>6. term.account = kept /\ ~term.up /\ term.ea = "none"
  BY <1>1, <1>2, <1>3 DEF LoginProved
<1>7. ~failed => open = {} /\ open' = {} /\ RestorePos
  <2>1. ASSUME ~failed PROVE RestorePos
    BY <1>1, <1>2, <1>4, <2>1 DEF Positions
  <2> QED
    BY <1>2, <1>3, <2>1 DEF RestorePos
<1>8. DemoTypeOK'
  BY <1>1, <1>2, <1>5 DEF DemoTypeOK
<1>9. Placed'
  BY <1>1, <1>2, <1>4, <1>5 DEF Placed
<1>10. LoginProved'
  BY <1>2, <1>5, <1>6 DEF LoginProved, Persisting
<1>11. Positions'
  <2>1. ~failed => RestorePos'
    BY <1>2, <1>7 DEF RestorePos
  <2>2. demoRecord'.status = "COMPLETED" => demoRecord'.restoreOk /\ at' = "done" /\ open' = {}
    BY <1>5, <1>7 DEF NoRecord
  <2> QED
    BY <1>2, <1>4, <1>5, <2>1, <2>2 DEF Positions
<1>12. CredentialsOffDisk'
  BY <1>1, <1>2 DEF CredentialsOffDisk
<1> QED
  BY <1>8, <1>9, <1>10, <1>11, <1>12 DEF DemoInv

\* The terminal and the EA move nothing of the harness's own.
LEMMA HarnessRests ==
    ASSUME DemoTypeOK, Placed, CredentialsOffDisk, HarnessIdle
    PROVE  Placed' /\ CredentialsOffDisk' /\ (Persisting' <=> Persisting) /\ (Entering' <=> Entering)
<1>1. UNCHANGED <<test, at, todo, restoring, ini, suspended, failed, demoRecord>>
  BY DEF HarnessIdle, inputVars, placeVars, stateVars
<1>2. /\ Left(PersistProgram) => Left(PersistProgram)'
      /\ Left(IF restoring THEN RestoreProgram ELSE Program(test))
            => Left(IF restoring THEN RestoreProgram ELSE Program(test))'
  BY <1>1 DEF Left, Rest
<1>3. Placed'
  BY <1>1, <1>2 DEF Placed
<1> QED
  BY <1>1, <1>3 DEF CredentialsOffDisk, Persisting, Entering

LEMMA LineIs ==
    ASSUME DemoTypeOK, NEW what \in {"start", "refused", "gave_up", "opened", "closed"}
    PROVE  Line(what) \in LogLines /\ Line(what).what = what
<1>1. Len(launched) \in Nat /\ term.probe \in ProbeKinds /\ term.account \in Logins
  BY DEF DemoTypeOK, Terminals
<1> QED
  BY <1>1 DEF Line, LogLines

LEMMA InitsEa == DemoInv /\ EaInits => DemoInv'
<1> SUFFICES ASSUME DemoInv, EaInits PROVE DemoInv'
  OBVIOUS
<1>1. DemoTypeOK /\ Placed /\ Positions /\ LoginProved /\ CredentialsOffDisk
  BY DEF DemoInv
<1>2. /\ term.ea = "loading" /\ HarnessIdle /\ open' = open
      /\ UNCHANGED <<test, at, todo, restoring, ini, suspended, failed, demoRecord, seen, lines, mark, outer, launched>>
  BY DEF EaInits, HarnessIdle, inputVars, placeVars, logVars, markVars, stateVars
<1>3. term \in Terminals /\ kept \in Logins
  BY <1>1 DEF DemoTypeOK
<1>4. /\ eaLog' \in Seq(LogLines) /\ (\A j \in 1..Len(eaLog') : eaLog'[j].what # "closed")
      /\ kept' \in Logins /\ term' \in Terminals /\ term'.probe = term.probe /\ term'.account = term.account
      /\ term'.ea \in {"started", "gone"}
  <2>1. Line("start") \in LogLines /\ Line("refused") \in LogLines /\ Line("gave_up") \in LogLines
    BY <1>1, LineIs
  <2>2. Line("start").what = "start" /\ Line("refused").what = "refused" /\ Line("gave_up").what = "gave_up"
    BY <1>1, LineIs
  <2>3. "started" \in EaStates /\ "gone" \in EaStates /\ term.account \in Logins
    BY <1>3 DEF EaStates, Terminals
  <2>4. ASSUME NEW s \in {"started", "gone"}, term' = [term EXCEPT !.ea = s]
        PROVE  term' \in Terminals /\ term'.probe = term.probe /\ term'.account = term.account /\ term'.ea = s
    BY <1>3, <2>3, <2>4 DEF Terminals
  <2>5. ASSUME NEW l \in LogLines, l.what # "closed", eaLog' = <<l>>
        PROVE  eaLog' \in Seq(LogLines) /\ (\A j \in 1..Len(eaLog') : eaLog'[j].what # "closed")
    BY <2>5
  <2>6. CASE eaLog' = <<Line("start")>> /\ kept' \in {kept, term.account} /\ term' = [term EXCEPT !.ea = "started"]
    <3>1. kept' \in Logins
      BY <1>3, <2>3, <2>6
    <3>2. eaLog' \in Seq(LogLines) /\ (\A j \in 1..Len(eaLog') : eaLog'[j].what # "closed")
      BY <2>1, <2>2, <2>5, <2>6
    <3>3. term' \in Terminals /\ term'.probe = term.probe /\ term'.account = term.account /\ term'.ea = "started"
      BY <2>4, <2>6
    <3> QED
      BY <3>1, <3>2, <3>3
  <2>7. CASE eaLog' \in {<<Line("refused")>>, <<Line("gave_up")>>} /\ term' = [term EXCEPT !.ea = "gone"] /\ kept' = kept
    <3>1. eaLog' \in Seq(LogLines) /\ (\A j \in 1..Len(eaLog') : eaLog'[j].what # "closed")
      <4>1. CASE eaLog' = <<Line("refused")>>
        BY <2>1, <2>2, <2>5, <4>1
      <4>2. CASE eaLog' = <<Line("gave_up")>>
        BY <2>1, <2>2, <2>5, <4>2
      <4> QED
        BY <2>7, <4>1, <4>2
    <3>2. term' \in Terminals /\ term'.probe = term.probe /\ term'.account = term.account /\ term'.ea = "gone"
      BY <2>4, <2>7
    <3> QED
      BY <1>3, <2>7, <3>1, <3>2
  <2>8. CASE eaLog' = <<>> /\ term' = [term EXCEPT !.ea = "gone"] /\ kept' = kept
    <3>1. term' \in Terminals /\ term'.probe = term.probe /\ term'.account = term.account /\ term'.ea = "gone"
      BY <2>4, <2>8
    <3>2. eaLog' \in Seq(LogLines) /\ (\A j \in 1..Len(eaLog') : eaLog'[j].what # "closed")
      BY <2>8
    <3> QED
      BY <1>3, <2>8, <3>1, <3>2
  <2> QED
    BY <2>6, <2>7, <2>8 DEF EaInits
<1>5. DemoTypeOK'
  BY <1>1, <1>2, <1>4 DEF DemoTypeOK
<1>6. Placed' /\ CredentialsOffDisk' /\ (Persisting' <=> Persisting) /\ (Entering' <=> Entering)
  BY <1>1, <1>2, HarnessRests
<1>7. ~Persisting /\ ~(at = "done" /\ demoRecord.restoreOk)
  BY <1>1, <1>2 DEF LoginProved
<1>8. LoginProved'
  BY <1>2, <1>6, <1>7 DEF LoginProved
<1>9. ~ClosedUnread' /\ (ClosedSeen' => ClosedSeen)
  <2>1. ~ClosedUnread'
    BY <1>1, <1>2, <1>4, LogBegun
  <2>2. \A k : ReadSince(k)' => ReadSince(k)
    BY <1>2 DEF ReadSince
  <2>3. ClosedSeen' => ReadSince(IF restoring THEN outer ELSE mark)'
    BY <2>1 DEF ClosedSeen
  <2>4. ReadSince(IF restoring THEN outer ELSE mark)' => ReadSince(IF restoring THEN outer ELSE mark)
    BY <1>2 DEF ReadSince
  <2> QED
    BY <2>1, <2>3, <2>4 DEF ClosedSeen
<1>10. term.ea \in Alive
  BY <1>2 DEF Alive
<1>11. ASSUME RestartPos PROVE RestartPos'
  BY <1>2, <1>4, <1>9, <1>11 DEF RestartPos
<1>12. ASSUME AccountPos PROVE AccountPos'
  <2>1. ~(Len(todo) = 2 /\ at = "step") /\ Len(todo) # 0
    BY <1>10, <1>12 DEF AccountPos
  <2>2. (Len(todo) = 2 /\ at = "wait_start") \/ Len(todo) = 1 => ~ClosedSeen
    BY <1>10, <1>12 DEF AccountPos
  <2> QED
    BY <1>2, <1>4, <1>9, <1>12, <2>1, <2>2 DEF AccountPos
<1>13. ASSUME RestorePos PROVE RestorePos'
  BY <1>2, <1>4, <1>6, <1>9, <1>13 DEF RestorePos
<1>14. Positions'
  BY <1>1, <1>2, <1>11, <1>12, <1>13 DEF Positions
<1> QED
  BY <1>5, <1>6, <1>8, <1>14 DEF DemoInv

LEMMA ActsEa == DemoInv /\ EaActs => DemoInv'
<1> SUFFICES ASSUME DemoInv, EaActs PROVE DemoInv'
  OBVIOUS
<1>1. DemoTypeOK /\ Placed /\ Positions /\ LoginProved /\ CredentialsOffDisk
  BY DEF DemoInv
<1>2. /\ HarnessIdle /\ kept' = kept
      /\ UNCHANGED <<test, at, todo, restoring, ini, suspended, failed, demoRecord, seen, lines, mark, outer, launched>>
  BY DEF EaActs, HarnessIdle, inputVars, placeVars, logVars, markVars, stateVars
<1>3. term \in Terminals /\ Line("opened") \in LogLines /\ Line("closed") \in LogLines
      /\ Line("opened").what = "opened"
  BY <1>1, LineIs DEF DemoTypeOK
<1>4. Placed' /\ CredentialsOffDisk' /\ (Persisting' <=> Persisting) /\ (Entering' <=> Entering)
  BY <1>1, <1>2, HarnessRests
<1>5. ASSUME NEW s \in {"holds", "idle"}, term' = [term EXCEPT !.ea = s]
      PROVE  /\ term' \in Terminals /\ term'.probe = term.probe /\ term'.account = term.account /\ term'.ea = s
             /\ term'.up = term.up
  <2>1. s \in EaStates
    BY <1>5 DEF EaStates
  <2> QED
    BY <1>3, <1>5, <2>1 DEF Terminals
<1>6. \A k : ReadSince(k)' => ReadSince(k)
  BY <1>2 DEF ReadSince
<1>7. (ClosedSeen' => ClosedSeen \/ ClosedUnread')
  BY <1>2, <1>6 DEF ClosedSeen, ReadSince
<1>8. term.ea # "none" => ~Persisting /\ ~(at = "done" /\ demoRecord.restoreOk)
  BY <1>1 DEF LoginProved
<1>9. CASE /\ term.ea = "started" /\ term.probe \in {"restart", "account"}
           /\ open' = open \cup {term.account}
           /\ eaLog' = IF term.probe = "restart" /\ term.account \notin open
                       THEN Append(eaLog, Line("opened")) ELSE eaLog
           /\ term' = [term EXCEPT !.ea = "holds"]
  <2>1. /\ term' \in Terminals /\ term'.probe = term.probe /\ term'.account = term.account /\ term'.ea = "holds"
    BY <1>5, <1>9
  <2>2. eaLog' \in Seq(LogLines)
    BY <1>1, <1>3, <1>9 DEF DemoTypeOK
  <2>3. DemoTypeOK'
    BY <1>1, <1>2, <2>1, <2>2 DEF DemoTypeOK
  <2>4. LoginProved'
    BY <1>2, <1>4, <1>8, <1>9 DEF LoginProved
  <2>5. ClosedUnread' => ClosedUnread
    <3>1. CASE eaLog' = eaLog
      BY <1>2, <3>1, LogKept
    <3>2. CASE eaLog' = Append(eaLog, Line("opened"))
      BY <1>1, <1>2, <1>3, <3>2, LineUnread
    <3> QED
      BY <1>9, <3>1, <3>2
  <2>6. ClosedSeen' => ClosedSeen
    BY <1>7, <2>5 DEF ClosedSeen
  <2>7. term.ea \in Alive
    BY <1>9 DEF Alive
  <2>8. ASSUME RestartPos PROVE RestartPos'
    <3>1. term.account = "hedging" /\ open' \subseteq {"hedging"}
      BY <1>9, <2>8 DEF RestartPos
    <3>2. ~(Len(todo) <= 2) /\ Len(todo) # 0
      <4>1. ~(Len(todo) <= 2)
        BY <1>9, <2>8 DEF RestartPos
      <4> QED
        BY <1>1, <4>1 DEF DemoTypeOK
    <3> QED
      BY <1>2, <2>1, <2>6, <2>8, <3>1, <3>2 DEF RestartPos
  <2>9. ASSUME AccountPos PROVE AccountPos'
    <3>1. ~(Len(todo) = 2 /\ at = "step") /\ Len(todo) # 0
      BY <2>7, <2>9 DEF AccountPos
    <3>2. (Len(todo) = 2 /\ at = "wait_start") \/ Len(todo) = 1 => ~ClosedSeen
      BY <2>7, <2>9 DEF AccountPos
    <3>3. open' \subseteq {"hedging", test}
      BY <1>9, <2>9 DEF AccountPos
    <3> QED
      BY <1>2, <2>1, <2>6, <2>9, <3>1, <3>2, <3>3 DEF AccountPos
  <2>10. ~RestorePos
    BY <1>9 DEF RestorePos
  <2>11. demoRecord'.status # "COMPLETED"
    <3> SUFFICES ASSUME demoRecord.status = "COMPLETED" PROVE FALSE
      BY <1>2
    <3>1. demoRecord.restoreOk /\ at = "done"
      BY <1>1 DEF Positions
    <3> QED
      BY <1>8, <1>9, <3>1
  <2>12. Positions'
    BY <1>1, <1>2, <2>8, <2>9, <2>10, <2>11 DEF Positions
  <2> QED
    BY <1>4, <2>3, <2>4, <2>12 DEF DemoInv
<1>10. CASE /\ \/ term.ea = "started" /\ term.probe = "cleanup"
               \/ term.ea = "holds" /\ term.probe = "account"
            /\ open' = open \ {term.account}
            /\ eaLog' = Append(eaLog, Line("closed"))
            /\ term' = [term EXCEPT !.ea = "idle"]
  <2>1. /\ term' \in Terminals /\ term'.probe = term.probe /\ term'.account = term.account /\ term'.ea = "idle"
    BY <1>5, <1>10
  <2>2. eaLog' \in Seq(LogLines)
    BY <1>1, <1>3, <1>10 DEF DemoTypeOK
  <2>3. DemoTypeOK'
    BY <1>1, <1>2, <2>1, <2>2 DEF DemoTypeOK
  <2>4. term.ea # "none" /\ term.probe # "none" /\ term.ea \in Alive
    BY <1>10 DEF Alive
  <2>5. LoginProved'
    BY <1>2, <1>4, <1>8, <2>4 DEF LoginProved
  <2>6. ASSUME RestartPos PROVE RestartPos'
    <3>1. term.account = "hedging" /\ open' = {}
      BY <1>10, <2>4, <2>6 DEF RestartPos
    <3>2. ~(Len(todo) > 2)
      BY <1>10, <2>6 DEF RestartPos
    <3> QED
      BY <1>2, <2>1, <2>6, <3>1, <3>2 DEF RestartPos
  <2>7. ASSUME AccountPos PROVE AccountPos'
    <3>1. ~(Len(todo) = 2 /\ at = "step") /\ Len(todo) # 0
      BY <2>4, <2>7 DEF AccountPos
    <3>2. term.account = test /\ open' = open \ {test}
      BY <1>10, <2>4, <2>7 DEF AccountPos
    <3>3. open' \subseteq {"hedging", test} /\ test \notin open' /\ term'.ea \notin Alive'
      BY <2>1, <2>7, <3>2 DEF AccountPos, Alive
    <3> QED
      BY <1>2, <2>1, <2>7, <3>1, <3>3 DEF AccountPos
  <2>8. ASSUME RestorePos PROVE RestorePos'
    <3>1. term.account = "hedging" /\ open' = {}
      BY <1>10, <2>4, <2>8 DEF RestorePos
    <3> QED
      BY <2>1, <2>8, <3>1 DEF RestorePos
  <2>9. demoRecord'.status # "COMPLETED"
    <3> SUFFICES ASSUME demoRecord.status = "COMPLETED" PROVE FALSE
      BY <1>2
    <3>1. demoRecord.restoreOk /\ at = "done"
      BY <1>1 DEF Positions
    <3> QED
      BY <1>8, <2>4, <3>1
  <2>10. Positions'
    BY <1>1, <1>2, <2>6, <2>7, <2>8, <2>9 DEF Positions
  <2> QED
    BY <1>4, <2>3, <2>5, <2>10 DEF DemoInv
<1> QED
  BY <1>9, <1>10 DEF EaActs

LEMMA ExitsScript == DemoInv /\ ScriptExits => DemoInv'
<1> SUFFICES ASSUME DemoInv, ScriptExits PROVE DemoInv'
  OBVIOUS
<1>1. DemoTypeOK /\ Placed /\ Positions /\ LoginProved /\ CredentialsOffDisk
  BY DEF DemoInv
<1>2. /\ at = "wait_script" /\ HarnessIdle /\ UNCHANGED <<open, eaLog>>
      /\ term' = [term EXCEPT !.up = FALSE] /\ kept' = IF ini THEN term.account ELSE kept
      /\ UNCHANGED <<test, at, todo, restoring, ini, suspended, failed, demoRecord, seen, lines, mark, outer, launched>>
  BY DEF ScriptExits, HarnessIdle, inputVars, placeVars, logVars, markVars, stateVars
<1>3. todo # <<>> /\ Head(todo)[1] = "script" /\ restoring /\ demoRecord = NoRecord /\ Persisting
  BY <1>1, <1>2 DEF Placed, Persisting
<1>4. Placed' /\ CredentialsOffDisk' /\ (Persisting' <=> Persisting) /\ (Entering' <=> Entering)
  BY <1>1, <1>2, HarnessRests
<1>5. term' \in Terminals /\ term'.account = term.account /\ term'.ea = term.ea /\ term'.probe = term.probe
  <2>1. term \in Terminals /\ FALSE \in BOOLEAN
    BY <1>1 DEF DemoTypeOK
  <2> QED
    BY <1>2, <2>1 DEF Terminals
<1>6. kept' \in Logins
  BY <1>1, <1>2 DEF DemoTypeOK, Terminals
<1>7. DemoTypeOK'
  BY <1>1, <1>2, <1>5, <1>6 DEF DemoTypeOK
<1>8. term.ea = "none" /\ (Head(todo)[2] = "none" => term.account = kept /\ ~ini)
  BY <1>1, <1>2, <1>3 DEF LoginProved
<1>9. LoginProved'
  BY <1>2, <1>3, <1>5, <1>8 DEF LoginProved
<1>10. Positions'
  <2>1. ASSUME ~failed PROVE RestorePos'
    <3>1. RestorePos /\ open = {}
      <4>1. RestorePos
        BY <1>1, <1>2, <1>3, <2>1 DEF Positions
      <4> QED
        BY <1>3, <4>1 DEF RestorePos
    <3> QED
      BY <1>2, <1>5, <3>1 DEF RestorePos
  <2> QED
    BY <1>2, <1>3, <2>1 DEF Positions, NoRecord
<1> QED
  BY <1>4, <1>7, <1>9, <1>10 DEF DemoInv

LEMMA DemoRests == DemoInv /\ UNCHANGED demoVars => DemoInv'
<1> SUFFICES ASSUME DemoInv, UNCHANGED demoVars PROVE DemoInv'
  OBVIOUS
<1>1. DemoTypeOK /\ Placed /\ Positions /\ LoginProved /\ CredentialsOffDisk
  BY DEF DemoInv
<1>2. HarnessIdle /\ UNCHANGED <<term, kept, open, eaLog, test, at, todo, restoring, ini, suspended, failed, demoRecord,
                                 seen, lines, mark, outer, launched>>
  BY DEF demoVars, HarnessIdle, inputVars, placeVars, logVars, markVars, stateVars, worldVars
<1>3. Placed' /\ CredentialsOffDisk' /\ (Persisting' <=> Persisting) /\ (Entering' <=> Entering)
  BY <1>1, <1>2, HarnessRests
<1>4. DemoTypeOK'
  BY <1>1, <1>2 DEF DemoTypeOK
<1>5. LoginProved'
  BY <1>1, <1>2, <1>3 DEF LoginProved
<1>6. (ClosedUnread' <=> ClosedUnread) /\ (ClosedSeen' => ClosedSeen)
  <2>1. (ClosedSeen' => ClosedSeen)
    BY <1>1, <1>2, SeenBefore
  <2> QED
    BY <1>2, <2>1, LogKept
<1>7. ASSUME RestartPos PROVE RestartPos'
  BY <1>2, <1>6, <1>7 DEF RestartPos
<1>8. ASSUME AccountPos PROVE AccountPos'
  BY <1>2, <1>6, <1>8 DEF AccountPos, Alive
<1>9. ASSUME RestorePos PROVE RestorePos'
  BY <1>2, <1>3, <1>6, <1>9 DEF RestorePos
<1>10. Positions'
  BY <1>1, <1>2, <1>7, <1>8, <1>9 DEF Positions
<1> QED
  BY <1>3, <1>4, <1>5, <1>10 DEF DemoInv

\* DemoInv is inductive.
LEMMA DemoHolds == DemoSpec => []DemoInv
<1>1. DemoInit => DemoInv
  BY DemoStart
<1>2. DemoInv /\ [DemoNext]_demoVars => DemoInv'
  <2> SUFFICES ASSUME DemoInv, [DemoNext]_demoVars PROVE DemoInv'
    OBVIOUS
  <2>1. CASE HarnessStep
    <3>1. CASE SeeInitFailure \/ TimesOut
      BY <3>1, FailuresKeep
    <3>2. CASE Launch
      BY <3>2, Launches
    <3>3. CASE SeeStart
      BY <3>3, SeesStart
    <3>4. CASE SeeRefusal
      BY <3>4, SeesRefusal
    <3>5. CASE SeeLine
      BY <3>5, SeesLine
    <3>6. CASE ObserveEnds
      BY <3>6, Observes
    <3>7. CASE Kill
      BY <3>7, Kills
    <3>8. CASE FinalPoll
      BY <3>8, PollsLast
    <3>9. CASE FinalKill
      BY <3>9, KillsLast
    <3>10. CASE ScriptStarts
      BY <3>10, StartsScript
    <3>11. CASE ScriptEnds
      BY <3>11, EndsScript
    <3>12. CASE CheckConnection
      BY <3>12, ChecksConnection
    <3> QED
      BY <2>1, <3>1, <3>2, <3>3, <3>4, <3>5, <3>6, <3>7, <3>8, <3>9, <3>10, <3>11, <3>12 DEF HarnessStep
  <2>2. CASE PollOnly
    BY <2>2, PollsOnly
  <2>3. CASE HostSuspends
    BY <2>3, FailuresKeep
  <2>4. CASE EaInits
    BY <2>4, InitsEa
  <2>5. CASE EaActs
    BY <2>5, ActsEa
  <2>6. CASE ScriptExits
    BY <2>6, ExitsScript
  <2>7. CASE UNCHANGED demoVars
    BY <2>7, DemoRests
  <2> QED
    BY <2>1, <2>2, <2>3, <2>4, <2>5, <2>6, <2>7 DEF DemoNext
<1> QED
  BY <1>1, <1>2, PTL DEF DemoSpec

\* The ini with the login and password is on the disk only while a launch is
\* waited for, whichever way a wait ends: the line seen, a refusal, a failed
\* init, a timeout, a suspended host (Harness._start, _script_run).  For every
\* accounts file and every test.
THEOREM CredentialsHold == DemoSpec => []CredentialsOffDisk
<1>1. DemoInv => CredentialsOffDisk
  BY DEF DemoInv
<1> QED
  BY <1>1, DemoHolds, PTL

\* A run the gate accepts has logged the terminal back in to the hedging
\* account, and a COMPLETED one leaves no probe position (_verify_connection,
\* _write, demo_in_gate_outcome).
THEOREM AcceptanceHolds == DemoSpec => []AcceptedIsRestored
<1>1. DemoInv => AcceptedIsRestored
  <2> SUFFICES ASSUME DemoInv PROVE AcceptedIsRestored
    OBVIOUS
  <2>1. demoRecord.restoreOk => at = "done"
    BY DEF DemoInv, Placed, NoRecord
  <2>2. OutcomeOk => kept = "hedging" /\ ~term.up
    BY <2>1 DEF OutcomeOk, DemoInv, LoginProved
  <2>3. demoRecord.status = "COMPLETED" => OutcomeOk /\ open = {}
    BY DEF OutcomeOk, DemoInv, Positions
  <2> QED
    BY <2>2, <2>3 DEF AcceptedIsRestored
<1> QED
  BY <1>1, DemoHolds, PTL

\* A test whose host was suspended is never continued: after the gap only the
\* restore is launched (Harness._pace, run).
THEOREM SuspensionHolds == DemoSpec => SuspendedNotContinued
<1>1. DemoInv /\ [DemoNext]_demoVars => [suspended /\ launched' # launched => Last(launched') = "restore"]_demoVars
  <2> SUFFICES ASSUME DemoInv, DemoNext, suspended, launched' # launched PROVE Last(launched') = "restore"
    OBVIOUS
  <2>1. Launch
    <3>1. ASSUME ~Launch PROVE launched' = launched
      <4>1. CASE HarnessStep
        BY <3>1, <4>1 DEF HarnessStep, SeeStart, SeeRefusal, SeeInitFailure, SeeLine, TimesOut, ObserveEnds, Kill,
              FinalPoll, FinalKill, ScriptStarts, ScriptEnds, CheckConnection, stateVars
      <4>2. CASE PollOnly \/ HostSuspends
        BY <4>2 DEF PollOnly, HostSuspends, stateVars
      <4>3. CASE EaInits \/ EaActs \/ ScriptExits
        BY <4>3 DEF EaInits, EaActs, ScriptExits, HarnessIdle, stateVars
      <4> QED
        BY <4>1, <4>2, <4>3 DEF DemoNext
    <3> QED
      BY <3>1
  <2>2. at = "step" /\ launched' = Append(launched, IF restoring THEN "restore" ELSE "test")
    BY <2>1 DEF Launch, Do
  <2>3. restoring
    BY <2>2 DEF DemoInv, Placed
  <2>4. launched' = Append(launched, "restore") /\ launched \in Seq({"test", "restore"})
    BY <2>2, <2>3 DEF DemoInv, DemoTypeOK
  <2> QED
    BY <2>4 DEF Last
<1> QED
  BY <1>1, DemoHolds, PTL DEF DemoSpec, SuspendedNotContinued
=============================================================================
