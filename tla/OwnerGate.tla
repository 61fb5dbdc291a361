----------------------------- MODULE OwnerGate -----------------------------
(***************************************************************************)
(* The owner gate over its evidence package.  A gate run measures; the     *)
(* builder (stage8_package.build_package) copies what it measured into the *)
(* package, step by step, the archive manifest last; the owner may change  *)
(* a file or bind the manifest again; the verifier (owner_gate.run_gate)   *)
(* reads the package and says a verdict; gate_certificate.py issues a      *)
(* certificate of the verdict.  A file is what a run put into it and what  *)
(* is wrong with it, and its hash is the file.                             *)
(***************************************************************************)
EXTENDS Naturals, FiniteSets, Functions

CONSTANTS Golds, BarLegs,       \* the golds, and their models next to real_ticks
          TesterTests, DemoTests, \* safety tests of the tester, of the demo harness
          Scopes, NaChoices,    \* scopes verified; golds without a real_ticks leg
          Heads,                \* commits a run may be made at
          MaxRuns,
          MaxTroubles           \* bound on faults, interrupted builds and touched files

ASSUME GateAssumption ==
    /\ Scopes \subseteq (SUBSET Golds) \ {{}} /\ NaChoices \subseteq SUBSET Golds
    /\ "real_ticks" \notin BarLegs /\ TesterTests \cap DemoTests = {}
    /\ MaxRuns \in Nat /\ MaxTroubles \in Nat

VARIABLES scope,
          run, na,       \* the current gate run; run -> golds its stage 5 names NOT_APPLICABLE
          ev,            \* what the current run measured
          file,          \* the package
          says,          \* recording file -> the hashes it records
          built, wrote,  \* package_build.json's list; what this build has written
          pc,            \* the builder's next step
          faults, touches, interrupts,
          report, bound, certified \* the verifier's report; the report stage 9 bound

gateVars == <<scope, run, na, ev, file, says, built, wrote, pc, faults, touches, interrupts,
              report, bound, certified>>

Tests == TesterTests \cup DemoTests
Models == BarLegs \cup {"real_ticks"}
Baseline == <<"window", CHOOSE g \in Golds : g \in scope, "m1_ohlc">>

Common == {<<"stage5">>, <<"compile_log">>, <<"ex5">>, <<"compile_metadata">>,
           <<"symbolspec">>, <<"environment">>, <<"coverage">>, <<"manifest">>}
Lists   == {"list"} \X Golds \X Models
Windows == {"window"} \X Golds \X Models
Recons  == {"recon"} \X Golds
Safety  == {"safety"} \X Tests
Raws    == {"raw"} \X Tests
Files == Common \cup Lists \cup Windows \cup Recons \cup Safety \cup Raws
Recorders == {<<"compile_metadata">>, <<"manifest">>} \cup Recons \cup Safety

Made(r, fault) == [run |-> r, fault |-> fault]
Has(pkg, f) == f \in DOMAIN pkg
AllBut(pkg, f) == Restrict(pkg, DOMAIN pkg \ {f})
Just(f, v) == [x \in {f} |-> v]
Nothing == Restrict(<<>>, {})
Over(new, old) == [f \in DOMAIN new \cup DOMAIN old |-> IF f \in DOMAIN new THEN new[f] ELSE old[f]]

Troubles == faults + interrupts + touches
NoReport == [golds |-> <<>>, safety |-> <<>>]

\* What a run measures, and what can be wrong with it.
Pieces == {<<"stage5">>, <<"compile_log">>, <<"ex5">>, <<"export">>} \cup Windows
          \cup ({"leg"} \X TesterTests) \cup ({"demo"} \X DemoTests)
FaultsOf(p) ==
    IF p = <<"stage5">> THEN {"absent"}
    ELSE IF p = <<"compile_log">> THEN {"absent", "errors"}
    ELSE IF p = <<"ex5">> THEN {"absent", "foreign", "old"}
    ELSE IF p = <<"export">> THEN {"absent", "unparsable", "gap", "decision"}
    ELSE IF p \in Windows THEN {"absent", "unfinished", "zero_bars", "model", "strategy", "trades"}
    ELSE IF p[1] = "leg" THEN {"absent", "failed"}
    ELSE {"absent", "failed", "interrupted", "restore", "other_ex5"}
Measured(p) == Has(ev, p)

-----------------------------------------------------------------------------
(* The gate run: stages 1 to 7 *)

\* S8-ANCHOR-REL-1: a descendant counts when every pin holds at both ends.
AnchorRelation(commit) ==
    IF commit = "anchor" THEN "EXACT_ANCHOR"
    ELSE IF commit = "descendant" THEN "DESCENDANT_FROZEN_BYTES_IDENTICAL"
    ELSE "none"   \* foreign, a pinned file changed, or file and pin changed together
CommitAccepted(commit) == AnchorRelation(commit) # "none"

\* A window without a report grades PASS_FROM_LOG when it shows the run
\* finished, bars, history, the model asked for and the strategy loaded.
PassFromLog(measured, w) == Has(measured, w) /\ measured[w].fault \in {"none", "trades"}

\* Each PASS_FROM_LOG window becomes a log trade list, placed in the package;
\* a list of an earlier run stays where this run has none.
PlacedLists(r, measured) ==
    [l \in {l \in Lists : PassFromLog(measured, <<"window", l[2], l[3]>>)} |->
        Made(r, measured[<<"window", l[2], l[3]>>].fault)]

GateRun ==
    /\ pc = "idle" /\ run < MaxRuns /\ touches = 0 /\ report = NoReport
    /\ run' = run + 1
    /\ \E golds \in NaChoices, bad \in SUBSET Pieces, head \in Heads :
        /\ faults' = faults + Cardinality(bad) + (IF CommitAccepted(head) THEN 0 ELSE 1)
        /\ faults' + interrupts <= MaxTroubles
        /\ na' = [na EXCEPT ![run + 1] = [golds |-> golds, head |-> head]]
        /\ \E why \in [bad -> UNION {FaultsOf(p) : p \in bad}] :
            /\ \A p \in bad : why[p] \in FaultsOf(p)
            /\ LET unlaunched == {"window"} \X golds \X {"real_ticks"}
                   lost == {p \in bad : why[p] = "absent"}
               IN ev' = [p \in Pieces \ (unlaunched \cup lost) |->
                            Made(run + 1, IF p \in bad THEN why[p] ELSE "none")]
            /\ file' = Over(PlacedLists(run + 1, ev'), file)
    /\ pc' = "remove"
    /\ UNCHANGED <<scope, says, built, wrote, touches, interrupts, report, bound, certified>>

-----------------------------------------------------------------------------
(* stage8_package.build_package *)

\* The steps of a build, in order.
After == [remove |-> "stage5", stage5 |-> "compile", compile |-> "symbolspec",
          symbolspec |-> "metadata", metadata |-> "environment", environment |-> "coverage",
          coverage |-> "windows", windows |-> "recon", recon |-> "safety",
          safety |-> "record", record |-> "manifest", manifest |-> "idle"]

Copy(f, p) == IF Measured(p) THEN Just(f, ev[p]) ELSE Nothing

\* The stage-1 log's own hash of the EA, whatever file lies in the folder.
CompiledEx5 == IF Measured(<<"ex5">>) /\ ev[<<"ex5">>].fault \in {"none", "old"}
               THEN ev[<<"ex5">>] ELSE Made(run, "none")

NaGolds == IF Measured(<<"stage5">>) THEN na[run].golds ELSE {}
LogLegs(pkg) == {l \in Lists : Has(pkg, l)}
LogModels(pkg, g) == {m \in Models : Has(pkg, <<"list", g, m>>)}
ListsOf(pkg, g) == {l \in LogLegs(pkg) : l[2] = g}

\* _build_reconciliation: every model is log-sourced or NOT_APPLICABLE, and a
\* list exists; a binding nothing measured is left out.
ReconBuilt(g) ==
    /\ LogModels(file, g) # {}
    /\ Models \ LogModels(file, g) \subseteq IF g \in NaGolds THEN {"real_ticks"} ELSE {}
ReconFault(g) ==
    IF ~Has(file, <<"ex5">>) \/ ~Has(file, <<"symbolspec">>) THEN "broken"
    ELSE IF ~CommitAccepted(na[run].head) THEN "commit"
    ELSE IF \E l \in ListsOf(file, g) : file[l].fault = "trades" THEN "divergent"
    ELSE "none"

\* _place_demo_safety: a COMPLETED run, its restore shown, of this very EX5.
DemoUsable(t) == /\ Measured(<<"demo", t>>) /\ Measured(<<"compile_log">>)
                 /\ ev[<<"demo", t>>].fault \notin {"interrupted", "restore", "other_ex5"}
SafetyBuilt == {t \in TesterTests : Measured(<<"leg", t>>) /\ Measured(Baseline)}
               \cup {t \in DemoTests : DemoUsable(t)}
SafetyEvidence(t) == IF t \in DemoTests THEN ev[<<"demo", t>>] ELSE ev[<<"leg", t>>]

\* What a step writes into the package.
CompileWrites ==
    IF ~Measured(<<"compile_log">>) THEN Nothing
    ELSE IF Measured(<<"ex5">>) /\ ev[<<"ex5">>] = CompiledEx5
    THEN Over(Just(<<"compile_log">>, ev[<<"compile_log">>]), Just(<<"ex5">>, CompiledEx5))
    ELSE Just(<<"compile_log">>, ev[<<"compile_log">>])
MetadataFault ==
    IF ~CommitAccepted(na[run].head) THEN "commit"
    ELSE IF ~Measured(<<"export">>) \/ ev[<<"export">>].fault = "unparsable" THEN "fields" ELSE "none"
MetadataWrites ==
    IF Measured(<<"compile_log">>) THEN Just(<<"compile_metadata">>, Made(run, MetadataFault)) ELSE Nothing
EnvironmentWrites == Just(<<"environment">>, Made(run, IF Measured(<<"export">>) THEN "none" ELSE "gap"))
CoverageWrites == IF scope \subseteq NaGolds THEN Just(<<"coverage">>, Made(run, "NONE")) ELSE Nothing
\* Only the window a list was read from.
WindowWrites == [w \in {x \in Windows : x[2] \in scope /\ PassFromLog(ev, x)} |-> ev[w]]
ReconWrites == [f \in {x \in Recons : x[2] \in scope /\ ReconBuilt(x[2])} |-> Made(run, ReconFault(f[2]))]
SafetyWrites == [f \in {x \in Raws \cup Safety : x[2] \in SafetyBuilt} |-> SafetyEvidence(f[2])]

StepWrites(step) ==
    IF step = "stage5" THEN Copy(<<"stage5">>, <<"stage5">>)
    ELSE IF step = "compile" THEN CompileWrites
    ELSE IF step = "symbolspec" THEN Copy(<<"symbolspec">>, <<"export">>)
    ELSE IF step = "metadata" THEN MetadataWrites
    ELSE IF step = "environment" THEN EnvironmentWrites
    ELSE IF step = "coverage" THEN CoverageWrites
    ELSE IF step = "windows" THEN WindowWrites
    ELSE IF step = "recon" THEN ReconWrites
    ELSE IF step = "safety" THEN SafetyWrites
    ELSE IF step = "manifest" THEN Just(<<"manifest">>, Made(run, "none"))
    ELSE Nothing

\* The hashes a written file records of others.
Only(pkg, S) == Restrict(pkg, S \cap DOMAIN pkg)
Records(step, pkg) ==
    IF step = "metadata"
    THEN [f \in DOMAIN MetadataWrites |-> Over(Just(<<"ex5">>, CompiledEx5), Only(pkg, {<<"compile_log">>}))]
    ELSE IF step = "recon"
    THEN [f \in DOMAIN ReconWrites |-> Only(pkg, {<<"ex5">>, <<"symbolspec">>} \cup ListsOf(pkg, f[2]))]
    ELSE IF step = "safety"
    THEN [f \in Safety \cap DOMAIN SafetyWrites |-> Only(pkg, {<<"raw", f[2]>>})]
    ELSE IF step = "manifest" THEN Just(<<"manifest">>, AllBut(pkg, <<"manifest">>))
    ELSE Nothing

\* Mutant: the files of the previous build are left in place.
BuildStepKeepsOld ==
    /\ pc # "idle"
    /\ file' = IF pc = "remove" THEN file ELSE Over(StepWrites(pc), file)
    /\ says' = Over(Records(pc, file'), says)
    /\ wrote' = IF pc \in {"remove", "record", "manifest"} THEN {} ELSE wrote \cup DOMAIN StepWrites(pc)
    /\ built' = IF pc = "record" THEN wrote ELSE built
    /\ pc' = After[pc]
    /\ ev' = IF pc = "manifest" THEN Nothing ELSE ev
    /\ UNCHANGED <<scope, run, na, faults, touches, interrupts, report, bound, certified>>

BuildStep ==
    /\ pc # "idle"
    /\ file' = IF pc = "remove" THEN Restrict(file, DOMAIN file \ built) ELSE Over(StepWrites(pc), file)
    /\ says' = Over(Records(pc, file'), says)
    /\ wrote' = IF pc \in {"remove", "record", "manifest"} THEN {} ELSE wrote \cup DOMAIN StepWrites(pc)
    /\ built' = IF pc = "record" THEN wrote ELSE built
    /\ pc' = After[pc]
    /\ ev' = IF pc = "manifest" THEN Nothing ELSE ev  \* the next run measures anew
    /\ UNCHANGED <<scope, run, na, faults, touches, interrupts, report, bound, certified>>

\* The host stops between two writes; the next build starts from what is there.
Interrupt ==
    /\ pc \notin {"idle", "remove"} /\ Troubles < MaxTroubles
    /\ interrupts' = interrupts + 1
    /\ pc' = "idle" /\ ev' = Nothing /\ wrote' = {}
    /\ UNCHANGED <<scope, run, na, file, says, built, faults, touches, report, bound,
                   certified>>

-----------------------------------------------------------------------------
(* The owner's hands on the package *)

Touch(after) ==
    /\ pc = "idle" /\ run > 0 /\ Troubles < MaxTroubles
    /\ touches' = touches + 1
    /\ file' = after
    /\ UNCHANGED <<scope, run, na, ev, says, built, wrote, pc, faults, interrupts, report, bound,
                   certified>>

\* Evidence whose bytes another file records; the recorders' own edits are
\* Reconcile's.
Evidence == {<<"stage5">>, <<"compile_log">>, <<"ex5">>, <<"symbolspec">>}
            \cup Lists \cup Windows \cup Raws
AlterFile  == \E f \in Evidence \cup Safety :
    Has(file, f) /\ Touch([file EXCEPT ![f].fault = "edited"])
RemoveFile == \E f \in DOMAIN file : Touch(AllBut(file, f))

\* Coverage of a launched real_ticks leg is the owner's own record.
OwnerCoverage ==
    /\ pc = "idle" /\ Has(file, <<"manifest">>) /\ ~Has(file, <<"coverage">>)
    /\ \E kind \in {"FULL", "PARTIAL", "UNKNOWN", "fallback", "unproved"} :
        file' = Over(Just(<<"coverage">>, Made(run, kind)), file)
    /\ says' = [says EXCEPT ![<<"manifest">>] = AllBut(file', <<"manifest">>)]
    /\ UNCHANGED <<scope, run, na, ev, built, wrote, pc, faults, touches, interrupts, report, bound,
                   certified>>

\* owner_evidence_bind.py manifest
Rebind ==
    /\ pc = "idle" /\ Has(file, <<"manifest">>) /\ touches > 0
    /\ says' = [says EXCEPT ![<<"manifest">>] = AllBut(file, <<"manifest">>)]
    /\ UNCHANGED <<scope, run, na, ev, file, built, wrote, pc, faults, touches, interrupts, report,
                   bound, certified>>

-----------------------------------------------------------------------------
(* owner_gate.run_gate *)

Matches(recorder, f) ==
    Has(says[recorder], f) /\ Has(file, f) /\ says[recorder][f] = file[f]

\* The legs the package's own stage-5 record names NOT_APPLICABLE.
NaLegs == IF Has(file, <<"stage5">>) /\ file[<<"stage5">>].fault = "none"
          THEN {l \in Lists : l[3] = "real_ticks" /\ l[2] \in na[file[<<"stage5">>].run].golds}
          ELSE {}

\* scan_package, in scope: a leg is its list, or not applicable.
Required == (Common \cup Safety) \cup {f \in Recons : f[2] \in scope}
MissingLegs == {l \in Lists : l[2] \in scope /\ ~Has(file, l) /\ l \notin NaLegs}
MissingFiles == {f \in Required : ~Has(file, f) /\ f # <<"stage5">>} \cup MissingLegs
\* A leg said never to have run beside a list of it, perhaps one of an earlier run.
Ambiguous == {l \in NaLegs : l[2] \in scope /\ Has(file, l)}

VerifyCompile ==
    IF \E f \in {<<"compile_log">>, <<"compile_metadata">>, <<"ex5">>} : ~Has(file, f)
       THEN "MISSING"
    ELSE IF file[<<"ex5">>].fault = "old" THEN "STALE"
    ELSE IF \/ ~Matches(<<"compile_metadata">>, <<"ex5">>)
            \/ ~Matches(<<"compile_metadata">>, <<"compile_log">>)
            \/ file[<<"compile_metadata">>].fault = "commit" THEN "MISMATCHED"
    ELSE IF file[<<"compile_metadata">>].fault = "fields" \/ file[<<"compile_log">>].fault = "errors" THEN "INVALID"
    ELSE "VALID"

VerifySymbolspec ==
    LET spec == file[<<"symbolspec">>] IN
    IF ~Has(file, <<"symbolspec">>) THEN "MISSING"
    ELSE IF spec.fault \in {"unparsable", "gap"} THEN "INVALID"
    ELSE IF spec.fault = "decision" THEN "MISMATCHED"
    ELSE "VALID"

\* _verify_coverage_none: no leg was launched only where the record of stage 5
\* names every real_ticks leg.
CoverageNoneHolds == \A g \in scope : <<"list", g, "real_ticks">> \in NaLegs

VerifyCoverage ==
    LET cov == file[<<"coverage">>] IN
    IF ~Has(file, <<"coverage">>) THEN "MISSING"
    ELSE IF cov.fault = "unproved" THEN "INVALID"
    ELSE IF \/ cov.fault = "fallback"
            \/ cov.fault = "NONE" /\ ~CoverageNoneHolds
            \/ cov.fault # "NONE" /\ \E l \in NaLegs : l[2] \in scope
         THEN "MISMATCHED"
    ELSE "VALID"

BoundBytes(f) == Has(file, f) /\ Has(file, <<"manifest">>) /\ Matches(<<"manifest">>, f)

\* A log list stands on the manifest-bound copy of the window it was read from.
WindowBound(l) == LET w == <<"window", l[2], l[3]>> IN BoundBytes(w) /\ file[w] = file[l]

\* verify_reconciliation: the bindings first, then the events.
VerifyRecon(g) ==
    LET rec == file[<<"recon", g>>] IN
    IF ~Has(file, <<"recon", g>>) THEN "MISSING"
    ELSE IF rec.fault = "broken" THEN "INVALID"
    ELSE IF \/ rec.fault = "commit"
            \/ \E f \in {<<"ex5">>, <<"symbolspec">>} :
                    Has(file, f) /\ ~Matches(<<"recon", g>>, f)
            \/ \E l \in ListsOf(file, g) : ~Matches(<<"recon", g>>, l)
         THEN "MISMATCHED"
    ELSE IF \E l \in Lists : /\ l[2] = g
                             /\ \/ Has(says[<<"recon", g>>], l) /\ ~Has(file, l)
                                \/ Has(file, l) /\ ~WindowBound(l)
         THEN "INVALID"
    ELSE IF rec.fault = "divergent" THEN "MISMATCHED" ELSE "VALID"

\* Mutant: only that the bytes are bound.
RegradedUnread(t) == BoundBytes(<<"raw", t>>)

\* _regrade_safety: the graders run again on the bytes the manifest binds give
\* what the safety file states.
Regraded(t) == BoundBytes(<<"raw", t>>) /\ file[<<"raw", t>>].fault = file[<<"safety", t>>].fault

\* verify_safety: the file's own hash of its raw evidence, then the re-grade,
\* then the pinned expectation.
VerifySafety(t) ==
    LET doc == file[<<"safety", t>>]
        raw == <<"raw", t>>
    IN IF ~Has(file, <<"safety", t>>) THEN "MISSING"
       ELSE IF ~Has(file, raw) THEN "INVALID"
       ELSE IF ~Matches(<<"safety", t>>, raw) THEN "MISMATCHED"
       ELSE IF ~Regraded(t) THEN "INVALID"
       ELSE IF doc.fault = "failed" THEN "INVALID" ELSE "VALID"

VerifyEnvironment ==
    IF ~Has(file, <<"environment">>) THEN "MISSING"
    ELSE IF file[<<"environment">>].fault = "gap" THEN "INVALID"
    ELSE "VALID"

\* verify_archive_manifest: the required files are bound, and every bound
\* file has the recorded bytes.
ManifestRequired ==
    (Required \ {<<"manifest">>, <<"stage5">>})
    \cup {l \in LogLegs(file) : l[2] \in scope}
    \cup {w \in Windows : w[2] \in scope /\ Has(file, <<"list", w[2], w[3]>>)}
    \cup IF \E l \in NaLegs : l[2] \in scope THEN {<<"stage5">>} ELSE {}
VerifyManifest ==
    LET arts == says[<<"manifest">>] IN
    IF ~Has(file, <<"manifest">>) THEN "MISSING"
    ELSE IF \E f \in ManifestRequired : ~Has(arts, f) THEN "INVALID"
    ELSE IF \E f \in DOMAIN arts : ~Has(file, f) \/ arts[f] # file[f] THEN "MISMATCHED"
    ELSE "VALID"

Wrong == {"INVALID", "MISMATCHED", "STALE"}
Report ==
    [golds    |-> [g \in scope |-> VerifyRecon(g)],
     safety   |-> [t \in Tests |-> VerifySafety(t)],
     missing  |-> MissingFiles,
     ambiguous |-> Ambiguous,
     partial  |-> scope # Golds,
     clean    |-> FALSE,   \* ghost: was the package clean
     identity |-> <<VerifyCompile, VerifySymbolspec, VerifyEnvironment, VerifyManifest>>,
     coverage |-> IF VerifyCoverage = "VALID" THEN file[<<"coverage">>].fault ELSE VerifyCoverage]

\* The verdict ladder.
Verdict(r) ==
    IF \/ r.ambiguous # {}
       \/ \E i \in DOMAIN r.identity : r.identity[i] \in Wrong
       \/ \E g \in DOMAIN r.golds : r.golds[g] \in {"INVALID", "MISMATCHED"}
       \/ \E t \in Tests : r.safety[t] = "INVALID"
       \/ r.coverage = "MISMATCHED"
    THEN "NOT_VERIFIED_ARTIFACT_MISMATCH"
    ELSE IF \E g \in DOMAIN r.golds : r.golds[g] = "MISSING"
    THEN "NOT_VERIFIED_RECONCILIATION_MISSING"
    ELSE IF \/ r.missing # {} \/ \E t \in Tests : r.safety[t] = "MISSING"
            \/ r.coverage \in {"MISSING", "INVALID"}
    THEN "NOT_VERIFIED_MISSING_MT5_EVIDENCE"
    ELSE IF r.coverage = "NONE"
    THEN IF r.partial THEN "MT5_VALIDATED_BAR_MODELS_PARTIAL_SCOPE" ELSE "MT5_VALIDATED_BAR_MODELS"
    ELSE IF r.coverage # "FULL" THEN "NOT_VERIFIED_REAL_TICK_COVERAGE_UNKNOWN"
    ELSE IF r.partial THEN "MT5_VALIDATED_PARTIAL_SCOPE" ELSE "MT5_VALIDATED"
Positive == {"MT5_VALIDATED", "MT5_VALIDATED_BAR_MODELS"}

-----------------------------------------------------------------------------
(* What a verdict should mean *)

\* A window counts where its list is: without one it is evidence of nothing.
InScope == {f \in Files : /\ f[1] \in {"list", "window", "recon"} => f[2] \in scope
                          /\ f[1] = "window" => Has(file, <<"list", f[2], f[3]>>)
                          /\ f = <<"stage5">> => \E l \in NaLegs : l[2] \in scope}
Sound == {"none", "FULL", "NONE"}
LegFiles(g, m) == {<<"list", g, m>>, <<"window", g, m>>}

\* Everything required is there, nothing in scope is at fault, and the evidence
\* is what its recorders recorded.
PackageClean ==
    /\ \A f \in (Required \ {<<"stage5">>}) \cup UNION {LegFiles(g, m) : g \in scope, m \in BarLegs} :
            Has(file, f)
    /\ \A f \in InScope \cap DOMAIN file : file[f].fault \in Sound
    /\ \A f \in {<<"compile_metadata">>} \cup (Recons \cap InScope) : CommitAccepted(na[file[f].run].head)
    /\ \A r \in Recorders \cap InScope : \A f \in InScope \cap DOMAIN says[r] : Matches(r, f)

\* The owner's own coverage record is of no run.
OneRun == \A f \in (InScope \cap DOMAIN file) \ {<<"coverage">>} : file[f].run = run

Verify ==
    /\ pc = "idle" /\ run > 0
    /\ report' = [Report EXCEPT !.clean = PackageClean]
    /\ UNCHANGED <<scope, run, na, ev, file, says, built, wrote, pc, faults, touches, interrupts,
                   bound, certified>>

\* Stage 9 binds the report by its hash.
Archive ==
    /\ report # NoReport /\ bound # report
    /\ bound' = report
    /\ UNCHANGED <<scope, run, na, ev, file, says, built, wrote, pc, faults, touches, interrupts,
                   report, certified>>

\* Mutant: the verdict stands for the safety results.
IssueOnVerdict ==
    /\ report # NoReport /\ report = bound
    /\ Verdict(report) \in Positive /\ ~report.partial /\ report.missing = {}
    /\ DOMAIN report.golds = Golds /\ \A g \in Golds : report.golds[g] = "VALID"
    /\ certified # report /\ certified' = report
    /\ UNCHANGED <<scope, run, na, ev, file, says, built, wrote, pc, faults, touches, interrupts,
                   report, bound>>

\* gate_certificate.issue_certificate
IssueCertificate ==
    /\ report # NoReport /\ report = bound
    /\ Verdict(report) \in Positive /\ ~report.partial /\ report.missing = {}
    /\ DOMAIN report.golds = Golds /\ \A g \in Golds : report.golds[g] = "VALID"
    /\ \A t \in Tests : report.safety[t] = "VALID"
    /\ certified # report /\ certified' = report
    /\ UNCHANGED <<scope, run, na, ev, file, says, built, wrote, pc, faults, touches, interrupts,
                   report, bound>>

GateInit ==
    /\ scope \in Scopes
    /\ run = 0 /\ na = [r \in 1..MaxRuns |-> [golds |-> {}, head |-> "anchor"]]
    /\ ev = Nothing /\ file = Nothing /\ says = [r \in Recorders |-> Nothing]
    /\ built = {} /\ wrote = {} /\ pc = "idle"
    /\ faults = 0 /\ touches = 0 /\ interrupts = 0
    /\ report = NoReport /\ bound = NoReport /\ certified = NoReport

GateNext == \/ GateRun \/ BuildStep \/ Interrupt
            \/ AlterFile \/ RemoveFile \/ OwnerCoverage \/ Rebind
            \/ Verify \/ Archive \/ IssueCertificate
-----------------------------------------------------------------------------
(* Properties *)

Idle == pc = "idle" /\ run > 0
SaysYes == Verdict(Report) \in Positive \cup {"MT5_VALIDATED_PARTIAL_SCOPE",
                                              "MT5_VALIDATED_BAR_MODELS_PARTIAL_SCOPE"}

\* A positive verdict with no safety file at odds with its own raw evidence
\* speaks of a clean package: whatever was missing, failed, edited, removed,
\* bound again, or left by an interrupted build (owner_gate.run_gate).
PositiveIsClean ==
    (Idle /\ SaysYes /\ \A t \in Tests : VerifySafety(t) # "MISMATCHED") => PackageClean

\* When no build was interrupted, a positive verdict is about the last run: no
\* list, window, test or log of an earlier run is behind it (the record of
\* real-tick coverage is the owner's and outlives a run).
PositiveIsOneRun == (Idle /\ SaysYes /\ interrupts = 0) => OneRun

\* A certificate was issued of a clean package with every gold in scope, even
\* when the package was touched after the report (gate_certificate.py asks
\* every safety result, which the verdict does not).
CertifiedIsClean == certified # NoReport => (certified.clean /\ DOMAIN certified.golds = Golds)

\* "missing, stale, wrong, partial or simulated evidence can NEVER become a
\* positive verdict" (owner_gate.py:23-25): the ladder asks only for INVALID
\* safety files, one whose raw evidence changed is MISMATCHED and passes.
FailClosed == (Idle /\ Verdict(Report) \in Positive) => PackageClean

\* What a positive verdict and a certificate are worth (owner_gate.run_gate,
\* gate_certificate.issue): a clean package of one run, and a clean one still at issue.
PositiveIsSound == PositiveIsClean /\ PositiveIsOneRun /\ CertifiedIsClean
=============================================================================
