-------------------------- MODULE ResearchService --------------------------
(***************************************************************************)
(* discovery/research_service.py run for a campaign posted on the console  *)
(* (api/main.py create_campaign): measure the grid, select, register the   *)
(* selected variant, climb the ladder with one evidence run per rung, take *)
(* one look at the out-of-sample bars, promote to SHADOW or reject.  Every *)
(* call of the store is a step, and the process may die between two.       *)
(* A campaign's strategy id is derived from its campaign id: one name      *)
(* stands for both.                                                        *)
(***************************************************************************)
EXTENDS Store

-----------------------------------------------------------------------------
(***************************************************************************)
(* Research gates 0 to 9 of factory/gates.py.  A measurement is "good"     *)
(* (inside the policy's limit), "bad" (outside it) or "missing" (its key   *)
(* is absent from the metrics); the limits themselves are data.            *)
(***************************************************************************)
Marks == {"good", "bad", "missing"}

\* Per gate: the keys without which it is skipped, and the keys that are only
\* looked at when they are there.
Gate(need, opt) == [need |-> need, opt |-> opt]
GateTable ==
    [ gate0_schema      |-> Gate({"schema_valid"}, {}),
      gate1_semantic    |-> Gate({"semantic_ok"}, {}),
      gate2_backtest    |-> Gate({"n_trades", "years", "pf", "max_dd_pct"},
                                 {"top10_profit_share", "positive_quarters_share",
                                  "edge_to_cost"}),
      gate3_costs       |-> Gate({"pf_under_cost_stress"}, {}),
      gate4_robustness  |-> Gate({"param_sensitivity_dd_ratio"}, {}),
      gate5_walk_forward |-> Gate({"wfe"}, {}),
      gate6_cpcv_pbo    |-> Gate({"pbo"}, {"dsr_p"}),
      gate7_monte_carlo |-> Gate({"mc_p05_dd_pct"}, {}),
      gate8_regime      |-> Gate({"positive_in_expected_regime"}, {}) ]

PortfolioKeys == {"max_correlation_with_book", "marginal_heat_add"}
MetricKeys == PortfolioKeys \cup UNION {GateTable[g].need \cup GateTable[g].opt :
                                            g \in DOMAIN GateTable}

\* evaluate_gates for gates 0 to 8: missing input is a skip, never a pass.
Verdict(gate, m) ==
    IF \E k \in GateTable[gate].need : m[k] = "missing" THEN "SKIP"
    ELSE IF \E k \in GateTable[gate].need \cup GateTable[gate].opt : m[k] = "bad" THEN "FAIL"
    ELSE "PASS"

\* Gate 9 is skipped only when both of its measurements are missing.
PortfolioVerdict(m) ==
    IF \A k \in PortfolioKeys : m[k] = "missing" THEN "SKIP"
    ELSE IF \E k \in PortfolioKeys : m[k] = "bad" THEN "FAIL"
    ELSE "PASS"

EvaluateGates(m) == {Verdict(g, m) : g \in DOMAIN GateTable} \cup {PortfolioVerdict(m)}

\* Mutant: a skipped gate does not hold the verdict back.
OverallOfSkipped(m) == IF "FAIL" \in EvaluateGates(m) THEN "FAIL" ELSE "PASS"

Overall(m) ==
    IF "FAIL" \in EvaluateGates(m) THEN "FAIL"
    ELSE IF "SKIP" \in EvaluateGates(m) THEN "SKIP"
    ELSE "PASS"

-----------------------------------------------------------------------------
CONSTANTS Grid,            \* the variants of the declared grid; each is a spec
          MetricInputs,    \* the measurements a variant may show
          MAX_RUNNING_CAMPAIGNS,
          MaxPosts, MaxCrashes

ASSUME ServiceAssumption ==
    /\ Grid \subseteq Specs /\ Specs \ Grid # {}    \* the base draft is not of its grid
    /\ MetricInputs \subseteq [MetricKeys -> Marks]
    /\ MAX_RUNNING_CAMPAIGNS \in Nat /\ MaxPosts \in Nat /\ MaxCrashes \in Nat

VARIABLES campaigns,       \* id -> status of its row, or "none"
          run,             \* client -> the research run it executes
          oosRead,         \* campaigns whose out-of-sample bars were read before selection
          posts,           \* campaign -> times it was posted
          crashes

serviceVars == <<campaigns, run, oosRead, posts, crashes>>

Idle == [pc |-> "idle"]
NoMarks == [k \in MetricKeys |-> "missing"]
RunSteps == [pc : {"insert", "measure", "register", "record", "advance", "write",
                 "verdict", "reject", "rejected", "finish"},
           id : Strategies, spec : Specs \cup {NoSpec}, rung : 1..6,
           gates : BOOLEAN, rob : BOOLEAN, oos : BOOLEAN,
           marks : MetricInputs \cup {NoMarks}]

ServiceInit ==
    /\ campaigns = [s \in Strategies |-> "none"]
    /\ run = [c \in Clients |-> Idle]
    /\ oosRead = {}
    /\ posts = [s \in Strategies |-> 0] /\ crashes = 0

At(c, pc) == run[c].pc = pc
Goto(c, pc) == run' = [run EXCEPT ![c].pc = pc]
Rung(c, k) == run' = [run EXCEPT ![c].pc = "record", ![c].rung = k]
Leave(c) == run' = [run EXCEPT ![c] = Idle]
StoreOnly == UNCHANGED <<campaigns, oosRead, posts, crashes>>
ServiceOnly == UNCHANGED <<storeVars, oosRead, posts, crashes>>

\* POST /campaigns: an existing campaign is run again whatever its status; a
\* new one is refused (429) when too many are RUNNING.
PostCampaign(c, s) ==
    /\ run[c] = Idle /\ posts[s] < MaxPosts
    /\ posts' = [posts EXCEPT ![s] = @ + 1]
    /\ campaigns[s] = "none" =>
         Cardinality({t \in Strategies : campaigns[t] = "RUNNING"}) < MAX_RUNNING_CAMPAIGNS
    /\ run' = [run EXCEPT ![c] =
                 [pc |-> IF campaigns[s] = "none" THEN "insert" ELSE "measure",
                  id |-> s, spec |-> NoSpec, rung |-> 1,
                  gates |-> FALSE, rob |-> FALSE, oos |-> FALSE, marks |-> NoMarks]]
    /\ UNCHANGED <<storeVars, campaigns, oosRead, crashes>>

\* The count and the insert are two statements: another request may have
\* inserted in between (the same id is refused by its unique column).
InsertCampaign(c) ==
    /\ At(c, "insert")
    /\ IF campaigns[run[c].id] = "none"
       THEN /\ campaigns' = [campaigns EXCEPT ![run[c].id] = "RUNNING"]
            /\ Goto(c, "measure")
       ELSE UNCHANGED campaigns /\ Leave(c)
    /\ ServiceOnly

\* The gates' verdict on every measurement.
GateOutcome == [m \in MetricInputs |-> Overall(m)]

\* measure_stage over the grid, cut short by the time budget, and the choice
\* among the survivors, or of the best of the rest.  The gate inputs of every
\* variant are computed on the whole series.
Measure(c) ==
    /\ At(c, "measure")
    /\ \E measured \in SUBSET Grid : \E m \in [measured -> MetricInputs] :
         LET survivors == {x \in measured : GateOutcome[m[x]] = "PASS"}
             from == IF survivors # {} THEN survivors ELSE measured
         IN /\ IF measured = {}
               THEN run' = [run EXCEPT ![c].pc = "register"]
               ELSE \E x \in from, oos \in BOOLEAN,
                       rob \in IF survivors # {} THEN BOOLEAN ELSE {FALSE} :
                      run' = [run EXCEPT ![c].pc = "register", ![c].spec = x, ![c].oos = oos,
                                 ![c].gates = (survivors # {}), ![c].rob = rob,
                                 ![c].marks = m[x]]
            /\ oosRead' = oosRead \cup {run[c].id : x \in measured}
    /\ UNCHANGED <<storeVars, campaigns, posts, crashes>>

\* The selected variant, or the base draft when nothing was measured.
SpecOf(r) == IF r.spec = NoSpec THEN CHOOSE x \in Specs \ Grid : TRUE ELSE r.spec

\* Register it as version 1; a second run finds its spec there.  A run that
\* measured nothing ends here.
RegisterSelected(c) ==
    LET r == run[c] IN
    /\ At(c, "register")
    /\ \/ RegisterStrategy(r.id, 1, SpecOf(r), TRUE, FALSE)
       \/ versions[r.id][1] = SpecOf(r) /\ UNCHANGED storeVars
    /\ run' = [run EXCEPT ![c].pc = IF r.spec = NoSpec THEN "finish" ELSE "record",
                          ![c].marks = NoMarks]
    /\ StoreOnly

\* Mutant: the out-of-sample evidence is recorded as passed.
PassedOosAlways(r) == (r.rung = 3 => r.gates) /\ (r.rung = 4 => r.rob)

\* What the evidence of a rung says: parse, schema and shadow_entry are
\* recorded as passed, the others as measured.
Passed(r) ==
    /\ r.rung = 3 => r.gates
    /\ r.rung = 4 => r.rob
    /\ r.rung = 5 => r.oos

RecordRung(c) ==
    LET r == run[c] IN
    /\ At(c, "record")
    /\ RecordRun([id |-> r.id, version |-> 1, type |-> Required[r.rung],
                  status |-> IF Passed(r) THEN "PASS" ELSE "FAIL", hash |-> r.spec])
    /\ IF r.rung = 5 THEN Goto(c, "verdict")
       ELSE IF r.rung \in {3, 4} /\ ~Passed(r) THEN Rung(c, 5)
       ELSE Goto(c, "advance")
    /\ StoreOnly

Evidence(r) == {q \in runs : /\ q.id = r.id /\ q.version = 1 /\ q.hash = r.spec
                             /\ q.type = Required[r.rung] /\ q.status = "PASS"}

\* Mutant: a rung already passed is waited for.
AdvanceNextOnly(c) ==
    LET r == run[c]
        target == Ladder[r.rung + 1]
    IN /\ At(c, "advance") /\ Promotes(CurrentState(r.id), target)
       /\ Decide(c, r.id, 1, target, Evidence(r), "factory", FALSE)
       /\ Goto(c, "write")
       /\ StoreOnly

\* advance: nothing to do unless the target is the next rung of the ladder.
AdvanceRung(c) ==
    LET r == run[c]
        target == Ladder[r.rung + 1]
    IN /\ At(c, "advance")
       /\ IF Promotes(CurrentState(r.id), target)
          THEN /\ Decide(c, r.id, 1, target, Evidence(r), "factory", FALSE)
               /\ Goto(c, "write")
          ELSE /\ IF r.rung = 6 THEN Goto(c, "finish") ELSE Rung(c, r.rung + 1)
               /\ UNCHANGED storeVars
       /\ StoreOnly

WriteRung(c) ==
    /\ At(c, "write") /\ Commit(c)
    /\ IF run[c].rung = 6 THEN Goto(c, "finish") ELSE Rung(c, run[c].rung + 1)
    /\ StoreOnly

\* promoted: every verdict is good and the strategy stands at ROBUSTNESS_PASS.
FinalVerdict(c) ==
    LET r == run[c] IN
    /\ At(c, "verdict")
    /\ IF r.gates /\ r.rob /\ r.oos /\ CurrentState(r.id) = "ROBUSTNESS_PASS"
       THEN Goto(c, "advance")
       ELSE Goto(c, IF CurrentState(r.id) \in {"REJECTED", "DRAFT"} THEN "finish" ELSE "reject")
    /\ UNCHANGED campaigns /\ ServiceOnly

RejectSelected(c) ==
    /\ At(c, "reject")
    /\ Decide(c, run[c].id, 1, "REJECTED", {}, "factory", FALSE)
    /\ Goto(c, "rejected")
    /\ StoreOnly

WriteRejection(c) ==
    /\ At(c, "rejected") /\ Commit(c) /\ Goto(c, "finish") /\ StoreOnly

\* console_runner marks the row when run_idea has returned.
FinishCampaign(c) ==
    /\ At(c, "finish")
    /\ campaigns' = [campaigns EXCEPT ![run[c].id] = "DONE"]
    /\ Leave(c)
    /\ ServiceOnly

\* A refusal of the store is an exception: the run ends, its row stays RUNNING.
RunRaises(c) ==
    LET r == run[c] IN
    /\ \/ /\ At(c, "register") /\ versions[r.id][1] # SpecOf(r)
          /\ ~MayRegister(r.id, 1, SpecOf(r), TRUE, FALSE)
       \/ /\ At(c, "advance") /\ Promotes(CurrentState(r.id), Ladder[r.rung + 1])
          /\ Judge(r.id, 1, Ladder[r.rung + 1], Evidence(r), "factory", FALSE) = "refused"
       \/ /\ At(c, "reject")
          /\ Judge(r.id, 1, "REJECTED", {}, "factory", FALSE) = "refused"
    /\ Leave(c) /\ UNCHANGED campaigns /\ ServiceOnly

\* The console's process dies with every run it executes; what they had
\* decided is lost.
Crash ==
    /\ \E c \in Clients : run[c] # Idle
    /\ crashes < MaxCrashes
    /\ crashes' = crashes + 1
    /\ run' = [c \in Clients |-> Idle]
    /\ pending' = [c \in Clients |-> NoDecision]
    /\ UNCHANGED <<strategies, versions, runs, events, campaigns, oosRead, posts>>

RunStep(c) ==
    \/ InsertCampaign(c) \/ Measure(c) \/ RegisterSelected(c) \/ RecordRung(c)
    \/ AdvanceRung(c) \/ WriteRung(c) \/ FinalVerdict(c) \/ RejectSelected(c)
    \/ WriteRejection(c) \/ FinishCampaign(c) \/ RunRaises(c)

ServiceNext ==
    \/ \E c \in Clients, s \in Strategies : PostCampaign(c, s)
    \/ \E c \in Clients : RunStep(c)
    \/ Crash
-----------------------------------------------------------------------------
(* Properties *)

\* A variant counts as a survivor of the gates only if every measurement they
\* ask for was there and none that was there is outside its limit ("missing
\* evidence is not a pass", gates.py:241).
GatesNeedMeasurements ==
    \A c \in Clients : (At(c, "register") /\ run[c].gates) =>
        /\ \A k \in MetricKeys : run[c].marks[k] # "bad"
        /\ {k \in MetricKeys : run[c].marks[k] = "missing"} \subseteq
             {"top10_profit_share", "positive_quarters_share", "edge_to_cost", "dsr_p",
              "max_correlation_with_book", "marginal_heat_add"}
        /\ \E k \in PortfolioKeys : run[c].marks[k] = "good"

\* Only a campaign whose measurements were complete and inside every limit,
\* and whose robustness and out-of-sample looks passed, brings a strategy to
\* SHADOW: across crashes, second posts and two runs of the same campaign.
SurvivorPassedEverything ==
    \A s \in Strategies : CurrentState(s) = "SHADOW" =>
        \A k \in 3..5 : \E r \in runs :
            /\ r.id = s /\ r.type = Required[k] /\ r.status = "PASS"
            /\ r.hash = versions[s][r.version]

\* A campaign that was posted once is rejected only on evidence that failed.
\* (Posted again it may be rejected on none: a run cut between its last two
\* promotions leaves a survivor where the next run expects ROBUSTNESS_PASS, and
\* two runs at a time set the state back under each other.)
RejectionHasCause ==
    \A k \in 1..Len(events) :
        (/\ events[k].to = "REJECTED" /\ events[k].actor = "factory"
         /\ posts[events[k].id] = 1)
            => \E r \in runs : r.id = events[k].id /\ r.status = "FAIL"

\* The out-of-sample bars are not read before the selection ("no OOS look",
\* research_service.py:170; "OOS untouched", :268).
OosUntouchedBySearch == oosRead = {}

\* A research run that does not die comes to its end: the request that posted
\* the campaign returns.
RunReturns == \A c \in Clients : run[c] # Idle ~> run[c] = Idle

\* A campaign's outcome is the gates' (gates.py:92-236, research_service.py:326-358): a strategy in
\* SHADOW passed them all, a survivor was measured, and a rejected campaign failed.
CampaignsAreHonest == SurvivorPassedEverything /\ GatesNeedMeasurements /\ RejectionHasCause
=============================================================================
