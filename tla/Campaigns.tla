----------------------------- MODULE Campaigns -----------------------------
(***************************************************************************)
(* Staged research campaigns (discovery/orchestrator.py, candidates.py).   *)
(* The campaign dictionary outlives the orchestrator that runs it; an      *)
(* orchestrator is an object of one process.  Stages are numbered as in    *)
(* STAGES.                                                                 *)
(***************************************************************************)
EXTENDS Integers, Sequences, FiniteSets, FiniteSetsExt, SequencesExt, TLC

CONSTANTS Kinds,           \* the space's indicator kinds, sorted
          Grid,            \* kind -> size of its parameter grid
          Symbols,         \* the space's symbols, in order
          MaxFactors, Budget, \* space.max_factors; stage -> budget
          Policies, Datasets, \* hashes a process may run under; "" is none
          MaxRuns          \* bound on runs of the campaign

VARIABLES campaign,        \* the dictionary: done stages, results, hashes, status
          orch,            \* the orchestrator object: hashes, stage results, documents built
          running,         \* inside run_campaign, with its stop_after
          runs

campaignVars == <<campaign, orch, running, runs>>

StageNumbers == 1..5
Survivors == {"OOS_SURVIVOR", "SHADOW", "DEMO", "LIVE_SMALL", "LIVE"}

(* Candidate generation. *)
Doc(s, kinds, variant, symbol) == [stage |-> s, kinds |-> kinds, param |-> variant, symbol |-> symbol]
Singles(s, most) ==
    FlattenSeq([j \in DOMAIN Kinds |->
        [v \in 1..Min({Grid[Kinds[j]], most}) |-> Doc(s, {Kinds[j]}, v, Symbols[1])]])
\* itertools.combinations: index sets in lexicographic order.
Combinations(s, size) ==
    LET earlier(a, b) == a # b /\ Min((a \ b) \cup (b \ a)) \in a
        picks == SetToSortSeq(kSubset(size, DOMAIN Kinds), earlier)
    IN  [j \in DOMAIN picks |-> Doc(s, {Kinds[i] : i \in picks[j]}, 0, Symbols[1])]
Diversifiers(s) ==
    FlattenSeq([j \in DOMAIN Kinds |->
        [y \in 1..(Len(Symbols) - 1) |-> Doc(s, {Kinds[j]}, 0, Symbols[y + 1])]])
Enumerated(s) ==
    CASE s = 1 -> Singles(s, 5)
      [] s = 2 -> Combinations(s, 2)
      [] s = 3 -> Combinations(s, Min({3, Max({1, MaxFactors})}))
      [] s = 4 -> Diversifiers(s)
      [] s = 5 -> Singles(s, 3)
Generated(s) == SubSeq(Enumerated(s), 1, Min({Budget[s], Len(Enumerated(s))}))

\* RedundancyFilter.key names kinds, parameters and stage; the market is not part of it.
Key(d) == <<d.kinds, d.param, d.stage>>
Filtered(docs) ==
    FoldLeft(LAMBDA kept, d : IF \E j \in DOMAIN kept : Key(kept[j]) = Key(d) THEN kept ELSE Append(kept, d),
             <<>>, docs)

(* Running a campaign. *)
Done == DOMAIN campaign.results
NextStages == StageNumbers \ Done
NewOrchestrator(p, d) == [policy |-> p, dataset |-> d, built |-> <<>>]

CampaignsInit ==
    /\ campaign = [results |-> <<>>, policy |-> "", dataset |-> "", status |-> "NEW"]
    /\ orch = NewOrchestrator("", "") /\ running = {} /\ runs = 0

\* Mutant: only the dataset is compared.
AcceptsAnyPolicy(o) == o.dataset = "" \/ campaign.dataset \in {"", o.dataset}

\* Progress earned under another policy or on another dataset is refused.
Accepts(o) ==
    /\ campaign.policy \in {"", o.policy}
    /\ o.dataset = "" \/ campaign.dataset \in {"", o.dataset}

StartRun(o, stopAfter) ==
    /\ running = {} /\ runs < MaxRuns /\ runs' = runs + 1
    /\ Accepts(o) /\ orch' = o /\ running' = {stopAfter}
    /\ UNCHANGED campaign

\* build_docs, then run_stage_fn: the object remembers what it built whether or not the stage fails.
With(f, s, x) == [t \in DOMAIN f \cup {s} |-> IF t = s THEN x ELSE f[t]]
Built(s) == [orch EXCEPT !.built = With(@, s, Filtered(Generated(s)))]
StageToRun(s) == s \in NextStages /\ (\A t \in NextStages : s <= t) /\ \A last \in running : s <= last

RunStage(s) ==
    /\ running # {} /\ StageToRun(s)
    /\ orch' = Built(s)
    /\ \E survivors \in {{}, Range(Filtered(Generated(s)))} :
          campaign' = [campaign EXCEPT !.results =
                          With(@, s, [items |-> Filtered(Generated(s)), survivors |-> survivors,
                                      policy |-> orch.policy, dataset |-> orch.dataset])]
    /\ UNCHANGED <<running, runs>>

StageRaises(s) ==
    /\ running # {} /\ StageToRun(s)
    /\ orch' = Built(s) /\ running' = {}
    /\ UNCHANGED <<campaign, runs>>

\* The hashes are stored at the end of a run only.
FinishRun ==
    /\ running # {} /\ ~\E s \in NextStages : StageToRun(s)
    /\ campaign' = [campaign EXCEPT !.status = IF NextStages = {} THEN "DONE" ELSE "PAUSED",
                                    !.policy = orch.policy, !.dataset = orch.dataset]
    /\ running' = {}
    /\ UNCHANGED <<orch, runs>>

\* trial_accounting: totals from the dictionary, kept and dropped from the object.
Items(s) == Range(campaign.results[s].items)
TrialAccounting ==
    [total |-> MapThenSumSet(LAMBDA s : Len(campaign.results[s].items), Done),
     selected |-> UNION {campaign.results[s].survivors : s \in Done},
     rejected |-> UNION {Items(s) \ campaign.results[s].survivors : s \in Done},
     trials |-> MapThenSumSet(LAMBDA s : Len(Generated(s)), Done \cap DOMAIN orch.built)]

CampaignsNext ==
    \/ \E p \in Policies, d \in Datasets, last \in {2, 5} : StartRun(NewOrchestrator(p, d), last)
    \/ StartRun(orch, 5)
    \/ \E s \in StageNumbers : RunStage(s) \/ StageRaises(s)
    \/ FinishRun

-----------------------------------------------------------------------------
(* What must hold. *)

\* orchestrator.run_campaign: a completed stage is never run again or lost, whichever stage raises;
\* once a run has finished, no stage earned under another policy joins the campaign.
CampaignIsResumable ==
    [][/\ \A s \in Done : s \in DOMAIN campaign'.results /\ campaign'.results[s] = campaign.results[s]
       /\ \A s \in DOMAIN campaign'.results \ Done :
             campaign.policy # "" => campaign'.results[s].policy = campaign.policy
       /\ \A s, t \in DOMAIN campaign'.results : s < t /\ t \in Done => s \in Done]_campaignVars

\* orchestrator.py:132 "progress is bound to the policy": no two stages earned under two policies.
OnePolicyPerCampaign ==
    \A s, t \in Done : campaign.results[s].policy = campaign.results[t].policy

\* orchestrator.py:198 "the system must know how many alternatives it tried": the trials reported
\* cover every document generated for the stages on record.
TrialsAreAllCounted ==
    TrialAccounting.trials >= MapThenSumSet(LAMBDA s : Len(Generated(s)), Done)
=============================================================================
