--------------------------- MODULE FactoryProofs ---------------------------
(***************************************************************************)
(* Proofs about the factory as MCFactory composes it, for any number of    *)
(* strategies, clients, versions, posts and crashes and any documents.     *)
(*                                                                         *)
(* Every action of the console and of the research runs is shown to be one *)
(* of the store's few writes (StoreStep), so that what is said of the rows *)
(* is shown once per write.  LadderInv is the argument for the ladder: a   *)
(* state that is written, and one that is only decided, rests on passing   *)
(* evidence for each rung below, and evidence once bound stays bound.      *)
(* CauseInv is the argument for rejections: a campaign posted once has one *)
(* run, which is where its pc says on the ladder unless something failed.  *)
(***************************************************************************)
EXTENDS MCFactory, FiniteSetTheorems, WellFoundedInduction, TLAPS

-----------------------------------------------------------------------------
(* The ladder                                                               *)

LEMMA LadderSizes == Len(Ladder) = 10 /\ Len(Required) = 9
BY DEF Ladder, Required

LEMMA LadderFacts ==
    /\ Rungs = 1..9
    /\ Ladder[1] = "DRAFT" /\ Ladder[2] = "PARSED" /\ Ladder[3] = "VALIDATED"
    /\ Ladder[4] = "BACKTESTED" /\ Ladder[5] = "ROBUSTNESS_PASS" /\ Ladder[6] = "OOS_SURVIVOR"
    /\ Ladder[7] = "SHADOW" /\ Ladder[8] = "DEMO" /\ Ladder[9] = "LIVE_SMALL" /\ Ladder[10] = "LIVE"
BY LadderSizes DEF Ladder, Rungs

LEMMA RungsByNumber ==
    ASSUME NEW k \in 1..9
    PROVE  k = 1 \/ k = 2 \/ k = 3 \/ k = 4 \/ k = 5 \/ k = 6 \/ k = 7 \/ k = 8 \/ k = 9
OBVIOUS

\* A state stands on one rung.
LEMMA OneRung ==
    ASSUME NEW j \in 1..10, NEW k \in 1..10, Ladder[j] = Ladder[k]
    PROVE  j = k
BY LadderFacts

LEMMA Ranks == \A k \in 1..10 : RankOf(Ladder[k]) = k
BY OneRung, LadderSizes DEF RankOf

LEMMA StatesListed ==
    AllStates = {"DRAFT", "PARSED", "VALIDATED", "BACKTESTED", "ROBUSTNESS_PASS", "OOS_SURVIVOR",
                 "SHADOW", "DEMO", "LIVE_SMALL", "LIVE", "REJECTED", "RETIRED", "DEGRADED", "PAUSED"}
<1>1. ASSUME NEW k \in 1..10
      PROVE  k = 10 \/ k \in 1..9
  OBVIOUS
<1>2. OnLadder = {"DRAFT", "PARSED", "VALIDATED", "BACKTESTED", "ROBUSTNESS_PASS", "OOS_SURVIVOR",
                  "SHADOW", "DEMO", "LIVE_SMALL", "LIVE"}
  BY <1>1, LadderFacts, LadderSizes, RungsByNumber DEF OnLadder
<1> QED BY <1>2 DEF AllStates, TerminalStates

\* The evidence for the step from rung k is the run type of that rung.
LEMMA OneEvidence ==
    ASSUME NEW k \in 1..9
    PROVE  RequiredEvidence(Ladder[k], Ladder[k + 1]) = {Required[k]}
BY OneRung, LadderFacts DEF RequiredEvidence

LEMMA PromotionsByRung ==
    ASSUME NEW cur, NEW tgt, Promotes(cur, tgt)
    PROVE  \E k \in 1..9 : cur = Ladder[k] /\ tgt = Ladder[k + 1]
BY LadderFacts DEF Promotes

LEMMA FailureTargets ==
    ASSUME NEW cur, NEW tgt, <<cur, tgt>> \in FailureMoves
    PROVE  \/ tgt = "REJECTED"
           \/ tgt = "DEGRADED" /\ cur \in {"SHADOW", "LIVE"}
           \/ tgt = "PAUSED" /\ cur \in {"DEMO", "LIVE_SMALL"}
BY DEF FailureMoves

LEMMA RecoveryTargets ==
    ASSUME NEW cur, NEW tgt, <<cur, tgt>> \in RecoveryMoves
    PROVE  \/ tgt \in {"DEMO", "LIVE_SMALL"} /\ cur = "PAUSED"
           \/ tgt = "SHADOW" /\ cur = "DEGRADED"
BY DEF RecoveryMoves

\* Each verdict of check_transition and what it was given for.
LEMMA CheckFacts ==
    ASSUME NEW cur, NEW tgt, NEW refs, NEW actor, NEW kind,
           kind = CheckTransition(cur, tgt, refs, actor), kind # "refused"
    PROVE  \/ kind = "retire" /\ tgt = "RETIRED"
           \/ kind = "promote" /\ Promotes(cur, tgt)
           \/ kind = "fail" /\ <<cur, tgt>> \in FailureMoves
           \/ kind = "recover" /\ <<cur, tgt>> \in RecoveryMoves
BY Zenon DEF CheckTransition

\* Of a decision store.transition takes: a promotion has its evidence, and to
\* a state with money in it a human's approval.
LEMMA JudgeFacts ==
    ASSUME NEW s, NEW v, NEW tgt, NEW refs, NEW actor, NEW approved,
           Judge(s, v, tgt, refs, actor, approved) # "refused"
    PROVE  LET kind == Judge(s, v, tgt, refs, actor, approved)
               cur == CurrentState(s) IN
           \/ kind = "retire" /\ tgt = "RETIRED"
           \/ /\ kind = "promote" /\ Promotes(cur, tgt)
              /\ tgt \in HumanApprovalStates => approved /\ actor \in HumanActors
              /\ \E r \in refs : EvidenceBindsTo(r, s, v, RequiredEvidence(cur, tgt))
           \/ kind = "fail" /\ <<cur, tgt>> \in FailureMoves
           \/ kind = "recover" /\ <<cur, tgt>> \in RecoveryMoves
<1> DEFINE kind == CheckTransition(CurrentState(s), tgt, refs, actor)
<1>1. Judge(s, v, tgt, refs, actor, approved) = kind /\ kind # "refused"
  BY Zenon DEF Judge
<1>2. kind = "promote" =>
        /\ tgt \in HumanApprovalStates => approved /\ actor \in HumanActors
        /\ \E r \in refs : EvidenceBindsTo(r, s, v, RequiredEvidence(CurrentState(s), tgt))
  BY <1>1, Zenon DEF Judge
<1> HIDE DEF kind
<1>3. \/ kind = "retire" /\ tgt = "RETIRED"
      \/ kind = "promote" /\ Promotes(CurrentState(s), tgt)
      \/ kind = "fail" /\ <<CurrentState(s), tgt>> \in FailureMoves
      \/ kind = "recover" /\ <<CurrentState(s), tgt>> \in RecoveryMoves
  BY <1>1, CheckFacts DEF kind
<1> QED BY <1>1, <1>2, <1>3

-----------------------------------------------------------------------------
(* Types                                                                    *)

RunShape ==
    /\ run \in [Clients -> RunSteps \cup {Idle}]
    /\ \A c \in Clients :
         run[c].pc \in {"record", "advance", "write", "verdict", "reject", "rejected"} =>
            run[c].spec \in Specs

\* A strategy has a version from the moment it has a state.
KnownAreRegistered ==
    /\ \A s \in Strategies : Known(s) => Registered(s) # {}
    /\ \A c \in Clients : pending[c] # NoDecision => Registered(pending[c].id) # {}

StoreTypes == StoreTypeOK /\ events \in Seq(EventRow) /\ KnownAreRegistered

FactoryTypes ==
    /\ StoreTypes
    /\ request \in [Clients -> RequestRow \cup {NoRequest}]
    /\ RunShape

LEMMA VersionOne == 1 \in Versions /\ 0 \in Versions /\ \A v \in Versions : v \in Nat
BY StoreAssumption DEF Versions

LEMMA SpecsToShow == (CHOOSE x \in Specs : TRUE) \in Specs /\ Grid \subseteq Specs
BY ServiceAssumption

\* LatestVersion is a registered version.
LEMMA LatestExists ==
    ASSUME NEW s, Registered(s) # {}
    PROVE  LatestVersion(s) \in Registered(s)
<1> DEFINE left == {MaxVersion - v : v \in Registered(s)}
<1>1. Registered(s) \subseteq 0..MaxVersion /\ MaxVersion \in Nat
  BY StoreAssumption DEF Registered, Versions
<1>2. left \subseteq Nat /\ left # {}
  BY <1>1
<1>3. PICK x \in left : \A y \in left : ~(y < x)
  <2> HIDE DEF left
  <2>1. PICK R : R = OpToRel(<, Nat)
    OBVIOUS
  <2>2. IsWellFoundedOn(R, Nat)
    BY <2>1, NatLessThanWellFounded, Zenon
  <2>3. PICK x \in left : \A y \in left : ~(<<y, x>> \in R)
    BY <1>2, <2>2, WFMin
  <2>4. R = {ss \in Nat \X Nat : ss[1] < ss[2]}
    BY <2>1 DEF OpToRel
  <2>5. \A y \in Nat : y < x => <<y, x>> \in R
    BY <1>2, <2>4
  <2> QED BY <1>2, <2>3, <2>5, Zenon
<1>5. PICK v \in Registered(s) : x = MaxVersion - v
  BY <1>3
<1>6. ASSUME NEW w \in Registered(s)
      PROVE  w <= v
  <2>1. MaxVersion - w \in left /\ w \in Nat /\ v \in Nat
    BY <1>1
  <2>2. ~(MaxVersion - w < MaxVersion - v)
    BY <1>3, <1>5, <2>1
  <2> QED BY <1>1, <2>1, <2>2
<1> QED BY <1>6 DEF LatestVersion

\* What the clients do to the database, one row at a time.
Drop ==
    /\ pending' \in [Clients -> EventRow \cup {NoDecision}]
    /\ \A c \in Clients : pending'[c] \in {pending[c], NoDecision}
    /\ UNCHANGED <<strategies, versions, runs, events>>

StoreStep ==
    \/ \E s \in Strategies, v \in Versions, x \in Specs, executable, parent \in BOOLEAN :
            RegisterStrategy(s, v, x, executable, parent)
    \/ \E row \in RunRow : RecordRun(row)
    \/ \E c \in Clients, s \in Strategies, v \in Versions, tgt \in AllStates,
          refs \in SUBSET RunRow, actor \in Actors, approved \in BOOLEAN :
            Decide(c, s, v, tgt, refs, actor, approved)
    \/ \E c \in Clients : Commit(c)
    \/ Drop
    \/ UNCHANGED storeVars

LEMMA ReferencesTyped ==
    ASSUME FactoryTypes, NEW s \in Strategies
    PROVE  References(s) \subseteq SUBSET RunRow
<1>1. "demo_evidence" \in RunTypes
  BY LadderFacts DEF RunTypes, Required
<1>2. [id |-> s, version |-> 0, type |-> "demo_evidence", status |-> "PASS",
       hash |-> CHOOSE x \in Specs : TRUE] \in RunRow
  BY <1>1, VersionOne, SpecsToShow DEF RunRow
<1>3. runs \subseteq RunRow
  BY DEF FactoryTypes, StoreTypes, StoreTypeOK
<1> QED BY <1>2, <1>3 DEF References

LEMMA RunTypesOfRungs == \A k \in 1..9 : Required[k] \in RunTypes
BY LadderFacts DEF RunTypes

\* Every action of the console and of the research runs is one of these.
LEMMA DecideIsStoreStep ==
    ASSUME FactoryTypes, NEW c \in Clients, NEW s \in Strategies, NEW v \in Versions, NEW tgt \in AllStates,
           NEW refs \in SUBSET RunRow, NEW actor \in Actors, NEW approved \in BOOLEAN,
           Decide(c, s, v, tgt, refs, actor, approved)
    PROVE  StoreStep
BY DEF StoreStep

LEMMA ConsoleIsStoreStep ==
    ASSUME FactoryTypes, ConsoleNext
    PROVE  StoreStep
<1> USE DEF FactoryTypes, StoreTypes
<1>1. ASSUME NEW c \in Clients, Submit(c)
      PROVE  StoreStep
  <2> DEFINE q == request[c]
  <2>1. q \in RequestRow /\ q.id \in Strategies /\ q.target \in AllStates
    BY <1>1 DEF Submit, RequestRow
  <2>2. PICK refs \in IF q.op = "approve" THEN References(q.id) ELSE {{}},
            v \in IF q.op = "approve" THEN Registered(q.id) ELSE {LatestVersion(q.id)} :
                Decide(c, q.id, v, q.target, refs, "ui", TRUE)
    BY <1>1 DEF Submit
  <2>3. refs \in SUBSET RunRow
    BY <2>1, <2>2, ReferencesTyped
  <2>4. v \in Versions
    <3>1. Known(q.id)
      BY <2>2 DEF Decide
    <3> QED BY <2>1, <2>2, <3>1, LatestExists DEF KnownAreRegistered, Registered
  <2>5. "ui" \in Actors
    BY DEF Actors, HumanActors
  <2> QED BY <2>1, <2>2, <2>3, <2>4, <2>5, DecideIsStoreStep
<1>2. ASSUME NEW c \in Clients, NEW s \in Strategies, Advance(c, s)
      PROVE  StoreStep
  <2>1. PICK v \in Registered(s), tgt \in AllStates, refs \in References(s),
            actor \in {"owner", "llm"}, approved \in BOOLEAN :
                Decide(c, s, v, tgt, refs, actor, approved)
    BY <1>2 DEF Advance
  <2>2. refs \in SUBSET RunRow /\ v \in Versions /\ actor \in Actors
    BY <2>1, ReferencesTyped DEF Registered, Actors, HumanActors
  <2> QED BY <2>1, <2>2, DecideIsStoreStep
<1>3. ASSUME NEW s \in Strategies, RecordEvidence(s)
      PROVE  StoreStep
  <2>1. PICK k \in 1..9 : CurrentState(s) = Ladder[k]
    BY <1>3, LadderFacts DEF RecordEvidence
  <2>2. Required[RankOf(CurrentState(s))] \in RunTypes
    BY <2>1, Ranks, RunTypesOfRungs
  <2>3. PICK v \in Registered(s), status \in {"PASS", "FAIL"}, x \in Specs :
            RecordRun([id |-> s, version |-> v, status |-> status, hash |-> x,
                       type |-> Required[RankOf(CurrentState(s))]])
    BY <1>3 DEF RecordEvidence
  <2>4. [id |-> s, version |-> v, status |-> status, hash |-> x,
         type |-> Required[RankOf(CurrentState(s))]] \in RunRow
    BY <2>2, <2>3 DEF RunRow, Registered
  <2> QED BY <2>3, <2>4 DEF StoreStep
<1>4. ASSUME NEW s \in Strategies, Register(s)
      PROVE  StoreStep
  BY <1>4 DEF Register, StoreStep
<1>5. ASSUME NEW s \in Strategies, ValidatePython(s)
      PROVE  StoreStep
  <2> DEFINE last == LatestVersion(s)
  <2>1. Known(s)
    BY <1>5 DEF ValidatePython
  <2>2. last \in Registered(s)
    BY <2>1, LatestExists DEF KnownAreRegistered
  <2>3. last \in Versions /\ versions[s][last] \in Specs
    BY <2>2 DEF Registered, StoreTypeOK
  <2> HIDE DEF last
  <2>4. "backtest" \in RunTypes
    BY RunTypesOfRungs, LadderFacts DEF Required
  <2>5. PICK status \in {"PASS", "ERROR"} :
            RecordRun([id |-> s, version |-> last, type |-> "backtest",
                       status |-> status, hash |-> versions[s][last]])
    BY <1>5 DEF ValidatePython, last
  <2>6. [id |-> s, version |-> last, type |-> "backtest", status |-> status,
         hash |-> versions[s][last]] \in RunRow
    BY <2>3, <2>4, <2>5 DEF RunRow
  <2> QED BY <2>5, <2>6 DEF StoreStep
<1>6. ASSUME NEW s \in Strategies, NEW x \in Specs, GuidedRegister(s, x)
      PROVE  StoreStep
  BY <1>6, VersionOne DEF GuidedRegister, StoreStep
<1>7. ASSUME \/ \E c \in Clients : Refused(c)
             \/ \E c \in Clients, s \in Strategies : ReadState(c, s)
             \/ \E s \in Strategies, x \in Specs : GuidedStart(s, x)
      PROVE  StoreStep
  BY <1>7 DEF Refused, ReadState, GuidedStart, StoreStep
<1> QED BY <1>1, <1>2, <1>3, <1>4, <1>5, <1>6, <1>7 DEF ConsoleNext

LEMMA SettleIsStoreStep ==
    ASSUME FactoryTypes, NEW c \in Clients, Settle(c)
    PROVE  StoreStep
<1>1. CASE Commit(c)
  BY <1>1 DEF StoreStep
<1>2. CASE Abandon(c)
  <2>1. pending \in [Clients -> EventRow \cup {NoDecision}]
    BY DEF FactoryTypes, StoreTypes, StoreTypeOK
  <2> QED BY <1>2, <2>1 DEF Abandon, Drop, StoreStep
<1> QED BY <1>1, <1>2 DEF Settle

\* What a run has before it records evidence, advances or rejects.
LEMMA RunFacts ==
    ASSUME FactoryTypes, NEW c \in Clients, run[c].pc # "idle"
    PROVE  /\ run[c] \in RunSteps
           /\ run[c].id \in Strategies
           /\ run[c].rung \in 1..6
           /\ run[c].pc \in {"record", "advance", "write", "verdict", "reject", "rejected"} => run[c].spec \in Specs
<1>1. run[c] \in RunSteps
  BY DEF FactoryTypes, RunShape, Idle
<1> QED BY <1>1 DEF FactoryTypes, RunShape, RunSteps

LEMMA ServiceIsStoreStep ==
    ASSUME FactoryTypes, ServiceNext
    PROVE  StoreStep
<1> DEFINE Touches(c) ==
        \/ RegisterSelected(c) \/ RecordRung(c) \/ AdvanceRung(c) \/ WriteRung(c)
        \/ RejectSelected(c) \/ WriteRejection(c)
<1>1. ASSUME NEW c \in Clients, RegisterSelected(c)
      PROVE  StoreStep
  <2>1. run[c].pc # "idle"
    BY <1>1 DEF RegisterSelected, At
  <2>2. SpecOf(run[c]) \in Specs
    BY <2>1, RunFacts, ServiceAssumption DEF SpecOf, RunSteps
  <2>3. run[c].id \in Strategies
    BY <2>1, RunFacts
  <2>4. \/ RegisterStrategy(run[c].id, 1, SpecOf(run[c]), TRUE, FALSE)
        \/ UNCHANGED storeVars
    BY <1>1 DEF RegisterSelected
  <2> QED BY <2>2, <2>3, <2>4, VersionOne DEF StoreStep
<1>2. ASSUME NEW c \in Clients, RecordRung(c)
      PROVE  StoreStep
  <2> DEFINE status == IF Passed(run[c]) THEN "PASS" ELSE "FAIL"
             row == [id |-> run[c].id, version |-> 1, type |-> Required[run[c].rung],
                     status |-> status, hash |-> run[c].spec]
  <2>1. run[c].pc = "record" /\ RecordRun(row)
    BY <1>2 DEF RecordRung, At
  <2>2. run[c].id \in Strategies /\ run[c].spec \in Specs /\ run[c].rung \in 1..9
    BY <2>1, RunFacts
  <2>3. status \in {"PASS", "FAIL", "ERROR"}
    OBVIOUS
  <2>4. row \in RunRow
    <3> HIDE DEF status
    <3> QED BY <2>2, <2>3, VersionOne, RunTypesOfRungs DEF RunRow
  <2> HIDE DEF row
  <2> QED BY <2>1, <2>4 DEF StoreStep
<1>3. ASSUME NEW c \in Clients, AdvanceRung(c)
      PROVE  StoreStep
  <2>1. run[c].pc = "advance"
    BY <1>3 DEF AdvanceRung, At
  <2>2. run[c].id \in Strategies /\ run[c].rung \in 1..6
    BY <2>1, RunFacts
  <2>3. Ladder[run[c].rung + 1] \in AllStates
    BY <2>2, LadderSizes DEF AllStates, OnLadder
  <2>4. Evidence(run[c]) \in SUBSET RunRow
    BY DEF Evidence, FactoryTypes, StoreTypes, StoreTypeOK
  <2>5. \/ Decide(c, run[c].id, 1, Ladder[run[c].rung + 1], Evidence(run[c]), "factory", FALSE)
        \/ UNCHANGED storeVars
    BY <1>3 DEF AdvanceRung
  <2>6. "factory" \in Actors
    BY DEF Actors
  <2> QED BY <2>2, <2>3, <2>4, <2>5, <2>6, VersionOne DEF StoreStep
<1>4. ASSUME NEW c \in Clients, WriteRung(c) \/ WriteRejection(c)
      PROVE  StoreStep
  BY <1>4 DEF WriteRung, WriteRejection, StoreStep
<1>5. ASSUME NEW c \in Clients, RejectSelected(c)
      PROVE  StoreStep
  <2>1. run[c].pc = "reject" /\ Decide(c, run[c].id, 1, "REJECTED", {}, "factory", FALSE)
    BY <1>5 DEF RejectSelected, At
  <2>2. run[c].id \in Strategies
    BY <2>1, RunFacts
  <2>3. "REJECTED" \in AllStates /\ "factory" \in Actors /\ {} \in SUBSET RunRow
    BY DEF AllStates, TerminalStates, Actors
  <2> QED BY <2>1, <2>2, <2>3, VersionOne, DecideIsStoreStep
<1>6. CASE Crash
  <2>1. pending' \in [Clients -> EventRow \cup {NoDecision}]
    BY <1>6 DEF Crash
  <2>2. \A c \in Clients : pending'[c] = NoDecision
    BY <1>6 DEF Crash
  <2> QED BY <1>6, <2>1, <2>2 DEF Crash, Drop, StoreStep
<1>7. ASSUME NEW c \in Clients,
             InsertCampaign(c) \/ Measure(c) \/ FinalVerdict(c) \/ FinishCampaign(c) \/ RunRaises(c)
      PROVE  StoreStep
  BY <1>7 DEF InsertCampaign, Measure, FinalVerdict, FinishCampaign, RunRaises, ServiceOnly, StoreStep
<1>8. ASSUME NEW c \in Clients, NEW s \in Strategies, PostCampaign(c, s)
      PROVE  StoreStep
  BY <1>8 DEF PostCampaign, StoreStep
<1> QED BY <1>1, <1>2, <1>3, <1>4, <1>5, <1>6, <1>7, <1>8 DEF ServiceNext, RunStep

\* Next is one step of the store, whoever makes it.
LEMMA NextIsStoreStep ==
    ASSUME FactoryTypes, [Next]_vars
    PROVE  StoreStep
<1>1. ASSUME NEW c \in Clients, Settle(c)
      PROVE  StoreStep
  BY <1>1, SettleIsStoreStep
<1>2. CASE UNCHANGED vars
  BY <1>2 DEF vars, StoreStep
<1> QED BY <1>1, <1>2, ConsoleIsStoreStep, ServiceIsStoreStep DEF Next

LEMMA RegisteredStay ==
    ASSUME StoreTypes, StoreStep, NEW s \in Strategies
    PROVE  /\ versions' \in [Strategies -> [Versions -> Specs \cup {NoSpec}]]
           /\ \A v \in Registered(s) : versions'[s][v] = versions[s][v]
           /\ Registered(s) \subseteq Registered(s)'
<1>1. CASE UNCHANGED versions
  BY <1>1 DEF StoreTypes, StoreTypeOK, Registered
<1>2. ASSUME NEW t \in Strategies, NEW v \in Versions, NEW x \in Specs, NEW executable, NEW parent,
             RegisterStrategy(t, v, x, executable, parent)
      PROVE  /\ versions' \in [Strategies -> [Versions -> Specs \cup {NoSpec}]]
             /\ \A w \in Registered(s) : versions'[s][w] = versions[s][w]
  BY <1>2 DEF RegisterStrategy, MayRegister, StoreTypes, StoreTypeOK, Registered
<1>3. versions' \in [Strategies -> [Versions -> Specs \cup {NoSpec}]]
      /\ \A w \in Registered(s) : versions'[s][w] = versions[s][w]
  <2>1. \/ \E t \in Strategies, v \in Versions, x \in Specs, executable, parent \in BOOLEAN :
               RegisterStrategy(t, v, x, executable, parent)
        \/ UNCHANGED versions
    <3>1. ASSUME NEW row, RecordRun(row) PROVE UNCHANGED versions
      BY <3>1 DEF RecordRun
    <3>2. ASSUME NEW c, NEW t, NEW v, NEW tgt, NEW refs, NEW actor, NEW approved,
                 Decide(c, t, v, tgt, refs, actor, approved)
          PROVE  UNCHANGED versions
      BY <3>2 DEF Decide
    <3>3. ASSUME NEW c, Commit(c) PROVE UNCHANGED versions
      BY <3>3 DEF Commit
    <3> QED BY <3>1, <3>2, <3>3 DEF StoreStep, Drop, storeVars
  <2> QED BY <2>1, <1>1, <1>2
<1>4. \A w \in Registered(s) : w \in Versions /\ versions'[s][w] # NoSpec
  BY <1>3 DEF Registered
<1> QED BY <1>3, <1>4 DEF Registered

LEMMA StoreTypesStep ==
    ASSUME StoreTypes, StoreStep
    PROVE  StoreTypes'
<1> USE DEF StoreTypes, StoreTypeOK
<1>0. \A s \in Strategies : Registered(s) \subseteq Registered(s)' /\ Registered(s)' \subseteq Versions
  BY RegisteredStay DEF Registered
<1>1. versions' \in [Strategies -> [Versions -> Specs \cup {NoSpec}]]
  <2>1. CASE Strategies = {}
    <3>1. UNCHANGED versions
      BY <2>1 DEF StoreStep, RecordRun, Decide, Commit, Drop, storeVars
    <3> QED BY <3>1
  <2> QED BY <2>1, RegisteredStay
<1>2. ASSUME NEW s \in Strategies, NEW v \in Versions, NEW x \in Specs, NEW executable, NEW parent,
             RegisterStrategy(s, v, x, executable, parent)
      PROVE  StoreTypes'
  <2>1. strategies[s].version \in Versions
    BY VersionOne DEF StrategyRow, Absent
  <2>2. [state |-> "DRAFT", version |-> strategies[s].version] \in StrategyRow
    BY <2>1, StatesListed DEF StrategyRow
  <2>3. strategies' \in [Strategies -> StrategyRow \cup {Absent}]
    BY <1>2, <2>2 DEF RegisterStrategy
  <2>4. KnownAreRegistered'
    <3>1. v \in Registered(s)'
      BY <1>2, StoreAssumption DEF RegisterStrategy, Registered
    <3>2. ASSUME NEW t \in Strategies, t # s, Known(t)' PROVE Registered(t)' # {}
      BY <1>2, <3>2, <1>0 DEF RegisterStrategy, Known, KnownAreRegistered
    <3>4. UNCHANGED pending
      BY <1>2 DEF RegisterStrategy
    <3>3. ASSUME NEW c \in Clients, pending[c] # NoDecision, NEW t, t = pending[c].id
          PROVE  Registered(t)' # {}
      <4>1. t \in Strategies /\ Registered(t) # {}
        BY <3>3 DEF KnownAreRegistered, EventRow
      <4> QED BY <4>1, <1>0
    <3> QED BY <3>1, <3>2, <3>3, <3>4 DEF KnownAreRegistered
  <2> QED BY <1>1, <1>2, <2>3, <2>4 DEF RegisterStrategy
<1>3. ASSUME NEW row \in RunRow, RecordRun(row)
      PROVE  StoreTypes'
  BY <1>3 DEF RecordRun, KnownAreRegistered, Known, Registered
<1>4. ASSUME NEW c \in Clients, NEW s \in Strategies, NEW v \in Versions, NEW tgt \in AllStates,
             NEW refs \in SUBSET RunRow, NEW actor \in Actors, NEW approved \in BOOLEAN,
             Decide(c, s, v, tgt, refs, actor, approved)
      PROVE  StoreTypes'
  <2> DEFINE kind == Judge(s, v, tgt, refs, actor, approved)
             decision == [id |-> s, version |-> v, from |-> CurrentState(s), to |-> tgt, kind |-> kind,
                          refs |-> refs, actor |-> actor, approved |-> approved]
  <2>1. Known(s) /\ kind # "refused" /\ pending' = [pending EXCEPT ![c] = decision]
        /\ UNCHANGED <<strategies, versions, runs, events>>
    BY <1>4 DEF Decide
  <2>2. kind \in {"promote", "fail", "recover", "retire"}
    BY <2>1, JudgeFacts
  <2>3. CurrentState(s) \in AllStates
    BY <2>1 DEF Known, CurrentState, StrategyRow
  <2> HIDE DEF kind
  <2>4. decision \in EventRow
    BY <2>2, <2>3 DEF EventRow
  <2>5. decision.id = s /\ Registered(s) # {}
    BY <2>1 DEF KnownAreRegistered
  <2> HIDE DEF decision
  <2>6. KnownAreRegistered'
    BY <2>1, <2>5 DEF KnownAreRegistered, Known, Registered
  <2> QED BY <2>1, <2>4, <2>6
<1>5. ASSUME NEW c \in Clients, Commit(c)
      PROVE  StoreTypes'
  <2> DEFINE e == pending[c]
             number == IF e.to # "RETIRED" /\ e.version > strategies[e.id].version
                       THEN e.version ELSE strategies[e.id].version
             row == [state |-> e.to, version |-> number]
  <2>1. e # NoDecision /\ e \in EventRow
    BY <1>5 DEF Commit
  <2>2. e.id \in Strategies /\ e.to \in AllStates /\ e.version \in Versions
    BY <2>1 DEF EventRow
  <2>3. strategies[e.id].version \in Versions
    BY <2>2, VersionOne DEF StrategyRow, Absent
  <2>4. number \in Versions
    BY <2>2, <2>3
  <2>5. row \in StrategyRow
    <3> HIDE DEF number
    <3> QED BY <2>2, <2>4 DEF StrategyRow
  <2>6. /\ strategies' = [strategies EXCEPT ![e.id] = row]
        /\ events' = Append(events, e)
        /\ pending' = [pending EXCEPT ![c] = NoDecision]
        /\ UNCHANGED <<versions, runs>>
    BY <1>5 DEF Commit
  <2> HIDE DEF row
  <2>7. Registered(e.id) # {}
    BY <2>1 DEF KnownAreRegistered
  <2> HIDE DEF e
  <2>8. KnownAreRegistered'
    BY <2>2, <2>6, <2>7 DEF KnownAreRegistered, Known, Registered
  <2>9. events' \in Seq(EventRow) /\ \A k \in 1..Len(events') : events'[k] \in EventRow
    BY <2>1, <2>6
  <2> QED BY <2>2, <2>5, <2>6, <2>8, <2>9
<1>6. CASE Drop
  BY <1>6 DEF Drop, KnownAreRegistered, Known, Registered
<1>7. CASE UNCHANGED storeVars
  BY <1>7 DEF storeVars, KnownAreRegistered, Known, Registered
<1> QED BY <1>2, <1>3, <1>4, <1>5, <1>6, <1>7 DEF StoreStep

\* What measure_stage leaves: nothing was measured, or a variant of the grid
\* with its measurements; it counts as a survivor when the gates passed it.
LEMMA MeasureOutcome ==
    ASSUME NEW c, Measure(c)
    PROVE  \/ run' = [run EXCEPT ![c].pc = "register"]
           \/ \E x \in Grid, oos \in BOOLEAN, rob \in BOOLEAN, gates \in BOOLEAN, marks \in MetricInputs :
                 /\ gates => Overall(marks) = "PASS"
                 /\ run' = [run EXCEPT ![c].pc = "register", ![c].spec = x, ![c].oos = oos,
                                       ![c].gates = gates, ![c].rob = rob, ![c].marks = marks]
<1>1. PICK measured \in SUBSET Grid : \E m \in [measured -> MetricInputs] :
        LET survivors == {x \in measured : GateOutcome[m[x]] = "PASS"}
            from == IF survivors # {} THEN survivors ELSE measured
        IN IF measured = {}
           THEN run' = [run EXCEPT ![c].pc = "register"]
           ELSE \E x \in from, oos \in BOOLEAN, rob \in IF survivors # {} THEN BOOLEAN ELSE {FALSE} :
                  run' = [run EXCEPT ![c].pc = "register", ![c].spec = x, ![c].oos = oos,
                                     ![c].gates = (survivors # {}), ![c].rob = rob, ![c].marks = m[x]]
  BY Zenon DEF Measure
<1>11. PICK m \in [measured -> MetricInputs] :
        LET survivors == {x \in measured : GateOutcome[m[x]] = "PASS"}
            from == IF survivors # {} THEN survivors ELSE measured
        IN IF measured = {}
           THEN run' = [run EXCEPT ![c].pc = "register"]
           ELSE \E x \in from, oos \in BOOLEAN, rob \in IF survivors # {} THEN BOOLEAN ELSE {FALSE} :
                  run' = [run EXCEPT ![c].pc = "register", ![c].spec = x, ![c].oos = oos,
                                     ![c].gates = (survivors # {}), ![c].rob = rob, ![c].marks = m[x]]
  BY <1>1, Zenon
<1> DEFINE survivors == {x \in measured : GateOutcome[m[x]] = "PASS"}
           from == IF survivors # {} THEN survivors ELSE measured
<1>2. CASE measured = {}
  BY <1>11, <1>2
<1>3. CASE measured # {}
  <2>1. PICK x \in from, oos \in BOOLEAN, rob \in IF survivors # {} THEN BOOLEAN ELSE {FALSE} :
           run' = [run EXCEPT ![c].pc = "register", ![c].spec = x, ![c].oos = oos,
                              ![c].gates = (survivors # {}), ![c].rob = rob, ![c].marks = m[x]]
    BY <1>11, <1>3, Zenon
  <2>2. x \in Grid /\ x \in measured /\ m[x] \in MetricInputs
    BY <1>1, <1>11
  <2>3. (survivors # {}) => Overall(m[x]) = "PASS"
    BY <2>2 DEF GateOutcome
  <2>4. rob \in BOOLEAN /\ (survivors # {}) \in BOOLEAN
    OBVIOUS
  <2> HIDE DEF survivors
  <2> QED BY <2>1, <2>2, <2>3, <2>4, Zenon
<1> QED BY <1>2, <1>3

LEMMA RunShapeStep ==
    ASSUME FactoryTypes, ServiceNext
    PROVE  RunShape'
<1> USE DEF FactoryTypes, RunShape
<1>0. ASSUME NEW c \in Clients, NEW r \in RunSteps, run' = [run EXCEPT ![c] = r],
             r.pc \in {"record", "advance", "write", "verdict", "reject", "rejected"} => r.spec \in Specs
      PROVE  RunShape'
  BY <1>0 DEF RunSteps, Idle
<1>01. ASSUME NEW c \in Clients, run' = [run EXCEPT ![c] = Idle]
       PROVE  RunShape'
  BY <1>01 DEF RunSteps, Idle
<1>1. ASSUME NEW c \in Clients, NEW s \in Strategies, PostCampaign(c, s)
      PROVE  RunShape'
  <2> DEFINE r == [pc |-> IF campaigns[s] = "none" THEN "insert" ELSE "measure",
                   id |-> s, spec |-> NoSpec, rung |-> 1,
                   gates |-> FALSE, rob |-> FALSE, oos |-> FALSE, marks |-> NoMarks]
  <2>1. run' = [run EXCEPT ![c] = r]
    BY <1>1 DEF PostCampaign
  <2>2. r \in RunSteps /\ r.pc \in {"insert", "measure"}
    BY DEF RunSteps
  <2> HIDE DEF r
  <2> QED BY <2>1, <2>2, <1>0
\* A run that moves on keeps its strategy and its selection.
<1>2. ASSUME NEW c \in Clients, run[c].pc # "idle", NEW pc, NEW k \in 1..6,
             pc \in {"insert", "measure", "register", "record", "advance", "write",
                    "verdict", "reject", "rejected", "finish"},
             run[c].spec \in Specs \/ pc \in {"measure", "finish"},
             run' = [run EXCEPT ![c].pc = pc, ![c].rung = k]
      PROVE  RunShape'
  <2> DEFINE r == [run[c] EXCEPT !.pc = pc, !.rung = k]
  <2>1. run[c] \in RunSteps
    BY <1>2, RunFacts
  <2>2. r \in RunSteps /\ r.pc = pc /\ r.spec = run[c].spec
    BY <2>1, <1>2 DEF RunSteps
  <2>3. run' = [run EXCEPT ![c] = r]
    BY <2>1, <1>2
  <2> HIDE DEF r
  <2> QED BY <2>2, <2>3, <1>0, <1>2
<1>3. ASSUME NEW c \in Clients, run[c].pc # "idle", NEW pc,
             pc \in {"insert", "measure", "register", "record", "advance", "write",
                    "verdict", "reject", "rejected", "finish"},
             run[c].spec \in Specs \/ pc \in {"measure", "finish"},
             run' = [run EXCEPT ![c].pc = pc]
      PROVE  RunShape'
  <2>1. run[c] \in RunSteps
    BY <1>3, RunFacts
  <2>2. run' = [run EXCEPT ![c].pc = pc, ![c].rung = run[c].rung] /\ run[c].rung \in 1..6
    BY <2>1, <1>3 DEF RunSteps
  <2> QED BY <2>2, <1>2, <1>3
<1>4. ASSUME NEW c \in Clients, InsertCampaign(c) PROVE RunShape'
  BY <1>4, <1>01, <1>3 DEF InsertCampaign, At, Goto, Leave
<1>5. ASSUME NEW c \in Clients, Measure(c) PROVE RunShape'
  <2>1. run[c] \in RunSteps /\ run[c].pc = "measure"
    BY <1>5, RunFacts DEF Measure, At
  <2>2. CASE \E x \in Grid, oos \in BOOLEAN, rob \in BOOLEAN, gates \in BOOLEAN, marks \in MetricInputs :
                /\ gates => Overall(marks) = "PASS"
                /\ run' = [run EXCEPT ![c].pc = "register", ![c].spec = x, ![c].oos = oos,
                                      ![c].gates = gates, ![c].rob = rob, ![c].marks = marks]
    <3>0. PICK x \in Grid, oos \in BOOLEAN, rob \in BOOLEAN, gates \in BOOLEAN, marks \in MetricInputs :
                /\ gates => Overall(marks) = "PASS"
                /\ run' = [run EXCEPT ![c].pc = "register", ![c].spec = x, ![c].oos = oos,
                                      ![c].gates = gates, ![c].rob = rob, ![c].marks = marks]
      BY <2>2, Zenon
    <3> DEFINE r == [run[c] EXCEPT !.pc = "register", !.spec = x, !.oos = oos,
                                   !.gates = gates, !.rob = rob, !.marks = marks]
    <3>1. r \in RunSteps /\ r.pc = "register"
      BY <2>1, SpecsToShow DEF RunSteps
    <3>2. run' = [run EXCEPT ![c] = r]
      BY <3>0
    <3> HIDE DEF r
    <3> QED BY <3>1, <3>2, <1>0
  <2>3. CASE run' = [run EXCEPT ![c].pc = "register"]
    <3> DEFINE r == [run[c] EXCEPT !.pc = "register"]
    <3>1. r \in RunSteps /\ r.pc = "register"
      BY <2>1 DEF RunSteps
    <3>2. run' = [run EXCEPT ![c] = r]
      BY <2>3
    <3> HIDE DEF r
    <3> QED BY <3>1, <3>2, <1>0
  <2> QED BY <1>5, <2>2, <2>3, MeasureOutcome, Zenon
<1>6. ASSUME NEW c \in Clients, RegisterSelected(c) PROVE RunShape'
  <2> DEFINE pc == IF run[c].spec = NoSpec THEN "finish" ELSE "record"
             r == [run[c] EXCEPT !.pc = pc, !.marks = NoMarks]
  <2>1. run[c] \in RunSteps /\ run' = [run EXCEPT ![c].pc = pc, ![c].marks = NoMarks]
    BY <1>6, RunFacts DEF RegisterSelected, At
  <2>2. r \in RunSteps /\ r.pc = pc /\ r.spec = run[c].spec
    BY <2>1 DEF RunSteps
  <2>3. run' = [run EXCEPT ![c] = r]
    BY <2>1
  <2>4. pc = "record" => run[c].spec \in Specs
    BY <2>1 DEF RunSteps
  <2> HIDE DEF r
  <2> QED BY <2>2, <2>3, <2>4, <1>0
<1>7. ASSUME NEW c \in Clients, RecordRung(c) PROVE RunShape'
  <2>1. run[c].pc = "record" /\ run[c].pc # "idle" /\ run[c].spec \in Specs
    BY <1>7, RunFacts DEF RecordRung, At
  <2>2. Goto(c, "verdict") \/ Rung(c, 5) \/ Goto(c, "advance")
    <3>1. CASE run[c].rung = 5
      BY <1>7, <3>1, Zenon DEF RecordRung
    <3>2. CASE run[c].rung # 5 /\ run[c].rung \in {3, 4} /\ ~Passed(run[c])
      BY <1>7, <3>2, Zenon DEF RecordRung
    <3>3. CASE run[c].rung # 5 /\ ~(run[c].rung \in {3, 4} /\ ~Passed(run[c]))
      BY <1>7, <3>3, Zenon DEF RecordRung
    <3> QED BY <3>1, <3>2, <3>3
  <2>3. 5 \in 1..6
    OBVIOUS
  <2> QED BY <2>1, <2>2, <2>3, <1>2, <1>3 DEF Goto, Rung
<1>8. ASSUME NEW c \in Clients,
             AdvanceRung(c) \/ WriteRung(c) \/ FinalVerdict(c) \/ RejectSelected(c) \/ WriteRejection(c)
      PROVE  RunShape'
  <2>1. run[c].pc # "idle" /\ run[c].spec \in Specs /\ run[c].rung \in 1..6
    BY <1>8, RunFacts DEF AdvanceRung, WriteRung, FinalVerdict, RejectSelected, WriteRejection, At
  <2>2. \/ \E pc \in {"write", "finish", "advance", "reject", "rejected"} : Goto(c, pc)
        \/ run[c].rung # 6 /\ Rung(c, run[c].rung + 1)
    BY <1>8 DEF AdvanceRung, WriteRung, FinalVerdict, RejectSelected, WriteRejection
  <2>3. run[c].rung # 6 => run[c].rung + 1 \in 1..6
    BY <2>1
  <2>4. ASSUME NEW pc \in {"write", "finish", "advance", "reject", "rejected"}, Goto(c, pc)
        PROVE  RunShape'
    BY <2>1, <2>4, <1>3 DEF Goto
  <2>5. ASSUME run[c].rung # 6, Rung(c, run[c].rung + 1)
        PROVE  RunShape'
    BY <2>1, <2>3, <2>5, <1>2 DEF Rung
  <2> QED BY <2>2, <2>4, <2>5
<1>9. ASSUME NEW c \in Clients, FinishCampaign(c) \/ RunRaises(c) PROVE RunShape'
  BY <1>9, <1>01 DEF FinishCampaign, RunRaises, Leave
<1>10. CASE Crash
  BY <1>10 DEF Crash, Idle
<1> QED BY <1>1, <1>4, <1>5, <1>6, <1>7, <1>8, <1>9, <1>10 DEF ServiceNext, RunStep

LEMMA FactoryTypesStep ==
    ASSUME FactoryTypes, [Next]_vars
    PROVE  FactoryTypes'
<1>1. StoreTypes'
  BY NextIsStoreStep, StoreTypesStep DEF FactoryTypes
<1>2. CASE ConsoleNext /\ UNCHANGED serviceVars
  <2>1. RunShape'
    BY <1>2 DEF serviceVars, FactoryTypes, RunShape
  <2>2. \/ UNCHANGED request
        \/ \E c \in Clients, r \in RequestRow \cup {NoRequest} : request' = [request EXCEPT ![c] = r]
    BY <1>2 DEF ConsoleNext, Submit, Refused, ReadState, Advance, RecordEvidence, Register, ValidatePython,
                GuidedStart, GuidedRegister
  <2> QED BY <1>1, <2>1, <2>2 DEF FactoryTypes
<1>3. ASSUME NEW c \in Clients, Settle(c), UNCHANGED serviceVars
      PROVE  FactoryTypes'
  BY <1>1, <1>3 DEF Settle, consoleVars, serviceVars, FactoryTypes, RunShape
<1>4. CASE ServiceNext /\ UNCHANGED consoleVars
  BY <1>1, <1>4, RunShapeStep DEF consoleVars, FactoryTypes
<1>5. CASE UNCHANGED vars
  BY <1>1, <1>5 DEF vars, consoleVars, serviceVars, FactoryTypes, RunShape
<1> QED BY <1>2, <1>3, <1>4, <1>5 DEF Next

LEMMA FactoryTypesInit == Init => FactoryTypes
<1> SUFFICES ASSUME Init PROVE FactoryTypes
  OBVIOUS
<1>1. /\ request \in [Clients -> RequestRow \cup {NoRequest}] /\ RunShape
      /\ \A c \in Clients : pending[c] = NoDecision
      /\ pending \in [Clients -> EventRow \cup {NoDecision}]
  BY DEF Init, InitReopened, InitEmpty, StoreInit, RunShape, Idle
<1>2. CASE InitEmpty
  BY <1>1, <1>2 DEF InitEmpty, StoreInit, FactoryTypes, StoreTypes, StoreTypeOK, KnownAreRegistered, Known
<1>3. CASE InitReopened
  <2>1. PICK s \in Strategies, x \in {CHOOSE y \in Specs : TRUE}, k \in 1..10 :
      /\ strategies = [t \in Strategies |-> IF t = s
                          THEN [state |-> Ladder[k], version |-> IF k = 1 THEN 0 ELSE 1] ELSE Absent]
      /\ versions = [t \in Strategies |-> [v \in Versions |-> IF t = s /\ v = 1 THEN x ELSE NoSpec]]
      /\ runs = UNION {Climbed(s, x, j).refs : j \in 1..(k - 1)}
      /\ events = [j \in 1..(k - 1) |-> Climbed(s, x, j)]
    BY <1>3, LadderSizes DEF InitReopened
  <2>2. x \in Specs /\ x # NoSpec
    BY SpecsToShow, StoreAssumption
  <2>3. strategies \in [Strategies -> StrategyRow \cup {Absent}]
    <3>1. Ladder[k] \in AllStates
      BY LadderSizes DEF AllStates, OnLadder
    <3>2. [state |-> Ladder[k], version |-> IF k = 1 THEN 0 ELSE 1] \in StrategyRow
      BY <3>1, VersionOne DEF StrategyRow
    <3> QED BY <2>1, <3>2
  <2>4. versions \in [Strategies -> [Versions -> Specs \cup {NoSpec}]]
    BY <2>1, <2>2
  <2>5. ASSUME NEW j \in 1..9
        PROVE  Climbed(s, x, j) \in EventRow /\ Climbed(s, x, j).refs \subseteq RunRow
    <3> DEFINE row == [id |-> s, version |-> 1, type |-> Required[j], status |-> "PASS", hash |-> x]
    <3>1. row \in RunRow
      BY <2>2, VersionOne, RunTypesOfRungs DEF RunRow
    <3>2. Ladder[j] \in AllStates /\ Ladder[j + 1] \in AllStates
      BY LadderSizes DEF AllStates, OnLadder
    <3>3. Climbed(s, x, j) =
            [id |-> s, version |-> 1, from |-> Ladder[j], to |-> Ladder[j + 1], kind |-> "promote",
             refs |-> {row}, actor |-> "owner", approved |-> TRUE]
      BY DEF Climbed
    <3>4. "owner" \in Actors
      BY DEF Actors, HumanActors
    <3> HIDE DEF row
    <3> QED BY <3>1, <3>2, <3>3, <3>4, VersionOne DEF EventRow
  <2>6. runs \subseteq RunRow
    BY <2>1, <2>5
  <2>7. events \in Seq(EventRow) /\ \A n \in 1..Len(events) : events[n] \in EventRow
    <3>1. k - 1 \in Nat /\ \A j \in 1..(k - 1) : Climbed(s, x, j) \in EventRow
      BY <2>5
    <3> QED BY <2>1, <3>1
  <2>8. KnownAreRegistered
    BY <1>1, <2>1, <2>2, VersionOne DEF KnownAreRegistered, Known, Registered
  <2> QED BY <1>1, <2>3, <2>4, <2>6, <2>7, <2>8 DEF FactoryTypes, StoreTypes, StoreTypeOK
<1> QED BY <1>2, <1>3 DEF Init

-----------------------------------------------------------------------------
(* The ladder is backed                                                     *)

\* Evidence for rung j: a run that passed, of the document of its version.
Backed(s, j) ==
    \E r \in runs : /\ r.id = s /\ r.version \in Registered(s)
                    /\ r.type = Required[j] /\ r.status = "PASS"
                    /\ r.hash = versions[s][r.version]

\* A strategy in state st has passed rung j.  What has been paused was on
\* DEMO, what is degraded in SHADOW; the last two rungs are reached from a
\* pause without evidence of their own.
Rests(st, j) ==
    \/ \E k \in 1..8 : st = Ladder[k] /\ j < k
    \/ st \in {"LIVE_SMALL", "LIVE", "PAUSED"} /\ j < 8
    \/ st = "DEGRADED" /\ j < 7

LadderInv ==
    /\ \A s \in Strategies, j \in 1..9 : Rests(CurrentState(s), j) => Backed(s, j)
    /\ \A c \in Clients, j \in 1..9 :
         pending[c] # NoDecision /\ Rests(pending[c].to, j) => Backed(pending[c].id, j)

\* Runs are never taken away, versions never rewritten.
LEMMA BackedStays ==
    ASSUME StoreTypes, StoreStep, NEW s \in Strategies, NEW j, Backed(s, j)
    PROVE  Backed(s, j)'
<1>1. runs \subseteq runs'
  <2>1. ASSUME NEW row, RecordRun(row) PROVE runs \subseteq runs'
    BY <2>1 DEF RecordRun
  <2>2. ASSUME NEW t, NEW v, NEW x, NEW executable, NEW parent, RegisterStrategy(t, v, x, executable, parent)
        PROVE  runs \subseteq runs'
    BY <2>2 DEF RegisterStrategy
  <2>3. ASSUME NEW c, NEW t, NEW v, NEW tgt, NEW refs, NEW actor, NEW approved,
               Decide(c, t, v, tgt, refs, actor, approved)
        PROVE  runs \subseteq runs'
    BY <2>3 DEF Decide
  <2>4. ASSUME NEW c, Commit(c) PROVE runs \subseteq runs'
    BY <2>4 DEF Commit
  <2> QED BY <2>1, <2>2, <2>3, <2>4 DEF StoreStep, Drop, storeVars
<1>2. PICK r \in runs : /\ r.id = s /\ r.version \in Registered(s)
                       /\ r.type = Required[j] /\ r.status = "PASS"
                       /\ r.hash = versions[s][r.version]
  BY DEF Backed
<1>3. r \in runs' /\ r.version \in Registered(s)' /\ r.hash = versions'[s][r.version]
  BY <1>1, <1>2, RegisteredStay
<1> QED BY <1>2, <1>3 DEF Backed

\* A decision asks for one rung more than the state it starts from, and for
\* none when it fails, pauses, degrades or recovers.
LEMMA RestsStep ==
    ASSUME NEW s, NEW v, NEW tgt, NEW refs, NEW actor, NEW approved,
           Judge(s, v, tgt, refs, actor, approved) # "refused",
           NEW j \in 1..9, Rests(tgt, j)
    PROVE  \/ Rests(CurrentState(s), j)
           \/ \E r \in refs : EvidenceBindsTo(r, s, v, {Required[j]})
<1> DEFINE cur == CurrentState(s)
<1> HIDE DEF cur
<1>1. \/ tgt = "RETIRED"
      \/ /\ Promotes(cur, tgt)
         /\ \E r \in refs : EvidenceBindsTo(r, s, v, RequiredEvidence(cur, tgt))
      \/ <<cur, tgt>> \in FailureMoves
      \/ <<cur, tgt>> \in RecoveryMoves
  BY JudgeFacts, Zenon DEF cur
<1>2. CASE tgt = "RETIRED"
  BY <1>2, LadderFacts DEF Rests
<1>3. CASE /\ Promotes(cur, tgt)
           /\ \E r \in refs : EvidenceBindsTo(r, s, v, RequiredEvidence(cur, tgt))
  <2>1. PICK k \in 1..9 : cur = Ladder[k] /\ tgt = Ladder[k + 1]
    BY <1>3, PromotionsByRung
  <2>2. CASE j = k
    BY <1>3, <2>1, <2>2, OneEvidence
  <2>3. CASE j # k
    <3>1. CASE k < 8
      <4>1. PICK i \in 1..8 : tgt = Ladder[i] /\ j < i
        <5>1. tgt # "LIVE_SMALL" /\ tgt # "LIVE" /\ tgt # "PAUSED" /\ tgt # "DEGRADED"
          BY <2>1, <3>1, LadderFacts
        <5> QED BY <5>1 DEF Rests
      <4>2. i = k + 1
        <5>1. i \in 1..10 /\ k + 1 \in 1..10 /\ Ladder[i] = Ladder[k + 1]
          BY <2>1, <4>1
        <5> QED BY <5>1, OneRung
      <4>3. j < k
        BY <4>1, <4>2, <2>3
      <4> QED BY <2>1, <3>1, <4>3 DEF Rests, cur
    <3>2. CASE k = 8 \/ k = 9
      <4>1. tgt = "LIVE_SMALL" \/ tgt = "LIVE"
        BY <2>1, <3>2, LadderFacts
      <4>2. j < 8
        <5>1. ASSUME NEW i \in 1..8, tgt = Ladder[i] PROVE FALSE
          <6>1. i \in 1..10 /\ k + 1 \in 1..10 /\ Ladder[i] = Ladder[k + 1] /\ i # k + 1
            BY <2>1, <3>2, <5>1
          <6> QED BY <6>1, OneRung
        <5>2. tgt # "DEGRADED"
          BY <4>1
        <5> QED BY <5>1, <5>2 DEF Rests
      <4>3. cur = "LIVE_SMALL" \/ (cur = Ladder[8] /\ 8 \in 1..8)
        BY <2>1, <3>2, LadderFacts
      <4> QED BY <4>2, <4>3 DEF Rests, cur
    <3> QED BY <3>1, <3>2
  <2> QED BY <2>2, <2>3
<1>4. CASE <<cur, tgt>> \in FailureMoves
  <2>1. \/ tgt = "REJECTED"
        \/ tgt = "DEGRADED" /\ cur \in {"SHADOW", "LIVE"}
        \/ tgt = "PAUSED" /\ cur \in {"DEMO", "LIVE_SMALL"}
    BY <1>4, FailureTargets
  <2>2. CASE tgt = "REJECTED"
    BY <2>2, LadderFacts DEF Rests
  <2>3. CASE tgt = "DEGRADED" /\ cur \in {"SHADOW", "LIVE"}
    <3>1. j < 7
      BY <2>3, LadderFacts DEF Rests
    <3> QED BY <2>3, <3>1, LadderFacts DEF Rests, cur
  <2>4. CASE tgt = "PAUSED" /\ cur \in {"DEMO", "LIVE_SMALL"}
    <3>1. j < 8
      BY <2>4, LadderFacts DEF Rests
    <3> QED BY <2>4, <3>1, LadderFacts DEF Rests, cur
  <2> QED BY <2>1, <2>2, <2>3, <2>4
<1>5. CASE <<cur, tgt>> \in RecoveryMoves
  <2>1. \/ tgt \in {"DEMO", "LIVE_SMALL"} /\ cur = "PAUSED"
        \/ tgt = "SHADOW" /\ cur = "DEGRADED"
    BY <1>5, RecoveryTargets
  <2>2. tgt = "DEMO" => j < 8
    BY LadderFacts DEF Rests
  <2>3. tgt = "LIVE_SMALL" => j < 8
    BY LadderFacts DEF Rests
  <2>4. tgt = "SHADOW" => j < 7
    BY LadderFacts DEF Rests
  <2> QED BY <2>1, <2>2, <2>3, <2>4 DEF Rests, cur
<1> QED BY <1>1, <1>2, <1>3, <1>4, <1>5

LEMMA LadderStep ==
    ASSUME StoreTypes, LadderInv, StoreStep
    PROVE  LadderInv'
<1> USE DEF StoreTypes, StoreTypeOK
<1>0. ASSUME NEW s \in Strategies, NEW j, Backed(s, j) PROVE Backed(s, j)'
  BY <1>0, BackedStays
<1>1. ASSUME \A s \in Strategies : \/ strategies'[s] = strategies[s]
                                   \/ CurrentState(s)' = "DRAFT"
                                   \/ \E c \in Clients : /\ pending[c] # NoDecision /\ pending[c].id = s
                                                         /\ CurrentState(s)' = pending[c].to,
             \A c \in Clients : \/ pending'[c] \in {pending[c], NoDecision}
                                \/ \A j \in 1..9 : Rests(pending'[c].to, j) => Backed(pending'[c].id, j)
      PROVE  LadderInv'
  <2>1. ASSUME NEW s \in Strategies, NEW j \in 1..9, Rests(CurrentState(s), j)'
        PROVE  Backed(s, j)'
    <3>1. CASE strategies'[s] = strategies[s]
      <4>1. Rests(CurrentState(s), j)
        BY <3>1, <2>1 DEF CurrentState, Rests
      <4> QED BY <4>1, <1>0 DEF LadderInv
    <3>2. CASE CurrentState(s)' = "DRAFT"
      <4>1. ~Rests("DRAFT", j)
        BY LadderFacts, OneRung DEF Rests
      <4> QED BY <2>1, <3>2, <4>1 DEF Rests
    <3>3. ASSUME NEW c \in Clients, pending[c] # NoDecision, pending[c].id = s,
                 CurrentState(s)' = pending[c].to
          PROVE  Backed(s, j)'
      <4>1. Rests(pending[c].to, j)
        BY <2>1, <3>3 DEF Rests
      <4> QED BY <3>3, <4>1, <1>0 DEF LadderInv
    <3> QED BY <1>1, <3>1, <3>2, <3>3
  <2>2. ASSUME NEW c \in Clients, NEW j \in 1..9, pending'[c] # NoDecision, Rests(pending'[c].to, j),
               pending'[c] # NoDecision => pending'[c].id \in Strategies
        PROVE  Backed(pending[c].id, j)'
    <3>1. Backed(pending'[c].id, j)
      BY <1>1, <2>2 DEF LadderInv
    <3>2. PICK t \in Strategies : t = pending'[c].id
      BY <2>2
    <3>3. Backed(t, j)'
      BY <3>1, <3>2, <1>0
    <3> QED BY <3>2, <3>3 DEF Backed
  <2>3. \A c \in Clients : pending'[c] # NoDecision => pending'[c].id \in Strategies
    BY StoreTypesStep DEF EventRow
  <2> QED BY <2>1, <2>2, <2>3 DEF LadderInv, Rests
<1>2. ASSUME NEW s \in Strategies, NEW v \in Versions, NEW x \in Specs, NEW executable, NEW parent,
             RegisterStrategy(s, v, x, executable, parent)
      PROVE  LadderInv'
  <2>1. \A t \in Strategies : strategies'[t] = strategies[t] \/ CurrentState(t)' = "DRAFT"
    BY <1>2 DEF RegisterStrategy, CurrentState
  <2>2. UNCHANGED pending
    BY <1>2 DEF RegisterStrategy
  <2> QED BY <2>1, <2>2, <1>1
<1>3. ASSUME NEW row \in RunRow, RecordRun(row)
      PROVE  LadderInv'
  BY <1>3, <1>1 DEF RecordRun
<1>4. ASSUME NEW c \in Clients, NEW s \in Strategies, NEW v \in Versions, NEW tgt \in AllStates,
             NEW refs \in SUBSET RunRow, NEW actor \in Actors, NEW approved \in BOOLEAN,
             Decide(c, s, v, tgt, refs, actor, approved)
      PROVE  LadderInv'
  <2>1. /\ Judge(s, v, tgt, refs, actor, approved) # "refused"
        /\ pending'[c].to = tgt /\ pending'[c].id = s
        /\ \A d \in Clients : d # c => pending'[d] = pending[d]
        /\ UNCHANGED strategies
    BY <1>4 DEF Decide
  <2>2. ASSUME NEW j \in 1..9, Rests(tgt, j) PROVE Backed(s, j)
    <3>1. CASE Rests(CurrentState(s), j)
      BY <3>1 DEF LadderInv
    <3>2. ASSUME NEW r \in refs, EvidenceBindsTo(r, s, v, {Required[j]}) PROVE Backed(s, j)
      BY <3>2 DEF EvidenceBindsTo, Backed, Registered
    <3> QED BY <2>1, <2>2, <3>1, <3>2, RestsStep
  <2> QED BY <2>1, <2>2, <1>1
<1>5. ASSUME NEW c \in Clients, Commit(c)
      PROVE  LadderInv'
  <2>1. pending[c] # NoDecision /\ pending[c].id \in Strategies
    BY <1>5 DEF Commit, EventRow
  <2>2. \A t \in Strategies : t # pending[c].id => strategies'[t] = strategies[t]
    BY <1>5 DEF Commit
  <2>3. ASSUME NEW t \in Strategies, t = pending[c].id PROVE CurrentState(t)' = pending[c].to
    BY <1>5, <2>3 DEF Commit, CurrentState
  <2>4. \A d \in Clients : pending'[d] \in {pending[d], NoDecision}
    BY <1>5 DEF Commit
  <2> QED BY <2>1, <2>2, <2>3, <2>4, <1>1
<1>6. CASE Drop
  BY <1>6, <1>1 DEF Drop
<1>7. CASE UNCHANGED storeVars
  BY <1>7, <1>1 DEF storeVars
<1> QED BY <1>2, <1>3, <1>4, <1>5, <1>6, <1>7 DEF StoreStep

-----------------------------------------------------------------------------
(* LIVE is a human's decision                                               *)

Approved(e) ==
    /\ e.approved /\ e.actor \in HumanActors
    /\ \E r \in e.refs : r.type = "live_small_evidence" /\ r.status = "PASS"

LiveInv ==
    /\ LiveWasDecided
    /\ \A c \in Clients : pending[c] # NoDecision /\ pending[c].to = "LIVE" => Approved(pending[c])

\* The only way to LIVE is the promotion from LIVE_SMALL.
LEMMA LiveIsPromoted ==
    ASSUME NEW s, NEW v, NEW refs, NEW actor, NEW approved,
           Judge(s, v, "LIVE", refs, actor, approved) # "refused"
    PROVE  /\ approved /\ actor \in HumanActors
           /\ \E r \in refs : r.type = "live_small_evidence" /\ r.status = "PASS"
<1> DEFINE cur == CurrentState(s)
<1> HIDE DEF cur
<1>1. \/ /\ Promotes(cur, "LIVE")
         /\ "LIVE" \in HumanApprovalStates => approved /\ actor \in HumanActors
         /\ \E r \in refs : EvidenceBindsTo(r, s, v, RequiredEvidence(cur, "LIVE"))
      \/ <<cur, "LIVE">> \in FailureMoves
      \/ <<cur, "LIVE">> \in RecoveryMoves
  BY JudgeFacts DEF cur
<1>2. <<cur, "LIVE">> \notin FailureMoves /\ <<cur, "LIVE">> \notin RecoveryMoves
  BY FailureTargets, RecoveryTargets
<1>3. PICK k \in 1..9 : cur = Ladder[k] /\ "LIVE" = Ladder[k + 1]
  BY <1>1, <1>2, PromotionsByRung
<1>4. k = 9
  <2>1. k + 1 \in 1..10 /\ 10 \in 1..10 /\ Ladder[k + 1] = Ladder[10]
    BY <1>3, LadderFacts
  <2>2. k + 1 = 10
    BY <2>1, OneRung
  <2> QED BY <2>2
<1>5. RequiredEvidence(cur, "LIVE") = {"live_small_evidence"}
  BY <1>3, <1>4, OneEvidence DEF Required
<1> QED BY <1>1, <1>2, <1>5 DEF EvidenceBindsTo, HumanApprovalStates

LEMMA LiveStep ==
    ASSUME StoreTypes, LiveInv, StoreStep
    PROVE  LiveInv'
<1> USE DEF StoreTypes, StoreTypeOK
\* A strategy becomes LIVE with its event, or is and keeps it.
<1>1. ASSUME \A s \in Strategies : CurrentState(s)' \in {CurrentState(s), "DRAFT"},
             UNCHANGED events,
             \A c \in Clients : \/ pending'[c] \in {pending[c], NoDecision}
                                \/ pending'[c].to = "LIVE" => Approved(pending'[c])
      PROVE  LiveInv'
  <2>1. LiveWasDecided'
    BY <1>1 DEF LiveInv, LiveWasDecided
  <2> QED BY <1>1, <2>1 DEF LiveInv, Approved
<1>2. ASSUME NEW s \in Strategies, NEW v \in Versions, NEW x \in Specs, NEW executable, NEW parent,
             RegisterStrategy(s, v, x, executable, parent)
      PROVE  LiveInv'
  <2>1. \A t \in Strategies : CurrentState(t)' \in {CurrentState(t), "DRAFT"}
    BY <1>2 DEF RegisterStrategy, CurrentState
  <2> QED BY <1>2, <2>1, <1>1 DEF RegisterStrategy
<1>3. ASSUME NEW row \in RunRow, RecordRun(row)
      PROVE  LiveInv'
  BY <1>3, <1>1 DEF RecordRun, CurrentState
<1>4. ASSUME NEW c \in Clients, NEW s \in Strategies, NEW v \in Versions, NEW tgt \in AllStates,
             NEW refs \in SUBSET RunRow, NEW actor \in Actors, NEW approved \in BOOLEAN,
             Decide(c, s, v, tgt, refs, actor, approved)
      PROVE  LiveInv'
  <2>1. /\ Judge(s, v, tgt, refs, actor, approved) # "refused"
        /\ pending'[c].to = tgt /\ pending'[c].refs = refs /\ pending'[c].actor = actor
        /\ pending'[c].approved = approved
        /\ \A d \in Clients : d # c => pending'[d] = pending[d]
        /\ UNCHANGED <<strategies, events>>
    BY <1>4 DEF Decide
  <2>2. tgt = "LIVE" => Approved(pending'[c])
    BY <2>1, LiveIsPromoted DEF Approved
  <2> QED BY <2>1, <2>2, <1>1 DEF CurrentState
<1>5. ASSUME NEW c \in Clients, Commit(c)
      PROVE  LiveInv'
  <2> DEFINE e == pending[c]
  <2>1. e # NoDecision /\ e \in EventRow /\ e.id \in Strategies
    BY <1>5 DEF Commit, EventRow
  <2>2. /\ \A t \in Strategies : t # e.id => strategies'[t] = strategies[t]
        /\ strategies'[e.id].state = e.to
        /\ events' = Append(events, e)
        /\ \A d \in Clients : pending'[d] \in {pending[d], NoDecision}
    BY <1>5, <2>1 DEF Commit
  <2>3. e.to = "LIVE" => Approved(e)
    BY <2>1 DEF LiveInv
  <2>4. ASSUME NEW t \in Strategies, CurrentState(t)' = "LIVE"
        PROVE  \E k \in 1..Len(events') : events'[k].id = t /\ events'[k].to = "LIVE" /\ Approved(events'[k])
    <3> HIDE DEF e
    <3>1. Len(events') = Len(events) + 1 /\ Len(events) \in Nat /\ events'[Len(events) + 1] = e
          /\ \A k \in 1..Len(events) : events'[k] = events[k]
      BY <2>1, <2>2
    <3>2. CASE t = e.id
      <4>1. Len(events) + 1 \in 1..Len(events')
        BY <3>1
      <4> QED BY <2>2, <2>3, <2>4, <3>1, <3>2, <4>1 DEF CurrentState
    <3>3. CASE t # e.id
      <4>1. PICK k \in 1..Len(events) : events[k].id = t /\ events[k].to = "LIVE" /\ Approved(events[k])
        BY <2>2, <2>4, <3>3 DEF LiveInv, LiveWasDecided, CurrentState, Approved
      <4>2. k \in 1..Len(events') /\ events'[k] = events[k]
        BY <3>1, <4>1
      <4> QED BY <4>1, <4>2
    <3> QED BY <3>2, <3>3
  <2>5. LiveWasDecided'
    BY <2>4 DEF LiveWasDecided, Approved
  <2> QED BY <2>2, <2>5 DEF LiveInv, Approved
<1>6. CASE Drop
  BY <1>6, <1>1 DEF Drop, CurrentState
<1>7. CASE UNCHANGED storeVars
  BY <1>7, <1>1 DEF storeVars, CurrentState
<1> QED BY <1>2, <1>3, <1>4, <1>5, <1>6, <1>7 DEF StoreStep

-----------------------------------------------------------------------------
(* The invariant                                                            *)

LadderAndLive == FactoryTypes /\ LadderInv /\ LiveInv

LEMMA LadderAndLiveInit == Init => LadderAndLive
<1> SUFFICES ASSUME Init PROVE LadderInv /\ LiveInv
  BY FactoryTypesInit DEF LadderAndLive
<1>1. CASE InitEmpty
  <2>1. \A j \in 1..9 : ~Rests("none", j)
    BY LadderFacts DEF Rests
  <2> QED BY <1>1, <2>1 DEF InitEmpty, StoreInit, LadderInv, LiveInv, LiveWasDecided, CurrentState, Absent, Rests
<1>2. CASE InitReopened
  <2>1. PICK s \in Strategies, x \in {CHOOSE y \in Specs : TRUE}, k \in 1..10 :
      /\ strategies = [t \in Strategies |-> IF t = s
                          THEN [state |-> Ladder[k], version |-> IF k = 1 THEN 0 ELSE 1] ELSE Absent]
      /\ versions = [t \in Strategies |-> [v \in Versions |-> IF t = s /\ v = 1 THEN x ELSE NoSpec]]
      /\ runs = UNION {Climbed(s, x, j).refs : j \in 1..(k - 1)}
      /\ events = [j \in 1..(k - 1) |-> Climbed(s, x, j)]
    BY <1>2, LadderSizes DEF InitReopened
  <2>0. pending = [c \in Clients |-> NoDecision]
    BY <1>2 DEF InitReopened
  <2>2. x \in Specs /\ x # NoSpec
    BY SpecsToShow, StoreAssumption
  <2>3. ASSUME NEW j \in 1..9, Rests(Ladder[k], j) PROVE Backed(s, j)
    <3>1. j < k
      <4>1. CASE \E i \in 1..8 : Ladder[k] = Ladder[i] /\ j < i
        <5>1. PICK i \in 1..8 : Ladder[k] = Ladder[i] /\ j < i
          BY <4>1
        <5>2. i = k
          BY <5>1, OneRung
        <5> QED BY <5>1, <5>2
      <4>2. CASE Ladder[k] \in {"LIVE_SMALL", "LIVE", "PAUSED"} /\ j < 8
        <5>1. \A i \in 1..8 : Ladder[i] \notin {"LIVE_SMALL", "LIVE", "PAUSED"}
          BY LadderFacts
        <5> QED BY <4>2, <5>1
      <4>3. Ladder[k] # "DEGRADED"
        BY LadderFacts
      <4> QED BY <2>3, <4>1, <4>2, <4>3 DEF Rests
    <3> DEFINE row == [id |-> s, version |-> 1, type |-> Required[j], status |-> "PASS", hash |-> x]
    <3>2. Climbed(s, x, j).refs = {row}
      BY DEF Climbed
    <3>3. row \in runs
      <4>1. j \in 1..(k - 1)
        BY <3>1
      <4> QED BY <2>1, <3>2, <4>1
    <3>4. 1 \in Registered(s) /\ versions[s][1] = x
      BY <2>1, <2>2, VersionOne DEF Registered
    <3> QED BY <3>3, <3>4 DEF Backed
  <2>4. \A j \in 1..9 : ~Rests("none", j)
    BY LadderFacts DEF Rests
  <2>5. CurrentState(s) = Ladder[k] /\ \A t \in Strategies : t # s => CurrentState(t) = "none"
    BY <2>1 DEF CurrentState, Absent
  <2>6. LadderInv
    BY <2>0, <2>3, <2>4, <2>5 DEF LadderInv
  <2>7. ASSUME CurrentState(s) = "LIVE"
        PROVE  \E n \in 1..Len(events) : events[n].id = s /\ events[n].to = "LIVE" /\ Approved(events[n])
    <3>1. k = 10
      <4>1. Ladder[k] = Ladder[10] /\ 10 \in 1..10
        BY <2>5, <2>7, LadderFacts
      <4> QED BY <4>1, OneRung
    <3>2. Len(events) = 9 /\ events[9] = Climbed(s, x, 9)
      BY <2>1, <3>1
    <3>3. Required[9] = "live_small_evidence"
      BY DEF Required
    <3>4. /\ events[9].id = s /\ events[9].to = "LIVE" /\ events[9].approved /\ events[9].actor = "owner"
          /\ \E r \in events[9].refs : r.type = "live_small_evidence" /\ r.status = "PASS"
      <4>1. PICK row : row = [id |-> s, version |-> 1, type |-> Required[9], status |-> "PASS", hash |-> x]
        OBVIOUS
      <4>2. events[9] = [id |-> s, version |-> 1, from |-> Ladder[9], to |-> Ladder[10], kind |-> "promote",
                         refs |-> {row}, actor |-> "owner", approved |-> TRUE]
        BY <3>2, <4>1 DEF Climbed
      <4>3. row \in events[9].refs /\ row.type = "live_small_evidence" /\ row.status = "PASS"
        BY <3>3, <4>1, <4>2
      <4> QED BY <4>2, <4>3, LadderFacts
    <3>5. 9 \in 1..Len(events)
      BY <3>2
    <3> QED BY <3>4, <3>5 DEF Approved, HumanActors
  <2>8. LiveWasDecided
    BY <2>5, <2>7 DEF LiveWasDecided, Approved
  <2> QED BY <2>0, <2>6, <2>8 DEF LiveInv
<1> QED BY <1>1, <1>2 DEF Init

LEMMA LadderAndLiveStep == LadderAndLive /\ [Next]_vars => LadderAndLive'
BY FactoryTypesStep, NextIsStoreStep, LadderStep, LiveStep DEF LadderAndLive, FactoryTypes

LEMMA LadderAndLiveHold == Spec => []LadderAndLive
<1>1. Init => LadderAndLive
  BY LadderAndLiveInit
<1>2. LadderAndLive /\ [Next]_vars => LadderAndLive'
  BY LadderAndLiveStep
<1> QED BY <1>1, <1>2, PTL DEF Spec

\* The rows of the database and what the clients hold keep their shape.
THEOREM StoreTypeCorrect == Spec => []StoreTypeOK
<1>1. LadderAndLive => StoreTypeOK
  BY DEF LadderAndLive, FactoryTypes, StoreTypes
<1> QED BY <1>1, LadderAndLiveHold, PTL

\* However many clients decide and write at a time, on whatever they have
\* read: LIVE is reached by a human's decision on live-small evidence only.
THEOREM LiveDecided == Spec => []LiveWasDecided
<1>1. LadderAndLive => LiveWasDecided
  BY DEF LadderAndLive, LiveInv
<1> QED BY <1>1, LadderAndLiveHold, PTL

\* No strategy stands on a rung up to DEMO without evidence that passed for
\* every rung below, whatever was written over what.
THEOREM LadderIsBacked == Spec => []LadderBacked
<1>1. LadderAndLive => LadderBacked
  <2> SUFFICES ASSUME LadderAndLive, NEW s \in Strategies, CurrentState(s) \in {Ladder[k] : k \in 1..8},
                      NEW j \in 1..(RankOf(CurrentState(s)) - 1)
               PROVE  \E r \in runs : /\ r.id = s /\ r.type = Required[j]
                                       /\ r.status = "PASS" /\ r.hash = versions[s][r.version]
    BY DEF LadderBacked
  <2>1. PICK k \in 1..8 : CurrentState(s) = Ladder[k]
    OBVIOUS
  <2>2. j \in 1..9 /\ j < k
    BY <2>1, Ranks
  <2>3. Rests(CurrentState(s), j)
    BY <2>1, <2>2 DEF Rests
  <2>4. Backed(s, j)
    BY <2>2, <2>3 DEF LadderAndLive, LadderInv
  <2> QED BY <2>4 DEF Backed
<1> QED BY <1>1, LadderAndLiveHold, PTL

-----------------------------------------------------------------------------
(* A rejected campaign has failed                                           *)

\* Evidence of s that failed.
Failed(s) == \E r \in runs : r.id = s /\ r.status = "FAIL"
Rejects(e) == e.to = "REJECTED" /\ e.actor = "factory"
NoHistory(s) == strategies[s] = Absent /\ \A v \in Versions : versions[s][v] = NoSpec
Runs(c, s) == run[c].pc # "idle" /\ run[c].id = s

\* The only run of its campaign: it climbs from the bottom, rung by rung, and
\* what it skips, or does not reach, has failed.
OnCourse(c, s) ==
    LET r == run[c] IN
    /\ r.pc \in {"insert", "measure", "register"} => NoHistory(s) /\ r.rung = 1
    /\ r.pc \in {"record", "advance", "write"} /\ r.rung < 5 =>
            /\ CurrentState(s) = Ladder[r.rung]
            /\ r.rung = 4 => r.gates
            /\ r.pc # "record" => (r.rung = 3 => r.gates) /\ (r.rung = 4 => r.rob)
    /\ r.pc = "record" /\ r.rung = 5 => Failed(s) \/ (r.gates /\ r.rob /\ CurrentState(s) = Ladder[5])
    /\ r.pc = "verdict" =>
            /\ r.rung = 5
            /\ Failed(s) \/ (r.gates /\ r.rob /\ r.oos /\ CurrentState(s) = Ladder[5])
    /\ r.pc \in {"reject", "rejected"} => Failed(s)

\* Of a campaign that was posted once, or not yet.
OnePost(s) ==
    /\ posts[s] = 0 => NoHistory(s) /\ \A c \in Clients : ~Runs(c, s)
    /\ \A c, d \in Clients : Runs(c, s) /\ Runs(d, s) => c = d
    /\ \A c \in Clients : Runs(c, s) => OnCourse(c, s)
    /\ \A c \in Clients : pending[c] # NoDecision /\ pending[c].id = s /\ Rejects(pending[c]) => Failed(s)
    /\ \A k \in 1..Len(events) : events[k].id = s /\ Rejects(events[k]) => Failed(s)

\* Decisions are those of runs about to write them.
Linked(c) ==
    pending[c] # NoDecision =>
        /\ run[c].pc \in {"write", "rejected"} /\ pending[c].id = run[c].id
        /\ run[c].pc = "write" => pending[c].to = Ladder[run[c].rung + 1]

\* A database that research fills, and one that the console works on.
Filling ==
    /\ asks = MaxAsks /\ request = [c \in Clients |-> NoRequest]
    /\ \A c \in Clients : Linked(c)
    /\ \A s \in Strategies : posts[s] <= 1 => OnePost(s)
WorkedOn ==
    /\ \A s \in Strategies : posts[s] = MaxPosts
    /\ \A c \in Clients : run[c] = Idle
    /\ \A c \in Clients : pending[c] # NoDecision => pending[c].actor # "factory"
    /\ \A k \in 1..Len(events) : events[k].actor # "factory"

CauseInv == posts \in [Strategies -> Nat] /\ (Filling \/ WorkedOn)

\* A run counts the selected variant as a survivor when the gates passed it.
Measured ==
    \A c \in Clients :
        /\ run[c].pc \in {"insert", "measure"} => ~run[c].gates
        /\ run[c].pc = "register" /\ run[c].gates => Overall(run[c].marks) = "PASS"

LEMMA RunsStay ==
    ASSUME StoreStep
    PROVE  runs \subseteq runs'
<1>1. ASSUME NEW row, RecordRun(row) PROVE runs \subseteq runs'
  BY <1>1 DEF RecordRun
<1>2. ASSUME NEW t, NEW v, NEW x, NEW executable, NEW parent, RegisterStrategy(t, v, x, executable, parent)
      PROVE  runs \subseteq runs'
  BY <1>2 DEF RegisterStrategy
<1>3. ASSUME NEW c, NEW t, NEW v, NEW tgt, NEW refs, NEW actor, NEW approved,
             Decide(c, t, v, tgt, refs, actor, approved)
      PROVE  runs \subseteq runs'
  BY <1>3 DEF Decide
<1>4. ASSUME NEW c, Commit(c) PROVE runs \subseteq runs'
  BY <1>4 DEF Commit
<1> QED BY <1>1, <1>2, <1>3, <1>4 DEF StoreStep, Drop, storeVars

\* A step of one run: what it leaves alone, and what is left to show.
LEMMA FillingFrame ==
    ASSUME FactoryTypes, posts \in [Strategies -> Nat], Filling,
           NEW d \in Clients, NEW t \in Strategies, Runs(d, t),
           \A s \in Strategies : s # t => strategies'[s] = strategies[s] /\ versions'[s] = versions[s],
           runs \subseteq runs',
           \A c \in Clients : c # d => run'[c] = run[c] /\ pending'[c] = pending[c],
           UNCHANGED <<posts, asks, request>>,
           run'[d].pc = "idle" \/ run'[d].id = t,
           Linked(d)',
           pending'[d] \in {NoDecision, pending[d]} \/ pending'[d].id = t,
           UNCHANGED events \/ (pending[d] # NoDecision /\ events' = Append(events, pending[d])),
           OnCourse(d, t) => /\ Runs(d, t)' => OnCourse(d, t)'
                             /\ pending'[d] # NoDecision /\ Rejects(pending'[d]) => Failed(t)'
    PROVE  Filling'
<1>1. ASSUME NEW s, Failed(s) PROVE Failed(s)'
  BY <1>1 DEF Failed
<1>2. ASSUME NEW s \in Strategies, s # t PROVE NoHistory(s) = NoHistory(s)'
  BY <1>2 DEF NoHistory
<1>3. ASSUME NEW c \in Clients, c # d, NEW s \in Strategies
      PROVE  Runs(c, s)' = Runs(c, s)
  BY <1>3 DEF Runs
<1>4. ASSUME NEW s \in Strategies, Runs(d, s)' PROVE s = t
  BY <1>4 DEF Runs
<1>5. ASSUME NEW c \in Clients, c # d, NEW s \in Strategies, s # t, OnCourse(c, s)
      PROVE  OnCourse(c, s)'
  BY <1>1, <1>2, <1>5 DEF OnCourse, CurrentState
<1>6. ASSUME NEW s \in Strategies, OnePost(s), NEW k \in 1..Len(events'), events'[k].id = s, Rejects(events'[k])
      PROVE  Failed(s)'
  <2>1. events \in Seq(EventRow)
    BY DEF FactoryTypes, StoreTypes
  <2>2. \/ k \in 1..Len(events) /\ events'[k] = events[k]
        \/ pending[d] # NoDecision /\ events'[k] = pending[d]
    BY <1>6, <2>1 DEF FactoryTypes, StoreTypes, StoreTypeOK
  <2> QED BY <1>1, <1>6, <2>2 DEF OnePost
<1>7. ASSUME NEW s \in Strategies, posts[s] <= 1
      PROVE  OnePost(s)'
  <2>1. OnePost(s)
    BY <1>7 DEF Filling
  <2>2. CASE s = t
    <3>1. posts[s] # 0 /\ OnCourse(d, s) /\ \A c \in Clients : c # d => ~Runs(c, s)
      BY <2>1, <2>2 DEF OnePost
    <3>2. \A c \in Clients : Runs(c, s)' => c = d
      BY <1>3, <3>1
    <3>3. ASSUME NEW c \in Clients, pending'[c] # NoDecision, pending'[c].id = s, Rejects(pending'[c])
          PROVE  Failed(s)'
      BY <1>1, <2>1, <2>2, <3>1, <3>3 DEF OnePost
    <3>4. \A c \in Clients : Runs(c, s)' => OnCourse(c, s)'
      BY <2>2, <3>1, <3>2
    <3> QED BY <2>1, <1>6, <3>1, <3>2, <3>3, <3>4 DEF OnePost, Rejects
  <2>3. CASE s # t
    <3>1. \A c \in Clients : Runs(c, s)' => c # d /\ Runs(c, s)
      BY <1>3, <1>4, <2>3
    <3>2. \A c \in Clients : Runs(c, s)' => OnCourse(c, s)'
      BY <3>1, <2>1, <2>3, <1>5 DEF OnePost
    <3>3. ASSUME NEW c \in Clients, pending'[c] # NoDecision, pending'[c].id = s, Rejects(pending'[c])
          PROVE  Failed(s)'
      BY <1>1, <2>1, <2>3, <3>3 DEF OnePost
    <3> QED BY <2>1, <2>3, <1>2, <1>6, <3>1, <3>2, <3>3 DEF OnePost, Rejects
  <2> QED BY <2>2, <2>3
<1>8. ASSUME NEW c \in Clients, c # d PROVE Linked(c)'
  BY <1>8 DEF Filling, Linked
<1> QED BY <1>7, <1>8 DEF Filling

\* A run that moves keeps its strategy, its selection and what it measured.
LEMMA Moved ==
    ASSUME FactoryTypes, NEW d \in Clients, run[d].pc # "idle", NEW pc, Goto(d, pc)
    PROVE  /\ run'[d].pc = pc /\ run'[d].id = run[d].id /\ run'[d].rung = run[d].rung
           /\ run'[d].gates = run[d].gates /\ run'[d].rob = run[d].rob /\ run'[d].oos = run[d].oos
           /\ \A c \in Clients : c # d => run'[c] = run[c]
<1>1. run[d] \in RunSteps /\ run \in [Clients -> RunSteps \cup {Idle}]
  BY RunFacts DEF FactoryTypes, RunShape
<1> DEFINE r == [run[d] EXCEPT !.pc = pc]
<1>2. r.pc = pc /\ r.id = run[d].id /\ r.rung = run[d].rung
      /\ r.gates = run[d].gates /\ r.rob = run[d].rob /\ r.oos = run[d].oos
  BY <1>1 DEF RunSteps
<1>3. run' = [run EXCEPT ![d] = r]
  BY DEF Goto
<1> HIDE DEF r
<1>4. run'[d] = r /\ \A c \in Clients : c # d => run'[c] = run[c]
  BY <1>1, <1>3
<1> QED BY <1>2, <1>4, Zenon

LEMMA MovedUp ==
    ASSUME FactoryTypes, NEW d \in Clients, run[d].pc # "idle", NEW k, Rung(d, k)
    PROVE  /\ run'[d].pc = "record" /\ run'[d].id = run[d].id /\ run'[d].rung = k
           /\ run'[d].gates = run[d].gates /\ run'[d].rob = run[d].rob /\ run'[d].oos = run[d].oos
           /\ \A c \in Clients : c # d => run'[c] = run[c]
<1>1. run[d] \in RunSteps /\ run \in [Clients -> RunSteps \cup {Idle}]
  BY RunFacts DEF FactoryTypes, RunShape
<1> DEFINE r == [run[d] EXCEPT !.pc = "record", !.rung = k]
<1>2. r.pc = "record" /\ r.id = run[d].id /\ r.rung = k
      /\ r.gates = run[d].gates /\ r.rob = run[d].rob /\ r.oos = run[d].oos
  BY <1>1 DEF RunSteps
<1>3. run' = [run EXCEPT ![d] = r]
  BY DEF Rung
<1> HIDE DEF r
<1>4. run'[d] = r /\ \A c \in Clients : c # d => run'[c] = run[c]
  BY <1>1, <1>3
<1> QED BY <1>2, <1>4, Zenon

LEMMA PromotesUp ==
    ASSUME NEW k \in 1..9
    PROVE  Promotes(Ladder[k], Ladder[k + 1])
BY LadderFacts DEF Promotes

LEMMA RegisteredRun ==
    ASSUME FactoryTypes, NEW d \in Clients, RegisterSelected(d)
    PROVE  /\ run'[d].pc \in {"finish", "record"} /\ run'[d].id = run[d].id /\ run'[d].rung = run[d].rung
           /\ \A c \in Clients : c # d => run'[c] = run[c]
<1>1. run[d].pc = "register" /\ run[d] \in RunSteps /\ run \in [Clients -> RunSteps \cup {Idle}]
  BY RunFacts DEF FactoryTypes, RunShape, RegisterSelected, At
<1> DEFINE pc == IF run[d].spec = NoSpec THEN "finish" ELSE "record"
           r == [run[d] EXCEPT !.pc = pc, !.marks = NoMarks]
<1>2. r.pc = pc /\ r.id = run[d].id /\ r.rung = run[d].rung
  BY <1>1 DEF RunSteps
<1>3. run' = [run EXCEPT ![d] = r]
  BY DEF RegisterSelected
<1> HIDE DEF r
<1> QED BY <1>1, <1>2, <1>3

LEMMA MeasuredRun ==
    ASSUME FactoryTypes, NEW d \in Clients, Measure(d)
    PROVE  /\ run'[d].pc = "register" /\ run'[d].id = run[d].id /\ run'[d].rung = run[d].rung
           /\ \A c \in Clients : c # d => run'[c] = run[c]
           /\ run'[d].gates => run[d].gates \/ Overall(run'[d].marks) = "PASS"
<1>1. run[d].pc = "measure" /\ run[d] \in RunSteps /\ run \in [Clients -> RunSteps \cup {Idle}]
  BY RunFacts DEF FactoryTypes, RunShape, Measure, At
<1>2. CASE run' = [run EXCEPT ![d].pc = "register"]
  <2> DEFINE r == [run[d] EXCEPT !.pc = "register"]
  <2>1. r.pc = "register" /\ r.id = run[d].id /\ r.rung = run[d].rung /\ r.gates = run[d].gates
    BY <1>1 DEF RunSteps
  <2>2. run' = [run EXCEPT ![d] = r]
    BY <1>2
  <2> HIDE DEF r
  <2> QED BY <1>1, <2>1, <2>2
<1>3. CASE \E x \in Grid, oos \in BOOLEAN, rob \in BOOLEAN, gates \in BOOLEAN, marks \in MetricInputs :
                /\ gates => Overall(marks) = "PASS"
                /\ run' = [run EXCEPT ![d].pc = "register", ![d].spec = x, ![d].oos = oos,
                                      ![d].gates = gates, ![d].rob = rob, ![d].marks = marks]
  <2>0. PICK x \in Grid, oos \in BOOLEAN, rob \in BOOLEAN, gates \in BOOLEAN, marks \in MetricInputs :
                /\ gates => Overall(marks) = "PASS"
                /\ run' = [run EXCEPT ![d].pc = "register", ![d].spec = x, ![d].oos = oos,
                                      ![d].gates = gates, ![d].rob = rob, ![d].marks = marks]
    BY <1>3, Zenon
  <2> DEFINE r == [run[d] EXCEPT !.pc = "register", !.spec = x, !.oos = oos,
                                 !.gates = gates, !.rob = rob, !.marks = marks]
  <2>1. r.pc = "register" /\ r.id = run[d].id /\ r.rung = run[d].rung /\ r.gates = gates /\ r.marks = marks
    BY <1>1 DEF RunSteps
  <2>2. run' = [run EXCEPT ![d] = r]
    BY <2>0
  <2> HIDE DEF r
  <2>3. run'[d] = r /\ \A c \in Clients : c # d => run'[c] = run[c]
    BY <1>1, <2>2
  <2>4. r.gates => Overall(r.marks) = "PASS"
    BY <2>0, <2>1, Zenon
  <2> QED BY <2>1, <2>3, <2>4, Zenon
<1> QED BY <1>2, <1>3, MeasureOutcome, Zenon

LEMMA RunStepActs ==
    ASSUME NEW d, RunStep(d)
    PROVE  run[d].pc # "idle" /\ UNCHANGED posts
<1>1. ASSUME InsertCampaign(d) \/ FinalVerdict(d) \/ FinishCampaign(d)
      PROVE  run[d].pc # "idle" /\ UNCHANGED posts
  BY <1>1 DEF InsertCampaign, FinalVerdict, FinishCampaign, At, ServiceOnly
<1>2. ASSUME Measure(d) \/ RegisterSelected(d) \/ RunRaises(d)
      PROVE  run[d].pc # "idle" /\ UNCHANGED posts
  BY <1>2 DEF Measure, RegisterSelected, RunRaises, At, StoreOnly, ServiceOnly
<1>3. ASSUME RecordRung(d) \/ AdvanceRung(d) \/ WriteRung(d) \/ RejectSelected(d) \/ WriteRejection(d)
      PROVE  run[d].pc # "idle" /\ UNCHANGED posts
  BY <1>3 DEF RecordRung, AdvanceRung, WriteRung, RejectSelected, WriteRejection, At, StoreOnly
<1> QED BY <1>1, <1>2, <1>3 DEF RunStep

LEMMA FillingRunStep ==
    ASSUME FactoryTypes, posts \in [Strategies -> Nat], Filling, StoreStep, RunShape',
           NEW d \in Clients, RunStep(d), UNCHANGED consoleVars
    PROVE  Filling'
<1>0. run[d].pc # "idle" /\ UNCHANGED posts
  BY RunStepActs
<1>t. PICK t \in Strategies : t = run[d].id
  BY <1>0, RunFacts
<1>1. run[d] \in RunSteps /\ run[d].rung \in 1..6 /\ Runs(d, t)
  BY <1>0, <1>t, RunFacts DEF Runs
<1>2. run \in [Clients -> RunSteps \cup {Idle}]
  BY DEF FactoryTypes, RunShape
<1>3. run[d].pc \notin {"write", "rejected"} => pending[d] = NoDecision
  BY DEF Filling, Linked
<1>4. UNCHANGED <<posts, asks, request>>
  BY <1>0 DEF consoleVars
<1>5. runs \subseteq runs'
  BY RunsStay
<1>6. Failed(t) => Failed(t)'
  BY <1>5 DEF Failed
\* The store is as it was.
<1>7. ASSUME UNCHANGED storeVars, run[d].pc \notin {"write", "rejected"},
             \A c \in Clients : c # d => run'[c] = run[c],
             run'[d].pc = "idle" \/ run'[d].id = t,
             OnCourse(d, t) => (Runs(d, t)' => OnCourse(d, t)')
      PROVE  Filling'
  <2>1. Linked(d)'
    BY <1>7, <1>3 DEF Linked, storeVars
  <2> QED BY <1>1, <1>3, <1>4, <1>5, <1>7, <2>1, FillingFrame DEF storeVars
<1>8. ASSUME Leave(d), UNCHANGED storeVars, run[d].pc \notin {"write", "rejected"}
      PROVE  Filling'
  <2>1. run'[d].pc = "idle" /\ \A c \in Clients : c # d => run'[c] = run[c]
    BY <1>8, <1>2 DEF Leave, Idle
  <2> QED BY <2>1, <1>7, <1>8 DEF Runs
<1>9. ASSUME NEW pc, Goto(d, pc)
      PROVE  /\ run'[d].pc = pc /\ run'[d].id = t /\ run'[d].rung = run[d].rung
             /\ run'[d].gates = run[d].gates /\ run'[d].rob = run[d].rob /\ run'[d].oos = run[d].oos
             /\ \A c \in Clients : c # d => run'[c] = run[c]
  BY <1>0, <1>9, Moved, <1>t
<1>10. ASSUME NEW k, Rung(d, k)
       PROVE  /\ run'[d].pc = "record" /\ run'[d].id = t /\ run'[d].rung = k
              /\ run'[d].gates = run[d].gates /\ run'[d].rob = run[d].rob /\ run'[d].oos = run[d].oos
              /\ \A c \in Clients : c # d => run'[c] = run[c]
  BY <1>0, <1>10, MovedUp, <1>t
<1>11. CASE InsertCampaign(d)
  <2>1. run[d].pc = "insert" /\ UNCHANGED storeVars
    BY <1>11 DEF InsertCampaign, At, ServiceOnly
  <2>2. Goto(d, "measure") \/ Leave(d)
    BY <1>11 DEF InsertCampaign
  <2>3. CASE Goto(d, "measure")
    <3>1. OnCourse(d, t) => OnCourse(d, t)'
      BY <2>1, <2>3, <1>9 DEF OnCourse, NoHistory, storeVars
    <3> QED BY <2>1, <2>3, <3>1, <1>7, <1>9
  <2> QED BY <2>1, <2>2, <2>3, <1>8
<1>12. CASE Measure(d)
  <2>1. run[d].pc = "measure" /\ UNCHANGED storeVars
    BY <1>12 DEF Measure, At
  <2>2. /\ run'[d].pc = "register" /\ run'[d].id = t /\ run'[d].rung = run[d].rung
        /\ \A c \in Clients : c # d => run'[c] = run[c]
    BY <1>12, MeasuredRun, <1>t
  <2>3. OnCourse(d, t) => OnCourse(d, t)'
    BY <2>1, <2>2 DEF OnCourse, NoHistory, storeVars
  <2> QED BY <2>1, <2>2, <2>3, <1>7
<1>13. CASE FinalVerdict(d)
  <2>1. run[d].pc = "verdict" /\ UNCHANGED storeVars
    BY <1>13 DEF FinalVerdict, At, ServiceOnly
  <2>2. \/ Goto(d, "advance") \/ Goto(d, "finish")
        \/ /\ Goto(d, "reject")
           /\ ~(run[d].gates /\ run[d].rob /\ run[d].oos /\ CurrentState(t) = "ROBUSTNESS_PASS")
    BY <1>13, <1>t DEF FinalVerdict
  <2>3. CASE Goto(d, "advance") \/ Goto(d, "finish")
    <3>1. run'[d].pc \in {"advance", "finish"} /\ run'[d].id = t /\ run'[d].rung = run[d].rung
          /\ \A c \in Clients : c # d => run'[c] = run[c]
      BY <2>3, <1>9
    <3>2. OnCourse(d, t) => OnCourse(d, t)'
      BY <2>1, <3>1 DEF OnCourse
    <3> QED BY <2>1, <3>1, <3>2, <1>7
  <2>4. CASE /\ Goto(d, "reject")
             /\ ~(run[d].gates /\ run[d].rob /\ run[d].oos /\ CurrentState(t) = "ROBUSTNESS_PASS")
    <3>1. OnCourse(d, t) => Failed(t)
      BY <2>1, <2>4, LadderFacts DEF OnCourse
    <3>2. OnCourse(d, t) => OnCourse(d, t)'
      BY <2>4, <3>1, <1>6, <1>9 DEF OnCourse
    <3> QED BY <2>1, <2>4, <3>2, <1>7, <1>9
  <2> QED BY <2>2, <2>3, <2>4
<1>14. CASE FinishCampaign(d) \/ RunRaises(d)
  BY <1>14, <1>8 DEF FinishCampaign, RunRaises, At, ServiceOnly
<1>15. CASE RegisterSelected(d)
  <2>1. run[d].pc = "register"
    BY <1>15 DEF RegisterSelected, At
  <2>2. /\ run'[d].pc \in {"finish", "record"} /\ run'[d].id = t /\ run'[d].rung = run[d].rung
        /\ \A c \in Clients : c # d => run'[c] = run[c]
    BY <1>15, RegisteredRun, <1>t
  <2>3. SpecOf(run[d]) \in Specs
    BY <1>1, ServiceAssumption DEF SpecOf, RunSteps
  <2>4. \/ RegisterStrategy(t, 1, SpecOf(run[d]), TRUE, FALSE)
        \/ versions[t][1] = SpecOf(run[d]) /\ UNCHANGED storeVars
    BY <1>15, <1>t DEF RegisterSelected
  <2>5. OnCourse(d, t) => versions[t][1] # SpecOf(run[d])
    BY <2>1, <2>3, VersionOne, StoreAssumption DEF OnCourse, NoHistory
  <2>6. CASE RegisterStrategy(t, 1, SpecOf(run[d]), TRUE, FALSE)
    <3>1. /\ \A s \in Strategies : s # t => strategies'[s] = strategies[s] /\ versions'[s] = versions[s]
          /\ strategies'[t].state = "DRAFT" /\ UNCHANGED <<events, pending>>
      BY <2>6, <1>1 DEF RegisterStrategy, FactoryTypes, StoreTypes, StoreTypeOK
    <3>2. OnCourse(d, t) => OnCourse(d, t)'
      BY <2>1, <2>2, <3>1, LadderFacts DEF OnCourse, CurrentState
    <3>3. Linked(d)' /\ pending[d] = NoDecision
      BY <2>1, <3>1, <1>3 DEF Linked
    <3> QED BY <2>2, <3>1, <3>2, <3>3, <1>1, <1>4, <1>5, FillingFrame
  <2>7. CASE versions[t][1] = SpecOf(run[d]) /\ UNCHANGED storeVars
    BY <2>1, <2>2, <2>5, <2>7, <1>7
  <2> QED BY <2>4, <2>6, <2>7
<1>16. CASE RejectSelected(d)
  <2>1. run[d].pc = "reject" /\ Decide(d, t, 1, "REJECTED", {}, "factory", FALSE) /\ Goto(d, "rejected")
    BY <1>16, <1>t DEF RejectSelected, At
  <2>2. /\ run'[d].pc = "rejected" /\ run'[d].id = t
        /\ \A c \in Clients : c # d => run'[c] = run[c]
    BY <2>1, <1>9
  <2>3. /\ UNCHANGED <<strategies, versions, runs, events>>
        /\ pending[d] = NoDecision /\ pending'[d].id = t
        /\ \A c \in Clients : c # d => pending'[c] = pending[c]
    BY <2>1 DEF Decide, FactoryTypes, StoreTypes, StoreTypeOK
  <2>4. OnCourse(d, t) => Failed(t)'
    BY <2>1, <1>6 DEF OnCourse
  <2>5. OnCourse(d, t) => OnCourse(d, t)'
    BY <2>2, <2>4 DEF OnCourse
  <2>6. Linked(d)'
    BY <2>2, <2>3 DEF Linked
  <2> QED BY <2>2, <2>3, <2>4, <2>5, <2>6, <1>1, <1>4, <1>5, FillingFrame
<1>17. CASE WriteRejection(d)
  <2>1. run[d].pc = "rejected" /\ Commit(d) /\ Goto(d, "finish")
    BY <1>17 DEF WriteRejection, At
  <2>2. run'[d].pc = "finish" /\ run'[d].id = t /\ \A c \in Clients : c # d => run'[c] = run[c]
    BY <2>1, <1>9
  <2>3. pending[d] # NoDecision /\ pending[d].id = t
    BY <2>1, <1>t DEF Commit, Filling, Linked
  <2>4. /\ UNCHANGED versions /\ pending'[d] = NoDecision /\ events' = Append(events, pending[d])
        /\ \A s \in Strategies : s # t => strategies'[s] = strategies[s]
        /\ \A c \in Clients : c # d => pending'[c] = pending[c]
    BY <2>1, <2>3 DEF Commit, FactoryTypes, StoreTypes, StoreTypeOK
  <2>5. OnCourse(d, t)'
    BY <2>2 DEF OnCourse
  <2>6. Linked(d)'
    BY <2>4 DEF Linked
  <2> QED BY <2>2, <2>3, <2>4, <2>5, <2>6, <1>1, <1>4, <1>5, FillingFrame
<1>18. CASE WriteRung(d)
  <2> DEFINE k == run[d].rung
  <2>1. run[d].pc = "write" /\ Commit(d)
    BY <1>18 DEF WriteRung, At
  <2>2. pending[d] # NoDecision /\ pending[d].id = t /\ pending[d].to = Ladder[k + 1]
    BY <2>1, <1>t DEF Commit, Filling, Linked
  <2>3. /\ UNCHANGED versions /\ pending'[d] = NoDecision /\ events' = Append(events, pending[d])
        /\ \A s \in Strategies : s # t => strategies'[s] = strategies[s]
        /\ strategies'[t].state = Ladder[k + 1]
        /\ \A c \in Clients : c # d => pending'[c] = pending[c]
    BY <2>1, <2>2 DEF Commit, FactoryTypes, StoreTypes, StoreTypeOK
  <2>4. Linked(d)'
    BY <2>3 DEF Linked
  <2>5. \/ k = 6 /\ Goto(d, "finish")
        \/ k \in 1..5 /\ Rung(d, k + 1)
    BY <1>18, <1>1 DEF WriteRung
  <2>6. CASE k = 6 /\ Goto(d, "finish")
    <3>1. run'[d].pc = "finish" /\ run'[d].id = t /\ \A c \in Clients : c # d => run'[c] = run[c]
      BY <2>6, <1>9
    <3>2. OnCourse(d, t)'
      BY <3>1 DEF OnCourse
    <3> QED BY <2>2, <2>3, <2>4, <3>1, <3>2, <1>1, <1>4, <1>5, FillingFrame
  <2>7. CASE k \in 1..5 /\ Rung(d, k + 1)
    <3>1. /\ run'[d].pc = "record" /\ run'[d].id = t /\ run'[d].rung = k + 1
          /\ run'[d].gates = run[d].gates /\ run'[d].rob = run[d].rob /\ run'[d].oos = run[d].oos
          /\ \A c \in Clients : c # d => run'[c] = run[c]
      BY <2>7, <1>10
    <3>2. OnCourse(d, t) => OnCourse(d, t)'
      BY <2>1, <2>3, <2>7, <3>1 DEF OnCourse, CurrentState
    <3> QED BY <2>2, <2>3, <2>4, <3>1, <3>2, <1>1, <1>4, <1>5, FillingFrame
  <2> QED BY <2>5, <2>6, <2>7
<1>19. CASE RecordRung(d)
  <2> DEFINE row == [id |-> run[d].id, version |-> 1, type |-> Required[run[d].rung],
                     status |-> IF Passed(run[d]) THEN "PASS" ELSE "FAIL", hash |-> run[d].spec]
  <2>1. run[d].pc = "record" /\ RecordRun(row)
    BY <1>19 DEF RecordRung, At
  <2>2. UNCHANGED <<strategies, versions, events, pending>> /\ runs' = runs \cup {row}
    BY <2>1 DEF RecordRun
  <2>3. ~Passed(run[d]) => Failed(t)'
    <3>1. ~Passed(run[d]) => row.status = "FAIL"
      OBVIOUS
    <3>2. row.id = t
      BY <1>t
    <3> HIDE DEF row
    <3> QED BY <2>2, <3>1, <3>2 DEF Failed
  <2>4. pending'[d] = NoDecision /\ pending[d] = NoDecision /\ Linked(d)'
    BY <2>1, <2>2, <1>3 DEF Linked
  <2> HIDE DEF row
  <2>5. CASE run[d].rung = 5
    <3>1. Goto(d, "verdict")
      BY <1>19, <2>5, Zenon DEF RecordRung
    <3>2. OnCourse(d, t) => OnCourse(d, t)'
      BY <2>1, <2>2, <2>3, <2>5, <3>1, <1>6, <1>9 DEF OnCourse, CurrentState, Passed
    <3> QED BY <2>2, <2>4, <3>1, <3>2, <1>1, <1>4, <1>5, <1>9, FillingFrame
  <2>6. CASE run[d].rung # 5 /\ run[d].rung \in {3, 4} /\ ~Passed(run[d])
    <3>1. Rung(d, 5)
      BY <1>19, <2>6, Zenon DEF RecordRung
    <3>2. OnCourse(d, t) => OnCourse(d, t)'
      BY <2>3, <2>6, <3>1, <1>10 DEF OnCourse
    <3> QED BY <2>2, <2>4, <3>1, <3>2, <1>1, <1>4, <1>5, <1>10, FillingFrame
  <2>7. CASE run[d].rung # 5 /\ ~(run[d].rung \in {3, 4} /\ ~Passed(run[d]))
    <3>1. Goto(d, "advance")
      BY <1>19, <2>7, Zenon DEF RecordRung
    <3>2. OnCourse(d, t) => OnCourse(d, t)'
      BY <2>1, <2>2, <2>7, <3>1, <1>9 DEF OnCourse, CurrentState, Passed
    <3> QED BY <2>2, <2>4, <3>1, <3>2, <1>1, <1>4, <1>5, <1>9, FillingFrame
  <2> QED BY <2>5, <2>6, <2>7
<1>20. CASE AdvanceRung(d)
  <2> DEFINE k == run[d].rung
  <2>1. run[d].pc = "advance"
    BY <1>20 DEF AdvanceRung, At
  <2>2. \/ /\ Decide(d, t, 1, Ladder[k + 1], Evidence(run[d]), "factory", FALSE) /\ Goto(d, "write")
        \/ /\ ~Promotes(CurrentState(t), Ladder[k + 1]) /\ UNCHANGED storeVars
           /\ (k = 6 /\ Goto(d, "finish")) \/ (k \in 1..5 /\ Rung(d, k + 1))
    <3>1. CASE Promotes(CurrentState(t), Ladder[k + 1])
      BY <1>20, <1>t, <3>1 DEF AdvanceRung
    <3>2. CASE ~Promotes(CurrentState(t), Ladder[k + 1]) /\ k = 6
      BY <1>20, <1>t, <3>2 DEF AdvanceRung
    <3>3. CASE ~Promotes(CurrentState(t), Ladder[k + 1]) /\ k \in 1..5
      BY <1>20, <1>t, <3>3 DEF AdvanceRung
    <3>4. k = 6 \/ k \in 1..5
      BY <1>1
    <3> HIDE DEF k
    <3> QED BY <3>1, <3>2, <3>3, <3>4, Zenon
  <2>3. CASE Decide(d, t, 1, Ladder[k + 1], Evidence(run[d]), "factory", FALSE) /\ Goto(d, "write")
    <3>1. /\ UNCHANGED <<strategies, versions, runs, events>>
          /\ pending[d] = NoDecision /\ pending'[d].id = t /\ pending'[d].to = Ladder[k + 1]
          /\ \A c \in Clients : c # d => pending'[c] = pending[c]
      BY <2>3 DEF Decide, FactoryTypes, StoreTypes, StoreTypeOK
    <3>2. Ladder[k + 1] # "REJECTED"
      BY <1>1, LadderFacts
    <3>3. OnCourse(d, t) => OnCourse(d, t)'
      BY <2>1, <2>3, <3>1, <1>9 DEF OnCourse, CurrentState
    <3>4. Linked(d)'
      BY <2>3, <3>1, <1>t, <1>9 DEF Linked
    <3> QED BY <2>3, <3>1, <3>2, <3>3, <3>4, <1>1, <1>4, <1>5, <1>9, FillingFrame DEF Rejects
  <2>4. CASE /\ ~Promotes(CurrentState(t), Ladder[k + 1]) /\ UNCHANGED storeVars
             /\ k = 6 /\ Goto(d, "finish")
    <3>1. OnCourse(d, t) => OnCourse(d, t)'
      BY <2>4, <1>9 DEF OnCourse
    <3> QED BY <2>1, <2>4, <3>1, <1>7, <1>9
  <2>5. CASE /\ ~Promotes(CurrentState(t), Ladder[k + 1]) /\ UNCHANGED storeVars
             /\ k \in 1..5 /\ Rung(d, k + 1)
    <3>1. OnCourse(d, t) => k = 5
      BY <2>1, <2>5, PromotesUp DEF OnCourse
    <3>2. OnCourse(d, t) => OnCourse(d, t)'
      BY <2>5, <3>1, <1>10 DEF OnCourse
    <3> QED BY <2>1, <2>5, <3>2, <1>7, <1>10
  <2> QED BY <2>2, <2>3, <2>4, <2>5
<1> QED BY <1>11, <1>12, <1>13, <1>14, <1>15, <1>16, <1>17, <1>18, <1>19, <1>20 DEF RunStep

\* Research fills the database alone: the console does nothing there.
LEMMA FillingStep ==
    ASSUME FactoryTypes, posts \in [Strategies -> Nat], Filling, StoreStep, RunShape', [Next]_vars
    PROVE  Filling'
<1>1. ASSUME ConsoleNext PROVE FALSE
  <2>1. ~(asks < MaxAsks)
    BY ConsoleAssumption DEF Filling
  <2>2. \A c \in Clients : request[c] = NoRequest
    BY DEF Filling
  <2> QED BY <1>1, <2>1, <2>2 DEF ConsoleNext, Submit, Refused, ReadState, Advance, RecordEvidence, Register,
        ValidatePython, GuidedStart, GuidedRegister, Ask
<1>2. ASSUME NEW c \in Clients, run[c] = Idle, Settle(c) PROVE FALSE
  <2>1. pending[c] # NoDecision
    BY <1>2 DEF Settle, Commit, Abandon
  <2>2. run[c].pc = "idle"
    BY <1>2 DEF Idle
  <2> QED BY <2>1, <2>2 DEF Filling, Linked
<1>3. ASSUME NEW c \in Clients, NEW s \in Strategies, PostCampaign(c, s), UNCHANGED consoleVars
      PROVE  Filling'
  <2> DEFINE r == [pc |-> IF campaigns[s] = "none" THEN "insert" ELSE "measure",
                   id |-> s, spec |-> NoSpec, rung |-> 1,
                   gates |-> FALSE, rob |-> FALSE, oos |-> FALSE, marks |-> NoMarks]
  <2>1. run' = [run EXCEPT ![c] = r] /\ posts' = [posts EXCEPT ![s] = @ + 1] /\ run[c].pc = "idle"
        /\ UNCHANGED storeVars
    BY <1>3 DEF PostCampaign, Idle
  <2>2. r.pc \in {"insert", "measure"} /\ r.id = s /\ r.rung = 1
    OBVIOUS
  <2> HIDE DEF r
  <2>3. run'[c] = r /\ \A d \in Clients : d # c => run'[d] = run[d]
    BY <2>1 DEF FactoryTypes, RunShape
  <2>4. \A t \in Strategies : t # s => posts'[t] = posts[t]
    BY <2>1
  <2>5. posts'[s] = posts[s] + 1 /\ posts[s] \in Nat
    BY <2>1
  <2>6. \A d \in Clients : Linked(d)'
    BY <2>1, <2>3 DEF Filling, Linked, storeVars
  <2>7. ASSUME NEW t \in Strategies, t # s, posts'[t] <= 1
        PROVE  OnePost(t)'
    <3>1. OnePost(t)
      BY <2>4, <2>7 DEF Filling
    <3>2. ASSUME NEW d \in Clients, Runs(d, t)' PROVE d # c /\ Runs(d, t)
      BY <2>2, <2>3, <2>7, <3>2 DEF Runs
    <3>3. ASSUME NEW d \in Clients, Runs(d, t)' PROVE OnCourse(d, t)'
      <4>1. OnCourse(d, t)
        BY <3>1, <3>2, <3>3 DEF OnePost
      <4> QED BY <4>1, <3>2, <3>3, <2>1, <2>3 DEF OnCourse, Failed, NoHistory, CurrentState, storeVars
    <3> QED BY <3>1, <3>2, <3>3, <2>1, <2>4, <2>7 DEF OnePost, Failed, NoHistory, storeVars
  <2>8. ASSUME posts'[s] <= 1
        PROVE  OnePost(s)'
    <3>1. posts[s] = 0 /\ OnePost(s)
      BY <2>5, <2>8 DEF Filling
    <3>2. NoHistory(s) /\ \A d \in Clients : ~Runs(d, s)
      BY <3>1 DEF OnePost
    <3>3. \A d \in Clients : Runs(d, s)' => d = c
      BY <2>3, <3>2 DEF Runs
    <3>4. OnCourse(c, s)'
      BY <2>1, <2>2, <2>3, <3>2 DEF OnCourse, NoHistory, storeVars
    <3>5. posts'[s] # 0
      BY <2>5
    <3> QED BY <3>1, <3>3, <3>4, <3>5, <2>1 DEF OnePost, Failed, NoHistory, storeVars
  <2> QED BY <1>3, <2>6, <2>7, <2>8 DEF Filling, consoleVars
<1>4. ASSUME Crash, UNCHANGED consoleVars
      PROVE  Filling'
  <2>1. \A c \in Clients : run'[c] = Idle /\ pending'[c] = NoDecision
    BY <1>4 DEF Crash
  <2>2. \A c \in Clients : ~(run'[c].pc # "idle") /\ Linked(c)'
    BY <2>1 DEF Idle, Linked
  <2>3. ASSUME NEW s \in Strategies, posts[s] <= 1 PROVE OnePost(s)'
    <3>1. OnePost(s)
      BY <2>3 DEF Filling
    <3> QED BY <3>1, <2>1, <2>2, <1>4 DEF Crash, OnePost, Runs, NoHistory, Failed
  <2> QED BY <1>4, <2>2, <2>3 DEF Filling, Crash, consoleVars
<1>5. CASE UNCHANGED vars
  <2>1. UNCHANGED <<strategies, versions, runs, events, pending, asks, request, run, posts>>
    BY <1>5 DEF vars, storeVars, consoleVars, serviceVars
  <2>2. \A c \in Clients : Linked(c)'
    BY <2>1 DEF Filling, Linked
  <2>3. ASSUME NEW s \in Strategies, posts[s] <= 1 PROVE OnePost(s)'
    <3>1. OnePost(s)
      BY <2>3 DEF Filling
    <3>2. \A c \in Clients : OnCourse(c, s) => OnCourse(c, s)'
      BY <2>1 DEF OnCourse, NoHistory, Failed, CurrentState
    <3> QED BY <3>1, <3>2, <2>1 DEF OnePost, Runs, NoHistory, Failed
  <2> QED BY <2>1, <2>2, <2>3 DEF Filling
<1> QED BY <1>1, <1>2, <1>3, <1>4, <1>5, FillingRunStep DEF Next, ServiceNext

\* No campaign is posted in a database the console works on: no decision is
\* the factory's.
LEMMA WorkedOnStep ==
    ASSUME FactoryTypes, WorkedOn, [Next]_vars
    PROVE  WorkedOn'
<1> DEFINE Ours(e) == e # NoDecision => e.actor # "factory"
<1>0. pending \in [Clients -> EventRow \cup {NoDecision}] /\ events \in Seq(EventRow)
  BY DEF FactoryTypes, StoreTypes, StoreTypeOK
<1>1. ASSUME UNCHANGED <<posts, run, events>>, \A c \in Clients : Ours(pending'[c])
      PROVE  WorkedOn'
  BY <1>1 DEF WorkedOn
<1>2. \A c \in Clients : Ours(pending[c])
  BY DEF WorkedOn
<1>3. ASSUME NEW c \in Clients, NEW s, NEW v, NEW tgt, NEW refs, NEW actor, NEW approved,
             Decide(c, s, v, tgt, refs, actor, approved), actor # "factory"
      PROVE  (\A d \in Clients : Ours(pending'[d])) /\ UNCHANGED events
  <2>1. UNCHANGED events /\ pending'[c].actor = actor /\ \A d \in Clients : d # c => pending'[d] = pending[d]
    BY <1>0, <1>3 DEF Decide
  <2> QED BY <2>1, <1>2, <1>3
<1> HIDE DEF Ours
<1>4. CASE ConsoleNext /\ UNCHANGED serviceVars
  <2>0. UNCHANGED <<posts, run>>
    BY <1>4 DEF serviceVars
  <2>1. ASSUME NEW c \in Clients, Submit(c) PROVE WorkedOn'
    <3>1. PICK refs, v : Decide(c, request[c].id, v, request[c].target, refs, "ui", TRUE)
      BY <2>1 DEF Submit
    <3> QED BY <2>0, <3>1, <1>1, <1>3
  <2>2. ASSUME NEW c \in Clients, NEW s \in Strategies, Advance(c, s) PROVE WorkedOn'
    <3>1. PICK v \in Registered(s), tgt \in AllStates, refs \in References(s),
               actor \in {"owner", "llm"}, approved \in BOOLEAN : Decide(c, s, v, tgt, refs, actor, approved)
      BY <2>2 DEF Advance
    <3> QED BY <2>0, <3>1, <1>1, <1>3
  <2>3. ASSUME UNCHANGED <<pending, events>> PROVE WorkedOn'
    BY <2>0, <2>3, <1>1, <1>2
  <2>4. ASSUME NEW c \in Clients, Refused(c) PROVE WorkedOn'
    BY <2>3, <2>4 DEF Refused, storeVars
  <2>5. ASSUME NEW c \in Clients, NEW s \in Strategies, ReadState(c, s) PROVE WorkedOn'
    BY <2>3, <2>5 DEF ReadState, storeVars
  <2>6. ASSUME NEW s \in Strategies, RecordEvidence(s) \/ ValidatePython(s) PROVE WorkedOn'
    BY <2>3, <2>6 DEF RecordEvidence, ValidatePython, RecordRun
  <2>7. ASSUME NEW s \in Strategies, Register(s) PROVE WorkedOn'
    BY <2>3, <2>7 DEF Register, RegisterStrategy
  <2>8. ASSUME NEW s \in Strategies, NEW x \in Specs, GuidedStart(s, x) PROVE WorkedOn'
    BY <2>3, <2>8 DEF GuidedStart, storeVars
  <2>9. ASSUME NEW s \in Strategies, NEW x \in Specs, GuidedRegister(s, x) PROVE WorkedOn'
    BY <2>3, <2>9 DEF GuidedRegister, RegisterStrategy
  <2> QED BY <1>4, <2>1, <2>2, <2>4, <2>5, <2>6, <2>7, <2>8, <2>9 DEF ConsoleNext
<1>5. ASSUME NEW c \in Clients, Settle(c), UNCHANGED serviceVars
      PROVE  WorkedOn'
  <2>0. UNCHANGED <<posts, run>>
    BY <1>5 DEF serviceVars
  <2>1. \A d \in Clients : Ours(pending'[d])
    BY <1>0, <1>2, <1>5 DEF Settle, Commit, Abandon, Ours
  <2>2. CASE Commit(c)
    <3>1. pending[c] # NoDecision /\ pending[c] \in EventRow /\ events' = Append(events, pending[c])
      BY <1>0, <2>2 DEF Commit
    <3>2. pending[c].actor # "factory"
      BY <3>1 DEF WorkedOn
    <3>3. ASSUME NEW k \in 1..Len(events') PROVE events'[k].actor # "factory"
      <4>1. (k \in 1..Len(events) /\ events'[k] = events[k]) \/ events'[k] = pending[c]
        BY <1>0, <3>1
      <4> QED BY <4>1, <3>2 DEF WorkedOn
    <3> QED BY <2>0, <2>1, <3>3 DEF WorkedOn, Ours
  <2>3. CASE Abandon(c)
    BY <2>0, <2>1, <2>3, <1>1 DEF Abandon
  <2> QED BY <1>5, <2>2, <2>3 DEF Settle
<1>6. ASSUME ServiceNext PROVE FALSE
  <2>1. ASSUME NEW c \in Clients, RunStep(c) PROVE FALSE
    BY <2>1, RunStepActs DEF WorkedOn, Idle
  <2>2. ASSUME NEW c \in Clients, NEW s \in Strategies, PostCampaign(c, s) PROVE FALSE
    BY <2>2, ServiceAssumption DEF PostCampaign, WorkedOn
  <2>3. ~Crash
    BY DEF Crash, WorkedOn
  <2> QED BY <1>6, <2>1, <2>2, <2>3 DEF ServiceNext
<1>7. CASE UNCHANGED vars
  BY <1>7, <1>1, <1>2 DEF vars, storeVars, serviceVars
<1> QED BY <1>4, <1>5, <1>6, <1>7 DEF Next

LEMMA CauseInit == ASSUME Init PROVE CauseInv
<1>0. /\ request = [c \in Clients |-> NoRequest] /\ run = [c \in Clients |-> Idle]
      /\ \A c \in Clients : run[c].pc = "idle"
  BY DEF Init, Idle
<1>1. CASE InitReopened
  <2>1. PICK s \in Strategies, x \in {CHOOSE y \in Specs : TRUE}, k \in 1..Len(Ladder) :
          /\ events = [j \in 1..(k - 1) |-> Climbed(s, x, j)]
          /\ pending = [c \in Clients |-> NoDecision]
          /\ posts = [t \in Strategies |-> MaxPosts]
    BY <1>1 DEF InitReopened
  <2>2. \A j \in 1..Len(events) : events[j].actor # "factory"
    <3>1. Len(events) = k - 1
      BY <2>1, LadderSizes
    <3> QED BY <2>1, <3>1 DEF Climbed
  <2> QED BY <1>0, <2>1, <2>2, ServiceAssumption DEF CauseInv, WorkedOn
<1>2. CASE InitEmpty
  <2>1. ASSUME NEW s \in Strategies PROVE OnePost(s)
    BY <1>0, <1>2 DEF InitEmpty, StoreInit, OnePost, NoHistory, Runs
  <2> QED BY <1>0, <1>2, <2>1 DEF InitEmpty, StoreInit, CauseInv, Filling, Linked
<1> QED BY <1>1, <1>2 DEF Init

LEMMA PostsStep ==
    ASSUME posts \in [Strategies -> Nat], [Next]_vars
    PROVE  posts' \in [Strategies -> Nat]
<1>1. ASSUME NEW c \in Clients, RunStep(c) PROVE UNCHANGED posts
  BY <1>1, RunStepActs
<1>2. ASSUME NEW c \in Clients, NEW s \in Strategies, PostCampaign(c, s) PROVE posts' \in [Strategies -> Nat]
  BY <1>2 DEF PostCampaign
<1> QED BY <1>1, <1>2 DEF Next, ServiceNext, Crash, vars, serviceVars

LEMMA CauseStep ==
    ASSUME FactoryTypes, FactoryTypes', CauseInv, [Next]_vars
    PROVE  CauseInv'
<1>1. StoreStep
  BY NextIsStoreStep
<1> QED BY <1>1, FillingStep, WorkedOnStep, PostsStep DEF CauseInv, FactoryTypes

LEMMA MeasuredStep ==
    ASSUME FactoryTypes, Measured, [Next]_vars
    PROVE  Measured'
<1>1. ASSUME UNCHANGED run PROVE Measured'
  BY <1>1 DEF Measured
<1>2. ASSUME NEW d \in Clients, \A c \in Clients : c # d => run'[c] = run[c],
             run'[d].pc \in {"insert", "measure"} => ~run'[d].gates,
             run'[d].pc = "register" /\ run'[d].gates => Overall(run'[d].marks) = "PASS"
      PROVE  Measured'
  <2>1. ASSUME NEW c \in Clients, c # d
        PROVE  /\ run'[c].pc \in {"insert", "measure"} => ~run'[c].gates
               /\ run'[c].pc = "register" /\ run'[c].gates => Overall(run'[c].marks) = "PASS"
    BY <1>2, <2>1 DEF Measured
  <2> QED BY <1>2, <2>1 DEF Measured
<1>3. ASSUME NEW d \in Clients, Leave(d) PROVE Measured'
  <2>1. run'[d].pc = "idle" /\ \A c \in Clients : c # d => run'[c] = run[c]
    BY <1>3 DEF Leave, Idle, FactoryTypes, RunShape
  <2> QED BY <2>1, <1>2
<1>4. ASSUME NEW d \in Clients, run[d].pc # "idle", NEW pc, Goto(d, pc),
             pc = "measure" => run[d].pc = "insert", pc \notin {"insert", "register"}
      PROVE  Measured'
  BY <1>4, <1>2, Moved DEF Measured
<1>5. ASSUME NEW d \in Clients, run[d].pc # "idle", NEW k, Rung(d, k) PROVE Measured'
  BY <1>5, <1>2, MovedUp
<1>6. ASSUME NEW d \in Clients, RunStep(d) PROVE Measured'
  <2>0. run[d].pc # "idle"
    BY <1>6, RunStepActs
  <2>1. CASE InsertCampaign(d)
    BY <2>0, <2>1, <1>3, <1>4 DEF InsertCampaign, At
  <2>2. CASE Measure(d)
    <3>1. ~run[d].gates
      BY <2>2 DEF Measure, At, Measured
    <3> QED BY <2>2, <3>1, <1>2, MeasuredRun
  <2>3. CASE RegisterSelected(d)
    BY <2>3, <1>2, RegisteredRun
  <2>4. CASE RecordRung(d)
    <3>1. Goto(d, "verdict") \/ Rung(d, 5) \/ Goto(d, "advance")
      BY <2>4 DEF RecordRung
    <3> QED BY <2>0, <3>1, <1>4, <1>5
  <2>5. CASE AdvanceRung(d)
    <3>1. Goto(d, "write") \/ Goto(d, "finish") \/ Rung(d, run[d].rung + 1)
      BY <2>5 DEF AdvanceRung
    <3> QED BY <2>0, <3>1, <1>4, <1>5
  <2>6. CASE WriteRung(d)
    <3>1. Goto(d, "finish") \/ Rung(d, run[d].rung + 1)
      BY <2>6 DEF WriteRung
    <3> QED BY <2>0, <3>1, <1>4, <1>5
  <2>7. CASE FinalVerdict(d)
    <3>1. Goto(d, "advance") \/ Goto(d, "finish") \/ Goto(d, "reject")
      BY <2>7 DEF FinalVerdict
    <3> QED BY <2>0, <3>1, <1>4
  <2>8. CASE RejectSelected(d)
    <3>1. Goto(d, "rejected")
      BY <2>8 DEF RejectSelected
    <3> QED BY <2>0, <3>1, <1>4
  <2>9. CASE WriteRejection(d)
    <3>1. Goto(d, "finish")
      BY <2>9 DEF WriteRejection
    <3> QED BY <2>0, <3>1, <1>4
  <2>10. CASE FinishCampaign(d) \/ RunRaises(d)
    BY <2>10, <1>3 DEF FinishCampaign, RunRaises
  <2> QED BY <1>6, <2>1, <2>2, <2>3, <2>4, <2>5, <2>6, <2>7, <2>8, <2>9, <2>10 DEF RunStep
<1>7. ASSUME NEW c \in Clients, NEW s \in Strategies, PostCampaign(c, s) PROVE Measured'
  <2> DEFINE r == [pc |-> IF campaigns[s] = "none" THEN "insert" ELSE "measure",
                   id |-> s, spec |-> NoSpec, rung |-> 1,
                   gates |-> FALSE, rob |-> FALSE, oos |-> FALSE, marks |-> NoMarks]
  <2>1. run' = [run EXCEPT ![c] = r]
    BY <1>7 DEF PostCampaign
  <2>2. r.pc # "register" /\ ~r.gates
    OBVIOUS
  <2> HIDE DEF r
  <2>3. run'[c] = r /\ \A d \in Clients : d # c => run'[d] = run[d]
    BY <2>1 DEF FactoryTypes, RunShape
  <2> QED BY <2>2, <2>3, <1>2
<1>8. CASE Crash
  <2>1. \A c \in Clients : run'[c].pc = "idle"
    BY <1>8 DEF Crash, Idle
  <2> QED BY <2>1 DEF Measured
<1> QED BY <1>1, <1>6, <1>7, <1>8 DEF Next, ServiceNext, vars, serviceVars

\* What the gates let pass was measured and within every limit.
LEMMA GatesAsked ==
    ASSUME NEW m \in [MetricKeys -> Marks], Overall(m) = "PASS"
    PROVE  /\ \A k \in MetricKeys : m[k] # "bad"
           /\ {k \in MetricKeys : m[k] = "missing"} \subseteq
                {"top10_profit_share", "positive_quarters_share", "edge_to_cost", "dsr_p",
                 "max_correlation_with_book", "marginal_heat_add"}
           /\ \E k \in PortfolioKeys : m[k] = "good"
<1>1. "FAIL" \notin EvaluateGates(m) /\ "SKIP" \notin EvaluateGates(m)
  BY DEF Overall
<1>2. PortfolioVerdict(m) # "FAIL" /\ PortfolioVerdict(m) # "SKIP"
  BY <1>1 DEF EvaluateGates
<1>3. (\E k \in PortfolioKeys : m[k] # "missing") /\ \A k \in PortfolioKeys : m[k] # "bad"
  BY <1>2, Zenon DEF PortfolioVerdict
<1>4. PortfolioKeys \subseteq MetricKeys
  BY DEF MetricKeys
<1>5. ASSUME NEW g \in DOMAIN GateTable
      PROVE  /\ \A k \in GateTable[g].need : m[k] # "missing"
             /\ \A k \in GateTable[g].need \cup GateTable[g].opt : m[k] # "bad"
  <2>1. Verdict(g, m) # "FAIL" /\ Verdict(g, m) # "SKIP"
    BY <1>1 DEF EvaluateGates
  <2> QED BY <2>1, Zenon DEF Verdict
<1>6. \A k \in MetricKeys : m[k] # "bad"
  BY <1>3, <1>5 DEF MetricKeys
<1>7. \E k \in PortfolioKeys : m[k] = "good"
  BY <1>3, <1>4 DEF Marks
<1>8. ASSUME NEW g \in DOMAIN GateTable
      PROVE  GateTable[g].opt \subseteq {"top10_profit_share", "positive_quarters_share", "edge_to_cost", "dsr_p"}
  BY <1>8 DEF GateTable, Gate
<1>9. ASSUME NEW k \in MetricKeys, m[k] = "missing"
      PROVE  k \in {"top10_profit_share", "positive_quarters_share", "edge_to_cost", "dsr_p",
                    "max_correlation_with_book", "marginal_heat_add"}
  <2>1. k \in PortfolioKeys \/ \E g \in DOMAIN GateTable : k \in GateTable[g].need \cup GateTable[g].opt
    BY DEF MetricKeys
  <2> QED BY <2>1, <1>5, <1>8, <1>9 DEF PortfolioKeys
<1> QED BY <1>6, <1>7, <1>9

\* CampaignsAreHonest: a strategy in SHADOW passed every gate, a survivor was
\* measured, a rejected campaign failed (research_service.py run).
THEOREM CampaignsHonest == Spec => []CampaignsAreHonest
<1>1. Init => CauseInv /\ Measured
  BY CauseInit DEF Init, Measured, Idle
<1>2. LadderAndLive /\ LadderAndLive' /\ CauseInv /\ Measured /\ [Next]_vars => CauseInv' /\ Measured'
  BY CauseStep, MeasuredStep DEF LadderAndLive
<1>3. LadderAndLive /\ CauseInv /\ Measured /\ LadderBacked => CampaignsAreHonest
  <2> SUFFICES ASSUME LadderAndLive, CauseInv, Measured, LadderBacked
               PROVE  CampaignsAreHonest
    OBVIOUS
  <2>1. SurvivorPassedEverything
    <3> SUFFICES ASSUME NEW s \in Strategies, CurrentState(s) = "SHADOW", NEW j \in 3..5
                 PROVE  \E r \in runs : /\ r.id = s /\ r.type = Required[j] /\ r.status = "PASS"
                                         /\ r.hash = versions[s][r.version]
      BY DEF SurvivorPassedEverything
    <3>1. CurrentState(s) = Ladder[7] /\ RankOf(CurrentState(s)) = 7
      BY LadderFacts, Ranks
    <3>2. CurrentState(s) \in {Ladder[k] : k \in 1..8} /\ j \in 1..(7 - 1)
      BY <3>1
    <3> QED BY <3>1, <3>2 DEF LadderBacked
  <2>2. GatesNeedMeasurements
    <3> SUFFICES ASSUME NEW c \in Clients, At(c, "register") /\ run[c].gates
                 PROVE  /\ \A k \in MetricKeys : run[c].marks[k] # "bad"
                        /\ {k \in MetricKeys : run[c].marks[k] = "missing"} \subseteq
                             {"top10_profit_share", "positive_quarters_share", "edge_to_cost", "dsr_p",
                              "max_correlation_with_book", "marginal_heat_add"}
                        /\ \E k \in PortfolioKeys : run[c].marks[k] = "good"
      BY DEF GatesNeedMeasurements
    <3>1. run[c] \in RunSteps
      BY RunFacts DEF At, LadderAndLive
    <3>2. Overall(run[c].marks) = "PASS"
      BY DEF At, Measured
    <3>3. run[c].marks \in [MetricKeys -> Marks]
      BY <3>1, ServiceAssumption DEF RunSteps, NoMarks, Marks
    <3> QED BY <3>2, <3>3, GatesAsked
  <2>3. RejectionHasCause
    <3> SUFFICES ASSUME NEW k \in 1..Len(events), events[k].to = "REJECTED", events[k].actor = "factory",
                        posts[events[k].id] = 1
                 PROVE  \E r \in runs : r.id = events[k].id /\ r.status = "FAIL"
      BY DEF RejectionHasCause
    <3>1. events[k].id \in Strategies
      BY DEF LadderAndLive, FactoryTypes, StoreTypes, StoreTypeOK, EventRow
    <3>2. Filling
      BY DEF CauseInv, WorkedOn
    <3>3. OnePost(events[k].id)
      BY <3>1, <3>2 DEF Filling
    <3> QED BY <3>3 DEF OnePost, Rejects, Failed
  <2> QED BY <2>1, <2>2, <2>3 DEF CampaignsAreHonest
<1> QED BY <1>1, <1>2, <1>3, LadderAndLiveHold, LadderIsBacked, PTL DEF Spec
=============================================================================
