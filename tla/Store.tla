------------------------------- MODULE Store -------------------------------
(***************************************************************************)
(* The factory database behind factory/store.py: strategies with their one *)
(* state pointer, immutable versions, append-only validation runs and      *)
(* lifecycle events.  store.transition reads the state and decides in one  *)
(* database session and writes in another, so a client (a console request, *)
(* a command of the factory CLI, a research run) may hold a decision that  *)
(* has gone stale; Decide and Commit are those two sessions.               *)
(***************************************************************************)
EXTENDS Lifecycle

CONSTANTS Strategies,     \* strategy ids
          Clients,        \* requests, commands and research runs in flight
          Specs, NoSpec,  \* the documents a version may hold (their spec_hash)
          MaxVersion      \* bound on the versions of a strategy

ASSUME StoreAssumption ==
    /\ MaxVersion \in Nat \ {0} /\ NoSpec \notin Specs
    /\ IsFiniteSet(Strategies) /\ IsFiniteSet(Clients)

VARIABLES strategies,     \* id -> its row, or Absent
          versions,       \* id -> version -> its spec, or NoSpec: immutable rows
          runs,           \* validation runs, append-only
          events,         \* lifecycle events, append-only, in commit order
          pending         \* client -> the transition it has decided, or NoDecision

storeVars == <<strategies, versions, runs, events, pending>>

Versions == 0..MaxVersion
HumanApprovalStates == {"DEMO", "LIVE_SMALL", "LIVE"}
HumanActors == {"owner", "ui"}
Actors == HumanActors \cup {"factory", "llm"}
RunTypes == {Required[k] : k \in Rungs}

Absent == [state |-> "none", version |-> 0]
StrategyRow == [state : AllStates, version : Versions]
RunRow == [id : Strategies, version : Versions, type : RunTypes,
           status : {"PASS", "FAIL", "ERROR"}, hash : Specs]
EventRow == [id : Strategies, version : Versions, from : AllStates, to : AllStates,
             kind : {"promote", "fail", "recover", "retire"},
             refs : SUBSET RunRow, actor : Actors, approved : BOOLEAN]
NoDecision == [kind |-> "none"]

StoreInit ==
    /\ strategies = [s \in Strategies |-> Absent]
    /\ versions = [s \in Strategies |-> [v \in Versions |-> NoSpec]]
    /\ runs = {}
    /\ events = <<>>
    /\ pending = [c \in Clients |-> NoDecision]

Known(s) == strategies[s] # Absent
CurrentState(s) == strategies[s].state
Registered(s) == {v \in Versions : versions[s][v] # NoSpec}
LatestVersion(s) == CHOOSE v \in Registered(s) : \A w \in Registered(s) : w <= v

\* The refusals of register_strategy for a spec it has not seen.
MayRegister(s, v, spec, executable, parent) ==
    /\ executable \/ v = 0
    /\ \A w \in Versions : versions[s][w] # spec
    /\ versions[s][v] = NoSpec
    /\ Known(s) => /\ strategies[s].version = 0 \/ v > strategies[s].version
                   /\ CurrentState(s) \in {"DRAFT", "REJECTED"} \/ parent

\* A new version is a new line: the pointer of the strategy returns to DRAFT.
RegisterStrategy(s, v, spec, executable, parent) ==
    /\ MayRegister(s, v, spec, executable, parent)
    /\ versions' = [versions EXCEPT ![s][v] = spec]
    /\ strategies' = [strategies EXCEPT ![s] = [state |-> "DRAFT", version |-> @.version]]
    /\ UNCHANGED <<runs, events, pending>>

\* record_run checks nothing but its status: any row may be appended.
RecordRun(row) ==
    /\ runs' = runs \cup {row}
    /\ UNCHANGED <<strategies, versions, events, pending>>

\* Mutant: the type of the evidence is not asked.
EvidenceOfAnyType(r, s, v, types) ==
    /\ r \in runs /\ r.status = "PASS"
    /\ r.id = s /\ r.version = v
    /\ versions[s][v] # NoSpec /\ r.hash = versions[s][v]

\* Mutant: the status of the evidence is not asked.
EvidenceOfAnyStatus(r, s, v, types) ==
    /\ r \in runs
    /\ r.id = s /\ r.version = v
    /\ types # {} => r.type \in types
    /\ versions[s][v] # NoSpec /\ r.hash = versions[s][v]

EvidenceBindsTo(r, s, v, types) ==
    /\ r \in runs /\ r.status = "PASS"
    /\ r.id = s /\ r.version = v
    /\ types # {} => r.type \in types
    /\ versions[s][v] # NoSpec /\ r.hash = versions[s][v]

\* Mutant: a human's approval is not asked for.
JudgeWithoutHuman(s, v, tgt, refs, actor, approved) ==
    LET cur == CurrentState(s)
        kind == CheckTransition(cur, tgt, refs, actor)
    IN IF kind = "promote" /\ \A r \in refs : ~EvidenceBindsTo(r, s, v, RequiredEvidence(cur, tgt))
       THEN "refused" ELSE kind

\* Everything transition asks before it writes: the kind, or "refused".
Judge(s, v, tgt, refs, actor, approved) ==
    LET cur == CurrentState(s)
        kind == CheckTransition(cur, tgt, refs, actor)
    IN IF /\ kind = "promote"
          /\ \/ tgt \in HumanApprovalStates /\ ~(approved /\ actor \in HumanActors)
             \/ \A r \in refs : ~EvidenceBindsTo(r, s, v, RequiredEvidence(cur, tgt))
       THEN "refused" ELSE kind

\* Mutant: the refusal is not looked at.
DecideUnjudged(c, s, v, tgt, refs, actor, approved) ==
    /\ pending[c] = NoDecision
    /\ Known(s)
    /\ pending' = [pending EXCEPT ![c] =
            [id |-> s, version |-> v, from |-> CurrentState(s), to |-> tgt,
             kind |-> Judge(s, v, tgt, refs, actor, approved),
             refs |-> refs, actor |-> actor, approved |-> approved]]
    /\ UNCHANGED <<strategies, versions, runs, events>>

\* First session of transition: read the state, decide.
Decide(c, s, v, tgt, refs, actor, approved) ==
    /\ pending[c] = NoDecision
    /\ Known(s)
    /\ Judge(s, v, tgt, refs, actor, approved) # "refused"
    /\ pending' = [pending EXCEPT ![c] =
            [id |-> s, version |-> v, from |-> CurrentState(s), to |-> tgt,
             kind |-> Judge(s, v, tgt, refs, actor, approved),
             refs |-> refs, actor |-> actor, approved |-> approved]]
    /\ UNCHANGED <<strategies, versions, runs, events>>

\* Second session of transition: write the decided state over whatever is
\* there now, and append the event.
Commit(c) ==
    LET e == pending[c] IN
    /\ e # NoDecision
    /\ strategies' = [strategies EXCEPT ![e.id] =
            [state |-> e.to,
             version |-> IF e.to # "RETIRED" /\ e.version > @.version
                         THEN e.version ELSE @.version]]
    /\ events' = Append(events, e)
    /\ pending' = [pending EXCEPT ![c] = NoDecision]
    /\ UNCHANGED <<versions, runs>>

\* A client dies, or its session fails, between the two.
Abandon(c) ==
    /\ pending[c] # NoDecision
    /\ pending' = [pending EXCEPT ![c] = NoDecision]
    /\ UNCHANGED <<strategies, versions, runs, events>>

\* The decision of c was taken on a state that is no longer the strategy's.
Stale(c) == /\ pending[c] # NoDecision
            /\ CurrentState(pending[c].id) # pending[c].from
-----------------------------------------------------------------------------
(* Properties *)

\* Rows have the columns of factory/models.py, and only registered strategies
\* have a state.
StoreTypeOK ==
    /\ strategies \in [Strategies -> StrategyRow \cup {Absent}]
    /\ versions \in [Strategies -> [Versions -> Specs \cup {NoSpec}]]
    /\ runs \subseteq RunRow
    /\ \A k \in 1..Len(events) : events[k] \in EventRow
    /\ pending \in [Clients -> EventRow \cup {NoDecision}]

\* A strategy in LIVE was put there by a human's decision on live-small
\* evidence, whatever the other clients did between decision and write
\* (HUMAN_APPROVAL_STATES and evidence_binds_to in store.transition).
LiveWasDecided ==
    \A s \in Strategies : CurrentState(s) = "LIVE" =>
        \E k \in 1..Len(events) :
            /\ events[k].id = s /\ events[k].to = "LIVE"
            /\ events[k].approved /\ events[k].actor \in HumanActors
            /\ \E r \in events[k].refs : r.type = "live_small_evidence" /\ r.status = "PASS"

\* No rung up to DEMO is reached without passing evidence for every rung below
\* it, bound to some version of that strategy: crashes, stale writes, failure
\* and recovery branches and new versions included.
LadderBacked ==
    \A s \in Strategies :
        LET st == CurrentState(s) IN
        st \in {Ladder[k] : k \in 1..8} =>
            \A j \in 1..(RankOf(st) - 1) :
                \E r \in runs : /\ r.id = s /\ r.type = Required[j]
                                /\ r.status = "PASS" /\ r.hash = versions[s][r.version]

\* A terminal state is left only by registering a new version, or by a client
\* whose decision is older than the terminal write.
TerminalLeftOnlyStale ==
    [][\A s \in Strategies :
          (CurrentState(s) \in TerminalStates /\ CurrentState(s)' # CurrentState(s))
            => \/ versions'[s] # versions[s]
               \/ \E c \in Clients : Stale(c) /\ pending'[c] = NoDecision]_storeVars

\* Terminal states never resurrect (the rule of factory/lifecycle.py:21),
\* save by the registration of a new version.
TerminalNeverResurrects ==
    [][\A s \in Strategies :
          CurrentState(s) \in TerminalStates =>
            \/ CurrentState(s)' = CurrentState(s)
            \/ versions'[s] # versions[s]]_storeVars
=============================================================================
