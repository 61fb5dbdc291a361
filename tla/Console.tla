------------------------------ MODULE Console ------------------------------
(***************************************************************************)
(* What the governance console (api/main.py) and the factory command line  *)
(* (factory/cli.py) may ask of the store.  A console request that depends  *)
(* on the strategy's state reads it first and calls the store afterwards.  *)
(***************************************************************************)
EXTENDS Store

CONSTANTS MaxAsks          \* bound on console requests and commands

ASSUME ConsoleAssumption == MaxAsks \in Nat

VARIABLES request,         \* client -> the request that has read the state, or NoRequest
          shown,           \* drafts whose restatement the owner has been shown
          asks             \* requests and commands made

consoleVars == <<request, shown, asks>>

\* Mutant: LIVE is proposable on the console.
UI_PROPOSABLE_LIVE == [s \in {"SHADOW", "DEMO", "LIVE_SMALL"} |->
    CASE s = "SHADOW" -> "DEMO" [] s = "DEMO" -> "LIVE_SMALL" [] OTHER -> "LIVE"]

UI_PROPOSABLE == [s \in {"SHADOW", "DEMO"} |-> IF s = "SHADOW" THEN "DEMO" ELSE "LIVE_SMALL"]
NoRequest == [op |-> "none"]
RequestRow == [op : {"approve", "pause", "retire", "resume"}, id : Strategies,
               target : AllStates]

ConsoleInit == /\ request = [c \in Clients |-> NoRequest]
               /\ shown = {}
               /\ asks = 0

Ask == asks < MaxAsks /\ asks' = asks + 1
NothingAsked == UNCHANGED <<request, asks>>

\* Evidence a request may name: a stored run, a run that does not exist, none.
References(s) == {{}} \cup {{r} : r \in {q \in runs : q.id = s}}
                    \cup {{[id |-> s, version |-> 0, type |-> "demo_evidence",
                            status |-> "PASS", hash |-> CHOOSE x \in Specs : TRUE]}}

\* First half of /approvals, pause, retire and resume: the target comes from
\* the state read now (a denied approval only appends an alert).
ReadState(c, s) ==
    /\ Ask /\ request[c] = NoRequest /\ pending[c] = NoDecision /\ Known(s)
    /\ \E r \in RequestRow :
        /\ r.id = s
        /\ CASE r.op = "approve" -> /\ CurrentState(s) \in DOMAIN UI_PROPOSABLE
                                    /\ r.target = UI_PROPOSABLE[CurrentState(s)]
             [] r.op = "pause"  -> r.target = "PAUSED"
             [] r.op = "retire" -> r.target = "RETIRED"
             [] r.op = "resume" -> CurrentState(s) = "PAUSED" /\ r.target = "SHADOW"
        /\ request' = [request EXCEPT ![c] = r]
    /\ UNCHANGED <<storeVars, shown>>

\* Second half: store.transition re-reads the state and judges the target.
\* Only an approval carries evidence, and may name the version itself.
Submit(c) ==
    LET q == request[c] IN
    /\ q # NoRequest
    /\ \E refs \in IF q.op = "approve" THEN References(q.id) ELSE {{}},
          v \in IF q.op = "approve" THEN Registered(q.id) ELSE {LatestVersion(q.id)} :
         Decide(c, q.id, v, q.target, refs, "ui", TRUE)
    /\ request' = [request EXCEPT ![c] = NoRequest]
    /\ UNCHANGED <<shown, asks>>

\* The store refuses (HTTP 409, or an unhandled StoreError): nothing is written.
Refused(c) ==
    LET q == request[c] IN
    /\ q # NoRequest
    /\ \/ q.op = "approve"
       \/ Judge(q.id, LatestVersion(q.id), q.target, {}, "ui", TRUE) = "refused"
    /\ request' = [request EXCEPT ![c] = NoRequest]
    /\ UNCHANGED <<storeVars, shown, asks>>

\* factory advance: actor, version, target, evidence and approval as typed.
Advance(c, s) ==
    /\ Ask /\ request[c] = NoRequest
    /\ \E v \in Registered(s), tgt \in AllStates, refs \in References(s),
          actor \in {"owner", "llm"}, approved \in BOOLEAN :
         Decide(c, s, v, tgt, refs, actor, approved)
    /\ UNCHANGED <<request, shown>>

\* factory record-run, for the rung the strategy stands on.
RecordEvidence(s) ==
    /\ Ask /\ CurrentState(s) \in {Ladder[k] : k \in Rungs}
    /\ \E v \in Registered(s), status \in {"PASS", "FAIL"}, x \in Specs :
         RecordRun([id |-> s, version |-> v, status |-> status, hash |-> x,
                    type |-> Required[RankOf(CurrentState(s))]])
    /\ UNCHANGED <<request, shown>>

\* factory register, with or without a parent link.
Register(s) ==
    /\ Ask
    /\ \E v \in Versions, x \in Specs, executable, parent \in BOOLEAN :
         RegisterStrategy(s, v, x, executable, parent)
    /\ UNCHANGED <<request, shown>>

\* /strategy/{sid}/validate-python: a backtest that ran is a PASS, one that
\* raised an ERROR; the state is left alone.
ValidatePython(s) ==
    /\ Ask /\ Known(s)
    /\ \E status \in {"PASS", "ERROR"} :
         RecordRun([id |-> s, version |-> LatestVersion(s), type |-> "backtest",
                    status |-> status, hash |-> versions[s][LatestVersion(s)]])
    /\ UNCHANGED <<request, shown>>

\* /guided/start shows the restatement of a draft and its acceptance token.
GuidedStart(s, x) ==
    /\ Ask
    /\ shown' = shown \cup {<<s, x>>}
    /\ UNCHANGED <<storeVars, request>>

\* /guided/register: the owner may have edited the draft since; the token is
\* that of a draft he was shown, and must be the token of the draft he sends.
GuidedRegister(s, x) ==
    /\ Ask
    /\ \E token \in shown, executable \in BOOLEAN :
         /\ token = <<s, x>>
         /\ RegisterStrategy(s, 0, x, executable, FALSE)
    /\ UNCHANGED <<request, shown>>

Settle(c) == (Commit(c) \/ Abandon(c)) /\ UNCHANGED consoleVars

ConsoleNext ==
    \/ \E c \in Clients : Submit(c) \/ Refused(c)
    \/ \E c \in Clients, s \in Strategies : ReadState(c, s) \/ Advance(c, s)
    \/ \E s \in Strategies : RecordEvidence(s) \/ Register(s) \/ ValidatePython(s)
    \/ \E s \in Strategies, x \in Specs : GuidedStart(s, x) \/ GuidedRegister(s, x)
-----------------------------------------------------------------------------
(* Properties *)

\* The console never puts a strategy in LIVE, however stale the state it read
\* (UI_PROPOSABLE and the comment of api/main.py:73-76).
ConsoleNeverLive ==
    \A k \in 1..Len(events) : events[k].actor = "ui" => events[k].to # "LIVE"

\* A resume asked for a strategy that is, and still is, paused is not refused
\* (the docstring of resume_strategy, api/main.py:454).
ResumeIsLegal ==
    [][\A c \in Clients :
          (request[c].op = "resume" /\ CurrentState(request[c].id) = "PAUSED"
            /\ request'[c] = NoRequest) => pending'[c] # NoDecision]_<<storeVars, consoleVars>>
=============================================================================
