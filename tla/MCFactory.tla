----------------------------- MODULE MCFactory -----------------------------
(***************************************************************************)
(* The factory as TLC explores it: a database reopened with a strategy     *)
(* anywhere on the ladder and worked on by the console and the command     *)
(* line, or an empty one filled by research campaigns.                     *)
(***************************************************************************)
EXTENDS Console, ResearchService

AllGood == [k \in MetricKeys |-> "good"]
Inputs == {AllGood, [AllGood EXCEPT !["dsr_p"] = "missing"], [AllGood EXCEPT !["pbo"] = "bad"],
           [AllGood EXCEPT !["wfe"] = "missing"],
           [AllGood EXCEPT !["max_correlation_with_book"] = "missing",
                           !["marginal_heat_add"] = "missing"]}

vars == <<storeVars, consoleVars, serviceVars>>

\* One strategy at rung k of its first version, with the rows that led there.
Climbed(s, x, j) ==
    LET row == [id |-> s, version |-> 1, type |-> Required[j], status |-> "PASS", hash |-> x] IN
    [id |-> s, version |-> 1, from |-> Ladder[j], to |-> Ladder[j + 1], kind |-> "promote",
     refs |-> {row}, actor |-> "owner", approved |-> TRUE]

InitReopened ==
    \E s \in Strategies, x \in {CHOOSE y \in Specs : TRUE}, k \in 1..Len(Ladder) :
      /\ strategies = [t \in Strategies |-> IF t = s
                          THEN [state |-> Ladder[k], version |-> IF k = 1 THEN 0 ELSE 1] ELSE Absent]
      /\ versions = [t \in Strategies |-> [v \in Versions |-> IF t = s /\ v = 1 THEN x ELSE NoSpec]]
      /\ runs = UNION {Climbed(s, x, j).refs : j \in 1..(k - 1)}
      /\ events = [j \in 1..(k - 1) |-> Climbed(s, x, j)]
      /\ pending = [c \in Clients |-> NoDecision]
      /\ posts = [t \in Strategies |-> MaxPosts] /\ asks = 0

InitEmpty == StoreInit /\ posts = [t \in Strategies |-> 0] /\ asks = MaxAsks

Init == /\ InitReopened \/ InitEmpty
        /\ request = [c \in Clients |-> NoRequest] /\ shown = {}
        /\ campaigns = [s \in Strategies |-> "none"] /\ run = [c \in Clients |-> Idle]
        /\ oosRead = {} /\ crashes = 0

Next == \/ ConsoleNext /\ UNCHANGED serviceVars
        \/ (\E c \in Clients : run[c] = Idle /\ Settle(c)) /\ UNCHANGED serviceVars
        \/ ServiceNext /\ UNCHANGED consoleVars

Spec == Init /\ [][Next]_vars /\ \A c \in Clients : WF_vars(RunStep(c) /\ UNCHANGED consoleVars)
=============================================================================
