------------------------------ MODULE TesterRun ------------------------------
(***************************************************************************)
(* One headless tester run after another (mt5tester.py run_backtest): the  *)
(* runner clears the places a report may land, launches the terminal,      *)
(* waits, searches, reads.  The terminal writes where it likes, in two     *)
(* pieces, perhaps after it has exited, or never; the terminal of an       *)
(* earlier run may still be writing when a later one is launched.  Runs of *)
(* one name share every place but the run's own directory, and share that  *)
(* too when they start within one second.                                  *)
(***************************************************************************)
EXTENDS Integers, Sequences, FiniteSets, FiniteSetsExt, SequencesExt

CONSTANTS Places,          \* sequence of search places, the run's own directory first
          Uncleanable,     \* places whose files the runner cannot delete
          MaxLaunches      \* bound on runs

ASSUME PlacesAssumption == Places \in Seq(ToSet(Places)) /\ Places # <<>>

VARIABLES shelf,           \* place -> the report there, if any: whose, how much of it
          terminal,        \* the terminal of the current run
          late,            \* terminals of earlier runs with a piece still to write
          runner,          \* where the runner stands
          outcomes         \* RunOutcome of every run, in order

testerVars == <<shelf, terminal, late, runner, outcomes>>

OwnDir == Places[1]
NoTerminal == [up |-> FALSE, of |-> 0, dir |-> 0, writes |-> {}, pieces |-> 0]
TesterInit ==
    /\ shelf = [p \in ToSet(Places) |-> {}]
    /\ terminal = NoTerminal /\ late = {} /\ outcomes = <<>>
    /\ runner = [pc |-> "idle"]

\* A run that did not wait out the terminal or the grace period may end in the second it began.
Quick(o) == o.error \notin {"timed_out", "report_not_found"}
\* The run directory's name ends in the second of the launch: a run gets a directory of its own, or
\* the one of a run from which nothing has taken a second since.
Dirs ==
    {Len(outcomes) + 1} \cup
    {outcomes[n].dir : n \in {m \in DOMAIN outcomes : /\ outcomes[m].dir # 0
                                                      /\ \A k \in m..Len(outcomes) : Quick(outcomes[k])}}
Ends(error, timedOut, dir) ==
    [ok |-> FALSE, error |-> error, timedOut |-> timedOut, at |-> {}, report |-> {}, dir |-> dir,
     pending |-> dir # 0 /\ ~timedOut /\ terminal.writes # {}]

\* validate, the paths, the EA under MQL5\Experts: a refusal raises before anything is launched.
RefuseLaunch ==
    /\ runner.pc = "idle" /\ Len(outcomes) < MaxLaunches
    /\ outcomes' = Append(outcomes, Ends("refused", FALSE, 0))
    /\ UNCHANGED <<shelf, terminal, late, runner>>

\* Whatever the terminal before it has still to write it may write during this run.
Starts ==
    /\ runner.pc = "idle" /\ Len(outcomes) < MaxLaunches
    /\ \E place \in {{}} \cup {{p} : p \in ToSet(Places)}, dir \in Dirs :
          terminal' = [up |-> TRUE, of |-> Len(outcomes) + 1, dir |-> dir, writes |-> place, pieces |-> 0]
    /\ late' = IF terminal.writes = {} THEN late ELSE late \cup {terminal}
    /\ runner' = [pc |-> "wait"]
    /\ UNCHANGED outcomes

\* Mutant: stale reports stay where they are.
LaunchOverStale == Starts /\ shelf' = [shelf EXCEPT ![OwnDir] = {}]

\* Stale reports are deleted where that is possible; nothing asks whether another is due.
Launch == Starts /\ shelf' = [p \in DOMAIN shelf |-> IF p # OwnDir /\ p \in Uncleanable THEN shelf[p] ELSE {}]

(* The terminal. *)
\* Terminal t writes the file, or the rest of it; a directory no run looks into any more is not shown.
Rest(t) == [t EXCEPT !.pieces = @ + 1, !.writes = IF t.pieces = 1 THEN {} ELSE t.writes]
Writes(t) ==
    /\ \E place \in t.writes, x \in IF t.pieces = 0 THEN {"empty", "rows"} ELSE {"whole"} :
          shelf' = IF place = OwnDir /\ t.dir # terminal.dir THEN shelf
                   ELSE [shelf EXCEPT ![place] = {[of |-> t.of, part |-> x]}]
    /\ UNCHANGED <<runner, outcomes>>
WritePiece == Writes(terminal) /\ terminal' = Rest(terminal) /\ UNCHANGED late
LateWrites ==
    \E t \in late :
        /\ Writes(t)
        /\ late' = (late \ {t}) \cup {r \in {Rest(t)} : r.writes # {}}
        /\ UNCHANGED terminal
TerminalExits ==
    /\ terminal.up /\ terminal' = [terminal EXCEPT !.up = FALSE]
    /\ UNCHANGED <<shelf, late, runner, outcomes>>
\* It crashes: what it had not written is never written.
TerminalDies ==
    /\ terminal.up /\ terminal' = [terminal EXCEPT !.up = FALSE, !.writes = {}]
    /\ UNCHANGED <<shelf, late, runner, outcomes>>

(* The runner. *)
SeeExit ==
    /\ runner.pc = "wait" /\ ~terminal.up /\ runner' = [pc |-> "search"]
    /\ UNCHANGED <<shelf, terminal, late, outcomes>>
Finished(o) == outcomes' = Append(outcomes, o) /\ runner' = [pc |-> "idle"]
TimeOut ==
    /\ runner.pc = "wait" /\ terminal.up
    /\ terminal' = [terminal EXCEPT !.up = FALSE, !.writes = {}]
    /\ Finished(Ends("timed_out", TRUE, terminal.dir))
    /\ UNCHANGED <<shelf, late>>

\* find_report: the first place in order that holds a file.
Holding == {k \in DOMAIN Places : shelf[Places[k]] # {}}
\* Copy to the run directory, parse, gate: no row is no report, and raw is kept.
Found ==
    /\ runner.pc = "search"
    /\ \E k \in Holding : \E report \in shelf[Places[k]] :
       LET place == Places[k]
           passes == report.part # "empty"
       IN  /\ \A j \in Holding : k <= j
           /\ shelf' = [shelf EXCEPT ![OwnDir] = {report}]
           /\ Finished([Ends(IF passes THEN "" ELSE "report_gate", FALSE, terminal.dir) EXCEPT
                           !.ok = passes, !.at = {place}, !.report = {report}])
    /\ UNCHANGED <<terminal, late>>
\* Ten seconds of grace pass; what has not landed by then may still land later.
GraceLapses ==
    /\ runner.pc = "search" /\ Holding = {}
    /\ Finished(Ends("report_not_found", FALSE, terminal.dir))
    /\ UNCHANGED <<shelf, terminal, late>>

TesterNext ==
    \/ RefuseLaunch \/ Launch \/ WritePiece \/ LateWrites \/ TerminalExits \/ TerminalDies
    \/ SeeExit \/ TimeOut \/ Found \/ GraceLapses

-----------------------------------------------------------------------------
(* What must hold. *)

\* A report that is not of run n, which it was taken for: it lay in a place that could not be
\* cleared, or its own run was over before its terminal had written it all, and in a run directory
\* only if both runs had the same.
Astray(o, r, n) ==
    \/ o.at \cap Uncleanable # {}
    \/ r.of \in 1..(n - 1) /\ outcomes[r.of].pending /\ (o.at = {OwnDir} => outcomes[r.of].dir = o.dir)

\* run_backtest: a leg is ok only on a report that has rows, from a terminal that ended by itself;
\* the report is that run's own unless it lay where nothing can be deleted or came late from a
\* terminal whose run had already been judged: a run that had all its report when it was judged
\* is never mistaken for another; a leg that is not ok says why.
OutcomeIsTruthful ==
    \A n \in DOMAIN outcomes :
        LET o == outcomes[n] IN
        /\ o.ok = (o.error = "") /\ (o.ok => ~o.timedOut)
        /\ o.ok => \E r \in o.report : r.part # "empty" /\ (r.of = n \/ Astray(o, r, n))

\* mt5tester.py:1031 "a previous run's stale report can never be mistaken for this run's output".
StaleIsNeverTaken == \A n \in DOMAIN outcomes : outcomes[n].ok => \A r \in outcomes[n].report : r.of = n

\* mt5tester.py:836 "an empty, truncated or non-report file therefore can never become an ok leg".
TruncatedIsNeverOk == \A n \in DOMAIN outcomes : outcomes[n].ok => \A r \in outcomes[n].report : r.part = "whole"
=============================================================================
