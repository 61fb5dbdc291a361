---------------------------- MODULE DemoHarness ----------------------------
(***************************************************************************)
(* One demo safety run (demo_harness.Harness.run).  The harness launches   *)
(* the terminal on a demo account, follows the log the Expert Advisor      *)
(* writes, kills the terminal, and afterwards logs it back in to the       *)
(* hedging account, keeps that login and proves that a launch without      *)
(* credentials connects.  The terminal, the broker and the host (which may *)
(* be suspended) act in between; every wait has a timeout.                 *)
(***************************************************************************)
EXTENDS Naturals, Sequences, FiniteSets, SequencesExt

CONSTANTS DemoRuns,      \* of {"restart", "netting", "hedging"}
          AccountFiles    \* accounts files tried: the roles complete, or {"malformed"}

\* The tests the harness has a program for.
ASSUME DemoAssumption == DemoRuns \subseteq {"restart", "netting", "hedging"}

VARIABLES test, accounts,                 \* of this run
          at, todo, restoring, launchNo,  \* where the harness is, what it has left
          seen, lines, mark, outer,       \* EaLogFollower; where the waits look from
          ini, suspended, failed, demoRecord, launched,
          term,            \* the terminal process
          kept,            \* the login the terminal starts with by itself, or "none"
          open,            \* accounts with a probe position open
          eaLog, journal   \* the EA's log file; the terminal journal's init failures

inputVars == <<test, accounts>>
placeVars == <<at, todo, restoring, launchNo>>
logVars   == <<seen, lines>>
markVars  == <<mark, outer>>
stateVars == <<ini, suspended, failed, demoRecord, launched>>
worldVars == <<kept, open, eaLog, journal>>
demoVars  == <<inputVars, placeVars, logVars, markVars, stateVars, term, worldVars>>

Off == [up |-> FALSE, account |-> "none", probe |-> "none", ea |-> "none"]
NoRecord == [status |-> "none", restoreOk |-> FALSE]

-----------------------------------------------------------------------------
(* The harness's programs, and its view of the EA's log *)

Program(t) ==
    IF t = "restart"
    THEN << <<"start", "hedging", "restart">>, <<"wait", "opened">>, <<"observe">>, <<"kill">>,
            <<"start", "hedging", "restart">>, <<"observe">>, <<"kill">>,
            <<"start", "hedging", "cleanup">>, <<"wait", "closed">> >>
    ELSE << <<"start", t, "account">>, <<"wait", "closed">> >>
RestoreProgram == << <<"start", "hedging", "cleanup">>, <<"wait", "closed">> >>
PersistProgram == << <<"script", "hedging">>, <<"script", "none">>, <<"check">> >>

\* EaLogFollower.poll: what was appended, or the whole of a re-created file.
Fresh == IF IsPrefix(seen, eaLog) THEN SubSeq(eaLog, Len(seen) + 1, Len(eaLog)) ELSE eaLog
Polled == lines \o Fresh
Poll == lines' = Polled /\ seen' = eaLog
Shows(what, k) == \E i \in (k + 1)..Len(Polled) : Polled[i].what = what

\* check_restore: the last cleanup START line says hedging.
CheckRestore(ls) ==
    LET starts == SelectSeq(ls, LAMBDA l : l.what = "start" /\ l.probe = "cleanup")
    IN starts # <<>> /\ Last(starts).mode = "hedging"

\* load_account: the role's entry is complete.
HasAccount(role) == role \in accounts

Goto(where, rest) == at' = where /\ todo' = rest
Do(kind) == at = "step" /\ todo # <<>> /\ Head(todo)[1] = kind
Waiting  == at = "wait_start" \/ Do("wait")
Polling  == Waiting \/ Do("observe")

\* Mutant: a failure leaves the ini where it is.
FailsKeepingIni == Goto("final", <<>>) /\ ini' = ini /\ failed' = TRUE

\* A named failure: credentials off the disk, on to the final block.
Fails == Goto("final", <<>>) /\ ini' = FALSE /\ failed' = TRUE

\* Mutant: only the restore is looked at.
WriteRecordOfRestore(good) ==
    /\ demoRecord' = [status |-> IF suspended THEN "INTERRUPTED"
                                 ELSE IF good THEN "COMPLETED" ELSE "FAILED",
                      restoreOk |-> good]
    /\ Goto("done", <<>>)

\* run.json
WriteRecord(good) ==
    /\ demoRecord' = [status |-> IF suspended THEN "INTERRUPTED"
                                 ELSE IF failed \/ ~good THEN "FAILED" ELSE "COMPLETED",
                      restoreOk |-> good]
    /\ Goto("done", <<>>)

-----------------------------------------------------------------------------
(* The harness *)

\* _start: the account, the ini, the launch; the EA's lines count from here.
\* An accounts file that does not parse raises what run() does not catch.
Launch ==
    /\ Do("start")
    /\ IF HasAccount(Head(todo)[2])
       THEN /\ at' = "wait_start" /\ UNCHANGED <<todo, failed>>
            /\ ini' = TRUE /\ mark' = Len(lines) /\ launchNo' = launchNo + 1
            /\ launched' = Append(launched, IF restoring THEN "restore" ELSE "test")
            /\ term' = [up |-> TRUE, account |-> Head(todo)[2], probe |-> Head(todo)[3],
                        ea |-> "loading"]
       ELSE /\ IF accounts = {"malformed"} THEN Goto("raised", <<>>) /\ UNCHANGED <<ini, failed>>
               ELSE Fails
            /\ UNCHANGED <<mark, launchNo, launched, term>>
    /\ journal' = FALSE
    /\ UNCHANGED <<inputVars, restoring, logVars, outer, suspended, demoRecord, kept, open, eaLog>>

\* _wait_start, one poll: START, the refusal before the login (one relaunch),
\* or a failed init once its grace is over.
SeeStart ==
    /\ at = "wait_start" /\ Shows("start", mark) /\ Poll
    /\ Goto("step", Tail(todo)) /\ ini' = FALSE /\ launchNo' = 0
    /\ UNCHANGED <<inputVars, restoring, markVars, suspended, failed, demoRecord, launched, term,
                   worldVars>>

SeeRefusal ==
    /\ at = "wait_start" /\ ~Shows("start", mark) /\ Shows("refused", mark) /\ Poll
    /\ term' = Off
    /\ IF launchNo = 2 THEN Fails ELSE Goto("step", todo) /\ ini' = FALSE /\ UNCHANGED failed
    /\ UNCHANGED <<inputVars, restoring, launchNo, markVars, suspended, demoRecord, launched,
                   worldVars>>

SeeInitFailure ==
    /\ at = "wait_start" /\ ~Shows("start", mark) /\ ~Shows("refused", mark)
    /\ journal \/ Shows("gave_up", mark)
    /\ Poll /\ Fails
    /\ UNCHANGED <<inputVars, restoring, launchNo, markVars, suspended, demoRecord, launched, term,
                   worldVars>>

\* _wait; in the restore it looks from before the launch.
SeeLine ==
    /\ Do("wait") /\ Shows(Head(todo)[2], IF restoring THEN outer ELSE mark) /\ Poll
    /\ Goto("step", Tail(todo))
    /\ UNCHANGED <<inputVars, restoring, launchNo, markVars, stateVars, term, worldVars>>

PollOnly ==
    /\ Polling /\ Fresh # <<>> /\ Poll
    /\ UNCHANGED <<inputVars, placeVars, markVars, stateVars, term, worldVars>>

\* Mutant: the wait for START has no timeout.
TimesOutLater ==
    /\ Do("wait") /\ Poll /\ Fails
    /\ UNCHANGED <<inputVars, restoring, launchNo, markVars, suspended, demoRecord, launched, term,
                   worldVars>>

TimesOut ==
    /\ Waiting /\ Poll /\ Fails
    /\ UNCHANGED <<inputVars, restoring, launchNo, markVars, suspended, demoRecord, launched, term,
                   worldVars>>

\* run() pauses between the kill of a restart test and the relaunch, _start before its second launch.
Pausing == Do("start") /\ (launchNo = 1 \/ (test = "restart" /\ ~restoring /\ Len(todo) = 5))

\* Mutant: the suspension is noted and the run goes on.
HostSuspendsNoted ==
    /\ Polling \/ Pausing
    /\ suspended' = TRUE
    /\ UNCHANGED <<inputVars, placeVars, logVars, markVars, ini, failed, demoRecord, launched, term,
                   worldVars>>

\* _pace: the wall clock jumped between two polls, or before a relaunch.
HostSuspends ==
    /\ Polling \/ Pausing
    /\ suspended' = TRUE /\ Fails
    /\ UNCHANGED <<inputVars, restoring, launchNo, logVars, markVars, demoRecord, launched, term,
                   worldVars>>

ObserveEnds ==
    /\ Do("observe") /\ Poll /\ Goto("step", Tail(todo))
    /\ UNCHANGED <<inputVars, restoring, launchNo, markVars, stateVars, term, worldVars>>

\* A hard kill: no OnDeinit; lines since the last poll stay in the file.
Kill ==
    /\ Do("kill") /\ term' = Off /\ Goto("step", Tail(todo))
    /\ UNCHANGED <<inputVars, restoring, launchNo, logVars, markVars, stateVars, worldVars>>

\* The final blocks: the last poll, then the kill.
FinalPoll ==
    /\ at = "final" \/ (at = "step" /\ todo = <<>>)
    /\ Poll /\ ini' = FALSE
    /\ at' = IF at = "final" THEN "kill_failed" ELSE "kill"
    /\ UNCHANGED <<inputVars, todo, restoring, launchNo, markVars, suspended, failed, demoRecord,
                   launched, term, worldVars>>

\* The restore went through and its own lines show the hedging account.
Shown == at = "kill" /\ CheckRestore(SubSeq(lines, outer + 1, Len(lines)))
FinalKill ==
    /\ at \in {"kill", "kill_failed"} /\ term' = Off /\ launchNo' = 0
    /\ IF ~restoring
       THEN /\ restoring' = TRUE /\ outer' = Len(lines) /\ Goto("step", RestoreProgram)
            /\ UNCHANGED demoRecord
       ELSE /\ IF Shown THEN Goto("step", PersistProgram) /\ UNCHANGED demoRecord ELSE WriteRecord(FALSE)
            /\ UNCHANGED <<restoring, outer>>
    /\ UNCHANGED <<inputVars, logVars, mark, ini, suspended, failed, launched, worldVars>>

\* _script_run: the exporter, with a login or without; the terminal exits by
\* itself, or is killed at the timeout.
ScriptStarts ==
    /\ Do("script")
    /\ at' = "wait_script" /\ ini' = (Head(todo)[2] # "none")
    /\ term' = [Off EXCEPT !.up = TRUE, !.account = IF Head(todo)[2] = "none" THEN kept
                                                    ELSE Head(todo)[2]]
    /\ UNCHANGED <<inputVars, todo, restoring, launchNo, logVars, markVars, suspended, failed,
                   demoRecord, launched, worldVars>>

ScriptEnds ==
    /\ at = "wait_script" /\ ini' = FALSE
    /\ \/ ~term.up /\ Goto("step", Tail(todo)) /\ UNCHANGED <<term, demoRecord>>
       \/ term.up /\ term' = Off /\ WriteRecord(FALSE)
    /\ UNCHANGED <<inputVars, restoring, launchNo, logVars, markVars, suspended, failed, launched,
                   worldVars>>

\* _verify_connection: the export of the launch without credentials shows a connection, on the
\* hedging account; an export that is not there fails, one that does not parse raises what run()
\* does not catch.
CheckConnection ==
    /\ Do("check")
    /\ \/ \E connected \in BOOLEAN : WriteRecord(connected /\ term.account = "hedging")
       \/ Goto("raised", <<>>) /\ UNCHANGED demoRecord
    /\ UNCHANGED <<inputVars, restoring, launchNo, logVars, markVars, ini, suspended, failed,
                   launched, term, worldVars>>

HarnessStep == \/ Launch \/ SeeStart \/ SeeRefusal \/ SeeInitFailure \/ SeeLine \/ TimesOut
               \/ ObserveEnds \/ Kill \/ FinalPoll \/ FinalKill
               \/ ScriptStarts \/ ScriptEnds \/ CheckConnection

-----------------------------------------------------------------------------
(* The terminal, the EA and the broker *)

Line(what) == [what |-> what, probe |-> term.probe, mode |-> term.account,
               launch |-> Len(launched)]
HarnessIdle == UNCHANGED <<inputVars, placeVars, logVars, markVars, stateVars>>

\* A launch may keep its login; the EA re-creates its log file when it starts.
EaInits ==
    /\ term.ea = "loading"
    /\ \/ /\ eaLog' = <<Line("start")>> /\ kept' \in {kept, term.account}
          /\ term' = [term EXCEPT !.ea = "started"] /\ UNCHANGED journal
       \/ /\ eaLog' \in {<<Line("refused")>>, <<Line("gave_up")>>}
          /\ term' = [term EXCEPT !.ea = "gone"] /\ UNCHANGED <<kept, journal>>
       \/ /\ journal' = TRUE /\ eaLog' = <<>>
          /\ term' = [term EXCEPT !.ea = "gone"] /\ UNCHANGED kept
    /\ UNCHANGED open /\ HarnessIdle

\* The probe: open and adopt, open and close, or close.
EaActs ==
    /\ \/ /\ term.ea = "started" /\ term.probe \in {"restart", "account"}
          /\ open' = open \cup {term.account}
          /\ eaLog' = IF term.probe = "restart" /\ term.account \notin open
                      THEN Append(eaLog, Line("opened")) ELSE eaLog
          /\ term' = [term EXCEPT !.ea = "holds"]
       \/ /\ \/ term.ea = "started" /\ term.probe = "cleanup"
             \/ term.ea = "holds" /\ term.probe = "account"
          /\ open' = open \ {term.account}
          /\ eaLog' = Append(eaLog, Line("closed"))
          /\ term' = [term EXCEPT !.ea = "idle"]
    /\ UNCHANGED <<kept, journal>> /\ HarnessIdle

\* The exporter's terminal exits by itself; a login it was given it keeps.
ScriptExits ==
    /\ at = "wait_script" /\ term.up
    /\ term' = [term EXCEPT !.up = FALSE]
    /\ kept' = IF ini THEN term.account ELSE kept
    /\ UNCHANGED <<open, eaLog, journal>> /\ HarnessIdle

DemoInit ==
    /\ test \in DemoRuns /\ accounts \in AccountFiles
    /\ at = "step" /\ todo = Program(test) /\ restoring = FALSE /\ launchNo = 0
    /\ seen = <<>> /\ lines = <<>> /\ mark = 0 /\ outer = 0
    /\ ini = FALSE /\ suspended = FALSE /\ failed = FALSE
    /\ demoRecord = NoRecord /\ launched = <<>>
    /\ term = Off /\ kept \in {"none", "hedging", "netting"}
    /\ open \in {{}, {"hedging"}}
    /\ eaLog = <<>> /\ journal = FALSE

DemoNext == HarnessStep \/ PollOnly \/ HostSuspends \/ EaInits \/ EaActs \/ ScriptExits

\* Every poll loop counts to its timeout, and a process wait has one.
DemoFairness == WF_demoVars(HarnessStep)

-----------------------------------------------------------------------------
(* Properties *)

\* The ini with the login and password is on the disk only while a launch is
\* being waited for, whichever way the wait ends (Harness._start, _script_run).
CredentialsOffDisk == ini => at \in {"wait_start", "wait_script"}

\* demo_in_gate_outcome: what the gate accepts of a run.
OutcomeOk == demoRecord.restoreOk /\ demoRecord.status # "INTERRUPTED"

\* When the gate accepts the run, the terminal's own login is the hedging
\* account, whatever lines were stale or lost; a COMPLETED run is accepted and
\* leaves no probe position on either account (demo_in_gate_outcome, _write).
AcceptedIsRestored ==
    /\ OutcomeOk => kept = "hedging" /\ ~term.up
    /\ demoRecord.status = "COMPLETED" => OutcomeOk /\ open = {}

\* The restore closes a probe position left open (demo_harness.py:581-583): lines
\* of the test's own launch that were written between its last poll and its
\* kill are read as the restore's, which then ends before its own cleanup.
RestoreCleansUp == OutcomeOk => "hedging" \notin open

\* A suspended test is never continued: after the gap nothing but the restore
\* is launched (Harness._pace, run).
SuspendedNotContinued ==
    [][suspended /\ launched' # launched => Last(launched') = "restore"]_demoVars

\* Every run ends, and with its record written unless its accounts file or, in
\* the restore, the export of the connection check could not be parsed
\* (Harness.run's waits have timeouts, its restore always runs).
RunIsRecorded == <>(at = "done" \/ (at = "raised" /\ (restoring \/ accounts = {"malformed"})))

\* docs/SAFETY_DEMO_PLAN.md:147-149 a check that does not show the connection: "Otherwise the run is
\* `FAILED`"; one whose export does not parse leaves no run.json.
FailedIsOnRecord == [][Do("check") /\ at' # at => at' = "done"]_demoVars
=============================================================================
