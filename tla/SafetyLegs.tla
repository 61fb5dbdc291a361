----------------------------- MODULE SafetyLegs -----------------------------
(***************************************************************************)
(* The graders of the safety tests (safety_legs.py).  A test leg is an     *)
(* Expert Advisor under a fault hook that writes lines to its log, and     *)
(* that may do the wrong thing; the grader sees the lines only.  A line    *)
(* carries the second it was written in, what it says, an id (a ticket, a  *)
(* comment, a probe) and two numbers.  Several acts may share a second:    *)
(* the graders compare seconds, and some wrongs hide in them.              *)
(***************************************************************************)
EXTENDS Naturals, Sequences, FiniteSets, SequencesExt

CONSTANTS LegTests,   \* the tests of safety_legs.GRADERS that are run
          MaxBars,    \* seconds a leg runs
          MaxLines    \* bound on the lines of its log

VARIABLES leg, baseline,  \* the test; the seconds the baseline leg enters in
          bar, window,    \* the current second; the lines of the leg
          ea,             \* the EA under test: what it is in the middle of
          real            \* what it really did wrong

legVars == <<leg, baseline, bar, window, ea, real>>

DayLength == 3
DayOf(b) == b \div DayLength
Stamped(what, id, x, y) == [at |-> bar, what |-> what, id |-> id, x |-> x, y |-> y]

Of(what) == {i \in DOMAIN window : window[i].what = what}
OfId(what, id) == {i \in Of(what) : window[i].id = id}
FirstOf(S) == CHOOSE i \in S : \A j \in S : i <= j
LastOf(S) == CHOOSE i \in S : \A j \in S : j <= i

-----------------------------------------------------------------------------
(* The tester graders *)

\* Entries after the line at i, strictly later by the stamp.
Later(i) == {j \in Of("request") : window[j].at > window[i].at}
BaselineLater(i) == {b \in baseline : b > window[i].at}

GradeKillSwitch ==
    IF Of("latch") = {} THEN "NOT_LATCHED"
    ELSE LET i == FirstOf(Of("latch")) IN
         IF window[i].x # 0 THEN "LATCH_DID_NOT_BLOCK"
         ELSE IF Later(i) # {} THEN "NEW_ORDERS_AFTER_LATCH"
         ELSE IF BaselineLater(i) = {} THEN "INCONCLUSIVE"
         ELSE "PASS"

GradeRiskVeto ==
    IF Of("daily_loss") = {} THEN "NOT_TRIGGERED"
    ELSE LET i == FirstOf(Of("daily_loss"))
             day == DayOf(window[i].at)
         IN IF \E j \in Later(i) : DayOf(window[j].at) = day THEN "ENTRY_AFTER_VETO"
            ELSE IF ~\E b \in BaselineLater(i) : DayOf(b) = day THEN "INCONCLUSIVE"
            ELSE "PASS"

\* Per size line: final (y) at most approved (x), and what was sent.
GradeMetaReduce ==
    LET sent(i) == {j \in Of("request") : window[j].at = window[i].at} IN
    IF Of("meta") = {} THEN "NO_SIZE_LINES"
    ELSE IF \E i \in Of("meta") : window[i].y > window[i].x THEN "SIZE_ABOVE_RISK_APPROVED"
    ELSE IF \E i \in Of("meta") : sent(i) = {} \/ window[FirstOf(sent(i))].x # window[i].y
            THEN "SENT_VOLUME_NOT_THE_FINAL_SIZE"
    ELSE IF ~\E i \in Of("meta") : window[i].y < window[i].x THEN "INCONCLUSIVE"
    ELSE "PASS"

\* Each strip that took effect is followed by its restore, or the position closed.
GradeSlVerify ==
    LET applied == {i \in Of("stripped") : window[i].x = 0}
        restored == {i \in applied : LET r == OfId("restored", window[i].id) IN
                        r # {} /\ window[LastOf(r)].at >= window[i].at}
    IN IF Of("stripped") = {} THEN "NOT_STRIPPED"
       ELSE IF \E i \in applied \ restored : OfId("closed", window[i].id) = {} THEN "SL_NOT_RESTORED"
       ELSE IF restored = {} THEN "INCONCLUSIVE"
       ELSE "PASS"

\* A suppressed send is queued and retried with one request in between; a
\* dropped answer is verified, never queued, with one request at its stamp.
RetriedOnce(i) ==
    LET c == window[i].id
        retry == OfId("open_retry", c)
    IN /\ OfId("open_queued", c) # {} /\ retry # {} /\ OfId("open_retry_giveup", c) = {}
       /\ Cardinality({j \in Of("request") : /\ window[i].at <= window[j].at
                                             /\ window[j].at <= window[FirstOf(retry)].at}) = 1
\* Mutant: the sends at the stamp are not counted.
AdoptedUncounted(i) ==
    LET c == window[i].id IN OfId("open_verified", c) # {} /\ OfId("open_queued", c) = {}

Adopted(i) ==
    LET c == window[i].id IN
    /\ OfId("open_verified", c) # {} /\ OfId("open_queued", c) = {}
    /\ Cardinality({j \in Of("request") : window[j].at = window[i].at}) = 1
GradeLostResponse ==
    IF Of("suppressed") \cup Of("dropped") = {} THEN "NOT_TRIGGERED"
    ELSE IF \E i \in Of("suppressed") : ~RetriedOnce(i) THEN "RETRY_NOT_DONE_OR_DUPLICATE"
    ELSE IF \E i \in Of("dropped") : ~Adopted(i) THEN "NOT_ADOPTED_OR_DUPLICATE"
    ELSE IF Of("suppressed") = {} \/ Of("dropped") = {} THEN "INCONCLUSIVE"
    ELSE "PASS"

-----------------------------------------------------------------------------
(* The demo graders *)

\* RESTART-ORDER-1: by the position in the log.  A start's x is the own
\* positions it reports; a heartbeat's x and y are own positions and registry.
GradeRestart ==
    IF Of("opened") = {} THEN "PROBE_NOT_OPENED"
    ELSE LET after == {i \in OfId("start", 1) : i > FirstOf(Of("opened"))} IN
    IF after = {} THEN "NO_RESTART"
    ELSE LET again == FirstOf(after)
             next == {i \in Of("start") : i > again}
             beats == {i \in Of("heartbeat") : i > again /\ (next = {} \/ i < FirstOf(next))}
         IN IF window[again].x # 1 THEN "POSITION_LOST_AT_RESTART"
            ELSE IF beats = {} THEN "INCONCLUSIVE"
            ELSE IF \E i \in beats : window[i].x > 1 THEN "DUPLICATE_EXPOSURE"
            ELSE IF window[FirstOf(beats)].y # 1 THEN "REGISTRY_NOT_RECOVERED"
            ELSE "PASS"

\* A snapshot's x is its own positions, y the foreign ones; id its label; every
\* one states the account's mode.
GradeAccount(mode) ==
    LET snap(label) == window[LastOf(OfId("snapshot", label))]
        has(label) == OfId("snapshot", label) # {}
    IN IF ~has("after_A") \/ ~has("after_B") THEN "NOT_RUN"
       ELSE IF ea.mode # mode THEN "WRONG_ACCOUNT_MODE"
       ELSE IF mode = "netting" THEN IF snap("after_A").x = 1 /\ snap("after_B").x = 1
                                   /\ snap("after_B").y = 0 THEN "PASS" ELSE "NOT_NETTED"
       ELSE IF ~has("after_F") THEN "NOT_RUN"
       ELSE IF snap("after_B").x = 2 /\ snap("after_F").x = 2 /\ snap("after_F").y = 1
                     THEN "PASS" ELSE "NOT_ISOLATED"

Grade == IF leg = "kill_switch" THEN GradeKillSwitch
         ELSE IF leg = "risk_veto" THEN GradeRiskVeto
         ELSE IF leg = "meta_reduce" THEN GradeMetaReduce
         ELSE IF leg = "sl_verify" THEN GradeSlVerify
         ELSE IF leg = "lost_response" THEN GradeLostResponse
         ELSE IF leg = "restart" THEN GradeRestart
         ELSE GradeAccount(leg)

-----------------------------------------------------------------------------
(* The EA under test: what it does, and what is wrong with it.  The next act *)
(* comes in the same second or in a later one.                             *)

Prints(ls) == window' = window \o ls
WentWrong(w, cond) == real' = IF cond THEN real \cup {w} ELSE real
NextBar == bar' \in {bar, bar + 1}
Stays == UNCHANGED <<leg, baseline>>

Quiet == ea' = ea /\ real' = real /\ window' = window

\* 8a: an entry; the first one trips the kill switch or the daily loss, after
\* which the EA may or may not still enter.
Enters ==
    /\ leg \in {"kill_switch", "risk_veto"}
    /\ LET hook == IF leg = "kill_switch" THEN "latch" ELSE "daily_loss" IN
       \E blocks \in {0, 1} :
        \/ /\ ea.stopped = 0
           /\ Prints(<<Stamped("request", 0, 1, 0), Stamped(hook, 0, blocks, 0)>>)
           /\ ea' = [ea EXCEPT !.stopped = bar]
           /\ WentWrong("unblocked", leg = "kill_switch" /\ blocks = 1)
        \/ /\ ea.stopped # 0 /\ blocks = 0
           /\ Prints(<<Stamped("request", 0, 1, 0)>>)
           /\ ea' = ea
           /\ WentWrong(IF bar = ea.stopped THEN "entered_at_once" ELSE "entered",
                        leg = "kill_switch" \/ DayOf(bar) = DayOf(ea.stopped))

\* 8a meta: approved lots, final lots, sent lots.
Sizes ==
    /\ leg = "meta_reduce" /\ Cardinality(Of("meta")) < 2
    /\ \E approved, final, sent \in 0..2 :
        /\ Prints(<<Stamped("meta", 0, approved, final)>>
                  \o IF sent = 0 THEN <<>> ELSE <<Stamped("request", 0, sent, 0)>>)
        /\ WentWrong(IF final <= approved /\ \E j \in Of("request") : window[j].at = bar
                     THEN "over_behind" ELSE "over", final > approved \/ sent > approved)
    /\ ea' = ea

\* 8b: a position loses its stop; the protection puts it back, the position
\* closes, or neither.
Strips ==
    /\ leg = "sl_verify" /\ Cardinality(ea.bare) < 2
    /\ \E left \in {0, 1} : LET ticket == Len(window) + 1 IN
        /\ Prints(<<Stamped("stripped", ticket, left, 0)>>)
        /\ ea' = [ea EXCEPT !.bare = IF left = 0 THEN @ \cup {ticket} ELSE @]
    /\ real' = real
Resolves ==
    /\ leg = "sl_verify"
    /\ \E p \in ea.bare, what \in {"restored", "closed"} :
        /\ Prints(<<Stamped(what, p, 0, 0)>>)
        /\ ea' = [ea EXCEPT !.bare = @ \ {p}]
    /\ real' = real

\* 8c: a suppressed send is queued (or lost) and retried later, once, twice or
\* never; a dropped answer is verified from history, or queued again.
Suppresses ==
    /\ leg = "lost_response" /\ ea.stopped = 0
    /\ Prints(<<Stamped("suppressed", "c1", 0, 0), Stamped("open_queued", "c1", 0, 0)>>)
    /\ ea' = [ea EXCEPT !.stopped = 1, !.queued = {"c1"}] /\ real' = real
Retries ==
    /\ leg = "lost_response"
    /\ \E c \in ea.queued :
        /\ \E sends \in 0..2, end \in {"open_retry", "open_retry_giveup"} :
            /\ Prints([k \in 1..sends |-> Stamped("request", c, 1, 0)] \o <<Stamped(end, c, 0, 0)>>)
            /\ WentWrong(IF sends = 0 THEN "nothing" ELSE "sends", sends + (IF c = "c2" THEN 1 ELSE 0) # 1)
        /\ ea' = [ea EXCEPT !.queued = @ \ {c}]
Drops ==
    /\ leg = "lost_response" /\ ea.stopped = 1 /\ "c1" \notin ea.queued
    /\ \E sends \in 1..2, end \in {"open_verified", "open_queued"} :
        /\ Prints([k \in 1..sends |-> Stamped("request", "c2", 1, 0)]
                  \o <<Stamped("dropped", "c2", 0, 0), Stamped(end, "c2", 0, 0)>>)
        /\ WentWrong("sends", sends # 1)
        /\ ea' = [ea EXCEPT !.stopped = 2, !.queued = IF end = "open_queued" THEN @ \cup {"c2"} ELSE @]

\* Demo restart: the probe opens a position; killed and relaunched, the EA may
\* have lost it, its registry, or open another.
Starts ==
    /\ leg = "restart" /\ ea.stopped < 3
    /\ \E own \in {ea.own, 0}, probe \in {1, 3} :
        /\ Prints(<<Stamped("start", probe, own, 0)>>)
        /\ WentWrong("lost", own # ea.own /\ ea.stopped = 1 /\ probe = 1)
        /\ ea' = [ea EXCEPT !.stopped = IF probe = 3 THEN 3 ELSE @ + 1]
Opens ==
    /\ leg = "restart" /\ ea.stopped = 1 /\ ea.own = 0
    /\ Prints(<<Stamped("opened", 0, 0, 0)>>) /\ ea' = [ea EXCEPT !.own = 1] /\ real' = real
Beats ==
    /\ leg = "restart" /\ ea.stopped \in {1, 2}
    /\ \E own \in {ea.own, 2}, registry \in {0, 1} :
        /\ Prints(<<Stamped("heartbeat", 0, own, registry)>>)
        /\ WentWrong("duplicate", ea.stopped = 2 /\ own = 2)
    /\ ea' = ea

\* Demo account probe: buy, sell twice as much, a foreign buy.
Probes ==
    /\ leg \in {"netting", "hedging"} /\ ea.stopped < 3
    /\ \E isolated \in BOOLEAN :
        LET label == <<"after_A", "after_B", "after_F">>[ea.stopped + 1]
            own == IF ea.mode = "netting" \/ label = "after_A" THEN 1 ELSE 2
        IN /\ Prints(<<Stamped("snapshot", label, IF isolated THEN own ELSE own + 1,
                            IF label = "after_F" /\ ea.mode = "hedging" THEN 1 ELSE 0)>>)
           /\ WentWrong("mixed", ~isolated /\ (label # "after_A" \/ leg = "netting")
                              /\ (label # "after_F" \/ leg = "hedging"))
    /\ ea' = [ea EXCEPT !.stopped = @ + 1]

EaStep == \/ Enters \/ Sizes \/ Strips \/ Resolves \/ Suppresses \/ Retries \/ Drops
          \/ Starts \/ Opens \/ Beats \/ Probes

LegInit ==
    /\ leg \in LegTests
    /\ baseline \in IF leg \in {"kill_switch", "risk_veto"} THEN SUBSET (1..MaxBars) ELSE {{}}
    /\ bar = 1 /\ window = <<>> /\ real = {}
    /\ \E mode \in {"netting", "hedging"} :
        ea = [stopped |-> 0, bare |-> {}, queued |-> {}, own |-> 0, mode |-> mode]

LegNext == bar <= MaxBars /\ Len(window) < MaxLines /\ (EaStep \/ Quiet) /\ NextBar /\ Stays

-----------------------------------------------------------------------------
(* Properties *)

\* What the graders cannot see for want of a finer stamp: an entry in the second of the trip
\* (r['time'] > t), a size behind another request of its second (the first one is looked up), and a
\* retry that sent nothing while another entry was sent in the same second (requests are counted
\* whatever their comment).
Unseen(w) ==
    \/ w \in {"entered_at_once", "over_behind"}
    \/ /\ w = "nothing"
       /\ \E r \in OfId("open_retry", "c1"), d \in Of("dropped") : window[r].at = window[d].at

\* A pass means the test was met: what the EA did that the test forbids is one of these, and what
\* the test needs did happen (safety_legs.grade_*: no later entry while latched or vetoed, no size
\* above the Risk approval, every stripped stop back or its position closed, one send per entry
\* whatever was lost, one position after a restart, positions netted or isolated by the account's
\* mode).
PassedMeansShown ==
    Grade = "PASS" =>
        /\ \A w \in real : Unseen(w)
        /\ leg = "sl_verify" => ea.bare = {}
        /\ leg \in {"kill_switch", "risk_veto"} => \E b \in baseline : b > ea.stopped
        /\ leg = "lost_response" => ea.stopped = 2 /\ ea.queued = {}
        /\ leg = "restart" => ea.own = 1
        /\ leg \in {"netting", "hedging"} => ea.mode = leg

\* safety_legs.py:38,54,62 "ZERO_NEW_ORDERS_WHILE_LATCHED", "ALL_SIZES_LE_RISK_APPROVED",
\* "LOST_RESPONSE_ADOPTED_NO_DUPLICATE": not within one second.
NothingUnseen == Grade = "PASS" => real = {}
=============================================================================
