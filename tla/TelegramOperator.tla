-------------------------- MODULE TelegramOperator --------------------------
(***************************************************************************)
(* The owner's phone (notify/telegram.py, telegram_ops.py) and the         *)
(* watchdog that alerts through the same channel (discovery/safety.py).    *)
(* Telegram keeps an update until a later getUpdates carries a higher      *)
(* offset; the offset lives in the polling process.  One tick of the clock *)
(* is the channel's minimum send interval.                                 *)
(***************************************************************************)
EXTENDS SafetyAuthorities

CONSTANTS Words,            \* first words the owner or a stranger may send
          MaxUpdates, LastTick, \* bounds
          AlertKinds,       \* what the watchdog may raise, in the order it raises it
          RateLimit         \* watchdog: ticks between two alerts of a kind

VARIABLES pending,          \* Telegram: updates not yet confirmed; their ids order them
          sent,             \* updates sent so far; ids are 1, 2, ...
          offset, batch,    \* the polling process: next id to ask for, updates in hand
          handled,          \* ids whose stop the running process applied
          everApplied,      \* ids whose stop some process applied
          clock, lastSend,  \* the channel's clock and last attempt
          stamped,          \* watchdog: kind -> time of its last alert
          digestOn          \* day (tick) of the last digest

phoneVars == <<pending, sent, offset, batch, handled, everApplied, clock, lastSend, stamped, digestOn>>

Never == -10
Commands == {"status", "positions", "report", "stop"}

PhoneInit ==
    /\ pending = {} /\ sent = 0 /\ offset = 0 /\ batch = {}
    /\ handled = {} /\ everApplied = {}
    /\ clock = 0 /\ lastSend = Never /\ digestOn = Never
    /\ stamped = [k \in Range(AlertKinds) |-> Never]

OwnerSends(word, allowed) ==
    /\ sent < MaxUpdates /\ sent' = sent + 1
    /\ pending' = pending \cup {[id |-> sent + 1, word |-> word, allowed |-> allowed]}
    /\ UNCHANGED <<offset, batch, handled, everApplied, clock, lastSend, stamped, digestOn>>

\* Mutant: the offset counts as confirmed.
UnconfirmedAfter(q, from) == {u \in q : u.id > from}

\* getUpdates(offset): what lies below the offset is confirmed, the rest comes back, again if need be.
Unconfirmed(q, from) == {u \in q : u.id >= from}
GetUpdates ==
    /\ batch = {} /\ pending # {}
    /\ pending' = Unconfirmed(pending, offset) /\ batch' = pending'
    /\ UNCHANGED <<sent, offset, handled, everApplied, clock, lastSend, stamped, digestOn>>

\* TelegramChannel._deliver: too soon is skipped in silence, a failure raises.
TooSoon == clock - lastSend < 1
Attempt == lastSend' = IF TooSoon THEN lastSend ELSE clock
MayRaise == ~TooSoon

\* on_command: strangers and unknown words are dropped; stop halts before any reply is tried.
Answered(u) == u.allowed /\ u.word \in Commands
First(u) == u \in batch /\ \A v \in batch : u.id <= v.id
HandleUpdate(u, raises) ==
    LET stops == Answered(u) /\ u.word = "stop"
    IN  /\ First(u) /\ (raises => Answered(u) /\ MayRaise)
        /\ offset' = Max({offset, u.id + 1})
        /\ SetSwitch("phone", IF stops THEN "EMERGENCY_HALT" ELSE switch["phone"])
        /\ handled' = IF stops THEN handled \cup {u.id} ELSE handled
        /\ everApplied' = everApplied \cup handled'
        /\ IF Answered(u) THEN Attempt ELSE UNCHANGED lastSend
        /\ batch' = IF raises THEN {} ELSE batch \ {u}
        /\ UNCHANGED <<pending, sent, clock, stamped, digestOn>>

\* The process ends; telegram_ops.main starts anew with offset 0 and a new switch.
PhoneRestarts ==
    /\ offset' = 0 /\ batch' = {} /\ handled' = {}
    /\ lastSend' = Never /\ digestOn' = Never
    /\ UNCHANGED <<pending, sent, everApplied, clock, stamped>>

Ticks ==
    /\ clock < LastTick /\ clock' = clock + 1
    /\ UNCHANGED <<pending, sent, offset, batch, handled, everApplied, lastSend, stamped, digestOn>>

\* maybe_send_digest, on_trade_event: the date is noted before the send is tried.
SendDigest ==
    /\ digestOn # clock /\ digestOn' = clock /\ Attempt
    /\ UNCHANGED <<pending, sent, offset, batch, handled, everApplied, clock, stamped>>
TradeEvent ==
    /\ Attempt
    /\ UNCHANGED <<pending, sent, offset, batch, handled, everApplied, clock, stamped, digestOn>>

\* Watchdog.check: every due kind is stamped, then handed to the channel, which takes the first.
Due(kinds) == {k \in kinds : clock - stamped[k] >= RateLimit}
WatchdogCheck(kinds) ==
    /\ Due(kinds) # {}
    /\ stamped' = [k \in DOMAIN stamped |-> IF k \in Due(kinds) THEN clock ELSE stamped[k]]
    /\ Attempt
    /\ UNCHANGED <<pending, sent, offset, batch, handled, everApplied, clock, digestOn>>

PhoneNext ==
    \/ /\ \/ \E w \in Words, a \in BOOLEAN : OwnerSends(w, a)
          \/ GetUpdates \/ Ticks \/ SendDigest \/ TradeEvent
          \/ \E kinds \in SUBSET Range(AlertKinds) : WatchdogCheck(kinds)
       /\ UNCHANGED authorityVars
    \/ /\ \E u \in batch, raises \in BOOLEAN : HandleUpdate(u, raises)
       /\ UNCHANGED <<breaker, advice, applied, entry, rebalances, signals>>
    \/ PhoneRestarts /\ RestartProcess("phone")
    \/ \E t \in TripSets : Evaluate("phone", t) /\ UNCHANGED phoneVars
    \/ KillswitchReset /\ UNCHANGED phoneVars

-----------------------------------------------------------------------------
(* What must hold. *)

\* telegram_ops.poll_forever and on_command: whatever fails or restarts in between, a stop from an
\* allowed chat that Telegram has forgotten was applied, and the process that applied it stays halted.
StopIsNotLost ==
    /\ [](handled # {} => switch["phone"] = "EMERGENCY_HALT")
    /\ [][\A u \in pending \ pending' : u.allowed /\ u.word = "stop" => u.id \in everApplied'
         ]_<<phoneVars, authorityVars>>
=============================================================================
