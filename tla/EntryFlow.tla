------------------------------ MODULE EntryFlow ------------------------------
(***************************************************************************)
(* The Expert Advisor around CTradeManager: the handlers of Mql5Bot.mq5    *)
(* that open, close and cancel, with the gates that keep them apart.       *)
(*                                                                         *)
(* OnTimer: retry queue, orphan scan after a start, kill-switch            *)
(* enforcement, equity limits.  OnNewBar: pending order housekeeping,      *)
(* management of the open position, entry gates, then a flip or an entry.  *)
(* A handler runs alone, but it waits for every answer it gets, and the    *)
(* server goes on meanwhile; "step" says where it is, "todo" what it still *)
(* has to ask the trade manager for, one by one.  Which signal comes, when *)
(* a limit is hit, what the exit rules and the stop-loss guard decide and  *)
(* what the server answers are inputs.                                     *)
(***************************************************************************)
EXTENDS TradeExec

CONSTANTS
    PendingMode,    \* InpPendingMode: entries are stop orders
    Cadence         \* timer passes between enforcements of HALT (10)

ASSUME ModeAssumption == PendingMode \in BOOLEAN /\ Cadence \in Nat \ {0}

VARIABLES
    step,       \* the next step of the handler under way
    todo,       \* what the running handler still has to close, modify, cancel
    engine,     \* CRiskManager's state
    scanDone,   \* g_orphanScanDone
    tick        \* g_tickCounter, modulo Cadence

flow == <<step, todo, engine, scanDone, tick>>
allVars == <<vars, flow>>

FlowTypeOK ==
    /\ step \in {"idle", "queue", "enforce", "limits", "manage", "gates"}
    /\ todo \subseteq {"CLOSE", "PARTIAL", "MODIFY", "CANCEL"} \X Ticket
    /\ engine \in {"NORMAL", "NO_NEW_TRADES", "HALT"}
    /\ scanDone \in BOOLEAN
    /\ tick \in 0..Cadence - 1
    /\ step # "queue" => pass = 0

FlowInit ==
    /\ Init
    /\ step = "idle" /\ todo = {} /\ engine = "NORMAL" /\ scanDone = FALSE /\ tick = 0

At(s) == step = s /\ todo = {}

All(kind) == {<<kind, p.ticket>> : p \in positions}
AllPositions == All("CLOSE")
AllOrders == {<<"CANCEL", o.ticket>> : o \in orders}

\* Nothing happens to the trade manager and the server in this step.
TradeIdle == UNCHANGED vars

-----------------------------------------------------------------------------
(* One request of the running handler                                       *)

\* Comments of closes are made from an ever growing counter; what matters is
\* that no queued close has the one a new close gets.
FreshComment ==
    CHOOSE n \in 0..MaxItems : \A i \in queue : i.action = "CLOSE" => i.comment # n

\* ClosePosition, as CloseAllPositions, ManageOpenPositions and the stop-loss
\* guard call it: whole (vol 0) or in part.
CloseOne(t, vol) ==
    /\ IF HasPosition(t)
       THEN CloseAttempt(t, 0, FreshComment, vol)
       ELSE UNCHANGED <<queue, server, late, attempts>>
    /\ UNCHANGED <<pendingTicket, barsLeft, counter, pass, calls, done, restarts>>

\* ModifySLTP, as ManageOpenPositions and the guard call it.  Which stop is
\* asked for matters to no property here.
ModifyOne(t) ==
    LET item == NewItem("MODIFY", 0, t, 0, 0, 2)
    IN /\ IF HasPosition(t)
          THEN \E a \in Answers :
                /\ Send(item, a)
                /\ queue' = IF IsRetryable(a) THEN Add(queue, item, 0) ELSE queue
          ELSE UNCHANGED <<queue, server, late, attempts>>
       /\ UNCHANGED <<pendingTicket, barsLeft, counter, pass, calls, done, restarts>>

\* CancelOrphanPendings, for one order; a retryable failure goes to
\* QueueCancelByTicket.
CancelOne(t) ==
    LET item == NewItem("CANCEL", 0, t, 0, 0, 0)
    IN /\ \E a \in Answers :
           /\ Send(item, a)
           /\ queue' = IF IsRetryable(a) THEN Add(queue, item, 0) ELSE queue
       /\ UNCHANGED <<pendingTicket, barsLeft, counter, pass, calls, done, restarts>>

\* A scale-out moves the stop first.
DoNext ==
    /\ \E x \in todo :
        /\ x[1] = "PARTIAL" => <<"MODIFY", x[2]>> \notin todo
        /\ todo' = todo \ {x}
        /\ CASE x[1] = "CLOSE"   -> CloseOne(x[2], 0)
             [] x[1] = "PARTIAL" -> CloseOne(x[2], 1)
             [] x[1] = "MODIFY"  -> ModifyOne(x[2])
             [] x[1] = "CANCEL"  -> CancelOne(x[2])
    /\ UNCHANGED <<step, engine, scanDone, tick>>

-----------------------------------------------------------------------------
(* OnTimer                                                                  *)

TimerFires ==
    /\ At("idle") /\ StartPass
    /\ step' = "queue" /\ tick' = (tick + 1) % Cadence
    /\ UNCHANGED <<todo, engine, scanDone>>

TimerQueue ==
    /\ At("queue") /\ (ProcessDue \/ EndPass)
    /\ UNCHANGED flow

PassEndsAnyTime == TRUE                                              \* mutant
\* ProcessQueue has returned.
PassOver == pass = 0

\* The orphan scan runs once per start, whatever becomes of its cancels.
TimerScan ==
    /\ At("queue") /\ PassOver
    /\ step' = "enforce" /\ scanDone' = TRUE
    /\ todo' = IF scanDone THEN {} ELSE AllOrders
    /\ UNCHANGED <<engine, tick>> /\ TradeIdle

EnforcedOnTripOnly == {}                                             \* mutant
\* While HALT everything is closed again and again.
Enforced == IF engine = "HALT" /\ tick = 0 THEN AllPositions ELSE {}

TimerEnforce ==
    /\ At("enforce")
    /\ step' = "limits" /\ todo' = Enforced
    /\ UNCHANGED <<engine, scanDone, tick>> /\ TradeIdle

\* The equity limits, the stop-loss guard's verdict and the rollover decide
\* the engine's state (module EngineState); a limit closes everything, the
\* guard closes or modifies what it looks at (module SlGuard).
TimerLimits ==
    /\ At("limits") /\ step' = "idle"
    /\ \/ engine' = engine
       \/ engine' = "HALT"
       \/ engine = "NORMAL" /\ engine' = "NO_NEW_TRADES"
       \/ engine = "NO_NEW_TRADES" /\ engine' = "NORMAL"
    /\ todo' \in SUBSET (AllPositions \union All("MODIFY"))
    /\ UNCHANGED <<scanDone, tick>> /\ TradeIdle

-----------------------------------------------------------------------------
(* OnNewBar                                                                 *)

BarBegins ==
    /\ At("idle") /\ step' = "manage"
    /\ IF pendingTicket # 0 THEN OnBar ELSE TradeIdle
    /\ UNCHANGED <<todo, engine, scanDone, tick>>

\* ManageOpenPositions closes what has been open for too many bars; for the
\* rest the exit rules may move the stop and scale out.
BarManage ==
    /\ At("manage") /\ step' = "gates"
    /\ \E timedOut \in SUBSET positions :
        todo' \in
            {{<<"CLOSE", p.ticket>> : p \in timedOut} \union rest :
                rest \in SUBSET ({"MODIFY", "PARTIAL"} \X
                                {p.ticket : p \in positions \ timedOut})}
    /\ UNCHANGED <<engine, scanDone, tick>> /\ TradeIdle

WorkIgnoringQueue == pendingTicket # 0                               \* mutant
\* A pending entry or a retry is already working.
Working == pendingTicket # 0 \/ queue # {}

\* A gate is shut, or there is no signal, or the exposure is the desired one.
BarReturns ==
    /\ At("gates") /\ step' = "idle"
    /\ UNCHANGED <<todo, engine, scanDone, tick>> /\ TradeIdle

BarFlip ==
    /\ At("gates") /\ step' = "idle"
    /\ engine = "NORMAL" /\ ~Working /\ positions # {}
    /\ todo' = AllPositions
    /\ UNCHANGED <<engine, scanDone, tick>> /\ TradeIdle

BarEntry ==
    /\ At("gates") /\ step' = "idle"
    /\ engine = "NORMAL" /\ ~Working /\ positions = {}
    /\ IF PendingMode THEN OpenPending ELSE OpenMarket
    /\ UNCHANGED <<todo, engine, scanDone, tick>>

-----------------------------------------------------------------------------

FlowRestart ==
    /\ Restart
    /\ step' = "idle" /\ todo' = {} /\ scanDone' = FALSE /\ tick' = 0
    /\ engine' \in {engine, "NORMAL"}     \* restored, or reset explicitly

OnTimer == TimerFires \/ TimerQueue \/ TimerScan \/ TimerEnforce \/ TimerLimits
OnNewBar == BarBegins \/ BarManage \/ BarReturns \/ BarFlip \/ BarEntry

FlowNext ==
    \/ OnTimer \/ OnNewBar \/ DoNext
    \/ World /\ UNCHANGED flow
    \/ FlowRestart

FlowSpec == FlowInit /\ [][FlowNext]_allVars

\* The server executes a close it is asked for: an assumption on the broker,
\* used for liveness only.
CloseExecuted ==
    DoNext /\ \E p \in positions : ~\E q \in positions' : q.ticket = p.ticket

\* The event loop runs handlers to their end and the timer again and again.
FlowFairness ==
    /\ WF_allVars(DoNext) /\ WF_allVars(TimerQueue)
    /\ WF_allVars(TimerScan) /\ WF_allVars(TimerEnforce) /\ WF_allVars(TimerLimits)
    /\ WF_allVars(BarManage) /\ WF_allVars(BarReturns \/ BarFlip \/ BarEntry)
    /\ SF_allVars(TimerFires)
    /\ SF_allVars(CloseExecuted)

FlowFairSpec == FlowSpec /\ FlowFairness

-----------------------------------------------------------------------------
(* Properties                                                               *)

\* The EA holds one position or one resting order at a time, although
\* entries, retries, flips and cancels overlap: the gates of OnNewBar see to
\* it (Mql5Bot.mq5:1130 and the flip that waits for the next bar).
SingleExposure == Cardinality(positions) + Cardinality(orders) <= 1

\* A resting order this run knows to be placed is the one it keeps track of.
RestingIsTracked ==
    \A o \in orders : o.call \in done => o.ticket = pendingTicket

\* While the engine stays in HALT the positions are closed.
HaltGoesFlat == (engine = "HALT") ~> (positions = {} \/ engine # "HALT")

\* A claim of the documentation that the code does not keep: "while latched:
\* zero new orders" (USER_GUIDE.md:33).
HaltNoNewOrders ==
    [][engine = "HALT" =>
        \A c \in DOMAIN calls : calls[c] \in {"MARKET", "PENDING"} =>
            attempts'[c] = attempts[c]]_allVars

\* Pending mode: one resting order or one position at a time, and the EA knows the ticket of
\* whatever order rests (OnNewBar, ManagePending).
TrackedExposure == SingleExposure /\ RestingIsTracked
=============================================================================
