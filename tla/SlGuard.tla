------------------------------- MODULE SlGuard -------------------------------
(***************************************************************************)
(* CSlGuard (SlGuard.mqh), the post-fill stop-loss enforcement, with the   *)
(* code that feeds it: the entry of OnNewBar, ProtectManagedPositions and  *)
(* the trailing stop.                                                      *)
(*                                                                         *)
(* Each OnTimer first enqueues a guard item for every managed position     *)
(* without a valid stop, then Pump visits the active items, a few per      *)
(* pass: bind to a position, modify once, wait, close, wait, escalate.     *)
(*                                                                         *)
(* Only the place of a stop matters: 0 is no stop, 1 and 2 are valid ones  *)
(* (2 is tighter) and 3 lies at or beyond the entry price.  Tickets are    *)
(* handed out in the order positions open and stand for the opening times. *)
(* The trade manager (module TradeExec) appears by what it makes of a      *)
(* request: done, refused, or queued and later done or given up.           *)
(***************************************************************************)
EXTENDS Integers, FiniteSets

CONSTANTS
    MaxOpens,       \* bound on the number of positions opened
    Slots,          \* SLG_MAX_ITEMS
    PerPass,        \* SLG_MAX_PUMPS_PER_TICK
    DropPumps,      \* pumps after which an unbound item is dropped (10)
    ModifyPumps,    \* pumps at which a modify is given up for a close (8)
    BarePumps,      \* pumps after which an unprotectable close escalates (15)
    ClosePumps,     \* pumps after which an unanswered close escalates (20)
    Desired,        \* the stops the EA may ask for, 0 when it has none
    Trails          \* does the position guard move stops past the entry?

ASSUME BoundsAssumption == MaxOpens \in Nat \ {0} /\ Slots \in Nat \ {0}
ASSUME PumpsAssumption ==
    /\ PerPass \in Nat \ {0} /\ DropPumps \in Nat \ {0}
    /\ ModifyPumps \in Nat \ {0, 1} /\ BarePumps \in Nat /\ ClosePumps \in Nat
    /\ DropPumps < ClosePumps /\ ModifyPumps <= ClosePumps /\ BarePumps <= ClosePumps
ASSUME StopsAssumption == Desired \subseteq 0..3 /\ Desired # {} /\ Trails \in BOOLEAN

VARIABLES
    held,       \* open positions of the EA: ticket and stop
    opened,     \* positions opened so far
    work,       \* what the trade manager has queued
    items,      \* m_items
    engine,     \* CRiskManager's state
    step,       \* the next step of the handler under way
    uncovered,  \* positions ProtectManagedPositions has yet to look at
    cursor,     \* Pump: the slot to visit next
    processed,  \* Pump: items visited in this pass
    closed,     \* Pump: closed > 0
    escalated,  \* Pump: escalated > 0
    guardClosed \* history: tickets a request of the guard has closed

guardVars == <<held, opened, work, items, engine, step, uncovered, cursor,
          processed, closed, escalated, guardClosed>>
broker == <<held, opened, work, guardClosed>>
pumping == <<cursor, processed, closed, escalated>>

GuardTicket == 1..MaxOpens
Stop == 0..3
Slot == 1..Slots

GuardItem == [active : BOOLEAN, ticket : GuardTicket \union {0}, since : 0..MaxOpens + 1,
         desired : Stop, pumps : 0..ClosePumps + 1, phase : 0..2,
         issued : 0..ClosePumps + 1]
Free == [active |-> FALSE, ticket |-> 0, since |-> 0, desired |-> 0,
         pumps |-> 0, phase |-> 0, issued |-> 0]

\* Queued requests: an entry, a modify or a close, and who asked for it.
Work == [kind : {"ENTRY", "MODIFY", "CLOSE"}, ticket : GuardTicket \union {0}, sl : Stop]

\* SlVerdict = SL_VERDICT_OK: a stop that is present, on the loss side of the
\* ENTRY price and far enough from it.
Valid(sl) == sl \in {1, 2}

IsHeld(t) == \E p \in held : p.ticket = t
StopOf(t) == (CHOOSE p \in held : p.ticket = t).sl

GuardTypeOK ==
    /\ held \subseteq [ticket : GuardTicket, sl : Stop]
    /\ opened \in 0..MaxOpens
    /\ work \subseteq Work
    /\ items \in [Slot -> GuardItem]
    /\ engine \in {"NORMAL", "NO_NEW_TRADES", "HALT"}
    /\ step \in {"idle", "protect", "pump"}
    /\ uncovered \subseteq GuardTicket
    /\ cursor \in 1..Slots + 1 /\ processed \in 0..PerPass
    /\ closed \in BOOLEAN /\ escalated \in BOOLEAN
    /\ guardClosed \subseteq GuardTicket
    /\ \A p, q \in held : p.ticket = q.ticket => p = q
    /\ \A i \in Slot : items[i].phase > 0 => items[i].ticket # 0

GuardInit ==
    /\ held = {} /\ opened = 0 /\ work = {}
    /\ items = [i \in Slot |-> Free]
    /\ engine = "NORMAL" /\ step = "idle" /\ uncovered = {}
    /\ cursor = 1 /\ processed = 0 /\ closed = FALSE /\ escalated = FALSE
    /\ guardClosed = {}

-----------------------------------------------------------------------------
(* Enqueue and CoversTicket                                                 *)

FirstFree(s) == ~items[s].active /\ \A r \in Slot : r < s => items[r].active

\* Enqueue takes the first free slot; when there is none it fails, and none
\* of its callers looks at that.
Enqueue(ticket, since, desired) ==
    \/ \E s \in Slot :
        /\ FirstFree(s)
        /\ items' = [items EXCEPT ![s] =
              [Free EXCEPT !.active = TRUE, !.ticket = ticket,
                           !.since = since, !.desired = desired]]
    \/ (\A s \in Slot : items[s].active) /\ UNCHANGED items

Covers(i, t) == i.active /\ IF i.ticket # 0 THEN i.ticket = t ELSE i.since <= t
CoversTicket(t) == \E s \in Slot : Covers(items[s], t)

-----------------------------------------------------------------------------
(* The entry and the trailing stop of OnNewBar                              *)

\* The order carries a stop; the server may accept the deal and drop it.
\* "now" is TimeCurrent() after the answer: the deal may already be older.
Entry ==
    /\ step = "idle" /\ engine = "NORMAL" /\ opened < MaxOpens
    /\ held = {} /\ work = {}
    /\ LET t == opened + 1
       IN \/ \E sl \in {0, 1}, now \in {t, t + 1}, d \in Desired \ {0} :
              /\ held' = {[ticket |-> t, sl |-> sl]}
              /\ opened' = t /\ UNCHANGED work
              /\ Enqueue(0, now, d)
          \/ \E d \in Desired \ {0} :
              /\ work' = {[kind |-> "ENTRY", ticket |-> 0, sl |-> 0]}
              /\ UNCHANGED <<held, opened>>
              /\ Enqueue(0, t, d)
    /\ UNCHANGED <<engine, step, uncovered, pumping, guardClosed>>

\* CPositionGuard::Review on the earliest position: trailing and breakeven
\* only ever tighten.
Trail ==
    /\ step = "idle" /\ Trails
    /\ \E p \in held, sl \in 2..3 :
        /\ \A q \in held : p.ticket <= q.ticket
        /\ sl > p.sl
        /\ held' = (held \ {p}) \union {[p EXCEPT !.sl = sl]}
    /\ UNCHANGED <<opened, work, items, engine, step, uncovered, pumping, guardClosed>>

-----------------------------------------------------------------------------
(* Requests to the trade manager                                            *)

Moved(t, sl) ==
    {IF p.ticket = t THEN [p EXCEPT !.sl = sl] ELSE p : p \in held}
Without(t) == {p \in held : p.ticket # t}

\* ModifySLTP and ClosePosition on an open position.
Modify(t, sl) ==
    \/ held' = Moved(t, sl) /\ UNCHANGED work
    \/ work' = work \union {[kind |-> "MODIFY", ticket |-> t, sl |-> sl]}
       /\ UNCHANGED held
    \/ UNCHANGED <<held, work>>

Close(t) ==
    \/ held' = Without(t) /\ guardClosed' = guardClosed \union {t}
       /\ UNCHANGED work
    \/ work' = work \union {[kind |-> "CLOSE", ticket |-> t, sl |-> 0]}
       /\ UNCHANGED <<held, guardClosed>>
    \/ UNCHANGED <<held, work, guardClosed>>

-----------------------------------------------------------------------------
(* OnTimer                                                                  *)

\* ProtectManagedPositions looks at every managed position once.
TimerProtect ==
    /\ step = "idle" /\ step' = "protect"
    /\ uncovered' = {p.ticket : p \in held}
    /\ UNCHANGED <<broker, items, engine, pumping>>

ProtectNothing(t) == FALSE                                           \* mutant
NeedsGuard(t) == IsHeld(t) /\ ~Valid(StopOf(t)) /\ ~CoversTicket(t)

ProtectOne ==
    /\ step = "protect"
    /\ \E t \in uncovered :
        /\ uncovered' = uncovered \ {t}
        /\ IF NeedsGuard(t)
           THEN \E d \in Desired : Enqueue(t, 0, d)
           ELSE UNCHANGED items
    /\ UNCHANGED <<broker, engine, step, pumping>>

PumpBegins ==
    /\ step = "protect" /\ uncovered = {}
    /\ step' = "pump" /\ cursor' = 1 /\ processed' = 0
    /\ closed' = FALSE /\ escalated' = FALSE
    /\ UNCHANGED <<broker, items, engine, uncovered>>

\* FindPosition: the newest position that ANY active item may claim, by the
\* test CoversTicket makes too.
Candidates == {p.ticket : p \in {q \in held : CoversTicket(q.ticket)}}
Newest(ts) == CHOOSE t \in ts : \A u \in ts : u <= t

Release(s) == items' = [items EXCEPT ![s] = Free]

\* An unbound item that finds no position waits, then gives up.
PumpUnbound(s, i) ==
    LET n == i.pumps + 1
    IN /\ IF n > DropPumps THEN Release(s)
          ELSE items' = [items EXCEPT ![s].pumps = n]
       /\ UNCHANGED <<broker, closed, escalated>>

\* How long the guard waits for a close it asked for.
GivesUp(i, n) == n > IF i.desired = 0 THEN BarePumps ELSE ClosePumps

\* The item after a visit: bound to its position, one pump older.
Unbound(i, t, n) == [i EXCEPT !.pumps = n]                           \* mutant
Bound(i, t, n) == [i EXCEPT !.ticket = t, !.pumps = n]

\* Nothing is left to do for t: it is gone, or its stop is valid.
GoneOnly(t) == ~IsHeld(t)                                       \* mutant
Secured(t) == ~IsHeld(t) \/ Valid(StopOf(t))

\* The ladder for a position t whose stop is not valid: i is the item, bound.
PumpInvalid(s, i, t) ==
    LET n     == i.pumps + 1
        Stay(phase, issued) ==
            items' = [items EXCEPT ![s] =
                        [Bound(i, t, n) EXCEPT !.phase = phase, !.issued = issued]]
    IN \/ /\ i.phase = 0 /\ i.desired > 0
          /\ Modify(t, i.desired) /\ UNCHANGED guardClosed
          /\ Stay(1, n) /\ UNCHANGED <<closed, escalated>>
       \/ /\ i.phase = 0 /\ i.desired = 0
          /\ Close(t)
          /\ Stay(2, n) /\ UNCHANGED <<closed, escalated>>
       \/ /\ i.phase = 1 /\ n >= ModifyPumps
          /\ Close(t)
          /\ Stay(2, i.issued) /\ UNCHANGED <<closed, escalated>>
       \/ /\ i.phase = 1 /\ n < ModifyPumps
          /\ Stay(1, i.issued)
          /\ UNCHANGED <<held, work, guardClosed, closed, escalated>>
       \/ /\ i.phase = 2 /\ GivesUp(i, n)
          /\ Release(s) /\ escalated' = TRUE
          /\ UNCHANGED <<held, work, guardClosed, closed>>
       \/ /\ i.phase = 2 /\ ~GivesUp(i, n)
          /\ Stay(2, i.issued)
          /\ UNCHANGED <<held, work, guardClosed, closed, escalated>>

\* One visit of Pump.  Line 290's second look at the position, which alone
\* counts "closed", comes after the one of line 224 in the same visit and
\* sees what that saw.
Visit(s) ==
    LET i == items[s]
        t == IF i.ticket # 0 THEN i.ticket
             ELSE IF Candidates # {} THEN Newest(Candidates) ELSE 0
    IN IF t = 0 THEN PumpUnbound(s, i)
       ELSE IF Secured(t)
            THEN Release(s) /\ UNCHANGED <<broker, closed, escalated>>
            ELSE PumpInvalid(s, i, t) /\ UNCHANGED opened

PumpVisit ==
    /\ step = "pump" /\ cursor <= Slots /\ processed < PerPass
    /\ cursor' = cursor + 1
    /\ IF items[cursor].active
       THEN Visit(cursor) /\ processed' = processed + 1
       ELSE UNCHANGED <<broker, items, processed, closed, escalated>>
    /\ UNCHANGED <<engine, step, uncovered>>

\* The EA's reaction to what Pump counted.
PumpEnds ==
    /\ step = "pump" /\ (cursor > Slots \/ processed = PerPass)
    /\ step' = "idle"
    /\ engine' = IF escalated THEN "HALT"
                 ELSE IF closed /\ engine = "NORMAL" THEN "NO_NEW_TRADES"
                 ELSE engine
    /\ cursor' = 1 /\ processed' = 0 /\ closed' = FALSE /\ escalated' = FALSE
    /\ UNCHANGED <<broker, items, uncovered>>

-----------------------------------------------------------------------------
(* The trade manager's queue and the world                                  *)

\* ProcessQueue executes a queued request, or gives it up.
WorkDone ==
    /\ step = "idle"
    /\ \E w \in work :
        /\ work' = work \ {w}
        /\ \/ UNCHANGED <<held, opened, guardClosed>>
           \/ /\ w.kind = "ENTRY" /\ opened < MaxOpens /\ opened' = opened + 1
              /\ \E sl \in {0, 1} :
                  held' = held \union {[ticket |-> opened + 1, sl |-> sl]}
              /\ UNCHANGED guardClosed
           \/ /\ w.kind = "MODIFY" /\ held' = Moved(w.ticket, w.sl)
              /\ UNCHANGED <<opened, guardClosed>>
           \/ /\ w.kind = "CLOSE" /\ IsHeld(w.ticket)
              /\ held' = Without(w.ticket)
              /\ guardClosed' = guardClosed \union {w.ticket}
              /\ UNCHANGED opened
    /\ UNCHANGED <<items, engine, step, uncovered, pumping>>

\* A position is closed by its stop, its target or a person.
HeldEnds ==
    /\ \E p \in held : held' = held \ {p}
    /\ UNCHANGED <<opened, work, items, engine, step, uncovered, pumping, guardClosed>>

\* Somebody removes a stop.
StopRemoved ==
    /\ \E p \in held : p.sl # 0 /\ held' = Moved(p.ticket, 0)
    /\ UNCHANGED <<opened, work, items, engine, step, uncovered, pumping, guardClosed>>

OnTimer == TimerProtect \/ ProtectOne \/ PumpBegins \/ PumpVisit \/ PumpEnds

GuardNext ==
    \/ OnTimer \/ Entry \/ Trail \/ WorkDone
    \/ HeldEnds \/ StopRemoved

GuardSpec == GuardInit /\ [][GuardNext]_guardVars

\* The timer fires every second; nothing is promised of the trade server.
GuardFairSpec == GuardSpec /\ WF_guardVars(OnTimer)

-----------------------------------------------------------------------------
(* Properties                                                               *)

\* No position stays without a valid stop in a running engine: it is secured
\* or closed, or the engine is halted, however the server behaves
\* (SlGuard.mqh:5-11).
Unprotected(t) == IsHeld(t) /\ ~Valid(StopOf(t))
SecuredOrHalted ==
    \A t \in GuardTicket : Unprotected(t) ~> (~Unprotected(t) \/ engine = "HALT")

\* The guard halts the engine only for a position that is open, has no valid
\* stop and that it tried to close.
EscalationJustified ==
    [][~escalated /\ escalated' =>
        \E s \in Slot : /\ items[s].active /\ items[s].phase = 2
                        /\ Unprotected(items[s].ticket)]_guardVars

\* Claims of the documentation that the code does not keep.

\* "trailing stop (never loosened)" (PositionGuard.mqh:118): once the stop is
\* at or beyond the entry price the guard does not move it back.
ProfitStopKept ==
    [][step = "pump" =>
        \A p \in held, q \in held' :
            p.ticket = q.ticket /\ p.sl = 3 => q.sl = 3]_guardVars

\* "unprotectable positions are closed, then engine pauses"
\* (MQL5_EXECUTION_AUDIT.md:47): when the guard lets go of a position it
\* closed, the pass ends with an engine that is not NORMAL.
ClosedMeansPaused ==
    [][\A s \in Slot :
        items[s].active /\ items[s].ticket \in guardClosed /\ ~items'[s].active
        => closed']_guardVars

\* "the EA never enqueues two guard items for the same position"
\* (SlGuard.mqh:308).
OneItemPerPosition ==
    \A r, s \in Slot :
        items[r].active /\ items[s].active /\ items[r].ticket # 0 /\
        items[r].ticket = items[s].ticket => r = s

\* "give retries several pumps to land, then close" (SlGuard.mqh:274): two
\* pumps at least come after the modify.
RetriesGetTime ==
    [][\A s \in Slot :
        items[s].active /\ items[s].phase = 1 /\ items'[s].phase = 2 =>
            items'[s].pumps - items[s].issued >= 2]_guardVars
=============================================================================
