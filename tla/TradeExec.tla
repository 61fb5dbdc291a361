------------------------------ MODULE TradeExec ------------------------------
(***************************************************************************)
(* CTradeManager with its retry queue (TradeManager.mqh, RetryQueue.mqh)   *)
(* and the trade server it talks to.  Every public operation makes one     *)
(* attempt and hands a retryable failure to the queue; the timer executes  *)
(* the due items.                                                          *)
(*                                                                         *)
(* The server is external.  A request is answered DONE, with a transient   *)
(* code (REQUOTE, PRICE_CHANGED, PRICE_OFF), with TIMEOUT, or with any     *)
(* other code, which is fatal.  Only TIMEOUT is ambiguous: the request was *)
(* executed, or lost, or is executed late; TimedOut says which of these a  *)
(* run of the model considers.                                             *)
(*                                                                         *)
(* Calls are numbered.  A call's number is history: the code knows it only *)
(* by its order comment, a counter that restarts with the program.         *)
(***************************************************************************)
EXTENDS RetryQueue, Sequences

CONSTANTS
    Calls,          \* the kinds of calls the caller makes
    MaxCalls,       \* bound on the number of calls
    PassItems,      \* items one timer pass executes (ProcessQueue's maxItems)
    ExpireBars,     \* InpPendingExpireBars
    TimedOut,       \* what may become of a request answered TIMEOUT
    MaxRestarts     \* bound on the number of restarts

Kinds == {"MARKET", "PENDING", "CLOSE", "PARTIAL", "MODIFY"}

ASSUME CallsAssumption == Calls \subseteq Kinds /\ MaxCalls \in Nat \ {0}
ASSUME PassAssumption == PassItems \in Nat \ {0} /\ ExpireBars \in Nat \ {0}
ASSUME WorldAssumption ==
    TimedOut \subseteq {"executed", "lost", "late"} /\ MaxRestarts \in Nat

VARIABLES
    \* the EA's memory
    queue,          \* m_queue
    pendingTicket,  \* m_pendingTicket, 0 when none
    barsLeft,       \* m_pendingBarsLeft
    counter,        \* m_counter, in the next order comment
    pass,           \* items the timer pass under way may still execute
    \* the server
    positions,      \* open positions of this magic number
    orders,         \* resting pending orders of this magic number
    deals,          \* entry deals in the history
    late,           \* requests answered TIMEOUT and not executed yet
    nextTicket,     \* the next ticket the server hands out
    \* history
    calls,          \* the kinds of the calls made so far
    attempts,       \* attempts made for each call
    made,           \* effects at the server of each call
    done,           \* opening calls reported done to the caller or audited so
    restarts

client == <<queue, pendingTicket, barsLeft, counter, pass>>
server == <<positions, orders, deals, made, nextTicket>>
vars == <<client, server, late, calls, attempts, done, restarts>>

Full == 2                       \* the volume of an entry; a partial close is 1
Stops == 1..3                   \* stop-loss levels, higher is tighter
Call == 1..MaxCalls
MaxTicket == MaxCalls * (MaxAttempts + 1)
Ticket == 1..MaxTicket

Actions == {"MARKET", "PENDING", "CLOSE", "MODIFY", "CANCEL"}
Item == [action : Actions, call : Call \union {0}, ticket : Ticket \union {0},
         comment : 0..MaxCalls, vol : 0..Full, sl : Stops \union {0},
         attempt : 0..MaxAttempts, wait : Int]

\* The queue fits its slots, holds an operation once, and nothing that has
\* used up its attempts.
QueueShape ==
    /\ Cardinality(queue) <= MaxItems
    /\ \A i, j \in queue : KeyOf(i) = KeyOf(j) => i = j
    /\ \A i \in queue : i.attempt < MaxAttempts

TypeOK ==
    /\ queue \subseteq Item /\ QueueShape
    /\ pendingTicket \in Ticket \union {0}
    /\ barsLeft \in 0..ExpireBars
    /\ counter \in 0..MaxCalls
    /\ pass \in 0..PassItems
    /\ positions \subseteq [ticket : Ticket, vol : 1..Full, sl : Stops]
    /\ orders \subseteq [ticket : Ticket, call : Call]
    /\ deals \subseteq [call : Call, comment : 0..MaxCalls, recent : BOOLEAN]
    /\ \A l \in late : l.req.action \in Actions /\ l.sent \in Nat
    /\ nextTicket \in 1..MaxTicket + 1
    /\ calls \in Seq(Kinds) /\ Len(calls) <= MaxCalls
    /\ DOMAIN attempts = Call /\ DOMAIN made = Call
    /\ done \subseteq Call
    /\ restarts \in 0..MaxRestarts

Init ==
    /\ queue = {} /\ pendingTicket = 0 /\ barsLeft = 0 /\ counter = 0 /\ pass = 0
    /\ positions = {} /\ orders = {} /\ deals = {} /\ late = {} /\ nextTicket = 1
    /\ calls = <<>> /\ attempts = [c \in Call |-> 0]
    /\ made = [c \in Call |-> 0] /\ done = {} /\ restarts = 0

-----------------------------------------------------------------------------
(* The server                                                               *)

Answers == {"DONE", "TRANSIENT", "TIMEOUT", "FATAL"}
IsRetryable(a) == a \in {"TRANSIENT", "TIMEOUT"}

HasPosition(t) == \E p \in positions : p.ticket = t
HasOrder(t) == \E o \in orders : o.ticket = t

\* The server executes the request r; a target that is gone leaves it no
\* effect.  A close may be filled in part (DONE_PARTIAL).
Opens(r) ==
    /\ r.action = "MARKET"
    /\ positions' = positions \union {[ticket |-> nextTicket, vol |-> Full, sl |-> 1]}
    /\ deals' = deals \union {[call |-> r.call, comment |-> r.comment, recent |-> TRUE]}
    /\ made' = [made EXCEPT ![r.call] = @ + 1]
    /\ nextTicket' = nextTicket + 1
    /\ UNCHANGED orders

Places(r) ==
    /\ r.action = "PENDING"
    /\ orders' = orders \union {[ticket |-> nextTicket, call |-> r.call]}
    /\ made' = [made EXCEPT ![r.call] = @ + 1]
    /\ nextTicket' = nextTicket + 1
    /\ UNCHANGED <<positions, deals>>

Reduced(p, vol) == IF vol < p.vol THEN {[p EXCEPT !.vol = @ - vol]} ELSE {}

Closes(r) ==
    /\ r.action = "CLOSE"
    /\ \E p \in positions : p.ticket = r.ticket /\
        \E filled \in IF r.vol = 0 THEN 1..p.vol ELSE {r.vol} :
            positions' = (positions \ {p}) \union Reduced(p, filled)
    /\ made' = [c \in Call |-> made[c] + IF c = r.call THEN 1 ELSE 0]
    /\ UNCHANGED <<orders, deals, nextTicket>>

Modifies(r) ==
    /\ r.action = "MODIFY"
    /\ \E p \in positions : p.ticket = r.ticket /\
        positions' = (positions \ {p}) \union {[p EXCEPT !.sl = r.sl]}
    /\ UNCHANGED <<orders, deals, made, nextTicket>>

Removes(r) ==
    /\ r.action = "CANCEL" /\ HasOrder(r.ticket)
    /\ orders' = {o \in orders : o.ticket # r.ticket}
    /\ UNCHANGED <<positions, deals, made, nextTicket>>

Executes(r) == Opens(r) \/ Places(r) \/ Closes(r) \/ Modifies(r) \/ Removes(r)

\* One attempt: the request r is sent and answered a.  The count of attempts
\* stops one above the number AttemptsBounded allows.
Send(r, a) ==
    /\ attempts' = [c \in Call |-> IF c = r.call /\ attempts[c] < MaxAttempts + 2
                                  THEN attempts[c] + 1 ELSE attempts[c]]
    /\ \/ a = "DONE" /\ Executes(r) /\ UNCHANGED late
       \/ a \in {"TRANSIENT", "FATAL"} /\ UNCHANGED <<server, late>>
       \/ a = "TIMEOUT" /\ "executed" \in TimedOut /\ Executes(r) /\ UNCHANGED late
       \/ a = "TIMEOUT" /\ "lost" \in TimedOut /\ UNCHANGED <<server, late>>
       \/ /\ a = "TIMEOUT" /\ "late" \in TimedOut /\ r.call \in Call
          /\ late' = late \union {[req |-> r, sent |-> attempts[r.call]]}
          /\ UNCHANGED server

-----------------------------------------------------------------------------
(* The operations of CTradeManager                                          *)

NewItem(action, call, ticket, comment, vol, sl) ==
    [action |-> action, call |-> call, ticket |-> ticket, comment |-> comment,
     vol |-> vol, sl |-> sl, attempt |-> 0, wait |-> 0]

FindRecentDealNone(ds, comment) == FALSE                             \* mutant
FindRecentDealAny(ds, comment) == \E d \in ds : d.recent             \* mutant
\* FindRecentDeal: a deal with this comment in the last 30 seconds.
FindRecentDeal(ds, comment) == \E d \in ds : d.comment = comment /\ d.recent

\* A call of the given kind is made, outside the timer's pass.
Called(kind) ==
    /\ pass = 0 /\ kind \in Calls /\ Len(calls) < MaxCalls
    /\ calls' = Append(calls, kind)
    /\ UNCHANGED <<pass, restarts>>
ThisCall == Len(calls) + 1

OpenMarket ==
    LET item == NewItem("MARKET", ThisCall, 0, counter + 1, Full, 1)
    IN /\ Called("MARKET")
       /\ counter' = counter + 1
       /\ \E a \in Answers :
           /\ Send(item, a)
           /\ LET verified == a = "TIMEOUT" /\ FindRecentDeal(deals', item.comment)
              IN /\ done' = IF a = "DONE" \/ verified
                            THEN done \union {item.call} ELSE done
                 /\ queue' = IF IsRetryable(a) /\ ~verified
                             THEN Add(queue, item, 0) ELSE queue
       /\ UNCHANGED <<pendingTicket, barsLeft>>

\* What PlacePendingOnce remembers of its answer; only its own answer tells
\* the code that an order rests.
Remember(a) ==
    /\ pendingTicket' = IF a = "DONE" THEN nextTicket ELSE pendingTicket
    /\ barsLeft' = IF a = "DONE" THEN ExpireBars ELSE barsLeft

OpenPending ==
    LET item == NewItem("PENDING", ThisCall, 0, counter + 1, Full, 1)
    IN /\ Called("PENDING") /\ pendingTicket = 0
       /\ counter' = counter + 1
       /\ \E a \in Answers :
           /\ Send(item, a) /\ Remember(a)
           /\ done' = IF a = "DONE" THEN done \union {item.call} ELSE done
           /\ queue' = IF IsRetryable(a) THEN Add(queue, item, 0) ELSE queue

\* ClosePosition, whole (vol 0) or in part: gone is closed, also after a
\* timeout; everything else retryable is queued.
CloseAttempt(t, call, comment, vol) ==
    LET item == NewItem("CLOSE", call, t, comment, vol, 0)
    IN \E a \in Answers :
        /\ Send(item, a)
        /\ queue' = IF IsRetryable(a) /\
                       (a = "TIMEOUT" => \E p \in positions' : p.ticket = t)
                    THEN Add(queue, item, 0) ELSE queue

ClosePosition(t, kind, vol) ==
    /\ Called(kind) /\ HasPosition(t)
    /\ CloseAttempt(t, ThisCall, counter, vol)
    /\ counter' = counter + 1
    /\ UNCHANGED <<pendingTicket, barsLeft, done>>

\* The caller tightens the stop it sees, as the trailing and breakeven rules
\* of CPositionGuard::Review do.
ModifySLTP(t, sl) ==
    LET item == NewItem("MODIFY", ThisCall, t, 0, 0, sl)
    IN /\ Called("MODIFY")
       /\ \E p \in positions : p.ticket = t /\ p.sl < sl
       /\ \E a \in Answers :
           /\ Send(item, a)
           /\ queue' = IF IsRetryable(a) THEN Add(queue, item, 0) ELSE queue
       /\ UNCHANGED <<pendingTicket, barsLeft, counter, done>>

\* OnBar: an order that is gone was filled or cancelled; one that is old is
\* cancelled, and forgotten only when the server confirms that.
OnBar ==
    LET item == NewItem("CANCEL", 0, pendingTicket, 0, 0, 0)
        old  == barsLeft <= 1
    IN /\ pass = 0 /\ pendingTicket # 0
       /\ IF ~HasOrder(pendingTicket)
          THEN /\ pendingTicket' = 0 /\ barsLeft' = 0
               /\ UNCHANGED <<queue, server, late, attempts>>
          ELSE /\ barsLeft' = IF old THEN 0 ELSE barsLeft - 1
               /\ IF ~old
                  THEN UNCHANGED <<pendingTicket, queue, server, late, attempts>>
                  ELSE \E a \in Answers :
                        /\ Send(item, a)
                        /\ pendingTicket' = IF a = "DONE" THEN 0 ELSE pendingTicket
                        /\ queue' = IF IsRetryable(a) THEN Add(queue, item, 0)
                                    ELSE queue
       /\ UNCHANGED <<counter, pass, calls, done, restarts>>

-----------------------------------------------------------------------------
(* ProcessQueue, once per timer pass                                        *)

StartPass ==
    /\ pass = 0
    /\ pass' = IF queue = {} THEN 0 ELSE PassItems
    /\ queue' = Tick(queue)
    /\ UNCHANGED <<pendingTicket, barsLeft, counter, server, late, calls,
                   attempts, done, restarts>>

MayRetryOnceMore(item) == item.attempt < MaxAttempts                 \* mutant
MayRetry(item) == item.attempt + 1 < MaxAttempts

RequeuedUncounted(item, a) ==                                        \* mutant
    IF IsRetryable(a) /\ MayRetry(item)
    THEN Add(queue \ {item}, item, item.attempt)
    ELSE queue \ {item}
\* ExecuteQueued: success ends the item, and so does a close or a modify of a
\* position that is gone; an open that timed out is looked up in the history;
\* a retryable answer is scheduled again while attempts are left.
Requeued(item, a) ==
    IF IsRetryable(a) /\ MayRetry(item)
    THEN Add(queue \ {item}, item, item.attempt + 1)
    ELSE queue \ {item}

ExecuteQueued(item) ==
    IF item.action \in {"CLOSE", "MODIFY"} /\ ~HasPosition(item.ticket)
    THEN /\ queue' = queue \ {item}
         /\ UNCHANGED <<pendingTicket, barsLeft, server, late, attempts, done>>
    ELSE \E a \in Answers :
          LET settled ==
                  \/ /\ a = "TIMEOUT" /\ item.action = "MARKET"
                     /\ FindRecentDeal(deals', item.comment)
                  \/ /\ a = "TIMEOUT" /\ item.action = "CLOSE"
                     /\ ~\E p \in positions' : p.ticket = item.ticket
          IN /\ Send(item, a)
             /\ queue' = IF settled THEN queue \ {item} ELSE Requeued(item, a)
             /\ IF item.action = "PENDING" THEN Remember(a)
                ELSE UNCHANGED <<pendingTicket, barsLeft>>
             /\ done' = IF item.action \in {"MARKET", "PENDING"} /\
                           (a = "DONE" \/ settled)
                        THEN done \union {item.call} ELSE done

ProcessDue ==
    /\ pass > 0 /\ pass' = pass - 1
    /\ \E item \in Due(queue) : ExecuteQueued(item)
    /\ UNCHANGED <<counter, calls, restarts>>

EndPass ==
    /\ pass > 0 /\ Due(queue) = {} /\ pass' = 0
    /\ UNCHANGED <<queue, pendingTicket, barsLeft, counter, server, late,
                   calls, attempts, done, restarts>>

-----------------------------------------------------------------------------
(* The server on its own, and the program's end and restart                 *)

Untouched == UNCHANGED <<client, calls, attempts, done, restarts>>

\* A request that was answered TIMEOUT is executed after all, or is not.
LateEffect ==
    /\ \E l \in late : late' = late \ {l} /\ (Executes(l.req) \/ UNCHANGED server)
    /\ Untouched

\* A deal is more than 30 seconds old.
DealAges ==
    /\ \E d \in deals : d.recent /\
        deals' = (deals \ {d}) \union {[d EXCEPT !.recent = FALSE]}
    /\ UNCHANGED <<positions, orders, made, nextTicket, late>> /\ Untouched

\* A stop, a take-profit or a person closes a position.
PositionEnds ==
    /\ \E p \in positions : positions' = positions \ {p}
    /\ UNCHANGED <<orders, deals, made, nextTicket, late>> /\ Untouched

OrderTriggers ==
    /\ \E o \in orders :
        /\ orders' = orders \ {o}
        /\ positions' = positions \union {[ticket |-> o.ticket, vol |-> Full, sl |-> 1]}
    /\ UNCHANGED <<deals, made, nextTicket, late>> /\ Untouched

\* The terminal starts the program anew: Init clears the queue and forgets
\* the pending order, the constructor resets the comment counter.
Restart ==
    /\ restarts < MaxRestarts /\ restarts' = restarts + 1
    /\ queue' = {} /\ pendingTicket' = 0 /\ barsLeft' = 0 /\ counter' = 0 /\ pass' = 0
    /\ UNCHANGED <<server, late, calls, attempts, done>>

CallsMade ==
    \/ OpenMarket
    \/ OpenPending
    \/ \E t \in Ticket : ClosePosition(t, "CLOSE", 0) \/ ClosePosition(t, "PARTIAL", 1)
    \/ \E t \in Ticket, sl \in Stops : ModifySLTP(t, sl)
    \/ OnBar

ProcessQueue == StartPass \/ ProcessDue \/ EndPass

World == LateEffect \/ DealAges \/ PositionEnds \/ OrderTriggers

Next == CallsMade \/ ProcessQueue \/ World \/ Restart

Spec == Init /\ [][Next]_vars

\* The timer fires every second; nothing is promised of the server.
FairSpec == Spec /\ WF_vars(ProcessQueue)

-----------------------------------------------------------------------------
(* Properties                                                               *)

\* An operation costs at most its first attempt and MaxAttempts retries, in
\* whatever order calls, passes and answers come (MQL5_EXECUTION_AUDIT.md:25,
\* "no unbounded retry loop").  A modify is excepted: see CapNeverReset.
AttemptsBounded ==
    \A c \in DOMAIN calls : calls[c] # "MODIFY" => attempts[c] <= MaxAttempts + 1

\* One market-order call opens at most one position, although a timed-out
\* request is sent again: "no duplicate fills" (TradeManager.mqh:12).  It
\* holds as long as the server never executes a request after the history was
\* searched for it.
NoDuplicateFill ==
    \A c \in DOMAIN calls : calls[c] = "MARKET" => made[c] <= 1

\* An open reported done was done: "filled/placed now" (TradeManager.mqh:28).
\* It holds within one run of the program: comments repeat after a restart.
DoneIsFilled == \A c \in done : made[c] >= 1

\* A queued operation leaves the queue for good.
Queued(c) == \E i \in queue : i.call = c
RetriesEnd == \A c \in Call : Queued(c) ~> []~Queued(c)

\* Claims of the documentation that the code does not keep.

\* "keeping its attempt counter so a re-request never resets the cap"
\* (RetryQueue.mqh:136).
CapNeverReset ==
    [][\A i \in queue, j \in queue' : KeyOf(i) = KeyOf(j) => j.attempt >= i.attempt]_vars

\* "trailing stop (never loosened)" (PositionGuard.mqh:118): the caller only
\* tightens, so the stop at the server may only tighten.
StopNeverLoosened ==
    [][\A p \in positions, q \in positions' : p.ticket = q.ticket => q.sl >= p.sl]_vars

\* "no double-close" (MQL5_EXECUTION_AUDIT.md:65): a close call is executed
\* once.
NoDoubleClose ==
    \A c \in DOMAIN calls : calls[c] \in {"CLOSE", "PARTIAL"} => made[c] <= 1

\* "One pending at a time" (MQL5_EXECUTION_AUDIT.md:58), for one call.
OnePendingPerCall ==
    \A c \in DOMAIN calls : calls[c] = "PENDING" => made[c] <= 1
=============================================================================
