----------------------------- MODULE RetryQueue -----------------------------
(***************************************************************************)
(* CRetryQueue (RetryQueue.mqh) as operators on a set of items.  The 32    *)
(* slots of the array become a set of at most MaxItems records: which slot *)
(* an item sits in decides nothing but ties between equally due items.     *)
(*                                                                         *)
(* Time is counted in passes of the EA's one-second timer: "wait" is the   *)
(* number of passes until an item is due and falls below zero while a due  *)
(* item is kept waiting, so that the smallest "wait" is the earliest due   *)
(* time.                                                                   *)
(***************************************************************************)
EXTENDS Integers, FiniteSets

CONSTANTS
    MaxItems,       \* RETRY_MAX_ITEMS
    MaxAttempts     \* m_maxAttempts = MathMax(1, InpMaxRetries)

ASSUME MaxItemsAssumption == MaxItems \in Nat \ {0}
ASSUME MaxAttemptsAssumption == MaxAttempts \in Nat \ {0}

\* RetryBackoffMs: 0.5 s doubled per attempt, at most 10 s, in timer passes.
Backoff(attempt) ==
    CASE attempt <= 1 -> 1
      [] attempt = 2  -> 2
      [] attempt = 3  -> 4
      [] attempt = 4  -> 8
      [] OTHER        -> 10

\* The identity of a queued operation, as FindSame compares it.
KeyOf(item) == <<item.action, item.ticket, item.comment>>
FindSame(q, item) == {i \in q : KeyOf(i) = KeyOf(item)}

Scheduled(item, attempted) ==
    [item EXCEPT !.attempt = attempted, !.wait = Backoff(attempted)]

AddPastCapacity(q, item, attempted) ==                               \* mutant
    LET same == FindSame(q, item)
    IN (q \ same) \union {Scheduled(i, attempted) :
                          i \in IF same = {} THEN {item} ELSE same}
\* Add reschedules the entry that is already there, payload and all, or takes
\* a free slot, or drops the item when there is none.
Add(q, item, attempted) ==
    LET same == FindSame(q, item)
    IN IF same # {}
       THEN (q \ same) \union {Scheduled(i, attempted) : i \in same}
       ELSE IF Cardinality(q) < MaxItems
            THEN q \union {Scheduled(item, attempted)}
            ELSE q

\* What PopDue may return: a due item, the earliest first.
Due(q) == {i \in q : i.wait <= 0 /\ \A j \in q : i.wait <= j.wait}

\* A second passes.
Tick(q) == {[i EXCEPT !.wait = @ - 1] : i \in q}
=============================================================================
