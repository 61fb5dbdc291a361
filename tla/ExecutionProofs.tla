--------------------------- MODULE ExecutionProofs ---------------------------
(***************************************************************************)
(* Proofs about TradeExec, for every number of slots, attempts and calls,  *)
(* whatever timeouts mean and however often the program restarts.          *)
(*                                                                         *)
(* A queued operation carries its own count of attempts, and the cap is    *)
(* applied to that; the invariant ties it to the attempts really made for  *)
(* the call.  This needs that a call is queued at most once, hence that    *)
(* Add never takes a new call for one that is queued: the comments of the  *)
(* queued operations are old ones.                                         *)
(*                                                                         *)
(* FillInv is the second invariant: a request that the server may already  *)
(* have executed is looked up by its comment before it is sent again, and  *)
(* the comments in flight are those of different calls, so a market order  *)
(* fills once and what is reported done was done.                          *)
(*                                                                         *)
(* Proofs about EntryFlow: that the Expert Advisor has one position or one *)
(* resting order at a time, for every number of calls, slots, attempts and *)
(* passes.                                                                 *)
(*                                                                         *)
(* Neither the entry gates nor the queue looks at everything the other     *)
(* knows.  What keeps them apart is that an opening operation is queued    *)
(* only while there is neither a position nor an order, that there is at   *)
(* most one, and that the gates see the queue; in pending mode also that   *)
(* the order which rests is the one whose ticket is remembered.            *)
(***************************************************************************)
EXTENDS EntryFlow, FiniteSetTheorems, FunctionTheorems, TLAPS

Entry == [action : Actions, call : Nat, ticket : Nat, comment : Nat, vol : Nat,
          sl : Nat, attempt : Nat, wait : Int]

\* The operations whose count of attempts nothing resets.
Once == {"MARKET", "PENDING", "CLOSE"}

Keyed(q) == \A i, j \in q : KeyOf(i) = KeyOf(j) => i = j

Types ==
    /\ queue \subseteq Entry /\ IsFiniteSet(queue)
    /\ counter \in Nat /\ nextTicket \in Nat /\ pendingTicket \in Nat
    /\ calls \in Seq(Kinds)
    /\ attempts \in [Call -> Nat]

\* What is queued for the call i.call.
Justified(i) ==
    /\ i.action # "CANCEL" => i.call \in Call /\ i.call <= Len(calls)
    /\ i.action = "CANCEL" => i.call = 0
    /\ i.action = "MODIFY" => calls[i.call] = "MODIFY"
    /\ i.action \in {"MARKET", "PENDING"} => i.comment <= counter
    /\ i.action = "CLOSE" => i.comment < counter
    /\ i.action \in Once =>
        calls[i.call] # "MODIFY" /\ attempts[i.call] <= i.attempt + 1

Counted ==
    /\ \A c \in Call : c > Len(calls) => attempts[c] = 0
    /\ \A i \in queue : Justified(i)
    /\ \A i, j \in queue : i.action \in Once /\ i.call = j.call => i = j

Bounded == \A c \in Call : c <= Len(calls) /\ calls[c] # "MODIFY" =>
                            attempts[c] <= MaxAttempts + 1

QInv == Types /\ QueueShape /\ Counted /\ Bounded /\ Len(calls) <= MaxCalls

-----------------------------------------------------------------------------
(* The queue                                                                *)

LEMMA ScheduledType ==
    ASSUME NEW i \in Entry, NEW n \in Nat
    PROVE  /\ Scheduled(i, n) \in Entry
           /\ KeyOf(Scheduled(i, n)) = KeyOf(i)
           /\ Scheduled(i, n).attempt = n
           /\ Scheduled(i, n).call = i.call
           /\ Scheduled(i, n).action = i.action
           /\ Scheduled(i, n).comment = i.comment
<1>1. Backoff(n) \in Int
  BY DEF Backoff
<1>2. Scheduled(i, n) = [i EXCEPT !.attempt = n, !.wait = Backoff(n)]
  BY DEF Scheduled
<1>3. Scheduled(i, n) \in Entry
  BY <1>1, <1>2 DEF Entry
<1>4. /\ Scheduled(i, n).attempt = n
      /\ Scheduled(i, n).call = i.call
      /\ Scheduled(i, n).action = i.action
      /\ Scheduled(i, n).ticket = i.ticket
      /\ Scheduled(i, n).comment = i.comment
  BY <1>2 DEF Entry
<1> QED BY <1>3, <1>4 DEF KeyOf

LEMMA OneMore ==
    ASSUME NEW S, IsFiniteSet(S), NEW x, NEW m \in Nat, Cardinality(S) < m
    PROVE  IsFiniteSet(S \union {x}) /\ Cardinality(S \union {x}) <= m
<1>1. Cardinality(S) \in Nat
  BY FS_CardinalityType
<1>2. /\ IsFiniteSet(S \union {x})
      /\ \/ Cardinality(S \union {x}) = Cardinality(S)
         \/ Cardinality(S \union {x}) = Cardinality(S) + 1
  BY FS_AddElement
<1> QED BY <1>1, <1>2

\* Add to a queue that holds no such operation.
LEMMA AddNew ==
    ASSUME NEW q, NEW item, NEW n,
           \A i \in q : KeyOf(i) # KeyOf(item)
    PROVE  Add(q, item, n) \in {q, q \union {Scheduled(item, n)}}
BY DEF Add, FindSame

\* Whatever is added, the queue keeps to its slots and holds an operation once.
LEMMA AddShape ==
    ASSUME NEW q \in SUBSET Entry, IsFiniteSet(q), Cardinality(q) <= MaxItems,
           Keyed(q), NEW item \in Entry, NEW n \in Nat
    PROVE  /\ Add(q, item, n) \in SUBSET Entry
           /\ IsFiniteSet(Add(q, item, n))
           /\ Cardinality(Add(q, item, n)) <= MaxItems
           /\ Keyed(Add(q, item, n))
           /\ \A x \in Add(q, item, n) :
                \/ x \in q
                \/ x = Scheduled(item, n)
                \/ \E i \in q : KeyOf(i) = KeyOf(item) /\ x = Scheduled(i, n)
<1> DEFINE same == FindSame(q, item)
<1>0. Cardinality(q) \in Nat /\ MaxItems \in Nat
  BY FS_CardinalityType, MaxItemsAssumption
<1>1. CASE same = {}
  <2>1. \A i \in q : KeyOf(i) # KeyOf(item)
    BY <1>1 DEF FindSame
  <2>2. Scheduled(item, n) \in Entry /\ KeyOf(Scheduled(item, n)) = KeyOf(item)
    BY ScheduledType
  <2>3. CASE Cardinality(q) < MaxItems
    <3>1. Add(q, item, n) = q \union {Scheduled(item, n)}
      BY <1>1, <2>3 DEF Add
    <3>2. /\ IsFiniteSet(q \union {Scheduled(item, n)})
          /\ Cardinality(q \union {Scheduled(item, n)}) <= MaxItems
      BY <1>0, <2>3, OneMore
    <3>3. Keyed(q \union {Scheduled(item, n)})
      BY <2>1, <2>2 DEF Keyed
    <3> QED BY <3>1, <3>2, <3>3, <2>2
  <2>4. CASE ~(Cardinality(q) < MaxItems)
    <3>1. Add(q, item, n) = q
      BY <1>1, <2>4 DEF Add
    <3> QED BY <3>1
  <2> QED BY <2>3, <2>4
<1>2. CASE same # {}
  <2>1. PICK o \in q : KeyOf(o) = KeyOf(item)
    BY <1>2 DEF FindSame
  <2>2. same = {o}
    BY <2>1 DEF FindSame, Keyed
  <2>3. Add(q, item, n) = (q \ {o}) \union {Scheduled(o, n)}
    BY <1>2, <2>2 DEF Add
  <2>4. Scheduled(o, n) \in Entry /\ KeyOf(Scheduled(o, n)) = KeyOf(o)
    BY ScheduledType
  <2>5. /\ IsFiniteSet(q \ {o})
        /\ Cardinality(q \ {o}) = Cardinality(q) - 1
    BY FS_RemoveElement
  <2>6. /\ IsFiniteSet((q \ {o}) \union {Scheduled(o, n)})
        /\ Cardinality((q \ {o}) \union {Scheduled(o, n)}) <= Cardinality(q)
    <3>1. Cardinality(q \ {o}) < Cardinality(q)
      BY <1>0, <2>5
    <3> QED BY <1>0, <2>5, <3>1, OneMore
  <2>7. Keyed((q \ {o}) \union {Scheduled(o, n)})
    BY <2>4 DEF Keyed
  <2>8. Cardinality(Add(q, item, n)) <= MaxItems
    <3>1. Cardinality((q \ {o}) \union {Scheduled(o, n)}) \in Nat
      BY <2>6, FS_CardinalityType
    <3> QED BY <1>0, <2>3, <2>6, <3>1
  <2>9. \A x \in Add(q, item, n) :
            x \in q \/ (KeyOf(o) = KeyOf(item) /\ x = Scheduled(o, n))
    BY <2>1, <2>3
  <2> QED BY <2>1, <2>3, <2>4, <2>6, <2>7, <2>8, <2>9
<1> QED BY <1>1, <1>2

-----------------------------------------------------------------------------
(* One attempt                                                              *)

\* The count after one attempt for the call n.
Attempted(n) == [c \in Call |-> IF c = n /\ attempts[c] < MaxAttempts + 2
                               THEN attempts[c] + 1 ELSE attempts[c]]

LEMMA ConstantsType ==
    /\ MaxItems \in Nat /\ MaxAttempts \in Nat /\ MaxAttempts >= 1
    /\ MaxCalls \in Nat /\ Call \subseteq Nat /\ 0 \notin Call
BY MaxItemsAssumption, MaxAttemptsAssumption, CallsAssumption DEF Call

LEMMA ServerTickets ==
    ASSUME nextTicket \in Nat, NEW r, Executes(r)
    PROVE  nextTicket' \in Nat
BY DEF Executes, Opens, Places, Closes, Modifies, Removes

LEMMA SendAttempts ==
    ASSUME nextTicket \in Nat, NEW r, NEW a, Send(r, a)
    PROVE  attempts' = Attempted(r.call) /\ nextTicket' \in Nat
<1>1. attempts' = Attempted(r.call)
  BY DEF Send, Attempted
<1>2. Executes(r) \/ UNCHANGED server
  BY DEF Send
<1>3. nextTicket' \in Nat
  BY <1>2, ServerTickets DEF server
<1> QED BY <1>1, <1>3

LEMMA AttemptedType ==
    ASSUME attempts \in [Call -> Nat], NEW n
    PROVE  /\ Attempted(n) \in [Call -> Nat]
           /\ \A c \in Call : c # n => Attempted(n)[c] = attempts[c]
           /\ \A c \in Call : Attempted(n)[c] <= attempts[c] + 1
           /\ \A c \in Call : Attempted(n)[c] >= attempts[c]
<1>1. \A c \in Call : attempts[c] \in Nat /\ attempts[c] + 1 \in Nat
  OBVIOUS
<1>2. Attempted(n) \in [Call -> Nat]
  BY <1>1 DEF Attempted
<1>3. \A c \in Call : Attempted(n)[c] = IF c = n /\ attempts[c] < MaxAttempts + 2
                               THEN attempts[c] + 1 ELSE attempts[c]
  BY DEF Attempted
<1> QED BY <1>1, <1>2, <1>3

-----------------------------------------------------------------------------
(* What a step may do to the queue                                          *)

\* A step keeps the queue q, and may add item to it for the n-th retry.  The
\* calls it records come after those there are, the comments only grow, and an
\* attempt is counted for no operation that stays queued.
LEMMA QueueUpdate ==
    ASSUME QInv,
           calls' \in Seq(Kinds), Len(calls) <= Len(calls'), Len(calls') <= MaxCalls,
           \A c \in Call : c <= Len(calls) => calls'[c] = calls[c],
           counter' \in Nat, counter <= counter',
           nextTicket' \in Nat, pendingTicket' \in Nat,
           attempts' \in [Call -> Nat],
           \A c \in Call : c > Len(calls') => attempts'[c] = 0,
           Bounded',
           NEW q \in SUBSET queue, NEW item \in Entry, NEW n \in Nat,
           \A i \in q : i.action \in Once =>
                i.call # item.call /\ attempts'[i.call] = attempts[i.call],
           item.action \in Once => \A i \in q : i.call # item.call,
           item.action \in Once => \A i \in q : KeyOf(i) # KeyOf(item),
           \/ queue' = q
           \/ /\ queue' = Add(q, item, n)
              /\ n < MaxAttempts /\ Justified(Scheduled(item, n))'
    PROVE  QInv'
<1>1. /\ q \in SUBSET Entry /\ IsFiniteSet(q) /\ Cardinality(q) <= MaxItems
      /\ Keyed(q) /\ \A i \in q : i.attempt < MaxAttempts /\ Justified(i)
      /\ \A i, j \in q : i.action \in Once /\ i.call = j.call => i = j
  <2>1. q \in SUBSET Entry /\ Keyed(q) /\ \A i \in q : i.attempt < MaxAttempts
    BY DEF QInv, Types, QueueShape, Keyed
  <2>2. /\ IsFiniteSet(queue) /\ Cardinality(queue) <= MaxItems
        /\ \A i \in q : Justified(i)
        /\ \A i, j \in q : i.action \in Once /\ i.call = j.call => i = j
    BY DEF QInv, Types, QueueShape, Counted
  <2>3. /\ IsFiniteSet(q) /\ Cardinality(q) <= Cardinality(queue)
        /\ Cardinality(q) \in Nat /\ Cardinality(queue) \in Nat
    BY <2>2, FS_Subset, FS_CardinalityType
  <2> QED BY <2>1, <2>2, <2>3, ConstantsType
<1>2. \A i \in Entry : /\ Scheduled(i, n) \in Entry
                       /\ Scheduled(i, n).attempt = n
                       /\ Scheduled(i, n).call = i.call
                       /\ Scheduled(i, n).action = i.action
                       /\ Scheduled(i, n).comment = i.comment
  BY ScheduledType
<1>3. /\ Add(q, item, n) \in SUBSET Entry /\ IsFiniteSet(Add(q, item, n))
      /\ Cardinality(Add(q, item, n)) <= MaxItems /\ Keyed(Add(q, item, n))
      /\ \A x \in Add(q, item, n) :
            \/ x \in q
            \/ x = Scheduled(item, n)
            \/ \E i \in q : KeyOf(i) = KeyOf(item) /\ x = Scheduled(i, n)
  BY <1>1, AddShape
<1>4. \A x \in queue' :
        \/ x \in q
        \/ x = Scheduled(item, n) /\ n < MaxAttempts /\ Justified(Scheduled(item, n))'
        \/ /\ item.action \notin Once /\ n < MaxAttempts
           /\ \E i \in q : i.action = item.action /\ x = Scheduled(i, n)
  <2>1. \A i \in q : KeyOf(i) = KeyOf(item) =>
                        i.action = item.action /\ item.action \notin Once
    BY DEF KeyOf
  <2> QED BY <1>3, <2>1
<1>5. QueueShape'
  <2>1. Cardinality(queue') <= MaxItems /\ Keyed(queue')
    BY <1>1, <1>3
  <2>2. \A x \in queue' : x.attempt < MaxAttempts
    BY <1>1, <1>2, <1>4
  <2> QED BY <2>1, <2>2 DEF QueueShape, Keyed
<1>6. Types'
  BY <1>1, <1>3 DEF Types
<1>7. ASSUME NEW i \in q PROVE Justified(i)'
  <2>1. /\ i \in Entry /\ i.comment \in Nat /\ counter \in Nat
        /\ Len(calls) \in Nat /\ Len(calls') \in Nat
    <3>1. i \in Entry /\ i.comment \in Nat
      BY <1>1 DEF Entry
    <3>2. counter \in Nat /\ calls \in Seq(Kinds)
      BY DEF QInv, Types
    <3> QED BY <3>1, <3>2
  <2>2. i.action # "CANCEL" =>
            i.call \in Call /\ i.call <= Len(calls') /\ calls'[i.call] = calls[i.call]
    <3>1. i.action # "CANCEL" => i.call \in Call /\ i.call <= Len(calls) /\ i.call \in Nat
      BY <1>1, ConstantsType DEF Justified
    <3> QED BY <2>1, <3>1
  <2>3. /\ i.comment <= counter => i.comment <= counter'
        /\ i.comment < counter => i.comment < counter'
    BY <2>1
  <2>4. /\ i.action = "CANCEL" => i.call = 0
        /\ i.action = "MODIFY" => calls'[i.call] = "MODIFY"
    BY <1>1, <2>2 DEF Justified
  <2>5. /\ i.action \in {"MARKET", "PENDING"} => i.comment <= counter'
        /\ i.action = "CLOSE" => i.comment < counter'
    BY <1>1, <2>3 DEF Justified
  <2>6. i.action \in Once =>
            calls'[i.call] # "MODIFY" /\ attempts'[i.call] <= i.attempt + 1
    BY <1>1, <2>2 DEF Justified, Once
  <2> QED BY <2>2, <2>4, <2>5, <2>6 DEF Justified
<1>8. ASSUME NEW i \in q, i.action \notin Once PROVE Justified(Scheduled(i, n))'
  BY <1>1, <1>2, <1>7, <1>8 DEF Justified, Once
<1>9. \A x \in queue' : Justified(x)'
  BY <1>1, <1>4, <1>7, <1>8
<1>10. ASSUME NEW x \in queue', NEW y \in queue', x.action \in Once, x.call = y.call
       PROVE  x = y
  <2>1. CASE x \in q
    <3>1. x.call # item.call
      BY <1>10, <2>1
    <3>2. ASSUME NEW i \in q, i.action \notin Once PROVE y # Scheduled(i, n)
      BY <1>1, <1>2, <1>10, <2>1, <3>2
    <3>3. y \in q
      BY <1>2, <1>4, <1>10, <3>1, <3>2
    <3> QED BY <1>1, <1>10, <2>1, <3>3
  <2>2. CASE x = Scheduled(item, n)
    <3>1. item.action \in Once /\ y.call = item.call
      BY <1>2, <1>10, <2>2
    <3> QED BY <1>4, <2>2, <3>1
  <2>3. CASE item.action \notin Once /\ \E i \in q : i.action = item.action
                                                /\ x = Scheduled(i, n)
    BY <1>1, <1>2, <1>10, <2>3
  <2> QED BY <1>4, <1>10, <2>1, <2>2, <2>3
<1> QED BY <1>5, <1>6, <1>9, <1>10 DEF QInv, Counted

-----------------------------------------------------------------------------
(* The operations                                                           *)

\* A call is recorded, and the one attempt made for it counted.
LEMMA CallRecorded ==
    ASSUME QInv, NEW kind \in Kinds, Called(kind), attempts' = Attempted(ThisCall)
    PROVE  /\ Len(calls) \in Nat /\ ThisCall = Len(calls) + 1 /\ ThisCall \in Call
           /\ calls' \in Seq(Kinds) /\ Len(calls') = ThisCall
           /\ calls'[ThisCall] = kind
           /\ \A c \in Call : c <= Len(calls) => calls'[c] = calls[c]
           /\ attempts' \in [Call -> Nat] /\ attempts'[ThisCall] \in 0..1
           /\ \A c \in Call : c # ThisCall => attempts'[c] = attempts[c]
           /\ \A c \in Call : c > Len(calls') => attempts'[c] = 0
           /\ \A i \in queue : i.call # ThisCall
           /\ Bounded'
<1> DEFINE new == ThisCall
<1>0. calls \in Seq(Kinds) /\ Len(calls) < MaxCalls /\ calls' = Append(calls, kind)
  BY DEF QInv, Types, Called
<1>1. /\ Len(calls) \in Nat /\ new = Len(calls) + 1
      /\ calls' \in Seq(Kinds) /\ Len(calls') = new /\ calls'[new] = kind
      /\ \A c \in 1..Len(calls) : calls'[c] = calls[c]
  BY <1>0 DEF ThisCall
<1>2. new \in Call /\ \A c \in Call : c <= Len(calls) => calls'[c] = calls[c]
  BY <1>0, <1>1, ConstantsType DEF Call
<1>3. attempts \in [Call -> Nat] /\ attempts[new] = 0
  BY <1>1, <1>2 DEF QInv, Types, Counted
<1>4. /\ attempts' \in [Call -> Nat] /\ attempts'[new] \in 0..1
      /\ \A c \in Call : c # new => attempts'[c] = attempts[c]
  BY <1>2, <1>3, AttemptedType
<1>5. ASSUME NEW c \in Call, c > Len(calls') PROVE attempts'[c] = 0
  <2>1. c # new /\ c > Len(calls)
    BY <1>1, <1>5, ConstantsType
  <2> QED BY <1>4, <2>1 DEF QInv, Counted
<1>6. ASSUME NEW i \in queue, i.call = new PROVE FALSE
  <2>1. Justified(i) /\ i.action \in Actions
    BY DEF QInv, Counted, Types, Entry
  <2>2. i.call = 0 \/ i.call <= Len(calls)
    BY <2>1 DEF Justified
  <2> QED BY <1>1, <1>6, <2>2
<1>7. ASSUME NEW c \in Call, c <= Len(calls'), calls'[c] # "MODIFY"
      PROVE  attempts'[c] <= MaxAttempts + 1
  <2>1. CASE c = new
    BY <1>4, <2>1, ConstantsType
  <2>2. CASE c # new
    <3>1. c \in Nat /\ c <= Len(calls)
      BY <1>1, <1>7, <2>2, ConstantsType
    <3> QED BY <1>2, <1>4, <1>7, <2>2, <3>1 DEF QInv, Bounded
  <2> QED BY <2>1, <2>2
<1> QED BY <1>1, <1>2, <1>4, <1>5, <1>6, <1>7 DEF Bounded

\* A call that opens or closes: its comment is new, so its item is too.
LEMMA OnceCall ==
    ASSUME QInv, NEW kind \in Kinds \ {"MODIFY"}, Called(kind), counter' = counter + 1,
           NEW item \in Entry, item.action \in Once,
           item.call = ThisCall, item.attempt = 0,
           item.comment = IF item.action = "CLOSE" THEN counter ELSE counter + 1,
           NEW a, Send(item, a), pendingTicket' \in Nat,
           queue' \in {queue, Add(queue, item, 0)}
    PROVE  QInv'
<1>1. counter \in Nat /\ nextTicket \in Nat
  BY DEF QInv, Types
<1>2. attempts' = Attempted(ThisCall) /\ nextTicket' \in Nat
  BY <1>1, SendAttempts
<1>3. /\ Len(calls) \in Nat /\ ThisCall = Len(calls) + 1 /\ ThisCall \in Call
      /\ calls' \in Seq(Kinds) /\ Len(calls') = ThisCall
      /\ calls'[ThisCall] = kind
      /\ \A c \in Call : c <= Len(calls) => calls'[c] = calls[c]
      /\ attempts' \in [Call -> Nat] /\ attempts'[ThisCall] \in 0..1
      /\ \A c \in Call : c # ThisCall => attempts'[c] = attempts[c]
      /\ \A c \in Call : c > Len(calls') => attempts'[c] = 0
      /\ \A i \in queue : i.call # ThisCall
      /\ Bounded'
  BY <1>2, CallRecorded
<1>4. ASSUME NEW i \in queue, KeyOf(i) = KeyOf(item) PROVE FALSE
  <2>1. i.action = item.action /\ i.comment = item.comment
    BY <1>4 DEF KeyOf
  <2>2. i.comment \in Nat /\ Justified(i)
    BY DEF QInv, Types, Counted, Entry
  <2> QED BY <1>1, <2>1, <2>2 DEF Justified, Once
<1>5. ASSUME NEW i \in queue, i.action \in Once
      PROVE  attempts'[i.call] = attempts[i.call]
  <2>1. i.call \in Call
    BY <1>5 DEF QInv, Counted, Justified, Once
  <2> QED BY <1>3, <2>1
<1>6. Justified(Scheduled(item, 0))'
  <2>1. 0 \in Nat
    OBVIOUS
  <2>2. /\ Scheduled(item, 0).attempt = 0 /\ Scheduled(item, 0).call = ThisCall
        /\ Scheduled(item, 0).action = item.action
        /\ Scheduled(item, 0).comment = item.comment
    BY <2>1, ScheduledType
  <2>3. item.comment <= counter' /\ (item.action = "CLOSE" => item.comment < counter')
    BY <1>1
  <2>4. calls'[ThisCall] # "MODIFY" /\ attempts'[ThisCall] <= 0 + 1
    BY <1>3
  <2>5. ThisCall \in Call /\ ThisCall <= Len(calls')
    BY <1>3
  <2>6. item.action \notin {"CANCEL", "MODIFY"}
    BY DEF Once
  <2> QED BY <2>2, <2>3, <2>4, <2>5, <2>6 DEF Justified
<1>7. /\ Len(calls) <= Len(calls') /\ Len(calls') <= MaxCalls
      /\ counter' \in Nat /\ counter <= counter' /\ 0 \in Nat /\ 0 < MaxAttempts
  BY <1>1, <1>3, ConstantsType DEF Call
<1>8. /\ queue \in SUBSET queue
      /\ \A i \in queue : i.action \in Once =>
            i.call # item.call /\ attempts'[i.call] = attempts[i.call]
      /\ item.action \in Once => \A i \in queue : i.call # item.call
      /\ item.action \in Once => \A i \in queue : KeyOf(i) # KeyOf(item)
  BY <1>3, <1>4, <1>5
<1> QED BY <1>2, <1>3, <1>6, <1>7, <1>8, QueueUpdate

LEMMA StateType ==
    ASSUME QInv
    PROVE  /\ ThisCall \in Nat /\ counter \in Nat /\ counter + 1 \in Nat
           /\ nextTicket \in Nat /\ pendingTicket \in Nat
BY DEF QInv, Types, ThisCall

LEMMA OpenMarketKeeps == ASSUME QInv, OpenMarket PROVE QInv'
<1>0. PICK item : item = NewItem("MARKET", ThisCall, 0, counter + 1, Full, 1)
  OBVIOUS
<1>1. /\ item \in Entry /\ item.action = "MARKET" /\ item.call = ThisCall
      /\ item.comment = counter + 1 /\ item.attempt = 0
  BY <1>0, StateType DEF NewItem, Entry, Actions, Full
<1>2. PICK a \in Answers : Send(item, a) /\ queue' \in {queue, Add(queue, item, 0)}
  BY <1>0 DEF OpenMarket
<1>3. /\ Called("MARKET") /\ counter' = counter + 1 /\ pendingTicket' = pendingTicket
      /\ "MARKET" \in Kinds \ {"MODIFY"}
  BY DEF OpenMarket, Kinds
<1> QED BY <1>1, <1>2, <1>3, StateType, OnceCall DEF Once

LEMMA OpenPendingKeeps == ASSUME QInv, OpenPending PROVE QInv'
<1>0. PICK item : item = NewItem("PENDING", ThisCall, 0, counter + 1, Full, 1)
  OBVIOUS
<1>1. /\ item \in Entry /\ item.action = "PENDING" /\ item.call = ThisCall
      /\ item.comment = counter + 1 /\ item.attempt = 0
  BY <1>0, StateType DEF NewItem, Entry, Actions, Full
<1>2. PICK a \in Answers : /\ Send(item, a) /\ Remember(a)
                           /\ queue' \in {queue, Add(queue, item, 0)}
  BY <1>0 DEF OpenPending
<1>3. /\ Called("PENDING") /\ counter' = counter + 1
      /\ "PENDING" \in Kinds \ {"MODIFY"}
  BY DEF OpenPending, Kinds
<1>4. pendingTicket' \in Nat
  BY <1>2, StateType DEF Remember
<1> QED BY <1>1, <1>2, <1>3, <1>4, OnceCall DEF Once

LEMMA ClosePositionKeeps ==
    ASSUME QInv, NEW t \in Nat, NEW kind \in {"CLOSE", "PARTIAL"}, NEW vol \in Nat,
           ClosePosition(t, kind, vol)
    PROVE  QInv'
<1>0. PICK item : item = NewItem("CLOSE", ThisCall, t, counter, vol, 0)
  OBVIOUS
<1>1. /\ item \in Entry /\ item.action = "CLOSE" /\ item.call = ThisCall
      /\ item.comment = counter /\ item.attempt = 0
  BY <1>0, StateType DEF NewItem, Entry, Actions
<1>2. PICK a \in Answers : Send(item, a) /\ queue' \in {queue, Add(queue, item, 0)}
  BY <1>0 DEF ClosePosition, CloseAttempt
<1>3. /\ Called(kind) /\ counter' = counter + 1 /\ pendingTicket' = pendingTicket
      /\ kind \in Kinds \ {"MODIFY"}
  BY DEF ClosePosition, Kinds
<1> QED BY <1>1, <1>2, <1>3, StateType, OnceCall DEF Once

LEMMA ModifySLTPKeeps ==
    ASSUME QInv, NEW t \in Nat, NEW sl \in Nat, ModifySLTP(t, sl)
    PROVE  QInv'
<1>0. PICK item : item = NewItem("MODIFY", ThisCall, t, 0, 0, sl)
  OBVIOUS
<1>1. /\ item \in Entry /\ item.action = "MODIFY" /\ item.call = ThisCall
      /\ item.attempt = 0
  BY <1>0, StateType DEF NewItem, Entry, Actions
<1>2. PICK a \in Answers : Send(item, a) /\ queue' \in {queue, Add(queue, item, 0)}
  BY <1>0 DEF ModifySLTP
<1>3. /\ Called("MODIFY") /\ counter' = counter /\ pendingTicket' = pendingTicket
      /\ "MODIFY" \in Kinds
  BY DEF ModifySLTP, Kinds
<1>4. attempts' = Attempted(ThisCall) /\ nextTicket' \in Nat
  BY <1>1, <1>2, StateType, SendAttempts
<1>5. /\ Len(calls) \in Nat /\ ThisCall = Len(calls) + 1 /\ ThisCall \in Call
      /\ calls' \in Seq(Kinds) /\ Len(calls') = ThisCall
      /\ calls'[ThisCall] = "MODIFY"
      /\ \A c \in Call : c <= Len(calls) => calls'[c] = calls[c]
      /\ attempts' \in [Call -> Nat]
      /\ \A c \in Call : c # ThisCall => attempts'[c] = attempts[c]
      /\ \A c \in Call : c > Len(calls') => attempts'[c] = 0
      /\ \A i \in queue : i.call # ThisCall
      /\ Bounded'
  BY <1>3, <1>4, CallRecorded
<1>6. /\ queue \in SUBSET queue
      /\ \A i \in queue : i.action \in Once =>
            i.call # item.call /\ attempts'[i.call] = attempts[i.call]
      /\ item.action \in Once => \A i \in queue : i.call # item.call
      /\ item.action \in Once => \A i \in queue : KeyOf(i) # KeyOf(item)
  <2>1. \A i \in queue : i.action \in Once => i.call \in Call
    BY DEF QInv, Counted, Justified, Once
  <2> QED BY <1>1, <1>5, <2>1 DEF Once
<1>7. Justified(Scheduled(item, 0))'
  <2>1. 0 \in Nat
    OBVIOUS
  <2>2. Scheduled(item, 0).call = ThisCall /\ Scheduled(item, 0).action = "MODIFY"
    BY <1>1, <2>1, ScheduledType
  <2>3. ThisCall \in Call /\ ThisCall <= Len(calls')
    BY <1>5
  <2>4. "MODIFY" \notin Once
    BY DEF Once
  <2> QED BY <1>5, <2>2, <2>3, <2>4 DEF Justified
<1>8. /\ Len(calls) <= Len(calls') /\ Len(calls') <= MaxCalls
      /\ counter' \in Nat /\ counter <= counter' /\ 0 \in Nat /\ 0 < MaxAttempts
      /\ pendingTicket' \in Nat
  BY <1>3, <1>5, StateType, ConstantsType DEF Call
<1> QED BY <1>1, <1>2, <1>4, <1>5, <1>6, <1>7, <1>8, QueueUpdate

\* A step that leaves the queue, the calls and their counts alone.
LEMMA QueueUntouched ==
    ASSUME QInv, UNCHANGED <<queue, counter, calls, attempts>>,
           nextTicket' \in Nat, pendingTicket' \in Nat
    PROVE  QInv'
BY DEF QInv, Types, QueueShape, Counted, Justified, Bounded

LEMMA OnBarKeeps == ASSUME QInv, OnBar PROVE QInv'
<1>1. CASE UNCHANGED <<queue, attempts, server>>
  <2>1. UNCHANGED <<queue, counter, calls, attempts, nextTicket>> /\ pendingTicket' \in Nat
    BY <1>1, StateType DEF OnBar, server
  <2> QED BY <2>1, StateType, QueueUntouched
<1>2. CASE ~UNCHANGED <<queue, attempts, server>>
  <2>0. PICK item : item = NewItem("CANCEL", 0, pendingTicket, 0, 0, 0)
    OBVIOUS
  <2>1. /\ item \in Entry /\ item.action = "CANCEL" /\ item.call = 0
    BY <2>0, StateType DEF NewItem, Entry, Actions
  <2>2. PICK a \in Answers : /\ Send(item, a)
                             /\ queue' \in {queue, Add(queue, item, 0)}
                             /\ pendingTicket' \in {0, pendingTicket}
    BY <1>2, <2>0 DEF OnBar
  <2>3. counter' = counter /\ calls' = calls
    BY DEF OnBar
  <2>4. attempts' = Attempted(0) /\ nextTicket' \in Nat /\ pendingTicket' \in Nat
    BY <2>1, <2>2, StateType, SendAttempts
  <2>5. /\ attempts' \in [Call -> Nat] /\ \A c \in Call : attempts'[c] = attempts[c]
    BY <2>4, AttemptedType, ConstantsType DEF QInv, Types
  <2>6. /\ calls' \in Seq(Kinds) /\ Len(calls) <= Len(calls') /\ Len(calls') <= MaxCalls
        /\ \A c \in Call : c <= Len(calls) => calls'[c] = calls[c]
        /\ counter' \in Nat /\ counter <= counter'
        /\ \A c \in Call : c > Len(calls') => attempts'[c] = 0
    BY <2>3, <2>5 DEF QInv, Types, Counted
  <2>7. Bounded'
    BY <2>3, <2>5 DEF QInv, Bounded
  <2>8. /\ queue \in SUBSET queue /\ item.action \notin Once
        /\ \A i \in queue : i.action \in Once =>
              i.call # item.call /\ attempts'[i.call] = attempts[i.call]
    <3>1. \A i \in queue : i.action \in Once => i.call \in Call
      BY DEF QInv, Counted, Justified, Once
    <3> QED BY <2>1, <2>5, <3>1, ConstantsType DEF Once
  <2>9. 0 \in Nat /\ 0 < MaxAttempts
    BY ConstantsType
  <2>10. Justified(Scheduled(item, 0))'
    <3>1. Scheduled(item, 0).call = 0 /\ Scheduled(item, 0).action = "CANCEL"
      BY <2>1, <2>9, ScheduledType
    <3> QED BY <3>1 DEF Justified, Once
  <2> QED BY <2>1, <2>2, <2>4, <2>5, <2>6, <2>7, <2>8, <2>9, <2>10, QueueUpdate
<1> QED BY <1>1, <1>2

-----------------------------------------------------------------------------
(* The timer pass                                                           *)

LEMMA ProcessDueKeeps == ASSUME QInv, ProcessDue PROVE QInv'
<1>1. PICK item \in queue : ExecuteQueued(item)
  BY DEF ProcessDue, Due
<1>2. UNCHANGED <<counter, calls>>
  BY DEF ProcessDue
<1> DEFINE q == queue \ {item}
           n == item.attempt + 1
<1>3. /\ item \in Entry /\ Justified(item)
      /\ item.attempt \in Nat /\ item.attempt < MaxAttempts /\ n \in Nat
  BY DEF QInv, Types, QueueShape, Counted, Entry
<1>4. /\ queue' = q \/ (queue' = Add(q, item, n) /\ n < MaxAttempts)
      /\ \/ UNCHANGED <<attempts, nextTicket, pendingTicket>>
         \/ \E a \in Answers : Send(item, a) /\ pendingTicket' \in {pendingTicket, nextTicket}
  <2>1. CASE item.action \in {"CLOSE", "MODIFY"} /\ ~HasPosition(item.ticket)
    BY <1>1, <2>1 DEF ExecuteQueued, server
  <2>2. CASE ~(item.action \in {"CLOSE", "MODIFY"} /\ ~HasPosition(item.ticket))
    <3>1. PICK a \in Answers :
              /\ Send(item, a)
              /\ queue' = q \/ queue' = Requeued(item, a)
              /\ Remember(a) \/ UNCHANGED pendingTicket
      BY <1>1, <2>2 DEF ExecuteQueued
    <3>2. Requeued(item, a) = q \/ (Requeued(item, a) = Add(q, item, n) /\ n < MaxAttempts)
      BY DEF Requeued, MayRetry
    <3> QED BY <3>1, <3>2 DEF Remember
  <2> QED BY <2>1, <2>2
<1>5. pendingTicket' \in Nat /\ nextTicket' \in Nat
  BY <1>4, StateType, SendAttempts
<1>6. attempts' = attempts \/ attempts' = Attempted(item.call)
  BY <1>4, StateType, SendAttempts
<1>7. /\ attempts \in [Call -> Nat] /\ attempts' \in [Call -> Nat]
      /\ \A c \in Call : c # item.call => attempts'[c] = attempts[c]
      /\ \A c \in Call : attempts'[c] <= attempts[c] + 1
  <2>1. attempts \in [Call -> Nat]
    BY DEF QInv, Types
  <2>2. \A c \in Call : attempts[c] <= attempts[c] + 1
    BY <2>1
  <2> QED BY <1>6, <2>1, <2>2, AttemptedType
<1>8. /\ calls' \in Seq(Kinds) /\ Len(calls) \in Nat /\ Len(calls') = Len(calls)
      /\ Len(calls') <= MaxCalls
      /\ \A c \in Call : c <= Len(calls) => calls'[c] = calls[c]
      /\ counter' \in Nat /\ counter <= counter'
  BY <1>2 DEF QInv, Types
<1>9. ASSUME NEW c \in Call, c > Len(calls') PROVE attempts'[c] = 0
  <2>1. item.call = 0 \/ item.call <= Len(calls)
    BY <1>3 DEF Justified
  <2>2. c # item.call
    BY <1>8, <1>9, <2>1, ConstantsType
  <2> QED BY <1>7, <1>8, <1>9, <2>2 DEF QInv, Counted
<1>10. item.action \in Once =>
          /\ item.call \in Call /\ attempts[item.call] \in Nat
          /\ attempts'[item.call] <= item.attempt + 2
  <2>1. item.action \in Once => item.call \in Call /\ attempts[item.call] <= item.attempt + 1
    BY <1>3 DEF Justified, Once
  <2>2. \A c \in Call : attempts[c] \in Nat /\ attempts'[c] \in Nat
    BY <1>7
  <2> QED BY <1>3, <1>7, <2>1, <2>2
<1>11. ASSUME NEW c \in Call, c <= Len(calls'), calls'[c] # "MODIFY"
       PROVE  attempts'[c] <= MaxAttempts + 1
  <2>1. CASE c = item.call
    <3>1. item.action \in Once
      <4>1. item.action \in Actions /\ item.action # "CANCEL" /\ item.action # "MODIFY"
        BY <1>2, <1>3, <1>11, <2>1, ConstantsType DEF Justified, Entry
      <4> QED BY <4>1 DEF Actions, Once
    <3>2. attempts'[c] \in Nat
      BY <1>7
    <3> QED BY <1>3, <1>10, <2>1, <3>1, <3>2, ConstantsType
  <2>2. CASE c # item.call
    BY <1>2, <1>7, <1>11, <2>2 DEF QInv, Bounded
  <2> QED BY <2>1, <2>2
<1>12. /\ q \in SUBSET queue
       /\ \A i \in q : i.action \in Once =>
            i.call # item.call /\ attempts'[i.call] = attempts[i.call]
       /\ item.action \in Once => \A i \in q : i.call # item.call
       /\ item.action \in Once => \A i \in q : KeyOf(i) # KeyOf(item)
  <2>1. ASSUME NEW i \in q PROVE /\ KeyOf(i) # KeyOf(item)
                                 /\ i.action \in Once => i.call # item.call /\ i.call \in Call
                                 /\ item.action \in Once => i.call # item.call
    BY DEF QInv, QueueShape, Counted, Justified, Once
  <2> QED BY <1>7, <2>1
<1>13. Justified(Scheduled(item, n))'
  <2>1. /\ Scheduled(item, n).attempt = n /\ Scheduled(item, n).call = item.call
        /\ Scheduled(item, n).action = item.action
        /\ Scheduled(item, n).comment = item.comment
    BY <1>3, ScheduledType
  <2>2. item.action \in Once => attempts'[item.call] <= n + 1
    <3>1. item.action \in Once => attempts'[item.call] \in Nat
      BY <1>7, <1>10
    <3> QED BY <1>3, <1>10, <3>1
  <2> HIDE DEF n
  <2> QED BY <1>2, <1>3, <2>1, <2>2 DEF Justified
<1>14. Bounded'
  BY <1>11 DEF Bounded
<1>15. \A c \in Call : c > Len(calls') => attempts'[c] = 0
  BY <1>9
<1>16. \/ queue' = q
       \/ /\ queue' = Add(q, item, n)
          /\ n < MaxAttempts /\ Justified(Scheduled(item, n))'
  BY <1>4, <1>13
<1>17. Len(calls) <= Len(calls')
  BY <1>8
<1> HIDE DEF q, n
<1> QED BY <1>3, <1>5, <1>7, <1>8, <1>12, <1>14, <1>15, <1>16, <1>17, QueueUpdate

LEMMA StartPassKeeps == ASSUME QInv, StartPass PROVE QInv'
<1> DEFINE Later(i) == [i EXCEPT !.wait = @ - 1]
           f == [i \in queue |-> Later(i)]
<1>1. queue' = {Later(i) : i \in queue}
  BY DEF StartPass, Tick
<1>2. \A i \in queue : i \in Entry /\ Justified(i) /\ i.attempt < MaxAttempts
  BY DEF QInv, Types, QueueShape, Counted
<1>3. ASSUME NEW i \in Entry
      PROVE  /\ Later(i) \in Entry
             /\ Later(i).action = i.action /\ Later(i).call = i.call
             /\ Later(i).ticket = i.ticket /\ Later(i).comment = i.comment
             /\ Later(i).attempt = i.attempt
  BY DEF Entry
<1>4. IsFiniteSet(queue) /\ Cardinality(queue) <= MaxItems
  BY DEF QInv, Types, QueueShape
<1>5. IsFiniteSet(queue') /\ Cardinality(queue') <= MaxItems
  <2>1. f \in Surjection(queue, queue')
    BY <1>1 DEF Surjection
  <2>2. IsFiniteSet(queue') /\ Cardinality(queue') <= Cardinality(queue)
    BY <1>4, <2>1, FS_Surjection
  <2>3. Cardinality(queue) \in Nat /\ Cardinality(queue') \in Nat
    BY <1>4, <2>2, FS_CardinalityType
  <2> QED BY <1>4, <2>2, <2>3, ConstantsType
<1>6. UNCHANGED <<counter, calls, attempts, nextTicket, pendingTicket>>
  BY DEF StartPass, server
<1> HIDE DEF Later, f
<1>7. Types'
  BY <1>1, <1>2, <1>3, <1>5, <1>6 DEF QInv, Types
<1>8. QueueShape'
  <2>1. \A i, j \in queue : KeyOf(Later(i)) = KeyOf(Later(j)) => i = j
    BY <1>2, <1>3 DEF QInv, QueueShape, KeyOf
  <2> QED BY <1>1, <1>2, <1>3, <1>5, <2>1 DEF QueueShape
<1>9. Counted'
  <2>1. \A i \in queue : Justified(Later(i))'
    BY <1>2, <1>3, <1>6 DEF Justified
  <2>2. \A i, j \in queue : Later(i).action \in Once /\ Later(i).call = Later(j).call => i = j
    BY <1>2, <1>3 DEF QInv, Counted
  <2> QED BY <1>1, <1>6, <2>1, <2>2 DEF QInv, Counted
<1>10. Bounded'
  BY <1>6 DEF QInv, Bounded
<1> QED BY <1>6, <1>7, <1>8, <1>9, <1>10 DEF QInv

-----------------------------------------------------------------------------
(* The invariant and what it implies                                        *)

LEMMA InitQInv == Init => QInv
<1> SUFFICES ASSUME Init PROVE QInv
  OBVIOUS
<1>1. queue = {} /\ IsFiniteSet(queue) /\ Cardinality(queue) = 0
  BY FS_EmptySet DEF Init
<1>2. calls = <<>> /\ calls \in Seq(Kinds) /\ Len(calls) = 0
  BY DEF Init
<1>3. \A c \in Call : attempts[c] = 0
  BY DEF Init
<1>4. Types
  BY <1>1, <1>2 DEF Init, Types
<1>5. QueueShape
  BY <1>1, ConstantsType DEF QueueShape
<1>6. Counted
  BY <1>1, <1>3 DEF Counted
<1>7. Bounded
  BY <1>3, ConstantsType DEF Bounded
<1> QED BY <1>2, <1>4, <1>5, <1>6, <1>7, ConstantsType DEF QInv

LEMMA WorldKeeps == ASSUME QInv, World PROVE QInv'
<1>1. UNCHANGED <<queue, pendingTicket, counter, calls, attempts>>
  BY DEF World, LateEffect, DealAges, PositionEnds, OrderTriggers, Untouched, client
<1>2. nextTicket' \in Nat
  <2>1. CASE LateEffect
    <3>1. PICK l \in late : Executes(l.req) \/ UNCHANGED server
      BY <2>1 DEF LateEffect
    <3> QED BY <3>1, StateType, ServerTickets DEF server
  <2>2. CASE DealAges \/ PositionEnds \/ OrderTriggers
    BY <2>2, StateType DEF DealAges, PositionEnds, OrderTriggers
  <2> QED BY <2>1, <2>2 DEF World
<1> QED BY <1>1, <1>2, StateType, QueueUntouched

LEMMA RestartKeeps == ASSUME QInv, Restart PROVE QInv'
<1>1. /\ queue' = {} /\ counter' = 0 /\ pendingTicket' = 0
      /\ UNCHANGED <<nextTicket, calls, attempts>>
  BY DEF Restart, server
<1>2. IsFiniteSet(queue') /\ Cardinality(queue') = 0
  BY <1>1, FS_EmptySet
<1>3. Types'
  BY <1>1, <1>2 DEF QInv, Types
<1>4. QueueShape'
  BY <1>1, <1>2, ConstantsType DEF QueueShape
<1>5. Counted' /\ Bounded' /\ Len(calls') <= MaxCalls
  BY <1>1 DEF QInv, Counted, Bounded
<1> QED BY <1>3, <1>4, <1>5 DEF QInv

LEMMA NextQInv == QInv /\ [Next]_vars => QInv'
<1> SUFFICES ASSUME QInv, [Next]_vars PROVE QInv'
  OBVIOUS
<1>1. CASE OpenMarket
  BY <1>1, OpenMarketKeeps
<1>2. CASE OpenPending
  BY <1>2, OpenPendingKeeps
<1>3. CASE \E t \in Ticket : ClosePosition(t, "CLOSE", 0) \/ ClosePosition(t, "PARTIAL", 1)
  <2>1. PICK t \in Ticket : ClosePosition(t, "CLOSE", 0) \/ ClosePosition(t, "PARTIAL", 1)
    BY <1>3
  <2>2. t \in Nat /\ 0 \in Nat /\ 1 \in Nat
    BY DEF Ticket
  <2> QED BY <2>1, <2>2, ClosePositionKeeps
<1>4. CASE \E t \in Ticket, sl \in Stops : ModifySLTP(t, sl)
  <2>1. PICK t \in Ticket, sl \in Stops : ModifySLTP(t, sl)
    BY <1>4
  <2>2. t \in Nat /\ sl \in Nat
    BY DEF Ticket, Stops
  <2> QED BY <2>1, <2>2, ModifySLTPKeeps
<1>5. CASE OnBar
  BY <1>5, OnBarKeeps
<1>6. CASE StartPass
  BY <1>6, StartPassKeeps
<1>7. CASE ProcessDue
  BY <1>7, ProcessDueKeeps
<1>8. CASE EndPass
  BY <1>8, StateType, QueueUntouched DEF EndPass, server
<1>9. CASE World
  BY <1>9, WorldKeeps
<1>10. CASE Restart
  BY <1>10, RestartKeeps
<1>11. CASE UNCHANGED vars
  BY <1>11, StateType, QueueUntouched DEF vars, client, server
<1> QED BY <1>1, <1>2, <1>3, <1>4, <1>5, <1>6, <1>7, <1>8, <1>9, <1>10, <1>11
        DEF Next, CallsMade, ProcessQueue

LEMMA QInvBounds == QInv => AttemptsBounded
<1> SUFFICES ASSUME QInv, NEW c \in DOMAIN calls, calls[c] # "MODIFY"
             PROVE  attempts[c] <= MaxAttempts + 1
  BY DEF AttemptsBounded
<1>1. calls \in Seq(Kinds) /\ Len(calls) <= MaxCalls /\ Bounded
  BY DEF QInv, Types
<1>2. c \in Call /\ c <= Len(calls)
  BY <1>1, ConstantsType DEF Call
<1> QED BY <1>1, <1>2 DEF Bounded

LEMMA SpecQInv == Spec => []QInv
BY InitQInv, NextQInv, PTL DEF Spec

\* The retry queue never outgrows its slots, holds no operation twice and
\* nothing that has used up its attempts, in any interleaving of calls, timer
\* passes, answers and restarts (RetryQueue.mqh:136-159, TradeManager.mqh:372).
THEOREM QueueKeepsShape == Spec => []QueueShape
<1>1. QInv => QueueShape
  BY DEF QInv
<1> QED BY <1>1, SpecQInv, PTL

\* No call but a modify is attempted more often than once and MaxAttempts
\* times again (TradeManager.mqh:346-425).
THEOREM AttemptsCapped == Spec => []AttemptsBounded
BY QInvBounds, SpecQInv, PTL

-----------------------------------------------------------------------------
(* Fills                                                                    *)

\* As long as no request is executed after its answer, an operation that opens
\* is queued only while the call has had no effect.
Unfilled ==
    /\ late = {}
    /\ made \in [Call -> Nat]
    /\ \A c \in Call : c > Len(calls) => made[c] = 0
    /\ \A c \in Call : c <= Len(calls) /\ calls[c] = "MARKET" => made[c] <= 1
    /\ \A i \in queue : i.action = "MARKET" => made[i.call] = 0
    /\ \A i \in queue : i.action \in {"PENDING", "CLOSE"} => calls[i.call] # "MARKET"

\* In one run of the program a comment names one call.
Marks == {<<d.comment, d.call>> : d \in deals}
            \union {<<i.comment, i.call>> : i \in {j \in queue : j.action = "MARKET"}}

Named ==
    /\ restarts = 0
    /\ \A m \in Marks : m[1] \in Nat /\ m[1] <= counter
    /\ \A m, n \in Marks : m[1] = n[1] => m[2] = n[2]
    /\ \A d \in deals : d.call \in Call /\ made[d.call] >= 1
    /\ \A c \in done : c \in Call /\ made[c] >= 1

Fills == Unfilled /\ (MaxRestarts = 0 => Named)

FillInv == QInv /\ Fills

FillAssumption == "late" \notin TimedOut

\* What the server did to a request before it was answered.
LEMMA SendEffect ==
    ASSUME FillAssumption, late = {}, made \in [Call -> Nat],
           NEW r, r.action \in {"MARKET", "PENDING"} => r.call \in Call,
           NEW a, Send(r, a)
    PROVE  /\ late' = {}
           /\ made' \in [Call -> Nat]
           /\ \A c \in Call : made'[c] >= made[c] /\ made'[c] <= made[c] + 1
           /\ \A c \in Call : c # r.call => made'[c] = made[c]
           /\ r.action \in {"MODIFY", "CANCEL"} => made' = made
           /\ a \in {"TRANSIENT", "FATAL"} => made' = made
           /\ a = "DONE" /\ r.action \in {"MARKET", "PENDING"} =>
                made'[r.call] = made[r.call] + 1
           /\ \/ deals' = deals
              \/ /\ r.action = "MARKET" /\ made'[r.call] = made[r.call] + 1
                 /\ deals' = deals \union
                        {[call |-> r.call, comment |-> r.comment, recent |-> TRUE]}
           /\ r.action = "MARKET" /\ made' # made =>
                [call |-> r.call, comment |-> r.comment, recent |-> TRUE] \in deals'
<1>1. late' = {} /\ (Executes(r) \/ (UNCHANGED server /\ a # "DONE"))
  BY DEF Send, FillAssumption
<1>2. \A c \in Call : made[c] \in Nat
  OBVIOUS
<1>3. CASE UNCHANGED server /\ a # "DONE"
  BY <1>1, <1>2, <1>3 DEF server
<1>4. CASE Executes(r)
  <2>0. a \notin {"TRANSIENT", "FATAL"} \/ UNCHANGED server
    BY DEF Send
  <2>1. CASE Opens(r)
    <3>1. r.action = "MARKET" /\ made' = [made EXCEPT ![r.call] = @ + 1]
      BY <2>1 DEF Opens
    <3>2. deals' = deals \union
                {[call |-> r.call, comment |-> r.comment, recent |-> TRUE]}
      BY <2>1 DEF Opens
    <3> QED BY <1>1, <1>2, <2>0, <3>1, <3>2 DEF server
  <2>2. CASE Places(r)
    <3>1. /\ r.action = "PENDING" /\ made' = [made EXCEPT ![r.call] = @ + 1]
          /\ deals' = deals
      BY <2>2 DEF Places
    <3> QED BY <1>1, <1>2, <2>0, <3>1 DEF server
  <2>3. CASE Closes(r)
    <3>1. /\ r.action = "CLOSE" /\ deals' = deals
          /\ made' = [c \in Call |-> made[c] + IF c = r.call THEN 1 ELSE 0]
      BY <2>3 DEF Closes
    <3> QED BY <1>1, <1>2, <2>0, <3>1 DEF server
  <2>4. CASE Modifies(r) \/ Removes(r)
    <3>1. r.action \in {"MODIFY", "CANCEL"} /\ made' = made /\ deals' = deals
      BY <2>4 DEF Modifies, Removes
    <3> QED BY <1>1, <1>2, <3>1
  <2> QED BY <1>4, <2>1, <2>2, <2>3, <2>4 DEF Executes
<1> QED BY <1>1, <1>3, <1>4

\* What a step that sends r leaves in the queue.
LEMMA Kept ==
    ASSUME NEW q \in SUBSET Entry, NEW r \in Entry, NEW n \in Nat,
           r.action \in Once => \A i \in q : KeyOf(i) # KeyOf(r),
           queue' = q \/ queue' = Add(q, r, n)
    PROVE  \A x \in queue' :
                \/ x \in q
                \/ x.action \notin Once
                \/ /\ queue' = Add(q, r, n) /\ x.action = r.action
                   /\ x.call = r.call /\ x.comment = r.comment
<1>1. \A i \in Entry : /\ Scheduled(i, n).action = i.action
                       /\ Scheduled(i, n).call = i.call
                       /\ Scheduled(i, n).comment = i.comment
  BY ScheduledType
<1>2. CASE r.action \in Once
  <2>1. Add(q, r, n) \in {q, q \union {Scheduled(r, n)}}
    BY <1>2, AddNew
  <2> QED BY <1>1, <2>1
<1>3. CASE r.action \notin Once
  <2>1. \A x \in Add(q, r, n) :
            \/ x \in q
            \/ x = Scheduled(r, n)
            \/ \E i \in FindSame(q, r) : x = Scheduled(i, n)
    BY DEF Add
  <2>2. \A i \in FindSame(q, r) : i \in Entry /\ i.action = r.action
    BY DEF FindSame, KeyOf
  <2> QED BY <1>1, <1>3, <2>1, <2>2
<1> QED BY <1>2, <1>3

\* A step that sends r, for a call that is on record after it.
LEMMA UnfilledStep ==
    ASSUME QInv, Unfilled, FillAssumption,
           NEW r \in Entry, NEW a, Send(r, a), NEW n \in Nat, NEW q \in SUBSET queue,
           calls' \in Seq(Kinds), Len(calls) <= Len(calls'),
           \A c \in Call : c <= Len(calls) => calls'[c] = calls[c],
           r.action \in Once => /\ r.call \in Call /\ r.call <= Len(calls')
                                /\ (calls'[r.call] = "MARKET" => r.action = "MARKET"),
           r.action = "MARKET" => made[r.call] = 0,
           \A c \in Call : c > Len(calls) /\ c <= Len(calls') => r.call = c,
           r.action \in Once => \A i \in q : KeyOf(i) # KeyOf(r) /\ i.call # r.call,
           \/ queue' = q
           \/ queue' = Add(q, r, n) /\ (r.action = "MARKET" => made' = made)
    PROVE  Unfilled'
<1>0. r.action \in Actions
  BY DEF Entry
<1>1. /\ late' = {} /\ made' \in [Call -> Nat]
      /\ \A c \in Call : made[c] \in Nat /\ made'[c] \in Nat
      /\ \A c \in Call : made'[c] <= made[c] + 1
      /\ \A c \in Call : c # r.call => made'[c] = made[c]
      /\ r.action \in {"MODIFY", "CANCEL"} => made' = made
  <2>1. late = {} /\ made \in [Call -> Nat]
    BY DEF Unfilled
  <2>2. r.action \in {"MARKET", "PENDING"} => r.call \in Call
    BY DEF Once
  <2>3. /\ late' = {} /\ made' \in [Call -> Nat]
        /\ \A c \in Call : made'[c] <= made[c] + 1
        /\ \A c \in Call : c # r.call => made'[c] = made[c]
        /\ r.action \in {"MODIFY", "CANCEL"} => made' = made
    BY <2>1, <2>2, SendEffect
  <2> QED BY <2>1, <2>3
<1>2. Len(calls) \in Nat /\ Len(calls') \in Nat /\ Call \subseteq Nat
  BY ConstantsType DEF QInv, Types
<1>3. ASSUME NEW c \in Call, c > Len(calls') PROVE made'[c] = 0
  <2>1. c > Len(calls) /\ c \in Nat
    BY <1>2, <1>3
  <2>2. made[c] = 0
    BY <2>1 DEF Unfilled
  <2>3. c # r.call \/ made' = made
    BY <1>0, <1>1, <1>2, <1>3 DEF Once, Actions
  <2> QED BY <1>1, <2>2, <2>3
<1>4. ASSUME NEW c \in Call, c <= Len(calls'), calls'[c] = "MARKET"
      PROVE  made'[c] <= 1
  <2>1. made[c] <= 1
    <3>1. CASE c <= Len(calls)
      BY <1>4, <3>1 DEF Unfilled
    <3>2. CASE c > Len(calls)
      BY <3>2 DEF Unfilled
    <3> QED BY <1>2, <3>1, <3>2
  <2>2. CASE c # r.call \/ made' = made
    BY <1>1, <2>1, <2>2
  <2>3. CASE c = r.call /\ made' # made
    <3>1. r.action = "MARKET"
      BY <1>0, <1>1, <1>4, <2>3 DEF Once, Actions
    <3> QED BY <1>1, <2>3, <3>1
  <2> QED BY <2>2, <2>3
<1>5. \A x \in queue' :
        \/ x \in q
        \/ x.action \notin Once
        \/ /\ queue' = Add(q, r, n) /\ x.action = r.action
           /\ x.call = r.call /\ x.comment = r.comment
  <2>1. q \in SUBSET Entry
    BY DEF QInv, Types
  <2> QED BY <2>1, Kept
<1>6. ASSUME NEW i \in q
      PROVE /\ i.action \in Once => i.call \in Call /\ i.call <= Len(calls)
            /\ i.action \in Once => i.call # r.call \/ made' = made
  <2>1. /\ i.action \in Once => i.call \in Call /\ i.call <= Len(calls)
    BY DEF QInv, Counted, Justified, Once
  <2>2. r.action \in Once => i.call # r.call
    OBVIOUS
  <2>3. r.action \notin Once => made' = made
    BY <1>0, <1>1 DEF Once, Actions
  <2> QED BY <2>1, <2>2, <2>3
<1>7. ASSUME NEW x \in queue', x.action = "MARKET" PROVE made'[x.call] = 0
  <2>1. CASE x \in q
    BY <1>1, <1>6, <1>7, <2>1 DEF Unfilled, Once
  <2>2. CASE queue' = Add(q, r, n) /\ x.action = r.action /\ x.call = r.call
    <3>1. r.action = "MARKET" /\ made[r.call] = 0
      BY <1>7, <2>2
    <3>2. queue' = q \/ made' = made
      BY <3>1
    <3>3. CASE queue' = q
      BY <1>1, <1>6, <1>7, <3>3 DEF Unfilled, Once
    <3> QED BY <2>2, <3>1, <3>2, <3>3
  <2> QED BY <1>5, <1>7, <2>1, <2>2 DEF Once
<1>8. ASSUME NEW x \in queue', x.action \in {"PENDING", "CLOSE"}
      PROVE  calls'[x.call] # "MARKET"
  <2>1. CASE x \in q
    BY <1>6, <1>8, <2>1 DEF Unfilled, Once
  <2>2. CASE x.action = r.action /\ x.call = r.call
    BY <1>8, <2>2 DEF Once
  <2> QED BY <1>5, <1>8, <2>1, <2>2 DEF Once
<1> QED BY <1>1, <1>3, <1>4, <1>7, <1>8 DEF Unfilled

\* The same step keeps comments apart and what was reported done done.
LEMMA NamedStep ==
    ASSUME QInv, Unfilled, Named, FillAssumption, counter' \in Nat, counter <= counter',
           restarts' = restarts,
           NEW r \in Entry, NEW a, Send(r, a), NEW n \in Nat, NEW q \in SUBSET queue,
           r.action \in Once => r.call \in Call,
           r.action = "MARKET" =>
                /\ r.comment <= counter'
                /\ r.comment > counter \/ <<r.comment, r.call>> \in Marks,
           r.action \in Once => \A i \in q : KeyOf(i) # KeyOf(r),
           queue' = q \/ queue' = Add(q, r, n),
           \/ done' = done
           \/ done' = done \union {r.call} /\ r.call \in Call /\ made'[r.call] >= 1
    PROVE  Named'
<1>0. /\ r.action \in Actions /\ r.comment \in Nat /\ counter \in Nat
      /\ late = {} /\ made \in [Call -> Nat] /\ "MARKET" \in Once
  BY DEF Entry, QInv, Types, Unfilled, Once
<1>1. /\ made' \in [Call -> Nat]
      /\ \A c \in Call : made'[c] >= made[c]
      /\ \/ deals' = deals
         \/ /\ r.action = "MARKET" /\ made'[r.call] = made[r.call] + 1
            /\ deals' = deals \union
                   {[call |-> r.call, comment |-> r.comment, recent |-> TRUE]}
  <2>1. r.action \in {"MARKET", "PENDING"} => r.call \in Call
    BY DEF Once
  <2> QED BY <1>0, <2>1, SendEffect
<1>2. \A x \in queue' :
        \/ x \in q
        \/ x.action \notin Once
        \/ x.action = r.action /\ x.call = r.call /\ x.comment = r.comment
  <2>1. q \in SUBSET Entry
    BY DEF QInv, Types
  <2> QED BY <2>1, Kept
<1>3. ASSUME NEW m \in Marks'
      PROVE  m \in Marks \/ (r.action = "MARKET" /\ m = <<r.comment, r.call>>)
  <2>1. CASE \E d \in deals' : m = <<d.comment, d.call>>
    <3>1. PICK d \in deals' : m = <<d.comment, d.call>>
      BY <2>1
    <3>2. CASE d \in deals
      BY <3>1, <3>2 DEF Marks
    <3>3. CASE d \notin deals
      BY <1>1, <3>1, <3>3
    <3> QED BY <3>2, <3>3
  <2>2. CASE \E i \in queue' : i.action = "MARKET" /\ m = <<i.comment, i.call>>
    <3>1. PICK i \in queue' : i.action = "MARKET" /\ m = <<i.comment, i.call>>
      BY <2>2
    <3>2. CASE i \in q
      <4>1. i \in {j \in queue : j.action = "MARKET"}
        BY <3>1, <3>2
      <4> QED BY <3>1, <4>1 DEF Marks
    <3>3. CASE i.action = r.action /\ i.call = r.call /\ i.comment = r.comment
      BY <3>1, <3>3
    <3> QED BY <1>0, <1>2, <3>1, <3>2, <3>3
  <2> QED BY <2>1, <2>2 DEF Marks
<1>4. ASSUME NEW m \in Marks' PROVE m[1] \in Nat /\ m[1] <= counter'
  <2>1. CASE m \in Marks
    <3>1. m[1] \in Nat /\ m[1] <= counter
      BY <2>1 DEF Named
    <3> QED BY <1>0, <3>1
  <2>2. CASE r.action = "MARKET" /\ m = <<r.comment, r.call>>
    BY <1>0, <2>2
  <2> QED BY <1>3, <2>1, <2>2
<1>5. ASSUME NEW m \in Marks', NEW k \in Marks', m[1] = k[1] PROVE m[2] = k[2]
  <2>1. ASSUME NEW x \in Marks, r.action = "MARKET", x[1] = r.comment
        PROVE  x[2] = r.call
    <3>1. x[1] \in Nat /\ x[1] <= counter
      BY DEF Named
    <3>2. <<r.comment, r.call>> \in Marks
      BY <1>0, <2>1, <3>1
    <3> QED BY <2>1, <3>2 DEF Named
  <2>2. CASE m \in Marks /\ k \in Marks
    BY <1>5, <2>2 DEF Named
  <2>3. CASE m \in Marks /\ k = <<r.comment, r.call>> /\ r.action = "MARKET"
    BY <1>5, <2>1, <2>3
  <2>4. CASE k \in Marks /\ m = <<r.comment, r.call>> /\ r.action = "MARKET"
    BY <1>5, <2>1, <2>4
  <2> QED BY <1>3, <2>2, <2>3, <2>4
<1>6. ASSUME NEW d \in deals' PROVE d.call \in Call /\ made'[d.call] >= 1
  <2>1. CASE d \in deals
    <3>1. d.call \in Call /\ made[d.call] >= 1
      BY <2>1 DEF Named
    <3>2. made[d.call] \in Nat /\ made'[d.call] \in Nat /\ made'[d.call] >= made[d.call]
      BY <1>0, <1>1, <3>1
    <3> QED BY <3>1, <3>2
  <2>2. CASE d \notin deals
    <3>1. d.call = r.call /\ r.action = "MARKET" /\ made'[r.call] = made[r.call] + 1
      BY <1>1, <2>2
    <3>2. r.call \in Call /\ made[r.call] \in Nat
      BY <1>0, <3>1
    <3> QED BY <3>1, <3>2
  <2> QED BY <2>1, <2>2
<1>7. ASSUME NEW c \in done' PROVE c \in Call /\ made'[c] >= 1
  <2>1. CASE c \in done
    <3>1. c \in Call /\ made[c] >= 1
      BY <2>1 DEF Named
    <3>2. made[c] \in Nat /\ made'[c] \in Nat /\ made'[c] >= made[c]
      BY <1>0, <1>1, <3>1
    <3> QED BY <3>1, <3>2
  <2> QED BY <1>7, <2>1
<1>8. restarts' = 0
  BY DEF Named
<1> QED BY <1>4, <1>5, <1>6, <1>7, <1>8 DEF Named

\* A step in which the queue only loses or ages operations and nothing happens
\* to the calls and at the server, but that deals grow old.
LEMMA FillInvUntouched ==
    ASSUME Unfilled, UNCHANGED <<calls, made, late, counter, done, restarts>>,
           \A d \in deals' : \E e \in deals : d.call = e.call /\ d.comment = e.comment,
           \A x \in queue' : \E i \in queue : /\ x.action = i.action /\ x.call = i.call
                                              /\ x.comment = i.comment
    PROVE  Unfilled' /\ (Named => Named')
<1>1. Unfilled'
  BY DEF Unfilled
<1>2. Marks' \subseteq Marks
  <2>1. ASSUME NEW d \in deals' PROVE <<d.comment, d.call>> \in Marks
    <3>1. PICK e \in deals : d.call = e.call /\ d.comment = e.comment
      OBVIOUS
    <3> QED BY <3>1 DEF Marks
  <2>2. ASSUME NEW x \in queue', x.action = "MARKET"
        PROVE  <<x.comment, x.call>> \in Marks
    <3>1. PICK i \in queue : /\ x.action = i.action /\ x.call = i.call
                             /\ x.comment = i.comment
      OBVIOUS
    <3>2. i \in {j \in queue : j.action = "MARKET"}
      BY <2>2, <3>1
    <3> QED BY <3>1, <3>2 DEF Marks
  <2> QED BY <2>1, <2>2 DEF Marks
<1>3. ASSUME Named PROVE Named'
  <2>1. \A d \in deals' : d.call \in Call /\ made'[d.call] >= 1
    BY <1>3 DEF Named
  <2> QED BY <1>2, <1>3, <2>1 DEF Named
<1> QED BY <1>1, <1>3

-----------------------------------------------------------------------------
(* The operations and the fills                                             *)

\* A new call: nothing was done for it before.
LEMMA NewCallFills ==
    ASSUME QInv, Fills, FillAssumption, NEW kind \in Kinds, Called(kind),
           counter' \in {counter, counter + 1},
           NEW item \in Entry, item.call = ThisCall,
           item.action = "MARKET" <=> kind = "MARKET",
           item.action \in Once =>
                item.comment = IF item.action = "CLOSE" THEN counter ELSE counter + 1,
           item.action = "MARKET" => counter' = counter + 1,
           NEW a, Send(item, a),
           \/ queue' = queue
           \/ queue' = Add(queue, item, 0) /\ (item.action = "MARKET" => made' = made),
           MaxRestarts = 0 =>
                done' = done \/ (done' = done \union {item.call} /\ made'[item.call] >= 1)
    PROVE  Fills'
<1>0. /\ Unfilled /\ counter \in Nat /\ calls \in Seq(Kinds)
      /\ queue \in SUBSET queue /\ 0 \in Nat /\ item.action \in Actions
  BY DEF QInv, Types, Fills, Entry
<1>1. /\ ThisCall = Len(calls) + 1 /\ Len(calls) \in Nat /\ ThisCall \in Call
      /\ calls' \in Seq(Kinds) /\ Len(calls') = ThisCall /\ calls'[ThisCall] = kind
      /\ \A c \in Call : c <= Len(calls) => calls'[c] = calls[c]
  <2>1. Len(calls) < MaxCalls /\ calls' = Append(calls, kind)
    BY DEF Called
  <2> QED BY <1>0, <2>1, ConstantsType DEF ThisCall, Call
<1>2. ASSUME NEW i \in queue, i.action \in Once
      PROVE  i.call # ThisCall /\ (item.action \in Once => KeyOf(i) # KeyOf(item))
  <2>1. Justified(i) /\ i.action \in Actions /\ i.comment \in Nat
    BY DEF QInv, Counted, Types, Entry
  <2>2. i.call # ThisCall
    BY <1>1, <1>2, <2>1 DEF Justified, Once
  <2>3. KeyOf(i) = KeyOf(item) => i.action = item.action /\ i.comment = item.comment
    BY DEF KeyOf
  <2> QED BY <1>0, <1>2, <2>1, <2>2, <2>3 DEF Justified, Once
<1>3. ASSUME NEW i \in queue, item.action \in Once
      PROVE  KeyOf(i) # KeyOf(item) /\ i.call # item.call
  <2>1. Justified(i) /\ i.action \in Actions
    BY DEF QInv, Counted, Types, Entry
  <2>2. i.call # ThisCall
    BY <1>1, <2>1 DEF Justified
  <2>3. i.action \notin Once => KeyOf(i) # KeyOf(item)
    BY <1>3 DEF KeyOf
  <2> QED BY <1>2, <1>3, <2>2, <2>3
<1>4. /\ item.action \in Once => /\ item.call \in Call /\ item.call <= Len(calls')
                                 /\ (calls'[item.call] = "MARKET" <=> item.action = "MARKET")
      /\ item.action = "MARKET" => made[item.call] = 0
      /\ \A c \in Call : c > Len(calls) /\ c <= Len(calls') => item.call = c
      /\ Len(calls) <= Len(calls')
  <2>1. made[ThisCall] = 0
    BY <1>0, <1>1 DEF Unfilled
  <2> QED BY <1>1, <2>1, ConstantsType
<1>5. Unfilled'
  BY <1>0, <1>1, <1>3, <1>4, UnfilledStep
<1>6. ASSUME MaxRestarts = 0, Named PROVE Named'
  <2>1. /\ counter' \in Nat /\ counter <= counter' /\ restarts' = restarts
        /\ item.action = "MARKET" => item.comment <= counter' /\ item.comment > counter
        /\ item.call \in Call
    BY <1>0, <1>1 DEF Called, Once
  <2> QED BY <1>0, <1>3, <1>6, <2>1, NamedStep
<1> QED BY <1>5, <1>6 DEF Fills

LEMMA OpenMarketFills == ASSUME QInv, Fills, FillAssumption, OpenMarket PROVE Fills'
<1>0. PICK item : item = NewItem("MARKET", ThisCall, 0, counter + 1, Full, 1)
  OBVIOUS
<1>1. /\ item \in Entry /\ item.action = "MARKET" /\ item.call = ThisCall
      /\ item.comment = counter + 1
  BY <1>0, StateType DEF NewItem, Entry, Actions, Full
<1> DEFINE verified(a) == a = "TIMEOUT" /\ FindRecentDeal(deals', item.comment)
<1>2. PICK a \in Answers :
        /\ Send(item, a)
        /\ done' = IF a = "DONE" \/ verified(a) THEN done \union {item.call} ELSE done
        /\ queue' = IF IsRetryable(a) /\ ~verified(a) THEN Add(queue, item, 0) ELSE queue
  BY <1>0 DEF OpenMarket
<1>3. /\ Called("MARKET") /\ counter' = counter + 1 /\ "MARKET" \in Kinds
      /\ counter \in Nat /\ late = {} /\ made \in [Call -> Nat] /\ ThisCall \in Call
  BY ConstantsType DEF OpenMarket, Kinds, QInv, Types, Fills, Unfilled, Called, ThisCall, Call
<1>4. /\ a \in {"TRANSIENT", "FATAL"} => made' = made
      /\ a = "DONE" => made'[item.call] = made[item.call] + 1
      /\ \/ deals' = deals
         \/ made'[item.call] = made[item.call] + 1
      /\ made' # made => [call |-> item.call, comment |-> item.comment, recent |-> TRUE]
                            \in deals'
  BY <1>1, <1>2, <1>3, SendEffect
<1>5. IsRetryable(a) /\ ~verified(a) => made' = made
  BY <1>4 DEF IsRetryable, FindRecentDeal
<1>6. made[item.call] = 0 /\ ThisCall > Len(calls)
  <2>1. ThisCall > Len(calls)
    BY DEF ThisCall, QInv, Types
  <2> QED BY <1>1, <1>3, <2>1 DEF Fills, Unfilled
<1>7. \/ queue' = queue
      \/ queue' = Add(queue, item, 0) /\ made' = made
  BY <1>2, <1>5
<1>8. ASSUME MaxRestarts = 0
      PROVE  done' = done \/ (done' = done \union {item.call} /\ made'[item.call] >= 1)
  <2>1. ASSUME FindRecentDeal(deals', item.comment) PROVE deals' # deals
    <3>1. PICK d \in deals' : d.comment = counter + 1
      BY <1>1, <2>1 DEF FindRecentDeal
    <3>2. d \in deals => <<counter + 1, d.call>> \in Marks
      BY <3>1 DEF Marks
    <3>3. <<counter + 1, d.call>> \notin Marks
      BY <1>3, <1>8 DEF Fills, Named
    <3> QED BY <3>2, <3>3
  <2>2. a = "DONE" \/ verified(a) => made'[item.call] >= 1
    BY <1>4, <1>6, <2>1
  <2> QED BY <1>2, <2>2
<1> HIDE DEF verified
<1> QED BY <1>1, <1>2, <1>3, <1>7, <1>8, NewCallFills DEF Once

LEMMA OpenPendingFills == ASSUME QInv, Fills, FillAssumption, OpenPending PROVE Fills'
<1>0. PICK item : item = NewItem("PENDING", ThisCall, 0, counter + 1, Full, 1)
  OBVIOUS
<1>1. /\ item \in Entry /\ item.action = "PENDING" /\ item.call = ThisCall
      /\ item.comment = counter + 1
  BY <1>0, StateType DEF NewItem, Entry, Actions, Full
<1>2. PICK a \in Answers :
        /\ Send(item, a) /\ queue' \in {queue, Add(queue, item, 0)}
        /\ done' = IF a = "DONE" THEN done \union {item.call} ELSE done
  BY <1>0 DEF OpenPending
<1>3. /\ Called("PENDING") /\ counter' = counter + 1 /\ "PENDING" \in Kinds
      /\ late = {} /\ made \in [Call -> Nat] /\ ThisCall \in Call
  BY ConstantsType DEF OpenPending, Kinds, QInv, Types, Fills, Unfilled, Called, ThisCall, Call
<1>4. a = "DONE" => made'[item.call] >= 1
  <2>1. a = "DONE" => made'[item.call] = made[item.call] + 1
    BY <1>1, <1>2, <1>3, SendEffect
  <2> QED BY <1>1, <1>3, <2>1
<1> QED BY <1>1, <1>2, <1>3, <1>4, NewCallFills DEF Once

LEMMA ClosePositionFills ==
    ASSUME QInv, Fills, FillAssumption, NEW t \in Nat, NEW kind \in {"CLOSE", "PARTIAL"},
           NEW vol \in Nat, ClosePosition(t, kind, vol)
    PROVE  Fills'
<1>0. PICK item : item = NewItem("CLOSE", ThisCall, t, counter, vol, 0)
  OBVIOUS
<1>1. /\ item \in Entry /\ item.action = "CLOSE" /\ item.call = ThisCall
      /\ item.comment = counter
  BY <1>0, StateType DEF NewItem, Entry, Actions
<1>2. PICK a \in Answers : Send(item, a) /\ queue' \in {queue, Add(queue, item, 0)}
  BY <1>0 DEF ClosePosition, CloseAttempt
<1>3. /\ Called(kind) /\ counter' = counter + 1 /\ kind \in Kinds /\ done' = done
  BY DEF ClosePosition, Kinds
<1> QED BY <1>1, <1>2, <1>3, NewCallFills DEF Once

LEMMA ModifySLTPFills ==
    ASSUME QInv, Fills, FillAssumption, NEW t \in Nat, NEW sl \in Nat, ModifySLTP(t, sl)
    PROVE  Fills'
<1>0. PICK item : item = NewItem("MODIFY", ThisCall, t, 0, 0, sl)
  OBVIOUS
<1>1. item \in Entry /\ item.action = "MODIFY" /\ item.call = ThisCall
  BY <1>0, StateType DEF NewItem, Entry, Actions
<1>2. PICK a \in Answers : Send(item, a) /\ queue' \in {queue, Add(queue, item, 0)}
  BY <1>0 DEF ModifySLTP
<1>3. /\ Called("MODIFY") /\ counter' = counter /\ "MODIFY" \in Kinds /\ done' = done
  BY DEF ModifySLTP, Kinds
<1> QED BY <1>1, <1>2, <1>3, NewCallFills DEF Once

LEMMA OnBarFills == ASSUME QInv, Fills, FillAssumption, OnBar PROVE Fills'
<1>0. UNCHANGED <<counter, calls, done, restarts>>
  BY DEF OnBar
<1>1. CASE UNCHANGED <<queue, server, late>>
  <2>1. Unfilled' /\ (Named => Named')
    BY <1>0, <1>1, FillInvUntouched DEF Fills, server
  <2> QED BY <2>1 DEF Fills
<1>2. CASE ~UNCHANGED <<queue, server, late>>
  <2>0. PICK item : item = NewItem("CANCEL", 0, pendingTicket, 0, 0, 0)
    OBVIOUS
  <2>1. /\ item \in Entry /\ item.action = "CANCEL"
    BY <2>0, StateType DEF NewItem, Entry, Actions
  <2>2. PICK a \in Answers : /\ Send(item, a)
                             /\ queue' \in {queue, Add(queue, item, 0)}
    BY <1>2, <2>0 DEF OnBar
  <2>3. /\ queue \in SUBSET queue /\ 0 \in Nat /\ counter' \in Nat /\ counter <= counter'
        /\ calls' \in Seq(Kinds) /\ Len(calls) <= Len(calls') /\ Unfilled
        /\ \A c \in Call : ~(c > Len(calls) /\ c <= Len(calls'))
        /\ \A c \in Call : c <= Len(calls) => calls'[c] = calls[c]
        /\ item.action \notin Once /\ item.action # "MARKET"
    BY <1>0, <2>1, ConstantsType DEF QInv, Types, Fills, Once
  <2>4. Unfilled'
    BY <2>1, <2>2, <2>3, UnfilledStep
  <2>5. Named => Named'
    BY <1>0, <2>1, <2>2, <2>3, NamedStep
  <2> QED BY <2>4, <2>5 DEF Fills
<1> QED BY <1>1, <1>2

LEMMA ProcessDueFills == ASSUME QInv, Fills, FillAssumption, ProcessDue PROVE Fills'
<1>1. PICK item \in queue : ExecuteQueued(item)
  BY DEF ProcessDue, Due
<1>2. UNCHANGED <<counter, calls, restarts>>
  BY DEF ProcessDue
<1> DEFINE q == queue \ {item}
           n == item.attempt + 1
<1>3. /\ item \in Entry /\ Justified(item) /\ n \in Nat /\ Unfilled
      /\ late = {} /\ made \in [Call -> Nat] /\ item.action \in Actions
  BY DEF QInv, Types, Counted, Entry, Fills, Unfilled
<1>4. CASE item.action \in {"CLOSE", "MODIFY"} /\ ~HasPosition(item.ticket)
  <2>1. queue' = q /\ UNCHANGED <<server, late, done>>
    BY <1>1, <1>4 DEF ExecuteQueued
  <2>2. Unfilled' /\ (Named => Named')
    BY <1>2, <1>3, <2>1, FillInvUntouched DEF server
  <2> QED BY <2>2 DEF Fills
<1>5. CASE ~(item.action \in {"CLOSE", "MODIFY"} /\ ~HasPosition(item.ticket))
  <2> DEFINE found(a) == a = "TIMEOUT" /\ item.action = "MARKET"
                            /\ FindRecentDeal(deals', item.comment)
             gone(a) == a = "TIMEOUT" /\ item.action = "CLOSE"
                            /\ ~\E p \in positions' : p.ticket = item.ticket
  <2>1. PICK a \in Answers :
          /\ Send(item, a)
          /\ queue' = IF found(a) \/ gone(a) THEN queue \ {item} ELSE Requeued(item, a)
          /\ done' = IF item.action \in {"MARKET", "PENDING"} /\
                        (a = "DONE" \/ found(a) \/ gone(a))
                     THEN done \union {item.call} ELSE done
    BY <1>1, <1>5 DEF ExecuteQueued
  <2>2. /\ item.action \in Once =>
            /\ item.call \in Call /\ item.call <= Len(calls')
            /\ (calls'[item.call] = "MARKET" => item.action = "MARKET")
        /\ item.action = "MARKET" => made[item.call] = 0
    BY <1>2, <1>3 DEF Justified, Once, Unfilled
  <2>3. /\ a \in {"TRANSIENT", "FATAL"} => made' = made
        /\ a = "DONE" /\ item.action \in {"MARKET", "PENDING"} =>
                made'[item.call] = made[item.call] + 1
        /\ deals' = deals \/ made'[item.call] = made[item.call] + 1
        /\ item.action = "MARKET" /\ made' # made =>
            [call |-> item.call, comment |-> item.comment, recent |-> TRUE] \in deals'
    BY <1>3, <2>1, <2>2, SendEffect DEF Once
  <2>4. \/ queue' = q
        \/ queue' = Add(q, item, n) /\ (item.action = "MARKET" => made' = made)
    <3>1. Requeued(item, a) = q \/ (Requeued(item, a) = Add(q, item, n) /\ IsRetryable(a))
      BY DEF Requeued
    <3>2. item.action = "MARKET" /\ IsRetryable(a) /\ ~found(a) => made' = made
      BY <2>3 DEF IsRetryable, FindRecentDeal
    <3> QED BY <2>1, <3>1, <3>2
  <2>5. /\ q \in SUBSET queue
        /\ item.action \in Once => \A i \in q : KeyOf(i) # KeyOf(item) /\ i.call # item.call
    BY DEF QInv, QueueShape, Counted
  <2>6. /\ calls' \in Seq(Kinds) /\ Len(calls) <= Len(calls')
        /\ \A c \in Call : ~(c > Len(calls) /\ c <= Len(calls'))
        /\ \A c \in Call : c <= Len(calls) => calls'[c] = calls[c]
        /\ counter' \in Nat /\ counter <= counter'
    BY <1>2, ConstantsType DEF QInv, Types
  <2>7. Unfilled'
    <3> HIDE DEF q, n
    <3> QED BY <1>3, <2>1, <2>2, <2>4, <2>5, <2>6, UnfilledStep
  <2>8. ASSUME Named PROVE Named'
    <3>1. item.action = "MARKET" =>
            item.comment <= counter' /\ <<item.comment, item.call>> \in Marks
      BY <1>2, <1>3 DEF Justified, Marks
    <3>2. ASSUME found(a) PROVE made'[item.call] >= 1
      <4>1. PICK d \in deals' : d.comment = item.comment
        BY <3>2 DEF FindRecentDeal
      <4>2. CASE d \in deals
        <5>1. <<d.comment, d.call>> \in Marks /\ <<item.comment, item.call>> \in Marks
          BY <3>1, <3>2, <4>2 DEF Marks
        <5>2. d.call = item.call /\ made[item.call] >= 1
          BY <2>8, <4>1, <4>2, <5>1 DEF Named
        <5> QED BY <2>2, <3>2, <5>2
      <4>3. CASE d \notin deals
        <5>1. made'[item.call] = made[item.call] + 1
          BY <2>3, <4>3
        <5> QED BY <2>2, <3>2, <5>1
      <4> QED BY <4>2, <4>3
    <3>3. ASSUME a = "DONE", item.action \in {"MARKET", "PENDING"}
          PROVE  made'[item.call] >= 1
      <4>1. item.call \in Call
        BY <2>2, <3>3 DEF Once
      <4>2. made[item.call] \in Nat
        BY <1>3, <4>1
      <4> QED BY <2>3, <3>3, <4>2
    <3>4. \/ done' = done
          \/ done' = done \union {item.call} /\ item.call \in Call /\ made'[item.call] >= 1
      <4>1. item.action \in {"MARKET", "PENDING"} /\ (found(a) \/ gone(a)) => found(a)
        OBVIOUS
      <4>2. item.action \in {"MARKET", "PENDING"} => item.call \in Call
        BY <2>2 DEF Once
      <4> HIDE DEF found, gone
      <4> QED BY <2>1, <3>2, <3>3, <4>1, <4>2
    <3>5. restarts' = restarts /\ (item.action \in Once => item.call \in Call)
      BY <1>2, <2>2
    <3> HIDE DEF q, n
    <3> QED BY <1>3, <2>1, <2>4, <2>5, <2>6, <2>8, <3>1, <3>4, <3>5, NamedStep
  <2> QED BY <2>7, <2>8 DEF Fills
<1> QED BY <1>4, <1>5

LEMMA WorldFills == ASSUME QInv, Fills, FillAssumption, World PROVE Fills'
<1>1. /\ ~LateEffect
      /\ UNCHANGED <<queue, counter, calls, done, restarts, made, late>>
  BY DEF World, LateEffect, DealAges, PositionEnds, OrderTriggers, Untouched, client,
         Fills, Unfilled
<1>2. \A d \in deals' : \E e \in deals : d.call = e.call /\ d.comment = e.comment
  <2>1. CASE deals' = deals
    BY <2>1
  <2>2. CASE DealAges
    <3>1. PICK e \in deals :
            e.recent /\ deals' = (deals \ {e}) \union {[e EXCEPT !.recent = FALSE]}
      BY <2>2 DEF DealAges
    <3>2. /\ [e EXCEPT !.recent = FALSE].call = e.call
          /\ [e EXCEPT !.recent = FALSE].comment = e.comment
      OBVIOUS
    <3> QED BY <3>1, <3>2
  <2> QED BY <1>1, <2>1, <2>2 DEF World, PositionEnds, OrderTriggers
<1>3. \A x \in queue' : \E i \in queue : /\ x.action = i.action /\ x.call = i.call
                                         /\ x.comment = i.comment
  BY <1>1
<1> QED BY <1>1, <1>2, <1>3, FillInvUntouched DEF Fills

LEMMA StartPassFills == ASSUME QInv, Fills, FillAssumption, StartPass PROVE Fills'
<1>1. queue' = {[i EXCEPT !.wait = @ - 1] : i \in queue}
  BY DEF StartPass, Tick
<1>2. UNCHANGED <<counter, calls, done, restarts, made, late, deals>>
  BY DEF StartPass, server
<1>3. \A i \in queue : /\ [i EXCEPT !.wait = @ - 1].action = i.action
                       /\ [i EXCEPT !.wait = @ - 1].call = i.call
                       /\ [i EXCEPT !.wait = @ - 1].comment = i.comment
  BY DEF QInv, Types, Entry
<1> QED BY <1>1, <1>2, <1>3, FillInvUntouched DEF Fills

LEMMA RestartFills == ASSUME QInv, Fills, FillAssumption, Restart PROVE Fills'
<1>1. queue' = {} /\ UNCHANGED <<calls, made, late>>
  BY DEF Restart, server
<1>2. Unfilled'
  BY <1>1 DEF Fills, Unfilled
<1>3. ~(MaxRestarts = 0 /\ Named)
  BY DEF Restart, Named
<1> QED BY <1>2, <1>3 DEF Fills

LEMMA InitFills == Init => Fills
<1> SUFFICES ASSUME Init PROVE Fills
  OBVIOUS
<1>1. /\ queue = {} /\ deals = {} /\ late = {} /\ done = {} /\ restarts = 0
      /\ calls = <<>> /\ made = [c \in Call |-> 0]
  BY DEF Init
<1>2. made \in [Call -> Nat] /\ \A c \in Call : made[c] = 0
  BY <1>1
<1>3. Marks = {}
  BY <1>1 DEF Marks
<1>4. Unfilled
  BY <1>1, <1>2 DEF Unfilled
<1>5. Named
  BY <1>1, <1>3 DEF Named
<1> QED BY <1>4, <1>5 DEF Fills

LEMMA NextFills == ASSUME FillAssumption, QInv, Fills, [Next]_vars PROVE Fills'
<1>1. CASE OpenMarket
  BY <1>1, OpenMarketFills
<1>2. CASE OpenPending
  BY <1>2, OpenPendingFills
<1>3. CASE \E t \in Ticket : ClosePosition(t, "CLOSE", 0) \/ ClosePosition(t, "PARTIAL", 1)
  <2>1. PICK t \in Ticket : ClosePosition(t, "CLOSE", 0) \/ ClosePosition(t, "PARTIAL", 1)
    BY <1>3
  <2>2. t \in Nat /\ 0 \in Nat /\ 1 \in Nat
    BY DEF Ticket
  <2> QED BY <2>1, <2>2, ClosePositionFills
<1>4. CASE \E t \in Ticket, sl \in Stops : ModifySLTP(t, sl)
  <2>1. PICK t \in Ticket, sl \in Stops : ModifySLTP(t, sl)
    BY <1>4
  <2>2. t \in Nat /\ sl \in Nat
    BY DEF Ticket, Stops
  <2> QED BY <2>1, <2>2, ModifySLTPFills
<1>5. CASE OnBar
  BY <1>5, OnBarFills
<1>6. CASE StartPass
  BY <1>6, StartPassFills
<1>7. CASE ProcessDue
  BY <1>7, ProcessDueFills
<1>8. CASE EndPass \/ UNCHANGED vars
  BY <1>8, FillInvUntouched DEF EndPass, server, vars, client, Fills
<1>9. CASE World
  BY <1>9, WorldFills
<1>10. CASE Restart
  BY <1>10, RestartFills
<1> QED BY <1>1, <1>2, <1>3, <1>4, <1>5, <1>6, <1>7, <1>8, <1>9, <1>10
        DEF Next, CallsMade, ProcessQueue

LEMMA SpecFills == ASSUME FillAssumption PROVE Spec => []FillInv
<1>1. Init => FillInv
  BY InitQInv, InitFills DEF FillInv
<1>2. FillInv /\ [Next]_vars => FillInv'
  BY NextQInv, NextFills DEF FillInv
<1> QED BY <1>1, <1>2, PTL DEF Spec

\* However often a market order is sent again after a timeout, by the queue or
\* after a restart, one call fills once, provided that the server has executed
\* a request by the time it answers or never does (TradeManager.mqh:222-247,
\* :372-399).
THEOREM FillsOnce == ASSUME FillAssumption PROVE Spec => []NoDuplicateFill
<1>1. ASSUME FillInv, NEW c \in DOMAIN calls, calls[c] = "MARKET" PROVE made[c] <= 1
  <2>1. calls \in Seq(Kinds) /\ Len(calls) <= MaxCalls
    BY <1>1 DEF FillInv, QInv, Types
  <2>2. c \in Call /\ c <= Len(calls)
    BY <2>1, ConstantsType DEF Call
  <2> QED BY <1>1, <2>2 DEF FillInv, Fills, Unfilled
<1>2. FillInv => NoDuplicateFill
  BY <1>1 DEF NoDuplicateFill
<1> QED BY <1>2, SpecFills, PTL

\* What the program reports as opened was opened, also where it only found a
\* deal with the call's comment after a timeout, as long as it is not started
\* anew, which repeats the comments (TradeManager.mqh:250-266).
THEOREM ReportsAreTrue ==
    ASSUME FillAssumption, MaxRestarts = 0
    PROVE  Spec => []DoneIsFilled
<1>1. FillInv => DoneIsFilled
  BY DEF FillInv, Fills, Named, DoneIsFilled
<1> QED BY <1>1, SpecFills, PTL

-----------------------------------------------------------------------------
(* EntryFlow. *)

\* What the server may make of a request that was answered TIMEOUT.  With
\* stop orders the code does not look whether a request was executed, and a
\* new start forgets the order.
ExposureAssumption ==
    /\ "late" \notin TimedOut
    /\ PendingMode => "executed" \notin TimedOut /\ MaxRestarts = 0

Opening == {"MARKET", "PENDING"}

\* i has the fields of a queued operation.
Shaped(i) ==
    i = [action |-> i.action, call |-> i.call, ticket |-> i.ticket, comment |-> i.comment,
         vol |-> i.vol, sl |-> i.sl, attempt |-> i.attempt, wait |-> i.wait]

Alone(s) == \A x, y \in s : x = y

AtServer ==
    /\ late = {} /\ nextTicket \in Nat \ {0}
    /\ Alone(positions) /\ Alone(orders)
    /\ orders = {} \/ positions = {}
    /\ ~PendingMode => orders = {}

InQueue ==
    /\ \A i \in queue : Shaped(i)
    /\ \A i \in queue : i.action \in Opening => positions = {} /\ orders = {}
    /\ Alone({i \in queue : i.action \in Opening})
    /\ \A i \in queue : IF PendingMode THEN i.action # "MARKET" ELSE i.action # "PENDING"

\* What the running handler has to ask for.
Requests == {"CLOSE", "PARTIAL", "MODIFY", "CANCEL"}
TodoKinds == \A x \in todo : x[1] \in Requests

Exposure ==
    /\ AtServer /\ InQueue
    /\ \A o \in orders : o.ticket = pendingTicket /\ o.ticket # 0
    /\ PendingMode => restarts = 0

-----------------------------------------------------------------------------
(* The queue                                                                *)

LEMMA ScheduledShape ==
    ASSUME NEW i, Shaped(i), NEW n
    PROVE  /\ Shaped(Scheduled(i, n)) /\ Scheduled(i, n).action = i.action
           /\ KeyOf(Scheduled(i, n)) = KeyOf(i)
<1> DEFINE Fields == {"action", "call", "ticket", "comment", "vol", "sl", "attempt", "wait"}
<1>1. i = [f \in Fields |-> i[f]]
  BY DEF Shaped
<1>2. Scheduled(i, n) = [f \in Fields |-> IF f = "attempt" THEN n
                                          ELSE IF f = "wait" THEN Backoff(n) ELSE i[f]]
  BY <1>1 DEF Scheduled
<1>3. \A f \in Fields \ {"attempt", "wait"} : Scheduled(i, n)[f] = i[f]
  BY <1>2
<1>4. Scheduled(i, n) = [f \in Fields |-> Scheduled(i, n)[f]]
  BY <1>2
<1> QED BY <1>3, <1>4 DEF Shaped, KeyOf

\* What adding an operation leaves in the queue.
LEMMA Added ==
    ASSUME NEW q, \A i \in q : Shaped(i), NEW item, Shaped(item), NEW n
    PROVE  \A x \in Add(q, item, n) :
                x \in q \/ (Shaped(x) /\ x.action = item.action)
<1>1. \A x \in Add(q, item, n) :
        \/ x \in q
        \/ x = Scheduled(item, n)
        \/ \E i \in FindSame(q, item) : x = Scheduled(i, n)
  BY DEF Add
<1>2. \A i \in FindSame(q, item) : Shaped(i) /\ i.action = item.action
  BY DEF FindSame, KeyOf
<1> QED BY <1>1, <1>2, ScheduledShape

\* An opening operation added where there is none.
LEMMA AddedAlone ==
    ASSUME NEW q, \A i \in q : Shaped(i) /\ i.action \notin Opening,
           NEW item, Shaped(item), item.action \in Opening, NEW n
    PROVE  Add(q, item, n) \in {q, q \union {Scheduled(item, n)}}
<1>1. FindSame(q, item) = {}
  BY DEF FindSame, KeyOf
<1> QED BY <1>1 DEF Add

LEMMA NewItemShape ==
    ASSUME NEW action, NEW call, NEW t, NEW comment, NEW vol, NEW sl
    PROVE  /\ Shaped(NewItem(action, call, t, comment, vol, sl))
           /\ NewItem(action, call, t, comment, vol, sl).action = action
           /\ NewItem(action, call, t, comment, vol, sl).comment = comment
           /\ NewItem(action, call, t, comment, vol, sl).ticket = t
BY DEF NewItem, Shaped

-----------------------------------------------------------------------------
(* Requests                                                                 *)

\* A request that closes, modifies or cancels only takes away or changes what
\* there is.
LEMMA OtherRequest ==
    ASSUME ExposureAssumption, AtServer, NEW r, r.action \notin Opening, NEW a, Send(r, a)
    PROVE  /\ AtServer' /\ (positions = {} => positions' = {}) /\ orders' \subseteq orders
<1>1. late' = {} /\ (Executes(r) \/ UNCHANGED server)
  BY DEF Send, ExposureAssumption, AtServer
<1>2. CASE UNCHANGED server
  BY <1>1, <1>2 DEF server, AtServer
<1>3. CASE Closes(r)
  <2>1. PICK p \in positions : \E filled \in IF r.vol = 0 THEN 1..p.vol ELSE {r.vol} :
            positions' = (positions \ {p}) \union Reduced(p, filled)
    BY <1>3 DEF Closes
  <2>2. Alone(positions')
    BY <2>1 DEF AtServer, Alone, Reduced
  <2>3. UNCHANGED <<orders, nextTicket>> /\ positions # {}
    BY <1>3, <2>1 DEF Closes
  <2> QED BY <1>1, <2>2, <2>3 DEF AtServer
<1>4. CASE Modifies(r)
  <2>1. PICK p \in positions :
            positions' = (positions \ {p}) \union {[p EXCEPT !.sl = r.sl]}
    BY <1>4 DEF Modifies
  <2>2. Alone(positions')
    BY <2>1 DEF AtServer, Alone
  <2>3. UNCHANGED <<orders, nextTicket>> /\ positions # {}
    BY <1>4, <2>1 DEF Modifies
  <2> QED BY <1>1, <2>2, <2>3 DEF AtServer
<1>5. CASE Removes(r)
  <2>1. UNCHANGED <<positions, nextTicket>> /\ orders' \subseteq orders
    BY <1>5 DEF Removes
  <2> QED BY <1>1, <2>1 DEF AtServer, Alone
<1> QED BY <1>1, <1>2, <1>3, <1>4, <1>5 DEF Executes, Opens, Places, Opening

\* A step of which only such a request can touch positions and orders, and
\* that adds no other operation to the queue than that request.
LEMMA OtherStep ==
    ASSUME ExposureAssumption, Exposure, NEW r, Shaped(r), r.action \notin Opening,
           NEW a, Send(r, a), NEW n, NEW q \in SUBSET queue,
           queue' = q \/ queue' = Add(q, r, n),
           pendingTicket' = pendingTicket \/ orders' = {}, restarts' = restarts
    PROVE  Exposure'
<1>1. /\ AtServer' /\ (positions = {} => positions' = {}) /\ orders' \subseteq orders
  BY OtherRequest DEF Exposure
<1>2. \A x \in queue' : x \in queue \/ (Shaped(x) /\ x.action = r.action)
  BY Added DEF Exposure, InQueue
<1>3. InQueue'
  <2>1. \A i \in queue : i.action \in Opening => positions' = {} /\ orders' = {}
    BY <1>1 DEF Exposure, InQueue
  <2>2. \A x \in queue' : x.action \in Opening => x \in queue
    BY <1>2
  <2>3. Alone({i \in queue' : i.action \in Opening})
    BY <2>2 DEF Exposure, InQueue, Alone
  <2>4. \A x \in queue' : Shaped(x)
    BY <1>2 DEF Exposure, InQueue
  <2>5. \A x \in queue' : IF PendingMode THEN x.action # "MARKET" ELSE x.action # "PENDING"
    BY <1>2 DEF Exposure, InQueue, Opening
  <2> QED BY <2>1, <2>2, <2>3, <2>4, <2>5 DEF InQueue
<1>4. \A o \in orders' : o.ticket = pendingTicket' /\ o.ticket # 0
  BY <1>1 DEF Exposure
<1> QED BY <1>1, <1>3, <1>4 DEF Exposure

\* A request that opens, sent while there is neither position nor order.  When
\* the program does not know that it was executed, it was not.
LEMMA OpeningStep ==
    ASSUME ExposureAssumption, Exposure, positions = {}, orders = {},
           NEW r, Shaped(r), r.action = IF PendingMode THEN "PENDING" ELSE "MARKET",
           NEW a \in Answers, Send(r, a), NEW n,
           NEW q \in SUBSET queue, \A i \in q : i.action \notin Opening,
           \/ queue' = q
           \/ /\ queue' = Add(q, r, n) /\ IsRetryable(a)
              /\ ~(a = "TIMEOUT" /\ r.action = "MARKET" /\ FindRecentDeal(deals', r.comment)),
           r.action = "PENDING" => Remember(a), restarts' = restarts
    PROVE  Exposure'
<1>0. PendingMode \in BOOLEAN /\ r.action \in Opening /\ AtServer /\ InQueue
  BY ModeAssumption DEF Exposure, Opening
<1>1. late' = {} /\ (Executes(r) \/ UNCHANGED server)
  BY DEF Send, ExposureAssumption, Exposure, AtServer
<1>2. CASE UNCHANGED server /\ ~Executes(r)
  <2>1. positions' = {} /\ orders' = {} /\ AtServer'
    BY <1>0, <1>1, <1>2 DEF server, AtServer
  <2>2. queue' \in {q, q \union {Scheduled(r, n)}}
    BY <1>0, AddedAlone DEF InQueue
  <2>3. Shaped(Scheduled(r, n)) /\ Scheduled(r, n).action = r.action
    BY ScheduledShape
  <2>4. \A x \in queue' : x \in q \/ x = Scheduled(r, n)
    BY <2>2
  <2>5. Alone({i \in queue' : i.action \in Opening})
    BY <2>4 DEF Alone
  <2>6. \A x \in queue' : /\ Shaped(x)
                          /\ IF PendingMode THEN x.action # "MARKET" ELSE x.action # "PENDING"
    BY <1>0, <2>3, <2>4 DEF InQueue
  <2> QED BY <2>1, <2>5, <2>6 DEF Exposure, InQueue
<1>3. CASE Executes(r)
  <2>1. /\ a \notin {"TRANSIENT", "FATAL"} \/ UNCHANGED server
        /\ r.action = "PENDING" => a = "DONE" \/ UNCHANGED server
    BY <1>0 DEF Send, ExposureAssumption, Opening
  <2>2. CASE Opens(r)
    <3>1. /\ r.action = "MARKET" /\ ~PendingMode
          /\ positions' = {[ticket |-> nextTicket, vol |-> Full, sl |-> 1]}
          /\ deals' = deals \union
                {[call |-> r.call, comment |-> r.comment, recent |-> TRUE]}
          /\ nextTicket' = nextTicket + 1 /\ orders' = {}
      BY <1>0, <2>2 DEF Opens
    <3>2. AtServer'
      BY <1>0, <1>1, <3>1 DEF AtServer, Alone
    <3>3. ~UNCHANGED server
      BY <3>1 DEF server
    <3>4. queue' = q
      <4>1. FindRecentDeal(deals', r.comment)
        <5>1. [call |-> r.call, comment |-> r.comment, recent |-> TRUE] \in deals'
          BY <3>1
        <5> QED BY <5>1 DEF FindRecentDeal
      <4> QED BY <2>1, <3>1, <3>3, <4>1 DEF IsRetryable, Answers
    <3> QED BY <1>0, <3>1, <3>2, <3>4 DEF Exposure, InQueue, Alone
  <2>3. CASE Places(r)
    <3>1. /\ r.action = "PENDING" /\ PendingMode
          /\ orders' = {[ticket |-> nextTicket, call |-> r.call]}
          /\ nextTicket' = nextTicket + 1 /\ positions' = {}
      BY <1>0, <2>3 DEF Places
    <3>2. AtServer'
      BY <1>0, <1>1, <3>1 DEF AtServer, Alone
    <3>3. ~UNCHANGED server
      BY <3>1 DEF server
    <3>4. a = "DONE" /\ queue' = q
      BY <2>1, <3>1, <3>3 DEF IsRetryable
    <3>5. pendingTicket' = nextTicket /\ nextTicket \in Nat \ {0}
      BY <1>0, <3>1, <3>4 DEF Remember, AtServer
    <3> QED BY <1>0, <3>1, <3>2, <3>4, <3>5 DEF Exposure, InQueue, Alone
  <2> QED BY <1>0, <1>3, <2>2, <2>3 DEF Executes, Closes, Modifies, Removes, Opening
<1> QED BY <1>1, <1>2, <1>3

-----------------------------------------------------------------------------
(* The steps                                                                *)

\* A step in which nothing happens at the server and the queue only loses
\* operations.
LEMMA NothingSent ==
    ASSUME Exposure, UNCHANGED <<positions, orders, nextTicket, late, restarts>>,
           queue' \subseteq queue, pendingTicket' = pendingTicket \/ orders = {}
    PROVE  Exposure'
BY DEF Exposure, AtServer, InQueue, Alone

LEMMA BarEntryStep ==
    ASSUME ExposureAssumption, Exposure, BarEntry
    PROVE  Exposure'
<1>1. queue = {} /\ pendingTicket = 0 /\ positions = {} /\ orders = {}
  <2>1. queue = {} /\ pendingTicket = 0 /\ positions = {}
    BY DEF BarEntry, Working
  <2> QED BY <2>1 DEF Exposure
<1>2. restarts' = restarts /\ queue \in SUBSET queue
  BY DEF BarEntry, OpenMarket, OpenPending, Called
<1>3. CASE PendingMode
  <2>0. OpenPending
    BY <1>3 DEF BarEntry
  <2>1. PICK item : item = NewItem("PENDING", ThisCall, 0, counter + 1, Full, 1)
    OBVIOUS
  <2>2. Shaped(item) /\ item.action = "PENDING"
    BY <2>1, NewItemShape
  <2>3. PICK a \in Answers :
          /\ Send(item, a) /\ Remember(a)
          /\ queue' = IF IsRetryable(a) THEN Add(queue, item, 0) ELSE queue
    BY <2>0, <2>1 DEF OpenPending
  <2> QED BY <1>1, <1>2, <1>3, <2>2, <2>3, OpeningStep
<1>4. CASE ~PendingMode
  <2>0. OpenMarket
    BY <1>4 DEF BarEntry
  <2>1. PICK item : item = NewItem("MARKET", ThisCall, 0, counter + 1, Full, 1)
    OBVIOUS
  <2>2. Shaped(item) /\ item.action = "MARKET"
    BY <2>1, NewItemShape
  <2>3. PICK a \in Answers :
          /\ Send(item, a)
          /\ queue' = IF IsRetryable(a) /\
                        ~(a = "TIMEOUT" /\ FindRecentDeal(deals', item.comment))
                      THEN Add(queue, item, 0) ELSE queue
    BY <2>0, <2>1 DEF OpenMarket
  <2>4. \/ queue' = queue
        \/ /\ queue' = Add(queue, item, 0) /\ IsRetryable(a)
           /\ ~(a = "TIMEOUT" /\ item.action = "MARKET" /\ FindRecentDeal(deals', item.comment))
    BY <2>2, <2>3
  <2> QED BY <1>1, <1>2, <1>4, <2>2, <2>3, <2>4, OpeningStep
<1> QED BY <1>3, <1>4

LEMMA OnBarStep == ASSUME ExposureAssumption, Exposure, OnBar PROVE Exposure'
<1>1. PICK item : item = NewItem("CANCEL", 0, pendingTicket, 0, 0, 0)
  OBVIOUS
<1>2. Shaped(item) /\ item.action \notin Opening /\ item.action = "CANCEL"
      /\ item.ticket = pendingTicket
  BY <1>1, NewItemShape DEF Opening
<1>3. restarts' = restarts /\ queue \in SUBSET queue
  BY DEF OnBar
<1>4. CASE ~HasOrder(pendingTicket)
  <2>1. UNCHANGED <<positions, orders, nextTicket, late, queue>>
    BY <1>4 DEF OnBar, server
  <2>2. orders = {}
    BY <1>4 DEF Exposure, HasOrder
  <2> QED BY <1>3, <2>1, <2>2, NothingSent
<1>5. CASE HasOrder(pendingTicket) /\ ~(barsLeft <= 1)
  <2>1. UNCHANGED <<positions, orders, nextTicket, late, queue, pendingTicket>>
    BY <1>5 DEF OnBar, server
  <2> QED BY <1>3, <2>1, NothingSent
<1>6. CASE HasOrder(pendingTicket) /\ barsLeft <= 1
  <2>1. PICK a \in Answers :
          /\ Send(item, a)
          /\ pendingTicket' = IF a = "DONE" THEN 0 ELSE pendingTicket
          /\ queue' = IF IsRetryable(a) THEN Add(queue, item, 0) ELSE queue
    BY <1>1, <1>6 DEF OnBar
  <2>2. a = "DONE" => orders' = {}
    <3>1. a = "DONE" => Removes(item)
      BY <1>2, <2>1 DEF Send, Executes, Opens, Places, Closes, Modifies
    <3> QED BY <1>2, <3>1 DEF Removes, Exposure
  <2> QED BY <1>2, <1>3, <2>1, <2>2, OtherStep
<1> QED BY <1>4, <1>5, <1>6

LEMMA DoNextStep ==
    ASSUME ExposureAssumption, TodoKinds, Exposure, DoNext
    PROVE  Exposure'
<1>1. PICK x \in todo :
        CASE x[1] = "CLOSE"   -> CloseOne(x[2], 0)
          [] x[1] = "PARTIAL" -> CloseOne(x[2], 1)
          [] x[1] = "MODIFY"  -> ModifyOne(x[2])
          [] x[1] = "CANCEL"  -> CancelOne(x[2])
  BY Zenon DEF DoNext
<1>2. ASSUME NEW t, NEW vol, CloseOne(t, vol) PROVE Exposure'
  <2>1. UNCHANGED <<pendingTicket, restarts>> /\ queue \in SUBSET queue
    BY <1>2 DEF CloseOne
  <2>2. CASE ~HasPosition(t)
    BY <1>2, <2>1, <2>2, NothingSent DEF CloseOne, server
  <2>3. CASE HasPosition(t)
    <3>1. PICK item : item = NewItem("CLOSE", 0, t, FreshComment, vol, 0)
      OBVIOUS
    <3>2. Shaped(item) /\ item.action \notin Opening
      BY <3>1, NewItemShape DEF Opening
    <3>3. PICK a \in Answers : Send(item, a) /\ queue' \in {queue, Add(queue, item, 0)}
      BY <1>2, <2>3, <3>1 DEF CloseOne, CloseAttempt
    <3> QED BY <2>1, <3>2, <3>3, OtherStep
  <2> QED BY <2>2, <2>3
<1>3. ASSUME NEW t, ModifyOne(t) PROVE Exposure'
  <2>1. UNCHANGED <<pendingTicket, restarts>> /\ queue \in SUBSET queue
    BY <1>3 DEF ModifyOne
  <2>2. CASE ~HasPosition(t)
    BY <1>3, <2>1, <2>2, NothingSent DEF ModifyOne, server
  <2>3. CASE HasPosition(t)
    <3>1. PICK item : item = NewItem("MODIFY", 0, t, 0, 0, 2)
      OBVIOUS
    <3>2. Shaped(item) /\ item.action \notin Opening
      BY <3>1, NewItemShape DEF Opening
    <3>3. PICK a \in Answers : Send(item, a) /\ queue' \in {queue, Add(queue, item, 0)}
      BY <1>3, <2>3, <3>1 DEF ModifyOne
    <3> QED BY <2>1, <3>2, <3>3, OtherStep
  <2> QED BY <2>2, <2>3
<1>4. ASSUME NEW t, CancelOne(t) PROVE Exposure'
  <2>1. UNCHANGED <<pendingTicket, restarts>> /\ queue \in SUBSET queue
    BY <1>4 DEF CancelOne
  <2>2. PICK item : item = NewItem("CANCEL", 0, t, 0, 0, 0)
    OBVIOUS
  <2>3. Shaped(item) /\ item.action \notin Opening
    BY <2>2, NewItemShape DEF Opening
  <2>4. PICK a \in Answers : Send(item, a) /\ queue' \in {queue, Add(queue, item, 0)}
    BY <1>4, <2>2 DEF CancelOne
  <2> QED BY <2>1, <2>3, <2>4, OtherStep
<1>5. \/ CloseOne(x[2], 0) \/ CloseOne(x[2], 1) \/ ModifyOne(x[2]) \/ CancelOne(x[2])
  <2>1. x[1] = "CLOSE" => CloseOne(x[2], 0)
    BY <1>1, Zenon
  <2>2. x[1] = "PARTIAL" => CloseOne(x[2], 1)
    BY <1>1, Zenon
  <2>3. x[1] = "MODIFY" => ModifyOne(x[2])
    BY <1>1, Zenon
  <2>4. x[1] = "CANCEL" => CancelOne(x[2])
    BY <1>1, Zenon
  <2> QED BY <2>1, <2>2, <2>3, <2>4 DEF TodoKinds, Requests
<1> QED BY <1>2, <1>3, <1>4, <1>5

LEMMA ProcessDueStep == ASSUME ExposureAssumption, Exposure, ProcessDue PROVE Exposure'
<1>1. PICK item \in queue : ExecuteQueued(item)
  BY DEF ProcessDue, Due
<1>2. restarts' = restarts /\ Shaped(item)
  BY DEF ProcessDue, Exposure, InQueue
<1> DEFINE q == queue \ {item}
           n == item.attempt + 1
<1>3. CASE item.action \in {"CLOSE", "MODIFY"} /\ ~HasPosition(item.ticket)
  <2>1. /\ queue' = q
        /\ UNCHANGED <<positions, orders, nextTicket, late, pendingTicket>>
    BY <1>1, <1>3 DEF ExecuteQueued, server
  <2> QED BY <1>2, <2>1, NothingSent
<1>4. CASE ~(item.action \in {"CLOSE", "MODIFY"} /\ ~HasPosition(item.ticket))
  <2> DEFINE found(a) == a = "TIMEOUT" /\ item.action = "MARKET"
                            /\ FindRecentDeal(deals', item.comment)
             gone(a) == a = "TIMEOUT" /\ item.action = "CLOSE"
                            /\ ~\E p \in positions' : p.ticket = item.ticket
  <2>1. PICK a \in Answers :
          /\ Send(item, a)
          /\ queue' = IF found(a) \/ gone(a) THEN queue \ {item} ELSE Requeued(item, a)
          /\ IF item.action = "PENDING" THEN Remember(a)
             ELSE UNCHANGED <<pendingTicket, barsLeft>>
    BY <1>1, <1>4 DEF ExecuteQueued
  <2>2. \/ queue' = q
        \/ queue' = Add(q, item, n) /\ IsRetryable(a) /\ ~found(a)
    BY <2>1 DEF Requeued
  <2>3. CASE item.action \notin Opening
    <3>1. pendingTicket' = pendingTicket
      BY <2>1, <2>3 DEF Opening
    <3> HIDE DEF q, n, found, gone
    <3>2. q \in SUBSET queue
      BY DEF q
    <3> QED BY <1>2, <2>1, <2>2, <2>3, <3>1, <3>2, OtherStep
  <2>4. CASE item.action \in Opening
    <3>1. positions = {} /\ orders = {}
      BY <2>4 DEF Exposure, InQueue
    <3>2. q \in SUBSET queue /\ \A i \in q : i.action \notin Opening
      BY <2>4 DEF Exposure, InQueue, Alone
    <3>3. item.action = IF PendingMode THEN "PENDING" ELSE "MARKET"
      BY <2>4, ModeAssumption DEF Exposure, InQueue, Opening
    <3>4. item.action = "PENDING" => Remember(a)
      BY <2>1
    <3>5. \/ queue' = q
          \/ /\ queue' = Add(q, item, n) /\ IsRetryable(a)
             /\ ~(a = "TIMEOUT" /\ item.action = "MARKET" /\ FindRecentDeal(deals', item.comment))
      BY <2>2
    <3> HIDE DEF q, n, found, gone
    <3> QED BY <1>2, <2>1, <3>1, <3>2, <3>3, <3>4, <3>5, OpeningStep
  <2> QED BY <2>3, <2>4
<1> QED BY <1>3, <1>4

LEMMA StartPassStep == ASSUME Exposure, StartPass PROVE Exposure'
<1>1. /\ queue' = {[i EXCEPT !.wait = @ - 1] : i \in queue}
      /\ UNCHANGED <<positions, orders, nextTicket, late, restarts, pendingTicket>>
  BY DEF StartPass, Tick, server
<1>2. ASSUME NEW i \in queue
      PROVE  /\ Shaped([i EXCEPT !.wait = @ - 1])
             /\ [i EXCEPT !.wait = @ - 1].action = i.action
  <2> DEFINE Fields == {"action", "call", "ticket", "comment", "vol", "sl", "attempt", "wait"}
             j == [i EXCEPT !.wait = @ - 1]
  <2>1. i = [f \in Fields |-> i[f]]
    BY DEF Shaped, Exposure, InQueue
  <2>2. j = [f \in Fields |-> IF f = "wait" THEN i[f] - 1 ELSE i[f]]
    BY <2>1
  <2>3. j.action = i.action
    BY <2>2
  <2>4. j = [f \in Fields |-> j[f]]
    BY <2>2
  <2> HIDE DEF j
  <2>5. Shaped(j)
    BY <2>4 DEF Shaped
  <2> QED BY <2>3, <2>5 DEF j
<1>3. InQueue'
  <2>1. \A x \in queue' : Shaped(x)
    BY <1>1, <1>2
  <2>2. \A x \in queue' : \E i \in queue : x = [i EXCEPT !.wait = @ - 1] /\ x.action = i.action
    BY <1>1, <1>2
  <2>3. \A x \in queue' : /\ x.action \in Opening => positions' = {} /\ orders' = {}
                          /\ IF PendingMode THEN x.action # "MARKET" ELSE x.action # "PENDING"
    BY <1>1, <2>2 DEF Exposure, InQueue
  <2>4. Alone({x \in queue' : x.action \in Opening})
    <3>1. ASSUME NEW x \in queue', NEW y \in queue', x.action \in Opening, y.action \in Opening
          PROVE  x = y
      <4>1. PICK i \in queue : x = [i EXCEPT !.wait = @ - 1] /\ x.action = i.action
        BY <2>2
      <4>2. PICK j \in queue : y = [j EXCEPT !.wait = @ - 1] /\ y.action = j.action
        BY <2>2
      <4>3. i = j
        BY <3>1, <4>1, <4>2 DEF Exposure, InQueue, Alone
      <4> QED BY <4>1, <4>2, <4>3
    <3> QED BY <3>1 DEF Alone
  <2> QED BY <2>1, <2>3, <2>4 DEF InQueue
<1> QED BY <1>1, <1>3 DEF Exposure, AtServer

LEMMA WorldStep == ASSUME Exposure, World PROVE Exposure'
<1>1. UNCHANGED <<queue, pendingTicket, restarts>> /\ late = {}
  BY DEF World, LateEffect, DealAges, PositionEnds, OrderTriggers, Untouched, client,
         Exposure, AtServer
<1>2. CASE DealAges
  BY <1>1, <1>2, NothingSent DEF DealAges
<1>3. CASE PositionEnds
  <2>1. positions' \subseteq positions /\ UNCHANGED <<orders, nextTicket, late>>
    BY <1>3 DEF PositionEnds
  <2> QED BY <1>1, <2>1 DEF Exposure, AtServer, InQueue, Alone
<1>4. CASE OrderTriggers
  <2>1. PICK o \in orders :
          /\ orders' = orders \ {o}
          /\ positions' = positions \union {[ticket |-> o.ticket, vol |-> Full, sl |-> 1]}
    BY <1>4 DEF OrderTriggers
  <2>2. UNCHANGED <<nextTicket, late>>
    BY <1>4 DEF OrderTriggers
  <2>3. positions = {} /\ orders' = {} /\ Alone(positions')
    BY <2>1 DEF Exposure, AtServer, Alone
  <2>4. \A i \in queue : i.action \notin Opening
    BY <2>1 DEF Exposure, InQueue
  <2> QED BY <1>1, <2>2, <2>3, <2>4 DEF Exposure, AtServer, InQueue, Alone
<1> QED BY <1>1, <1>2, <1>3, <1>4 DEF World, LateEffect

\* A new start forgets the queue; in pending mode there is none.
LEMMA RestartStep == ASSUME ExposureAssumption, Exposure, FlowRestart PROVE Exposure'
<1>1. queue' = {} /\ UNCHANGED <<positions, orders, nextTicket, late>>
  BY DEF FlowRestart, Restart, server
<1>2. ~PendingMode
  BY DEF FlowRestart, Restart, Exposure, ExposureAssumption
<1>3. orders = {}
  BY <1>2 DEF Exposure, AtServer
<1> QED BY <1>1, <1>2, <1>3 DEF Exposure, AtServer, InQueue, Alone

-----------------------------------------------------------------------------
(* The invariant and what it implies                                        *)

LEMMA InitExposure == FlowInit => Exposure
BY DEF FlowInit, Init, Exposure, AtServer, InQueue, Alone

LEMMA NextTodo == TodoKinds /\ [FlowNext]_allVars => TodoKinds'
<1> SUFFICES ASSUME TodoKinds, [FlowNext]_allVars PROVE TodoKinds'
  OBVIOUS
<1>1. CASE todo' \subseteq todo
  BY <1>1 DEF TodoKinds
<1>2. CASE TimerScan \/ TimerEnforce \/ TimerLimits \/ BarFlip
  <2>1. /\ \A x \in AllOrders \union AllPositions \union All("MODIFY") : x[1] \in Requests
        /\ \A x \in Enforced : x \in AllPositions
    BY DEF AllOrders, AllPositions, All, Enforced, Requests
  <2>2. todo' \subseteq AllOrders \union AllPositions \union All("MODIFY")
    BY <1>2, <2>1 DEF TimerScan, TimerEnforce, TimerLimits, BarFlip
  <2> QED BY <2>1, <2>2 DEF TodoKinds
<1>3. CASE BarManage
  <2>1. PICK timedOut \in SUBSET positions :
            todo' \in
                {{<<"CLOSE", p.ticket>> : p \in timedOut} \union rest :
                    rest \in SUBSET ({"MODIFY", "PARTIAL"} \X
                                    {p.ticket : p \in positions \ timedOut})}
    BY <1>3 DEF BarManage
  <2>2. PICK rest \in SUBSET ({"MODIFY", "PARTIAL"} \X
                                    {p.ticket : p \in positions \ timedOut}) :
            todo' = {<<"CLOSE", p.ticket>> : p \in timedOut} \union rest
    BY <2>1
  <2>3. \A x \in rest : x[1] \in {"MODIFY", "PARTIAL"}
    BY <2>2
  <2> QED BY <2>2, <2>3 DEF TodoKinds, Requests
<1>4. CASE UNCHANGED allVars
  BY <1>1, <1>4 DEF allVars, flow
<1>5. CASE FlowRestart
  BY <1>5 DEF FlowRestart, TodoKinds
<1>6. CASE DoNext
  BY <1>1, <1>6 DEF DoNext
<1>7. CASE TimerFires \/ TimerQueue \/ BarBegins \/ BarReturns \/ BarEntry \/ (World /\ UNCHANGED flow)
  BY <1>1, <1>7 DEF TimerFires, TimerQueue, BarBegins, BarReturns, BarEntry, flow
<1> QED BY <1>2, <1>3, <1>4, <1>5, <1>6, <1>7 DEF FlowNext, OnTimer, OnNewBar

LEMMA NextExposure ==
    ASSUME ExposureAssumption, TodoKinds, Exposure, [FlowNext]_allVars
    PROVE  Exposure'
<1>1. CASE UNCHANGED vars
  BY <1>1, NothingSent DEF vars, client, server
<1>2. CASE TimerFires
  BY <1>2, StartPassStep DEF TimerFires
<1>3. CASE TimerQueue
  <2>1. CASE ProcessDue
    BY <2>1, ProcessDueStep
  <2>2. CASE EndPass
    BY <2>2, NothingSent DEF EndPass, server
  <2> QED BY <1>3, <2>1, <2>2 DEF TimerQueue
<1>4. CASE BarBegins
  BY <1>1, <1>4, OnBarStep DEF BarBegins, TradeIdle
<1>5. CASE BarEntry
  BY <1>5, BarEntryStep
<1>6. CASE DoNext
  BY <1>6, DoNextStep
<1>7. CASE World
  BY <1>7, WorldStep
<1>8. CASE FlowRestart
  BY <1>8, RestartStep
<1>9. CASE TimerScan \/ TimerEnforce \/ TimerLimits \/ BarManage \/ BarReturns \/ BarFlip
  BY <1>1, <1>9 DEF TimerScan, TimerEnforce, TimerLimits, BarManage, BarReturns, BarFlip,
                    TradeIdle
<1>10. CASE UNCHANGED allVars
  BY <1>1, <1>10 DEF allVars
<1> QED BY <1>2, <1>3, <1>4, <1>5, <1>6, <1>7, <1>8, <1>9, <1>10
        DEF FlowNext, OnTimer, OnNewBar

LEMMA SpecExposure == ASSUME ExposureAssumption PROVE FlowSpec => []Exposure
<1>1. FlowInit => TodoKinds
  BY DEF FlowInit, TodoKinds
<1> QED BY <1>1, NextTodo, InitExposure, NextExposure, PTL DEF FlowSpec

LEMMA ExposureIsSingle == Exposure => SingleExposure
<1> SUFFICES ASSUME Exposure PROVE SingleExposure
  OBVIOUS
<1>1. ASSUME NEW s, Alone(s) PROVE s = {} \/ \E x : s = {x}
  BY <1>1 DEF Alone
<1>2. \A x : Cardinality({x}) = 1
  BY FS_Singleton
<1>3. Cardinality({}) = 0
  BY FS_EmptySet
<1>4. Alone(positions) /\ Alone(orders) /\ (orders = {} \/ positions = {})
  BY DEF Exposure, AtServer
<1>5. Cardinality(positions) = 0 \/ Cardinality(positions) = 1
  BY <1>1, <1>2, <1>3, <1>4
<1>6. Cardinality(orders) = 0 \/ Cardinality(orders) = 1
  BY <1>1, <1>2, <1>3, <1>4
<1> QED BY <1>3, <1>4, <1>5, <1>6 DEF SingleExposure

\* With market orders the Expert Advisor never has more than one position,
\* whatever the interleaving of bars, timer passes, retries, flips, enforced
\* closes and restarts, unless the server executes a request after it has
\* answered it (Mql5Bot.mq5:1120-1140, TradeManager.mqh:372-399).
THEOREM OneAtATime ==
    ASSUME ~PendingMode, "late" \notin TimedOut
    PROVE  FlowSpec => []SingleExposure
<1>1. ExposureAssumption
  BY DEF ExposureAssumption
<1> QED BY <1>1, ExposureIsSingle, SpecExposure, PTL

\* With stop orders there is one resting order or one position, and the order
\* is the one whose ticket is remembered, within one run of the program and
\* unless a request is executed although its answer was lost
\* (TradeManager.mqh:460-510, Mql5Bot.mq5:1120-1140).
THEOREM RestingOrderIsKnown ==
    ASSUME PendingMode, TimedOut \subseteq {"lost"}, MaxRestarts = 0
    PROVE  FlowSpec => []TrackedExposure
<1>1. ExposureAssumption
  BY DEF ExposureAssumption
<1>2. Exposure => TrackedExposure
  BY ExposureIsSingle DEF TrackedExposure, RestingIsTracked, Exposure
<1> QED BY <1>1, <1>2, SpecExposure, PTL
=============================================================================
