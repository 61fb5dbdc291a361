----------------------------- MODULE Registries -----------------------------
(***************************************************************************)
(* What the Expert Advisor knows of itself across restarts: the registry   *)
(* of magic numbers (MagicMap.mqh) and the registry of tickets with the    *)
(* flag of the scale-out (StateStore.mqh), with the handlers of            *)
(* Mql5Bot.mq5 that use them.  Both are text files, deleted and then       *)
(* written: a terminal that dies in between leaves some of the rows, a     *)
(* file that does not open after its deletion none, and one that another   *)
(* program holds stays as it was.  OnInit does not look at what SaveToFile *)
(* returns, so the program may trade under a row that is in no file.  The  *)
(* map may also fail to open for reading; the file of tickets is taken to  *)
(* be readable.                                                            *)
(*                                                                         *)
(* One Expert Advisor runs at a time; between two starts the operator may  *)
(* choose another strategy, always with the registry of magic numbers      *)
(* switched on.  A magic number is its distance from MAGIC_BASE.  Tickets  *)
(* are handed out in the order positions open and stand for the opening    *)
(* times.  When to enter, and what the server makes of a request, are      *)
(* inputs.                                                                 *)
(***************************************************************************)
EXTENDS Integers, FiniteSets

CONSTANTS
    StrategyIds,
    Span,           \* MAGIC_SPAN
    SlotOf,         \* Fnv1a32(id) % MAGIC_SPAN
    FlushTicks,     \* timer passes between two writes of the state file (5)
    MaxEntries,     \* bound on the number of positions and orders
    MaxStarts       \* bound on the number of starts: the last of them goes on

ASSUME MagicAssumption == Span \in Nat \ {0} /\ SlotOf \in [StrategyIds -> 0..Span - 1]

VARIABLES
    mapFile,    \* magicmap.txt: its rows
    stateFile,  \* state.txt: its rows
    ea,         \* the running program, or what is left of the last one
    resting,    \* pending orders and queued entries, by strategy and magic number
    account,    \* open positions: ticket, the strategy that entered, magic number, scale-outs
    entries, starts, \* positions opened, and starts, so far
    given       \* history: the rows programs have traded under

regVars == <<mapFile, stateFile, ea, resting, account, entries, starts, given>>

Nobody == "none"
Unmanaged == 0
Program == [on |-> FALSE, id |-> Nobody, magic |-> 0, records |-> {}, dirty |-> FALSE, ticks |-> 0,
            managed |-> Unmanaged, bars |-> 0, queued |-> {}]

RegInit ==
    /\ mapFile = {} /\ stateFile = {} /\ ea = Program /\ resting = {} /\ account = {}
    /\ entries = 0 /\ starts = 0 /\ given = {}

-----------------------------------------------------------------------------
(* CMagicMap.  SaveToFile writes what Allocate made of what LoadFromFile   *)
(* read, so the checks of LoadFromFile on single rows never bite.          *)

IsTakenNever(rows, magic) == FALSE      \* mutant: a slot in use is given again
IsTaken(rows, magic) == \E r \in rows : r.magic = magic
Get(rows, id) == {r \in rows : r.id = id}

\* The probes after the primary slot, once around the range.
Probe(id, steps) == (SlotOf[id] + steps) % Span
FreeSteps(rows, id) == {k \in 0..Span - 1 : ~IsTaken(rows, Probe(id, k))}
FirstFreeStep(rows, id) == CHOOSE k \in FreeSteps(rows, id) : \A j \in FreeSteps(rows, id) : k <= j
CanAllocate(rows, id) == Get(rows, id) # {} \/ FreeSteps(rows, id) # {}
Allocate(rows, id) ==
    IF Get(rows, id) # {} THEN rows
    ELSE rows \cup {[id |-> id, magic |-> Probe(id, FirstFreeStep(rows, id))]}

\* What FileDelete and a write that does not finish leave of a file.
Torn(rows) == SUBSET rows

-----------------------------------------------------------------------------
(* OnInit and the ways the program ends.                                   *)

\* Load the map, allocate, save the map whatever comes of it, load the tickets.
Saved(rows) == {rows, {}, mapFile}
OnInit(id) ==
    /\ ~ea.on /\ starts' = starts + 1
    /\ \E read \in {mapFile, {}} :
        /\ CanAllocate(read, id) /\ mapFile' \in Saved(Allocate(read, id))
        /\ \E row \in Allocate(read, id) :
            /\ row.id = id /\ given' = given \cup {row}
            /\ ea' = [Program EXCEPT !.on = TRUE, !.id = id, !.magic = row.magic, !.records = stateFile]
    /\ UNCHANGED <<stateFile, resting, account, entries>>
\* The terminal dies inside SaveToFile.
DieInInit(id) ==
    /\ ~ea.on /\ starts + 1 < MaxStarts /\ starts' = starts + 1
    /\ \E read \in {mapFile, {}} :
        CanAllocate(read, id) /\ mapFile' \in Torn(Allocate(read, id))
    /\ UNCHANGED <<stateFile, ea, resting, account, entries, given>>

\* What the queue and the flags in memory hold is gone with the program.
Off(e) == [e EXCEPT !.on = FALSE, !.records = {}, !.dirty = FALSE, !.ticks = 0, !.managed = Unmanaged,
                    !.bars = 0, !.queued = {}]

\* CStateStore.Save: the file is deleted unless another program holds it, and written when it opens.
Save(e) ==
    \/ stateFile' = e.records /\ ea' = [e EXCEPT !.dirty = FALSE]
    \/ stateFile' \in {{}, stateFile} /\ ea' = e

OnDeinit ==
    /\ ea.on /\ starts < MaxStarts /\ ea' = Off(ea)
    /\ IF ea.dirty THEN stateFile' \in {ea.records, {}, stateFile} ELSE UNCHANGED stateFile
    /\ UNCHANGED <<mapFile, resting, account, entries, starts, given>>
Die ==
    /\ ea.on /\ starts < MaxStarts /\ ea' = Off(ea)
    /\ UNCHANGED <<mapFile, stateFile, resting, account, entries, starts, given>>

-----------------------------------------------------------------------------
(* The ticket registry and the handlers that use it.                       *)

IsOpen(ticket) == \E p \in account : p.ticket = ticket
HasTicket(records, ticket) == \E r \in records : r.ticket = ticket
\* The record SyncRecords and RegisterOwnPosition build.
Adopted(p) == [ticket |-> p.ticket, strategy |-> ea.id, partialDone |-> FALSE]
Upsert(records, new) == {r \in records : ~HasTicket(new, r.ticket)} \cup new

UnknownAll(records) == {p \in account : p.magic = ea.magic}     \* mutant: known tickets are adopted again
Unknown(records) == {p \in account : p.magic = ea.magic /\ ~HasTicket(records, p.ticket)}

\* SyncRecords: prune what is closed, whoever opened it; adopt what has our magic number.
Pruned(records) == {r \in records : IsOpen(r.ticket)}
Synced(records) == Upsert(Pruned(records), {Adopted(p) : p \in Unknown(records)})
SyncRecords == [ea EXCEPT !.records = Synced(@), !.dirty = @ \/ Synced(ea.records) # ea.records]

\* OnTimer: synchronise; every FlushTicks passes write what has changed.
Ticked(e) == [e EXCEPT !.ticks = (@ + 1) % FlushTicks]
Flushes(e) == e.dirty /\ e.ticks = 0
TimerPass ==
    /\ ea.on
    /\ IF Flushes(Ticked(SyncRecords)) THEN Save(Ticked(SyncRecords))
       ELSE ea' = Ticked(SyncRecords) /\ UNCHANGED stateFile
    /\ UNCHANGED <<mapFile, resting, account, entries, starts, given>>
DieWhileSaving ==
    /\ ea.on /\ starts < MaxStarts /\ Flushes(Ticked(SyncRecords))
    /\ stateFile' \in Torn(SyncRecords.records) /\ ea' = Off(ea)
    /\ UNCHANGED <<mapFile, resting, account, entries, starts, given>>

\* ManageOpenPositions: the earliest record is managed; the bar counter of the position guard starts
\* again with another ticket, and a scale-out disarms it for good.
Disarmed == -1
Earliest(records) == {r \in records : \A s \in records : r.ticket <= s.ticket}
Chosen(e, r) == IF e.managed = r.ticket THEN e ELSE [e EXCEPT !.managed = r.ticket, !.bars = 0]
Reviewed(e) == [e EXCEPT !.bars = IF @ \in {Disarmed, 2} THEN @ ELSE @ + 1]
ScaledOut(p) == [p EXCEPT !.scaled = @ + 1]
Scaled(positions, t) == {IF p.ticket = t THEN ScaledOut(p) ELSE p : p \in positions}
SetDone(e, r) == [e EXCEPT !.records = Upsert(@, {[r EXCEPT !.partialDone = TRUE]}), !.dirty = TRUE]

\* Review asks for a scale-out once, from the second bar on; the flag is set when the close is done
\* at once, and not when it is queued or refused.
ScaleOut(e, r, left) ==
    /\ ~r.partialDone /\ e.bars = 2
    /\ \/ account' = Scaled(left, r.ticket) /\ ea' = SetDone([e EXCEPT !.bars = Disarmed], r)
       \/ /\ \E queue \in {{}, {r.ticket}} : ea' = [e EXCEPT !.bars = Disarmed, !.queued = @ \cup queue]
          /\ account' = left

\* Records past the bar limit are closed, whoever opened them, and not reviewed: of those due, the
\* server closes some, and the rest stays.  Without an ATR the managed one is not reviewed either.
Remaining(closed) == {p \in account : ~HasTicket(closed, p.ticket)}
ManageOpenPositions(e, due, left) ==
    \/ e.records = {} /\ ea' = e /\ account' = left
    \/ \E r \in Earliest(e.records) :
        \/ ea' = Chosen(e, r) /\ account' = left
        \/ r \notin due /\ ea' = Reviewed(Chosen(e, r)) /\ account' = left
        \/ r \notin due /\ ScaleOut(Reviewed(Chosen(e, r)), r, left)
OnNewBar ==
    /\ ea.on
    /\ \E due \in SUBSET SyncRecords.records : \E closed \in SUBSET due :
          ManageOpenPositions(SyncRecords, due, Remaining(closed))
    /\ UNCHANGED <<mapFile, stateFile, resting, entries, starts, given>>

\* ProcessQueue: a queued scale-out is executed, or given up.
QueuedScaleOut ==
    /\ ea.on
    /\ \E t \in ea.queued :
        /\ ea' = [ea EXCEPT !.queued = @ \ {t}]
        /\ account' \in {account, Scaled(account, t)}
    /\ UNCHANGED <<mapFile, stateFile, resting, entries, starts, given>>

\* An entry leaves an order; it is filled at once or later, or cancelled.
PlaceEntry ==
    /\ ea.on /\ entries + Cardinality(resting) < MaxEntries
    /\ resting' = resting \cup {[strategy |-> ea.id, magic |-> ea.magic]}
    /\ UNCHANGED <<mapFile, stateFile, ea, account, entries, starts, given>>
\* OnTradeTransaction registers a fill of its own magic number; nobody does while no program runs.
Filled(o) == [ticket |-> entries + 1, strategy |-> o.strategy, magic |-> o.magic, scaled |-> 0]
Fill ==
    /\ \E o \in resting :
        /\ resting' = resting \ {o} /\ account' = account \cup {Filled(o)} /\ entries' = entries + 1
        /\ ea' = IF ea.on /\ o.magic = ea.magic
                 THEN [ea EXCEPT !.records = @ \cup {Adopted(Filled(o))}, !.dirty = TRUE] ELSE ea
    /\ UNCHANGED <<mapFile, stateFile, starts, given>>
Cancelled ==
    /\ \E o \in resting : resting' = resting \ {o}
    /\ UNCHANGED <<mapFile, stateFile, ea, account, entries, starts, given>>
\* Closed by its stop, its target, by hand or by a rule of another module.
PositionCloses ==
    /\ \E p \in account : account' = account \ {p}
    /\ UNCHANGED <<mapFile, stateFile, ea, resting, entries, starts, given>>

RegNext ==
    \/ \E id \in StrategyIds : OnInit(id) \/ DieInInit(id)
    \/ OnDeinit \/ Die \/ TimerPass \/ DieWhileSaving \/ OnNewBar \/ QueuedScaleOut
    \/ PlaceEntry \/ Fill \/ Cancelled \/ PositionCloses

RegSpec == RegInit /\ [][RegNext]_regVars

-----------------------------------------------------------------------------
(* What must hold.                                                         *)

Own(p) == p.magic = ea.magic

\* USER_GUIDE.md:68 "attribution survives restarts": not when the map did not open for writing, which
\* OnInit does not notice; the next strategy of the same hash is given the same magic number.
AttributionSurvives ==
    /\ ea.on => \A p \in account : Own(p) <=> p.strategy = ea.id
    /\ \A r \in ea.records \cup stateFile, p \in account :
          r.ticket = p.ticket => r.strategy = p.strategy

\* MagicMap and SyncRecords, under any order of strategies, collisions of the hash, restarts and torn
\* or failed writes of either file: whenever the map on file holds every row a program has traded
\* under (again, after a loss), the program that runs sees the positions of its strategy and of no
\* other as its own, and a record, in memory or in the file, names the strategy that entered.
Attribution == given \subseteq mapFile => AttributionSurvives

\* StateStore, SyncRecords and ManageOpenPositions: the flag of a scale-out is never set without one,
\* and a position whose flag is in the file is not scaled out again, whatever stops, adoptions,
\* strategies, queued closes and crashes follow.
SavedFlagHolds ==
    /\ [](\A r \in ea.records \cup stateFile, p \in account :
              r.ticket = p.ticket /\ r.partialDone => p.scaled > 0)
    /\ [][\A r \in stateFile, p \in account, q \in account' :
              r.ticket = p.ticket /\ p.ticket = q.ticket /\ r.partialDone => q.scaled = p.scaled]_regVars

\* PositionGuard.mqh:116 "fires once per position; the persisted partialAlreadyDone flag survives
\* restarts": not when a write is torn or still to come, nor when the queue completes the scale-out.
ScaledOutOnce == \A p \in account : p.scaled <= 1

\* USER_GUIDE.md:66 "The EA touches only positions carrying its own magic": the records of the file
\* are managed whatever strategy they are of.
TouchesOwnOnly ==
    [][\A p \in account, q \in account' : p.ticket = q.ticket /\ p # q => Own(p)]_regVars
=============================================================================
