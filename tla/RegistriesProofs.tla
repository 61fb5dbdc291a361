--------------------------- MODULE RegistriesProofs ---------------------------
(***************************************************************************)
(* Proofs about Registries and, at the end, about SlGuard.                 *)
(*                                                                         *)
(* Registries, for any strategies, any hash of their names into any range, *)
(* and any number of starts, entries, crashes and torn writes.             *)
(* Attribution is not inductive: what makes it so is that the rows of the  *)
(* map are injective, that whatever carries a strategy and a magic number, *)
(* and a record with its position, carries a row given to a program, and   *)
(* that tickets are not used again.                                        *)
(*                                                                         *)
(* FlagInv is the second invariant: a flag in memory or on file stands for *)
(* a position that was scaled out, and memory never knows less than the    *)
(* file does of a record they share.                                       *)
(*                                                                         *)
(* SlGuard, for any bounds with fewer pumps to drop an item than to give   *)
(* up its close: GuardInv ties the phase of an item to its position and to *)
(* the pumps it may have had.                                              *)
(***************************************************************************)
EXTENDS Registries, SlGuard, WellFoundedInduction, TLAPS

EaFields == {"on", "id", "magic", "records", "dirty", "ticks", "managed", "bars", "queued"}
Row(id, magic) == [id |-> id, magic |-> magic]
Records == ea.records \cup stateFile
Carriers == account \cup resting

MapShape == mapFile \subseteq [id : StrategyIds, magic : 0..Span - 1]
MapInjective == \A r, s \in mapFile : r.id = s.id \/ r.magic = s.magic => r = s
RowsKnown ==
    /\ \A c \in Carriers : Row(c.strategy, c.magic) \in given
    /\ ea.on => Row(ea.id, ea.magic) \in given
TicketsUsed ==
    /\ entries \in Nat
    /\ \A p \in account : p.ticket \in 1..entries
    /\ \A r \in Records : r.ticket \in 1..entries
    /\ \A p, q \in account : p.ticket = q.ticket => p = q
RecordsKnown ==
    \A r \in Records, p \in account : r.ticket = p.ticket => Row(r.strategy, p.magic) \in given

RegInv == DOMAIN ea = EaFields /\ MapShape /\ MapInjective /\ RowsKnown /\ TicketsUsed /\ RecordsKnown

LEMMA RegInitInv == RegInit => RegInv
BY DEF RegInit, RegInv, MapShape, MapInjective, RowsKnown, TicketsUsed, RecordsKnown, Records, Carriers,
       Program, EaFields

-----------------------------------------------------------------------------
(* The map.                                                                *)

\* The probe of Allocate ends at a slot nobody holds.
LEMMA ProbeEnds ==
    ASSUME NEW rows, NEW id, FreeSteps(rows, id) # {}
    PROVE  FirstFreeStep(rows, id) \in FreeSteps(rows, id)
<1>1. Span \in Nat \ {0}
  BY MagicAssumption
<1>2. FreeSteps(rows, id) \subseteq Nat
  BY <1>1 DEF FreeSteps
<1>3. PICK R : R = OpToRel(<, Nat)
  OBVIOUS
<1>4. IsWellFoundedOn(R, Nat)
  BY <1>3, NatLessThanWellFounded, Zenon
<1>5. PICK k \in FreeSteps(rows, id) : \A j \in FreeSteps(rows, id) : ~(<<j, k>> \in R)
  BY <1>2, <1>4, WFMin
<1>6. R = {ss \in Nat \X Nat : ss[1] < ss[2]}
  BY <1>3 DEF OpToRel
<1>7. \A j \in Nat : j < k => <<j, k>> \in R
  BY <1>2, <1>6
<1>8. \A j \in FreeSteps(rows, id) : j \in Nat /\ ~(j < k)
  BY <1>2, <1>5, <1>7, Zenon
<1>9. \A j \in FreeSteps(rows, id) : k <= j
  BY <1>2, <1>8
<1> QED BY <1>9 DEF FirstFreeStep

\* Allocate keeps the rows, keeps them injective, and gives the strategy one.
LEMMA AllocateKeeps ==
    ASSUME NEW rows \in SUBSET [id : StrategyIds, magic : 0..Span - 1], NEW id \in StrategyIds,
           \A r, s \in rows : r.id = s.id \/ r.magic = s.magic => r = s, CanAllocate(rows, id)
    PROVE  /\ rows \subseteq Allocate(rows, id)
           /\ Allocate(rows, id) \subseteq [id : StrategyIds, magic : 0..Span - 1]
           /\ \A r, s \in Allocate(rows, id) : r.id = s.id \/ r.magic = s.magic => r = s
<1>1. CASE Get(rows, id) # {}
  BY <1>1 DEF Allocate
<1>2. CASE Get(rows, id) = {}
  <2>1. FirstFreeStep(rows, id) \in FreeSteps(rows, id)
    BY <1>2, ProbeEnds DEF CanAllocate
  <2>2. PICK magic : magic = Probe(id, FirstFreeStep(rows, id))
    OBVIOUS
  <2>3. ~IsTaken(rows, magic)
    BY <2>1, <2>2 DEF FreeSteps
  <2>4. magic \in 0..Span - 1
    BY <2>1, <2>2, MagicAssumption DEF FreeSteps, Probe
  <2>5. Allocate(rows, id) = rows \cup {[id |-> id, magic |-> magic]}
    BY <1>2, <2>2 DEF Allocate
  <2>6. \A r \in rows : r.id # id /\ r.magic # magic
    BY <1>2, <2>3 DEF Get, IsTaken
  <2> QED BY <2>4, <2>5, <2>6
<1> QED BY <1>1, <1>2
-----------------------------------------------------------------------------
(* A step that leaves the map alone: every position, order and record was  *)
(* there, or is adopted by its magic number.                               *)

SameCarrier(c, d) == c.strategy = d.strategy /\ c.magic = d.magic
Carried ==
    /\ mapFile' = mapFile /\ given' = given /\ entries' = entries
    /\ ea'.on => ea.on
    /\ ea'.on => ea'.id = ea.id /\ ea'.magic = ea.magic
    /\ \A q \in account' : \E p \in account : q.ticket = p.ticket /\ SameCarrier(q, p)
    /\ \A p, q \in account' : p.ticket = q.ticket => p = q
    /\ \A o \in resting' : o \in resting \/ (ea.on /\ o.strategy = ea.id /\ o.magic = ea.magic)
RecordsCarried ==
    \A r \in Records' :
        \/ \E s \in Records : r.ticket = s.ticket /\ r.strategy = s.strategy
        \/ \E p \in account : ea.on /\ p.ticket = r.ticket /\ p.magic = ea.magic /\ r.strategy = ea.id

LEMMA StepKeeps ==
    ASSUME RegInv, Carried, RecordsCarried, DOMAIN ea' = EaFields
    PROVE  RegInv'
<1>1. MapShape' /\ MapInjective'
  BY DEF RegInv, Carried, MapShape, MapInjective
<1>2. RowsKnown'
  <2>1. \A c \in Carriers' : Row(c.strategy, c.magic) \in given'
    BY DEF RegInv, RowsKnown, Carriers, Carried, SameCarrier, Row
  <2>2. ASSUME ea'.on PROVE Row(ea'.id, ea'.magic) \in given'
    BY <2>2 DEF RegInv, RowsKnown, Carried, Row
  <2> QED BY <2>1, <2>2 DEF RowsKnown
<1>3. TicketsUsed'
  <2>1. \A p \in account' : p.ticket \in 1..entries'
    BY DEF RegInv, TicketsUsed, Carried
  <2>2. \A r \in Records' : r.ticket \in 1..entries'
    BY DEF RegInv, TicketsUsed, Carried, RecordsCarried
  <2> QED BY <2>1, <2>2 DEF RegInv, TicketsUsed, Carried
<1>4. RecordsKnown'
  <2>1. SUFFICES ASSUME NEW r \in Records', NEW q \in account', r.ticket = q.ticket
                 PROVE  Row(r.strategy, q.magic) \in given'
    BY DEF RecordsKnown
  <2>2. PICK p \in account : q.ticket = p.ticket /\ SameCarrier(q, p)
    BY DEF Carried
  <2>3. CASE \E s \in Records : r.ticket = s.ticket /\ r.strategy = s.strategy
    BY <2>1, <2>2, <2>3 DEF RegInv, RecordsKnown, Carried, SameCarrier
  <2>4. CASE \E a \in account : ea.on /\ a.ticket = r.ticket /\ a.magic = ea.magic /\ r.strategy = ea.id
    <3>1. ea.on /\ p.magic = ea.magic /\ r.strategy = ea.id
      BY <2>1, <2>2, <2>4 DEF RegInv, TicketsUsed
    <3> QED BY <2>2, <3>1 DEF SameCarrier, RegInv, RowsKnown, Carried
  <2> QED BY <2>3, <2>4 DEF RecordsCarried
<1> QED BY <1>1, <1>2, <1>3, <1>4 DEF RegInv

Backed(r) ==
    \/ \E s \in Records : r.ticket = s.ticket /\ r.strategy = s.strategy
    \/ \E p \in account : ea.on /\ p.ticket = r.ticket /\ p.magic = ea.magic /\ r.strategy = ea.id
\* What a handler may have made of the program so far.
Later(e) == /\ DOMAIN e = EaFields /\ e.on = ea.on /\ e.id = ea.id /\ e.magic = ea.magic
            /\ \A r \in e.records : Backed(r)

LEMMA SyncIsLater ==
    ASSUME RegInv, ea.on
    PROVE  Later(SyncRecords)
<1>1. DOMAIN ea = EaFields
  BY DEF RegInv
<1>2. PICK dirty : SyncRecords = [ea EXCEPT !.records = Synced(ea.records), !.dirty = dirty]
  BY DEF SyncRecords
<1>3. /\ DOMAIN SyncRecords = EaFields /\ SyncRecords.on = ea.on /\ SyncRecords.id = ea.id
      /\ SyncRecords.magic = ea.magic /\ SyncRecords.records = Synced(ea.records)
  BY <1>1, <1>2 DEF EaFields
<1>4. \A r \in Synced(ea.records) : Backed(r)
  BY DEF Synced, Upsert, Pruned, Unknown, Adopted, Backed, Records
<1> QED BY <1>3, <1>4 DEF Later

LEMMA TickedIsLater ==
    ASSUME NEW e, Later(e)
    PROVE  Later(Ticked(e)) /\ Ticked(e).records = e.records
BY DEF Later, Ticked, EaFields

LEMMA OffIsLater ==
    ASSUME NEW e, Later(e)
    PROVE  DOMAIN Off(e) = EaFields /\ ~Off(e).on /\ Off(e).records = {}
BY DEF Later, Off, EaFields

LEMMA HereIsLater ==
    ASSUME RegInv
    PROVE  Later(ea)
BY DEF RegInv, Later, Backed, Records

\* The map, the orders and the positions rest.
LEMMA OnlyTheProgram ==
    ASSUME RegInv, UNCHANGED <<mapFile, resting, account, entries, given>>,
           DOMAIN ea' = EaFields, ea'.on => ea.on /\ ea'.id = ea.id /\ ea'.magic = ea.magic,
           \A r \in Records' : Backed(r)
    PROVE  RegInv'
<1>1. mapFile' = mapFile /\ given' = given /\ entries' = entries /\ account' = account /\ resting' = resting
  OBVIOUS
<1>2. \A p, q \in account : p.ticket = q.ticket => p = q
  BY DEF RegInv, TicketsUsed
<1>3. \A q \in account' : \E p \in account : q.ticket = p.ticket /\ SameCarrier(q, p)
  BY <1>1 DEF SameCarrier
<1>4. /\ \A p, q \in account' : p.ticket = q.ticket => p = q
      /\ \A o \in resting' : o \in resting \/ (ea.on /\ o.strategy = ea.id /\ o.magic = ea.magic)
  BY <1>1, <1>2
<1>5. /\ ea'.on => ea.on
      /\ ea'.on => ea'.id = ea.id /\ ea'.magic = ea.magic
  OBVIOUS
<1>6. Carried
  BY <1>1, <1>3, <1>4, <1>5 DEF Carried
<1>7. RecordsCarried
  BY DEF RecordsCarried, Backed
<1> QED BY <1>6, <1>7, StepKeeps

LEMMA StopKeeps ==
    ASSUME RegInv, OnDeinit \/ Die \/ DieWhileSaving
    PROVE  RegInv'
<1>1. CASE OnDeinit \/ Die
  <2>1. ea' = Off(ea) /\ UNCHANGED <<mapFile, resting, account, entries, given>>
    BY <1>1 DEF OnDeinit, Die
  <2>2. stateFile' \subseteq Records
    BY <1>1 DEF OnDeinit, Die, Records
  <2>3. DOMAIN ea' = EaFields /\ ~ea'.on /\ ea'.records = {}
    BY <2>1, HereIsLater, OffIsLater
  <2>4. \A r \in Records' : Backed(r)
    BY <2>2, <2>3 DEF Records, Backed
  <2> QED BY <2>1, <2>3, <2>4, OnlyTheProgram
<1>2. CASE DieWhileSaving
  <2>1. ea' = Off(ea) /\ UNCHANGED <<mapFile, resting, account, entries, given>>
    BY <1>2 DEF DieWhileSaving
  <2>2. \A r \in stateFile' : Backed(r)
    BY <1>2, SyncIsLater DEF DieWhileSaving, Torn, Later
  <2>3. DOMAIN ea' = EaFields /\ ~ea'.on /\ ea'.records = {}
    BY <2>1, HereIsLater, OffIsLater
  <2>4. \A r \in Records' : Backed(r)
    BY <2>2, <2>3 DEF Records
  <2> QED BY <2>1, <2>3, <2>4, OnlyTheProgram
<1> QED BY <1>1, <1>2

LEMMA TimerKeeps ==
    ASSUME RegInv, TimerPass
    PROVE  RegInv'
<1>1. PICK e : e = Ticked(SyncRecords)
  OBVIOUS
<1>2. Later(e)
  BY <1>1, SyncIsLater, TickedIsLater DEF TimerPass
<1>3. UNCHANGED <<mapFile, resting, account, entries, given>>
  BY DEF TimerPass
<1>4. Save(e) \/ (ea' = e /\ UNCHANGED stateFile)
  BY <1>1 DEF TimerPass
<1>5. /\ DOMAIN ea' = EaFields /\ ea'.on = e.on /\ ea'.id = e.id /\ ea'.magic = e.magic
      /\ ea'.records = e.records /\ (stateFile' \subseteq e.records \/ stateFile' = stateFile)
  BY <1>2, <1>4 DEF Later, Save, EaFields
<1>6. \A r \in Records' : Backed(r)
  BY <1>2, <1>5 DEF Later, Records, Backed
<1> QED BY <1>2, <1>3, <1>5, <1>6, OnlyTheProgram DEF Later

\* What a handler may do to the positions: close some, scale one out.
Handled == \E left \in SUBSET account : \E t : account' \in {left, Scaled(left, t)}

\* A handler of the running program: the map and the orders rest, positions are closed or scaled out.
LEMMA ProgramActs ==
    ASSUME RegInv, UNCHANGED <<mapFile, stateFile, resting, entries, given>>, Later(ea'), Handled
    PROVE  RegInv'
<1>1. /\ \A q \in account' : \E p \in account : q.ticket = p.ticket /\ SameCarrier(q, p)
      /\ \A p, q \in account' : p.ticket = q.ticket => p = q
  <2>1. PICK left \in SUBSET account : \E t : account' = left \/ account' = Scaled(left, t)
    BY DEF Handled
  <2>2. CASE account' = left
    BY <2>1, <2>2 DEF SameCarrier, RegInv, TicketsUsed
  <2>3. ASSUME NEW t, account' = Scaled(left, t)
        PROVE  /\ \A q \in account' : \E p \in account : q.ticket = p.ticket /\ SameCarrier(q, p)
               /\ \A p, q \in account' : p.ticket = q.ticket => p = q
    <3>1. \A p \in account : ScaledOut(p).ticket = p.ticket /\ SameCarrier(ScaledOut(p), p)
      BY DEF SameCarrier, ScaledOut
    <3>2. \A q \in account' : \E p \in account : /\ q = (IF p.ticket = t THEN ScaledOut(p) ELSE p)
                                                 /\ q.ticket = p.ticket /\ SameCarrier(q, p)
      BY <2>1, <2>3, <3>1 DEF SameCarrier, Scaled
    <3>3. \A p, q \in account : p.ticket = q.ticket => p = q
      BY DEF RegInv, TicketsUsed
    <3> QED BY <3>2, <3>3
  <2> QED BY <2>1, <2>2, <2>3
<1>2. Carried
  <2>1. \A o \in resting' : o \in resting \/ (ea.on /\ o.strategy = ea.id /\ o.magic = ea.magic)
    OBVIOUS
  <2>2. /\ ea'.on => ea.on
        /\ ea'.on => ea'.id = ea.id /\ ea'.magic = ea.magic
    BY DEF Later
  <2> QED BY <1>1, <2>1, <2>2 DEF Carried
<1>3. \A r \in Records' : Backed(r)
  BY DEF Records, Later, Backed
<1>4. RecordsCarried
  BY <1>3 DEF RecordsCarried, Backed
<1> QED BY <1>2, <1>4, StepKeeps DEF Later

LEMMA ChosenIsLater ==
    ASSUME NEW e, Later(e), NEW r
    PROVE  Later(Chosen(e, r)) /\ Chosen(e, r).records = e.records
<1>1. CASE e.managed = r.ticket
  BY <1>1 DEF Chosen
<1>2. CASE e.managed # r.ticket
  BY <1>2 DEF Chosen, Later, EaFields
<1> QED BY <1>1, <1>2

LEMMA ReviewedIsLater ==
    ASSUME NEW e, Later(e)
    PROVE  Later(Reviewed(e)) /\ Reviewed(e).records = e.records
<1>1. PICK bars : Reviewed(e) = [e EXCEPT !.bars = bars]
  BY DEF Reviewed
<1> QED BY <1>1 DEF Later, EaFields

LEMMA ScaleOutIsLater ==
    ASSUME NEW e, Later(e), NEW r, r \in e.records, NEW left, ScaleOut(e, r, left)
    PROVE  Later(ea') /\ account' \in {left, Scaled(left, r.ticket)}
<1>1. CASE account' = Scaled(left, r.ticket) /\ ea' = SetDone([e EXCEPT !.bars = Disarmed], r)
  <2>1. PICK new : new = [r EXCEPT !.partialDone = TRUE]
    OBVIOUS
  <2>2. new.ticket = r.ticket /\ new.strategy = r.strategy
    BY <2>1
  <2>3. Backed(new)
    BY <2>2 DEF Later, Backed
  <2>4. ea' = [e EXCEPT !.bars = Disarmed, !.records = Upsert(e.records, {new}), !.dirty = TRUE]
    BY <1>1, <2>1 DEF SetDone, Later, EaFields
  <2>5. \A s \in Upsert(e.records, {new}) : Backed(s)
    BY <2>3 DEF Upsert, Later
  <2>6. Later(ea')
    BY <2>4, <2>5 DEF Later, EaFields
  <2> QED BY <1>1, <2>6
<1>2. CASE /\ \E queue \in {{}, {r.ticket}} : ea' = [e EXCEPT !.bars = Disarmed, !.queued = @ \cup queue]
           /\ account' = left
  <2>1. PICK queued : ea' = [e EXCEPT !.bars = Disarmed, !.queued = queued]
    BY <1>2
  <2> QED BY <1>2, <2>1 DEF Later, EaFields
<1> QED BY <1>1, <1>2 DEF ScaleOut

LEMMA BarKeeps ==
    ASSUME RegInv, OnNewBar
    PROVE  RegInv'
<1>1. PICK e : e = SyncRecords
  OBVIOUS
<1>2. Later(e)
  BY <1>1, SyncIsLater DEF OnNewBar
<1>3. UNCHANGED <<mapFile, stateFile, resting, entries, given>>
  BY DEF OnNewBar
<1>4. PICK due \in SUBSET e.records : \E shut \in SUBSET due :
        ManageOpenPositions(e, due, Remaining(shut))
  BY <1>1 DEF OnNewBar
<1>5. PICK left \in SUBSET account : ManageOpenPositions(e, due, left)
  BY <1>4 DEF Remaining
<1>6. CASE e.records = {} /\ ea' = e /\ account' = left
  BY <1>2, <1>3, <1>6, ProgramActs DEF Handled
<1>7. ASSUME NEW r \in e.records,
             \/ ea' = Chosen(e, r) /\ account' = left
             \/ ea' = Reviewed(Chosen(e, r)) /\ account' = left
             \/ ScaleOut(Reviewed(Chosen(e, r)), r, left)
      PROVE  RegInv'
  <2>1. PICK f : f = Chosen(e, r)
    OBVIOUS
  <2>2. PICK g : g = Reviewed(f)
    OBVIOUS
  <2>3. Later(f) /\ f.records = e.records
    BY <1>2, <2>1, ChosenIsLater
  <2>4. Later(g) /\ g.records = e.records
    BY <2>2, <2>3, ReviewedIsLater
  <2>5. CASE (ea' = f \/ ea' = g) /\ account' = left
    BY <1>3, <2>3, <2>4, <2>5, ProgramActs DEF Handled
  <2>6. CASE ScaleOut(g, r, left)
    <3>1. Later(ea') /\ account' \in {left, Scaled(left, r.ticket)}
      BY <1>7, <2>4, <2>6, ScaleOutIsLater
    <3> QED BY <1>3, <3>1, ProgramActs DEF Handled
  <2> QED BY <1>7, <2>1, <2>2, <2>5, <2>6
<1> QED BY <1>5, <1>6, <1>7 DEF ManageOpenPositions, Earliest

LEMMA QueuedKeeps ==
    ASSUME RegInv, QueuedScaleOut
    PROVE  RegInv'
<1>1. PICK t \in ea.queued : /\ ea' = [ea EXCEPT !.queued = @ \ {t}]
                            /\ account' \in {account, Scaled(account, t)}
  BY DEF QueuedScaleOut
<1>2. PICK queued : ea' = [ea EXCEPT !.queued = queued]
  BY <1>1
<1>3. Later(ea')
  BY <1>2, HereIsLater DEF Later, EaFields
<1>4. Handled
  BY <1>1 DEF Handled
<1> QED BY <1>3, <1>4, ProgramActs DEF QueuedScaleOut

LEMMA OrdersKeep ==
    ASSUME RegInv, PlaceEntry \/ Cancelled \/ PositionCloses
    PROVE  RegInv'
<1>1. Carried
  <2>1. /\ mapFile' = mapFile /\ given' = given /\ entries' = entries /\ ea' = ea
        /\ \A o \in resting' : o \in resting \/ (ea.on /\ o.strategy = ea.id /\ o.magic = ea.magic)
        /\ account' \subseteq account
    BY DEF PlaceEntry, Cancelled, PositionCloses
  <2>2. /\ \A q \in account' : \E p \in account : q.ticket = p.ticket /\ SameCarrier(q, p)
        /\ \A p, q \in account' : p.ticket = q.ticket => p = q
    BY <2>1 DEF SameCarrier, RegInv, TicketsUsed
  <2> QED BY <2>1, <2>2 DEF Carried
<1>2. RecordsCarried /\ DOMAIN ea' = EaFields
  BY DEF PlaceEntry, Cancelled, PositionCloses, RecordsCarried, Records, RegInv
<1> QED BY <1>1, <1>2, StepKeeps

\* The new position has a ticket of its own, and the row of its order.
LEMMA FillKeeps ==
    ASSUME RegInv, Fill
    PROVE  RegInv'
<1>1. PICK o \in resting :
        /\ resting' = resting \ {o} /\ account' = account \cup {Filled(o)} /\ entries' = entries + 1
        /\ ea' = IF ea.on /\ o.magic = ea.magic
                 THEN [ea EXCEPT !.records = @ \cup {Adopted(Filled(o))}, !.dirty = TRUE] ELSE ea
  BY DEF Fill
<1>2. PICK new : new = Filled(o)
  OBVIOUS
<1>3. new.ticket = entries + 1 /\ new.strategy = o.strategy /\ new.magic = o.magic
  BY <1>2 DEF Filled
<1>4. UNCHANGED <<mapFile, stateFile, given>> /\ DOMAIN ea = EaFields
  BY DEF Fill, RegInv
<1>5. /\ DOMAIN ea' = EaFields /\ ea'.on = ea.on /\ ea'.id = ea.id /\ ea'.magic = ea.magic
      /\ \A r \in ea'.records : \/ r \in ea.records
                              \/ /\ ea.on /\ o.magic = ea.magic
                                 /\ r.ticket = new.ticket /\ r.strategy = ea.id
  <2>1. CASE ea.on /\ o.magic = ea.magic
    <3>1. PICK r : r = Adopted(new)
      OBVIOUS
    <3>2. r.ticket = new.ticket /\ r.strategy = ea.id
      BY <3>1 DEF Adopted
    <3>3. ea' = [ea EXCEPT !.records = ea.records \cup {r}, !.dirty = TRUE]
      BY <1>1, <1>2, <2>1, <3>1
    <3> QED BY <1>4, <2>1, <3>2, <3>3 DEF EaFields
  <2>2. CASE ~(ea.on /\ o.magic = ea.magic)
    BY <1>1, <1>4, <2>2
  <2> QED BY <2>1, <2>2
<1>6. MapShape' /\ MapInjective'
  BY <1>4 DEF RegInv, MapShape, MapInjective
<1>7. RowsKnown'
  <2>1. \A c \in Carriers' : Row(c.strategy, c.magic) \in given'
    BY <1>1, <1>2, <1>3, <1>4 DEF RegInv, RowsKnown, Carriers
  <2>2. ASSUME ea'.on PROVE Row(ea'.id, ea'.magic) \in given'
    BY <1>4, <1>5, <2>2 DEF RegInv, RowsKnown
  <2> QED BY <2>1, <2>2 DEF RowsKnown
<1>8. TicketsUsed'
  <2>1. entries \in Nat /\ \A p \in account : p.ticket \in 1..entries
    BY DEF RegInv, TicketsUsed
  <2>2. \A r \in Records : r.ticket \in 1..entries
    BY DEF RegInv, TicketsUsed
  <2>3. \A p \in account' : p.ticket \in 1..entries'
    BY <1>1, <1>2, <1>3, <2>1
  <2>4. \A r \in Records' : r.ticket \in 1..entries'
    BY <1>1, <1>3, <1>4, <1>5, <2>1, <2>2 DEF Records
  <2>5. \A p, q \in account' : p.ticket = q.ticket => p = q
    BY <1>1, <1>2, <1>3, <2>1 DEF RegInv, TicketsUsed
  <2> QED BY <1>1, <2>1, <2>3, <2>4, <2>5 DEF TicketsUsed
<1>9. RecordsKnown'
  <2>1. SUFFICES ASSUME NEW r \in Records', NEW p \in account', r.ticket = p.ticket
                 PROVE  Row(r.strategy, p.magic) \in given'
    BY DEF RecordsKnown
  <2>2. CASE r \in Records /\ p \in account
    BY <1>4, <2>1, <2>2 DEF RegInv, RecordsKnown
  <2>3. CASE r \in Records /\ p = new
    BY <1>3, <2>1, <2>3 DEF RegInv, TicketsUsed
  <2>4. CASE ea.on /\ o.magic = ea.magic /\ r.ticket = new.ticket /\ r.strategy = ea.id
    <3>1. p = new
      <4>1. entries \in Nat /\ \A q \in account : q.ticket \in 1..entries
        BY DEF RegInv, TicketsUsed
      <4>2. p.ticket = entries + 1
        BY <1>3, <2>1, <2>4
      <4>3. p \notin account
        BY <4>1, <4>2
      <4> QED BY <1>1, <1>2, <2>1, <4>3
    <3>2. Row(ea.id, ea.magic) \in given
      BY <2>4 DEF RegInv, RowsKnown
    <3> QED BY <1>3, <1>4, <2>4, <3>1, <3>2
  <2> QED BY <1>1, <1>2, <1>4, <1>5, <2>1, <2>2, <2>3, <2>4 DEF Records
<1> QED BY <1>5, <1>6, <1>7, <1>8, <1>9 DEF RegInv

\* The map is read (or not), extended and written (or torn, or not); no position or record changes
\* its owner, and the program that starts has a row given to it.
LEMMA MapStep ==
    ASSUME RegInv, UNCHANGED <<stateFile, resting, account, entries>>, DOMAIN ea' = EaFields,
           NEW rows \in SUBSET [id : StrategyIds, magic : 0..Span - 1],
           \A r, s \in rows : r.id = s.id \/ r.magic = s.magic => r = s,
           mapFile' \subseteq rows \/ mapFile' = mapFile, given \subseteq given',
           ea'.records \subseteq Records, ea'.on => Row(ea'.id, ea'.magic) \in given'
    PROVE  RegInv'
<1>1. MapShape' /\ MapInjective'
  BY DEF RegInv, MapShape, MapInjective
<1>2. RowsKnown'
  BY DEF RegInv, RowsKnown, Carriers
<1>3. Records' \subseteq Records
  BY DEF Records
<1>4. TicketsUsed' /\ RecordsKnown'
  BY <1>3 DEF RegInv, TicketsUsed, RecordsKnown
<1> QED BY <1>1, <1>2, <1>4 DEF RegInv

LEMMA InitKeeps ==
    ASSUME RegInv, NEW id \in StrategyIds, OnInit(id) \/ DieInInit(id)
    PROVE  RegInv'
<1>1. ASSUME NEW read \in {mapFile, {}}, CanAllocate(read, id)
      PROVE  /\ Allocate(read, id) \in SUBSET [id : StrategyIds, magic : 0..Span - 1]
             /\ \A r, s \in Allocate(read, id) : r.id = s.id \/ r.magic = s.magic => r = s
  <2>1. /\ read \in SUBSET [id : StrategyIds, magic : 0..Span - 1]
        /\ \A r, s \in read : r.id = s.id \/ r.magic = s.magic => r = s
    BY DEF RegInv, MapShape, MapInjective
  <2> QED BY <1>1, <2>1, AllocateKeeps
<1>2. CASE OnInit(id)
  <2>1. PICK read \in {mapFile, {}} :
          /\ CanAllocate(read, id) /\ mapFile' \in Saved(Allocate(read, id))
          /\ \E row \in Allocate(read, id) :
              /\ row.id = id /\ given' = given \cup {row}
              /\ ea' = [Program EXCEPT !.on = TRUE, !.id = id, !.magic = row.magic, !.records = stateFile]
    BY <1>2 DEF OnInit
  <2>2. PICK rows : rows = Allocate(read, id)
    OBVIOUS
  <2>3. /\ rows \in SUBSET [id : StrategyIds, magic : 0..Span - 1]
        /\ \A r, s \in rows : r.id = s.id \/ r.magic = s.magic => r = s
    BY <1>1, <2>1, <2>2
  <2>4. PICK row \in rows :
          /\ row.id = id /\ given' = given \cup {row}
          /\ ea' = [Program EXCEPT !.on = TRUE, !.id = id, !.magic = row.magic, !.records = stateFile]
    BY <2>1, <2>2
  <2>5. /\ DOMAIN ea' = EaFields /\ ea'.id = row.id /\ ea'.magic = row.magic /\ ea'.records = stateFile
    BY <2>4 DEF Program, EaFields
  <2>6. Row(ea'.id, ea'.magic) = row
    BY <2>3, <2>5 DEF Row
  <2>7. mapFile' \subseteq rows \/ mapFile' = mapFile
    BY <2>1, <2>2 DEF Saved
  <2>8. given \subseteq given' /\ Row(ea'.id, ea'.magic) \in given' /\ ea'.records \subseteq Records
    BY <2>4, <2>5, <2>6 DEF Records
  <2>9. UNCHANGED <<stateFile, resting, account, entries>>
    BY <1>2 DEF OnInit
  <2> QED BY <2>3, <2>5, <2>7, <2>8, <2>9, MapStep
<1>3. CASE DieInInit(id)
  <2>1. PICK read \in {mapFile, {}} : CanAllocate(read, id) /\ mapFile' \in Torn(Allocate(read, id))
    BY <1>3 DEF DieInInit
  <2>2. PICK rows : rows = Allocate(read, id)
    OBVIOUS
  <2>3. /\ rows \in SUBSET [id : StrategyIds, magic : 0..Span - 1]
        /\ \A r, s \in rows : r.id = s.id \/ r.magic = s.magic => r = s
    BY <1>1, <2>1, <2>2
  <2>4. mapFile' \subseteq rows /\ given' = given /\ ea' = ea /\ ~ea.on
    BY <1>3, <2>1, <2>2 DEF DieInInit, Torn
  <2>5. UNCHANGED <<stateFile, resting, account, entries>>
    BY <1>3 DEF DieInInit
  <2> QED BY <2>3, <2>4, <2>5, MapStep DEF Records, RegInv
<1> QED BY <1>2, <1>3

LEMMA RegNextInv ==
    ASSUME RegInv, [RegNext]_regVars
    PROVE  RegInv'
<1>1. CASE UNCHANGED regVars
  BY <1>1 DEF regVars, RegInv, MapShape, MapInjective, RowsKnown, TicketsUsed, RecordsKnown, Records, Carriers
<1>2. CASE RegNext
  BY <1>2, InitKeeps, StopKeeps, TimerKeeps, BarKeeps, QueuedKeeps, OrdersKeep, FillKeeps DEF RegNext
<1> QED BY <1>1, <1>2

LEMMA InvAttributes == RegInv => Attribution
<1>1. SUFFICES ASSUME RegInv, given \subseteq mapFile PROVE
        /\ ea.on => \A p \in account : Own(p) <=> p.strategy = ea.id
        /\ \A r \in Records, p \in account : r.ticket = p.ticket => r.strategy = p.strategy
  BY DEF Attribution, AttributionSurvives, Records
<1>2. \A p \in account : Row(p.strategy, p.magic) \in mapFile
  BY <1>1 DEF RegInv, RowsKnown, Carriers
<1>3. ASSUME ea.on, NEW p \in account PROVE Own(p) <=> p.strategy = ea.id
  <2>1. Row(ea.id, ea.magic) \in mapFile
    BY <1>1, <1>3 DEF RegInv, RowsKnown
  <2>2. p.magic = ea.magic <=> p.strategy = ea.id
    BY <1>1, <1>2, <2>1 DEF RegInv, MapInjective, Row
  <2> QED BY <2>2 DEF Own
<1>4. ASSUME NEW r \in Records, NEW p \in account, r.ticket = p.ticket PROVE r.strategy = p.strategy
  <2>1. Row(r.strategy, p.magic) \in mapFile
    BY <1>1, <1>4 DEF RegInv, RecordsKnown
  <2> QED BY <1>1, <1>2, <2>1 DEF RegInv, MapInjective, Row
<1> QED BY <1>3, <1>4

\* MagicMap, StateStore and the handlers that use them: for every hash and every history of starts,
\* strategies, fills, crashes, torn writes and writes that failed unnoticed, whenever the map on
\* file holds every row a program has traded under, a running program takes the positions of its
\* strategy, and of no other, for its own, and every record names the strategy that entered.
THEOREM Attributed == RegSpec => []Attribution
<1>1. RegSpec => []RegInv
  BY RegInitInv, RegNextInv, PTL DEF RegSpec
<1> QED BY <1>1, InvAttributes, PTL

-----------------------------------------------------------------------------
(* The flag of the scale-out.  A queued scale-out may be executed any time,*)
(* so no flag may be set for its position meanwhile: the program manages   *)
(* the earliest of its positions and no other, and has disarmed the guard  *)
(* for it.  The invariant is stated of a program, the file and the         *)
(* positions, because a handler changes these one after the other.         *)

PositionFields == {"ticket", "strategy", "magic", "scaled"}
RecordFields == {"ticket", "strategy", "partialDone"}

Unique(records) == \A r, s \in records : r.ticket = s.ticket => r = s
OpenIn(positions, t) == \E p \in positions : p.ticket = t
\* A flag stands for a scale-out.
FlagEarned(records, positions) ==
    \A r \in records, p \in positions : r.ticket = p.ticket /\ r.partialDone => p.scaled > 0
\* What the file says is done, the program that has read it knows.
FileKnown(e, file, positions) ==
    \A r \in file : r.partialDone /\ OpenIn(positions, r.ticket) =>
        \E s \in e.records : s.ticket = r.ticket /\ s.partialDone
\* Of the position with ticket t there is a queued scale-out.
Waiting(e, positions, t) ==
    /\ e.managed = t /\ e.bars = Disarmed /\ HasTicket(e.records, t)
    /\ \A p \in positions : p.ticket < t => p.magic # e.magic /\ ~HasTicket(e.records, p.ticket)
QueuedApart(e, file, positions) ==
    /\ \A t \in e.queued, r \in e.records \cup file : r.ticket = t => ~r.partialDone
    /\ \A t \in e.queued : OpenIn(positions, t) => Waiting(e, positions, t)
Numbered(e, file, positions, n) ==
    /\ n \in Nat
    /\ \A p \in positions :
            DOMAIN p = PositionFields /\ p.ticket \in 1..n /\ p.scaled \in Nat
    /\ \A p, q \in positions : p.ticket = q.ticket => p = q
    /\ \A r \in e.records \cup file : DOMAIN r = RecordFields /\ r.ticket \in 1..n
    /\ \A t \in e.queued : t \in 1..n

Flagged(e, file, positions, n) ==
    /\ DOMAIN e = EaFields
    /\ Numbered(e, file, positions, n)
    /\ Unique(e.records) /\ Unique(file)
    /\ FlagEarned(e.records \cup file, positions)
    /\ e.on => FileKnown(e, file, positions)
    /\ QueuedApart(e, file, positions)
    /\ ~e.on => e.records = {} /\ e.queued = {}

FlagInv == Flagged(ea, stateFile, account, entries)

\* After SyncRecords.
Tidy(e, positions) ==
    /\ \A r \in e.records : OpenIn(positions, r.ticket)
    /\ \A p \in positions : p.magic = e.magic => HasTicket(e.records, p.ticket)

-----------------------------------------------------------------------------
(* What keeps the invariant                                                 *)

LEMMA FlaggedClose ==
    ASSUME NEW e, NEW file, NEW P, NEW n, Flagged(e, file, P, n), NEW Q \in SUBSET P
    PROVE  Flagged(e, file, Q, n)
<1>1. \A t : OpenIn(Q, t) => OpenIn(P, t)
  BY DEF OpenIn
<1>2. FileKnown(e, file, P) => FileKnown(e, file, Q)
  BY <1>1 DEF FileKnown
<1>3. QueuedApart(e, file, Q)
  BY <1>1 DEF Flagged, QueuedApart, Waiting
<1>4. Numbered(e, file, Q, n) /\ FlagEarned(e.records \cup file, Q)
  BY DEF Flagged, Numbered, FlagEarned
<1> QED BY <1>2, <1>3, <1>4 DEF Flagged

LEMMA ScaledPositions ==
    ASSUME NEW P, \A p \in P : DOMAIN p = PositionFields /\ p.scaled \in Nat, NEW t
    PROVE  \A q \in Scaled(P, t) : \E p \in P :
                /\ DOMAIN q = PositionFields
                /\ q.ticket = p.ticket /\ q.magic = p.magic
                /\ q.scaled = IF p.ticket = t THEN p.scaled + 1 ELSE p.scaled
                /\ q = IF p.ticket = t THEN ScaledOut(p) ELSE p
<1>1. \A p \in P : /\ DOMAIN ScaledOut(p) = PositionFields
                   /\ ScaledOut(p).ticket = p.ticket /\ ScaledOut(p).magic = p.magic
                   /\ ScaledOut(p).scaled = p.scaled + 1
  BY DEF ScaledOut, PositionFields
<1>2. ASSUME NEW q \in Scaled(P, t)
      PROVE  \E p \in P : q = IF p.ticket = t THEN ScaledOut(p) ELSE p
  BY DEF Scaled
<1> QED BY <1>1, <1>2

\* A scale-out at the server, whoever asked for it.
LEMMA FlaggedScale ==
    ASSUME NEW e, NEW file, NEW P, NEW n, Flagged(e, file, P, n), NEW t
    PROVE  Flagged(e, file, Scaled(P, t), n)
<1> DEFINE Q == Scaled(P, t)
<1>0. /\ \A p \in P : DOMAIN p = PositionFields /\ p.scaled \in Nat /\ p.ticket \in 1..n
      /\ \A p, q \in P : p.ticket = q.ticket => p = q
  BY DEF Flagged, Numbered
<1>1. \A q \in Q : \E p \in P :
                /\ DOMAIN q = PositionFields
                /\ q.ticket = p.ticket /\ q.magic = p.magic
                /\ q.scaled = IF p.ticket = t THEN p.scaled + 1 ELSE p.scaled
                /\ q = IF p.ticket = t THEN ScaledOut(p) ELSE p
  BY <1>0, ScaledPositions
<1> HIDE DEF Q
<1>2. \A q \in Q : \E p \in P : /\ DOMAIN q = PositionFields
                                /\ q.ticket = p.ticket /\ q.magic = p.magic
                                /\ q.scaled \in Nat /\ q.scaled >= p.scaled
  BY <1>0, <1>1
<1>3. \A u : OpenIn(Q, u) => OpenIn(P, u)
  BY <1>2 DEF OpenIn
<1>4. Numbered(e, file, Q, n)
  <2>1. \A p, q \in Q : p.ticket = q.ticket => p = q
    BY <1>0, <1>1
  <2>2. \A q \in Q : DOMAIN q = PositionFields /\ q.ticket \in 1..n /\ q.scaled \in Nat
    BY <1>0, <1>2
  <2> QED BY <2>1, <2>2 DEF Flagged, Numbered
<1>5. FlagEarned(e.records \cup file, Q)
  <2>1. SUFFICES ASSUME NEW r \in e.records \cup file, NEW q \in Q, r.ticket = q.ticket,
                        r.partialDone
                 PROVE  q.scaled > 0
    BY DEF FlagEarned
  <2>2. PICK p \in P : q.ticket = p.ticket /\ q.scaled \in Nat /\ q.scaled >= p.scaled
    BY <1>2
  <2>3. p.scaled > 0 /\ p.scaled \in Nat
    BY <1>0, <2>1, <2>2 DEF Flagged, FlagEarned
  <2> QED BY <2>2, <2>3
<1>6. FileKnown(e, file, P) => FileKnown(e, file, Q)
  BY <1>3 DEF FileKnown
<1>7. QueuedApart(e, file, Q)
  <2>1. ASSUME NEW u, Waiting(e, P, u) PROVE Waiting(e, Q, u)
    BY <1>2, <2>1 DEF Waiting
  <2> QED BY <1>3, <2>1 DEF Flagged, QueuedApart
<1> QED BY <1>4, <1>5, <1>6, <1>7 DEF Flagged, Q

\* What a handler does to the rest of the program; it may take operations from
\* the queue.
LEMMA FlaggedSame ==
    ASSUME NEW e, NEW file, NEW P, NEW n, Flagged(e, file, P, n),
           NEW d, DOMAIN d = EaFields, d.on = e.on, d.records = e.records,
           d.magic = e.magic, d.queued \subseteq e.queued,
           \A t \in d.queued : OpenIn(P, t) => d.managed = e.managed /\ d.bars = e.bars
    PROVE  Flagged(d, file, P, n)
<1>1. \A t \in d.queued : OpenIn(P, t) => Waiting(d, P, t)
  BY DEF Flagged, QueuedApart, Waiting
<1>2. QueuedApart(d, file, P)
  BY <1>1 DEF Flagged, QueuedApart
<1>3. Numbered(d, file, P, n) /\ (FileKnown(e, file, P) => FileKnown(d, file, P))
  BY DEF Flagged, Numbered, FileKnown
<1> QED BY <1>2, <1>3 DEF Flagged

\* The file becomes what the program has, or part of it.
LEMMA FlaggedSave ==
    ASSUME NEW e, NEW file, NEW P, NEW n, Flagged(e, file, P, n), NEW f \in SUBSET e.records
    PROVE  Flagged(e, f, P, n)
<1>1. FileKnown(e, f, P)
  BY DEF FileKnown
<1>2. Numbered(e, f, P, n) /\ Unique(f) /\ FlagEarned(e.records \cup f, P)
  BY DEF Flagged, Numbered, Unique, FlagEarned
<1>3. QueuedApart(e, f, P)
  BY DEF Flagged, QueuedApart
<1> QED BY <1>1, <1>2, <1>3 DEF Flagged

\* The program ends.
LEMMA FlaggedOff ==
    ASSUME NEW e, NEW file, NEW P, NEW n, Flagged(e, file, P, n), NEW d, DOMAIN d = EaFields
    PROVE  Flagged(Off(d), file, P, n)
<1>1. /\ DOMAIN Off(d) = EaFields /\ ~Off(d).on /\ Off(d).records = {} /\ Off(d).queued = {}
  BY DEF Off, EaFields
<1>2. Numbered(Off(d), file, P, n) /\ QueuedApart(Off(d), file, P)
  BY <1>1 DEF Flagged, Numbered, QueuedApart
<1>3. FlagEarned(Off(d).records \cup file, P) /\ Unique(Off(d).records)
  BY <1>1 DEF Flagged, FlagEarned, Unique
<1> QED BY <1>1, <1>2, <1>3 DEF Flagged

\* SyncRecords forgets what is closed and adopts, without the flag, what it
\* does not know: nothing that the file says is done.
LEMMA FlaggedSync ==
    ASSUME FlagInv, ea.on
    PROVE  Flagged(SyncRecords, stateFile, account, entries) /\ Tidy(SyncRecords, account)
<1>1. PICK dirty : SyncRecords = [ea EXCEPT !.records = Synced(ea.records), !.dirty = dirty]
  BY DEF SyncRecords
<1>2. PICK e : e = SyncRecords
  OBVIOUS
<1>3. /\ DOMAIN e = EaFields /\ e.on /\ e.magic = ea.magic /\ e.records = Synced(ea.records)
      /\ e.managed = ea.managed /\ e.bars = ea.bars /\ e.queued = ea.queued
  BY <1>1, <1>2 DEF EaFields, FlagInv, Flagged
<1>4. \A p : /\ DOMAIN Adopted(p) = RecordFields /\ Adopted(p).ticket = p.ticket
             /\ Adopted(p).partialDone = FALSE
  BY DEF Adopted, RecordFields
<1>5. \A r \in e.records :
        \/ r \in ea.records /\ OpenIn(account, r.ticket)
        \/ \E p \in account : /\ r = Adopted(p) /\ p.magic = ea.magic
                              /\ ~HasTicket(ea.records, p.ticket)
  BY <1>3 DEF Synced, Upsert, Pruned, Unknown, IsOpen, OpenIn
<1>6. \A r \in ea.records : OpenIn(account, r.ticket) => r \in e.records
  <2>1. SUFFICES ASSUME NEW r \in ea.records, OpenIn(account, r.ticket) PROVE r \in e.records
    OBVIOUS
  <2>2. ~HasTicket({Adopted(p) : p \in Unknown(ea.records)}, r.ticket)
    BY <1>4 DEF HasTicket, Unknown
  <2> QED BY <1>3, <2>1, <2>2 DEF Synced, Upsert, Pruned, IsOpen, OpenIn
<1>7. \A p \in Unknown(ea.records) : Adopted(p) \in e.records
  BY <1>3 DEF Synced, Upsert
<1>8. Tidy(e, account)
  <2>1. \A r \in e.records : OpenIn(account, r.ticket)
    BY <1>4, <1>5 DEF OpenIn
  <2>2. ASSUME NEW p \in account, p.magic = ea.magic PROVE HasTicket(e.records, p.ticket)
    <3>1. CASE HasTicket(ea.records, p.ticket)
      BY <1>6, <3>1 DEF HasTicket, OpenIn
    <3>2. CASE ~HasTicket(ea.records, p.ticket)
      BY <1>4, <1>7, <2>2, <3>2 DEF HasTicket, Unknown
    <3> QED BY <3>1, <3>2
  <2> QED BY <1>3, <2>1, <2>2 DEF Tidy
<1>9. Unique(e.records)
  <2>1. SUFFICES ASSUME NEW r \in e.records, NEW s \in e.records, r.ticket = s.ticket
                 PROVE  r = s
    BY DEF Unique
  <2>2. CASE r \in ea.records /\ s \in ea.records
    BY <2>1, <2>2 DEF FlagInv, Flagged, Unique
  <2>3. ASSUME NEW p \in account, ~HasTicket(ea.records, p.ticket), NEW u \in ea.records
        PROVE  u.ticket # Adopted(p).ticket
    BY <1>4, <2>3 DEF HasTicket
  <2>4. ASSUME NEW p \in account, NEW q \in account, Adopted(p).ticket = Adopted(q).ticket
        PROVE  p = q
    BY <1>4, <2>4 DEF FlagInv, Flagged, Numbered
  <2> QED BY <1>5, <2>1, <2>2, <2>3, <2>4
<1>10. Numbered(e, stateFile, account, entries)
  <2>1. \A r \in e.records : DOMAIN r = RecordFields /\ r.ticket \in 1..entries
    BY <1>4, <1>5 DEF FlagInv, Flagged, Numbered
  <2> QED BY <1>3, <2>1 DEF FlagInv, Flagged, Numbered
<1>11. FlagEarned(e.records \cup stateFile, account)
  BY <1>4, <1>5 DEF FlagInv, Flagged, FlagEarned
<1>12. FileKnown(e, stateFile, account)
  BY <1>6 DEF FlagInv, Flagged, FileKnown
<1>13. QueuedApart(e, stateFile, account)
  <2>1. ASSUME NEW t \in ea.queued, OpenIn(account, t) PROVE Waiting(e, account, t)
    <3>1. Waiting(ea, account, t)
      BY <2>1 DEF FlagInv, Flagged, QueuedApart
    <3>2. HasTicket(e.records, t)
      BY <1>6, <2>1, <3>1 DEF Waiting, HasTicket
    <3>3. ASSUME NEW p \in account, p.ticket < t PROVE ~HasTicket(e.records, p.ticket)
      <4>1. p.magic # ea.magic /\ ~HasTicket(ea.records, p.ticket)
        BY <3>1, <3>3 DEF Waiting
      <4>2. ASSUME NEW q \in account, q.magic = ea.magic PROVE Adopted(q).ticket # p.ticket
        BY <1>4, <4>1, <4>2 DEF FlagInv, Flagged, Numbered
      <4> QED BY <1>5, <4>1, <4>2 DEF HasTicket
    <3> QED BY <1>3, <3>1, <3>2, <3>3 DEF Waiting
  <2>2. ASSUME NEW t \in ea.queued, NEW r \in e.records \cup stateFile, r.ticket = t
        PROVE  ~r.partialDone
    BY <1>4, <1>5, <2>2 DEF FlagInv, Flagged, QueuedApart
  <2> QED BY <1>3, <2>1, <2>2 DEF QueuedApart
<1> QED BY <1>2, <1>3, <1>8, <1>9, <1>10, <1>11, <1>12, <1>13 DEF Flagged, FlagInv

\* The position that is managed is the one a scale-out is queued for, if any.
LEMMA EarliestWaits ==
    ASSUME NEW e, NEW file, NEW P, NEW n, Flagged(e, file, P, n), Tidy(e, P),
           NEW r \in Earliest(e.records), NEW t \in e.queued, OpenIn(P, t)
    PROVE  t = r.ticket /\ Waiting(e, P, t)
<1>1. Waiting(e, P, t)
  BY DEF Flagged, QueuedApart
<1>2. PICK s \in e.records : s.ticket = t
  BY <1>1 DEF Waiting, HasTicket
<1>3. r \in e.records /\ r.ticket <= t
  BY <1>2 DEF Earliest
<1>4. PICK p \in P : p.ticket = r.ticket
  BY <1>3 DEF Tidy, OpenIn
<1>5. ~(p.ticket < t)
  BY <1>1, <1>3, <1>4 DEF Waiting, HasTicket
<1>6. r.ticket \in Nat /\ t \in Nat
  BY <1>3 DEF Flagged, Numbered
<1> QED BY <1>1, <1>3, <1>4, <1>5, <1>6

\* Choosing and reviewing the managed position.
LEMMA FlaggedReview ==
    ASSUME NEW e, NEW file, NEW P, NEW n, Flagged(e, file, P, n), Tidy(e, P),
           NEW r \in Earliest(e.records),
           NEW d, d \in {Chosen(e, r), Reviewed(Chosen(e, r))}
    PROVE  /\ Flagged(d, file, P, n) /\ Tidy(d, P) /\ d.managed = r.ticket
           /\ d.records = e.records /\ d.queued = e.queued /\ d.on = e.on /\ d.magic = e.magic
           /\ \A t \in d.queued : OpenIn(P, t) => d.bars = Disarmed
<1>1. DOMAIN e = EaFields
  BY DEF Flagged
<1>2. PICK c : c = Chosen(e, r)
  OBVIOUS
<1>3. /\ DOMAIN c = EaFields /\ c.on = e.on /\ c.records = e.records /\ c.magic = e.magic
      /\ c.queued = e.queued /\ c.managed = r.ticket
      /\ e.managed = r.ticket => c.bars = e.bars
  BY <1>1, <1>2 DEF Chosen, EaFields
<1>4. PICK bars : /\ Reviewed(c) = [c EXCEPT !.bars = bars]
                  /\ c.bars = Disarmed => bars = Disarmed
  BY <1>3 DEF Reviewed, EaFields
<1>5. /\ DOMAIN d = EaFields /\ d.on = e.on /\ d.records = e.records /\ d.magic = e.magic
      /\ d.queued = e.queued /\ d.managed = r.ticket
      /\ c.bars = Disarmed => d.bars = Disarmed
  BY <1>2, <1>3, <1>4 DEF EaFields
<1>6. \A t \in e.queued : OpenIn(P, t) => e.managed = r.ticket /\ e.bars = Disarmed
  BY EarliestWaits DEF Waiting
<1>7. \A t \in d.queued : OpenIn(P, t) => d.managed = e.managed /\ d.bars = e.bars
  BY <1>3, <1>5, <1>6
<1>8. Flagged(d, file, P, n)
  BY <1>5, <1>7, FlaggedSame
<1> QED BY <1>5, <1>6, <1>7, <1>8 DEF Tidy

\* Nothing the file says is done is scaled out.
Fresh(file, P, t) == \A r \in file : r.ticket = t /\ OpenIn(P, t) => ~r.partialDone

\* The scale-out of the managed position: asked for when neither the program
\* nor, hence, the file has its flag, and when none is queued.
LEMMA FlaggedScaleOut ==
    ASSUME NEW e, NEW P, NEW n, Flagged(e, stateFile, P, n), Tidy(e, P), e.on,
           NEW r \in Earliest(e.records), e.managed = r.ticket,
           \A t \in e.queued : OpenIn(P, t) => e.bars = Disarmed,
           NEW left \in SUBSET P, ScaleOut(e, r, left)
    PROVE  /\ Flagged(ea', stateFile, account', n) /\ Fresh(stateFile, P, r.ticket)
           /\ account' \in {left, Scaled(left, r.ticket)}
<1>1. /\ r \in e.records /\ ~r.partialDone /\ e.bars = 2 /\ DOMAIN e = EaFields
      /\ \A s \in e.records : s.ticket = r.ticket => s = r
      /\ DOMAIN r = RecordFields /\ r.ticket \in Nat
  BY DEF ScaleOut, Earliest, Flagged, Unique, Numbered
<1>2. Fresh(stateFile, P, r.ticket)
  BY <1>1 DEF Fresh, Flagged, FileKnown
<1>3. \A t \in e.queued : ~OpenIn(P, t)
  BY <1>1 DEF Disarmed
<1>4. \A t : OpenIn(left, t) => OpenIn(P, t)
  BY DEF OpenIn
<1>5. PICK d : d = [e EXCEPT !.bars = Disarmed]
  OBVIOUS
<1>6. /\ DOMAIN d = EaFields /\ d.on = e.on /\ d.records = e.records /\ d.magic = e.magic
      /\ d.queued = e.queued /\ d.managed = e.managed /\ d.bars = Disarmed
  BY <1>1, <1>5 DEF EaFields
<1>7. Flagged(d, stateFile, left, n)
  <2>1. Flagged(d, stateFile, P, n)
    BY <1>3, <1>6, FlaggedSame
  <2> QED BY <2>1, FlaggedClose
<1>8. CASE account' = Scaled(left, r.ticket) /\ ea' = SetDone(d, r)
  <2>1. PICK new : new = [r EXCEPT !.partialDone = TRUE]
    OBVIOUS
  <2>2. DOMAIN new = RecordFields /\ new.ticket = r.ticket
    BY <1>1, <2>1 DEF RecordFields
  <2>3. /\ DOMAIN ea' = EaFields /\ ea'.on = d.on /\ ea'.magic = d.magic
        /\ ea'.queued = d.queued /\ ea'.managed = d.managed /\ ea'.bars = d.bars
        /\ ea'.records = Upsert(d.records, {new})
    BY <1>6, <1>8, <2>1 DEF SetDone, EaFields
  <2>4. \A s : s \in ea'.records <=> (s \in d.records /\ s.ticket # r.ticket) \/ s = new
    BY <2>2, <2>3 DEF Upsert, HasTicket
  <2>5. Flagged(d, stateFile, account', n)
    BY <1>7, <1>8, FlaggedScale
  <2>6. Unique(ea'.records) /\ Numbered(ea', stateFile, account', n)
    <3>1. new.ticket \in 1..n
      BY <1>1, <1>6, <2>2, <2>5 DEF Flagged, Numbered
    <3>2. Unique(d.records) /\ Numbered(d, stateFile, account', n)
      BY <2>5 DEF Flagged
    <3>3. Unique(ea'.records)
      BY <2>2, <2>4, <3>2 DEF Unique
    <3>4. \A s \in ea'.records \cup stateFile : DOMAIN s = RecordFields /\ s.ticket \in 1..n
      BY <2>2, <2>4, <3>1, <3>2 DEF Numbered
    <3> QED BY <2>3, <3>2, <3>3, <3>4 DEF Numbered
  <2>7. FlagEarned(ea'.records \cup stateFile, account')
    <3>1. ASSUME NEW q \in account', q.ticket = r.ticket PROVE q.scaled > 0
      <4>1. \A p \in left : DOMAIN p = PositionFields /\ p.scaled \in Nat
        BY <1>7 DEF Flagged, Numbered
      <4>2. PICK p \in left :
                /\ q.ticket = p.ticket
                /\ q.scaled = IF p.ticket = r.ticket THEN p.scaled + 1 ELSE p.scaled
        BY <1>8, <4>1, ScaledPositions
      <4>3. q.scaled = p.scaled + 1 /\ p.scaled \in Nat
        BY <3>1, <4>1, <4>2
      <4> QED BY <4>3
    <3>2. FlagEarned(d.records \cup stateFile, account')
      BY <2>5 DEF Flagged
    <3> QED BY <2>2, <2>4, <3>1, <3>2 DEF FlagEarned
  <2>8. FileKnown(ea', stateFile, account')
    <3>1. FileKnown(d, stateFile, account')
      BY <1>6, <2>5 DEF Flagged
    <3>2. new.partialDone
      BY <1>1, <2>1 DEF RecordFields
    <3> QED BY <2>2, <2>4, <3>1, <3>2 DEF FileKnown
  <2>9. QueuedApart(ea', stateFile, account')
    <3>1. \A t : OpenIn(account', t) => OpenIn(left, t)
      <4>1. \A p \in left : DOMAIN p = PositionFields /\ p.scaled \in Nat
        BY <1>7 DEF Flagged, Numbered
      <4>2. \A q \in account' : \E p \in left : q.ticket = p.ticket
        BY <1>8, <4>1, ScaledPositions
      <4> QED BY <4>2 DEF OpenIn
    <3>2. \A t \in ea'.queued : t # r.ticket
      BY <1>1, <1>3, <1>6, <2>3 DEF Tidy
    <3>3. \A t \in ea'.queued, s \in ea'.records \cup stateFile : s.ticket = t => ~s.partialDone
      BY <2>2, <2>3, <2>4, <2>5, <3>2 DEF Flagged, QueuedApart
    <3> QED BY <1>3, <1>4, <1>6, <2>3, <3>1, <3>3 DEF QueuedApart
  <2> QED BY <1>2, <1>6, <1>8, <2>3, <2>5, <2>6, <2>7, <2>8, <2>9 DEF Flagged
<1>9. ASSUME NEW queue \in {{}, {r.ticket}}, ea' = [e EXCEPT !.bars = Disarmed, !.queued = @ \cup queue],
             account' = left
      PROVE  Flagged(ea', stateFile, account', n)
  <2>1. /\ DOMAIN ea' = EaFields /\ ea'.on = e.on /\ ea'.records = e.records
        /\ ea'.magic = e.magic /\ ea'.managed = r.ticket /\ ea'.bars = Disarmed
        /\ ea'.queued \subseteq e.queued \cup {r.ticket}
    BY <1>1, <1>9 DEF EaFields
  <2>2. ASSUME NEW t \in ea'.queued, NEW s \in ea'.records \cup stateFile, s.ticket = t,
               s.partialDone
        PROVE  FALSE
    <3>1. t = r.ticket
      BY <2>1, <2>2, <1>6, <1>7 DEF Flagged, QueuedApart
    <3>2. OpenIn(P, t)
      BY <1>1, <3>1 DEF Tidy
    <3> QED BY <1>1, <1>2, <2>1, <2>2, <3>1, <3>2 DEF Fresh
  <2>3. ASSUME NEW t \in ea'.queued, OpenIn(left, t) PROVE Waiting(ea', left, t)
    <3>1. t = r.ticket /\ HasTicket(e.records, t)
      BY <1>1, <1>3, <1>4, <2>1, <2>3 DEF HasTicket
    <3>2. ASSUME NEW p \in left, p.ticket < t
          PROVE  p.magic # e.magic /\ ~HasTicket(e.records, p.ticket)
      <4>1. p.ticket \in Nat
        BY <1>7 DEF Flagged, Numbered
      <4>2. ~HasTicket(e.records, p.ticket)
        BY <1>1, <3>1, <3>2, <4>1 DEF Earliest, HasTicket
      <4> QED BY <4>2 DEF Tidy
    <3> QED BY <2>1, <3>1, <3>2 DEF Waiting
  <2>4. Numbered(ea', stateFile, left, n)
    <3>1. r.ticket \in 1..n
      BY <1>1 DEF Flagged, Numbered
    <3> QED BY <1>6, <1>7, <2>1, <3>1 DEF Flagged, Numbered
  <2>5. FileKnown(ea', stateFile, left)
    BY <1>6, <1>7, <2>1 DEF Flagged, FileKnown
  <2> QED BY <1>6, <1>7, <1>9, <2>1, <2>2, <2>3, <2>4, <2>5 DEF Flagged, QueuedApart
<1> QED BY <1>2, <1>5, <1>8, <1>9 DEF ScaleOut

-----------------------------------------------------------------------------
(* The steps                                                                *)

\* No position whose flag is in the file is scaled out in a step.
Spared ==
    \A r \in stateFile, p \in account, q \in account' :
        r.ticket = p.ticket /\ p.ticket = q.ticket /\ r.partialDone => q.scaled = p.scaled

LEMMA SparedScale ==
    ASSUME FlagInv, NEW left \in SUBSET account, NEW t, Fresh(stateFile, account, t),
           account' \in {left, Scaled(left, t)}
    PROVE  Spared
<1>1. /\ \A p \in account : DOMAIN p = PositionFields /\ p.scaled \in Nat
      /\ \A p, q \in account : p.ticket = q.ticket => p = q
  BY DEF FlagInv, Flagged, Numbered
<1>2. CASE account' = left
  BY <1>1, <1>2 DEF Spared
<1>3. CASE account' = Scaled(left, t)
  <2>1. SUFFICES ASSUME NEW r \in stateFile, NEW p \in account, NEW q \in account',
                        r.ticket = p.ticket, p.ticket = q.ticket, r.partialDone
                 PROVE  q.scaled = p.scaled
    BY DEF Spared
  <2>2. PICK u \in left : /\ q.ticket = u.ticket
                          /\ q.scaled = IF u.ticket = t THEN u.scaled + 1 ELSE u.scaled
    BY <1>1, <1>3, ScaledPositions
  <2>3. u = p
    BY <1>1, <2>1, <2>2
  <2>4. p.ticket # t
    BY <2>1 DEF Fresh, OpenIn
  <2> QED BY <2>2, <2>3, <2>4
<1> QED BY <1>2, <1>3

LEMMA SparedRest == ASSUME FlagInv, account' \subseteq account PROVE Spared
BY DEF FlagInv, Flagged, Numbered, Spared

LEMMA FlagStop ==
    ASSUME FlagInv, OnDeinit \/ Die \/ DieWhileSaving
    PROVE  FlagInv'
<1>1. UNCHANGED <<account, entries>> /\ ea' = Off(ea) /\ DOMAIN ea = EaFields
  BY DEF OnDeinit, Die, DieWhileSaving, FlagInv, Flagged
<1>2. CASE OnDeinit \/ Die
  <2>1. stateFile' = stateFile \/ stateFile' \subseteq ea.records
    BY <1>2 DEF OnDeinit, Die
  <2>2. Flagged(ea, stateFile', account, entries)
    BY <2>1, FlaggedSave DEF FlagInv
  <2> QED BY <1>1, <2>2, FlaggedOff DEF FlagInv
<1>3. CASE DieWhileSaving
  <2>1. Flagged(SyncRecords, stateFile, account, entries)
    BY <1>3, FlaggedSync DEF DieWhileSaving
  <2>2. Flagged(SyncRecords, stateFile', account, entries)
    BY <1>3, <2>1, FlaggedSave DEF DieWhileSaving, Torn
  <2> QED BY <1>1, <2>2, FlaggedOff DEF FlagInv
<1> QED BY <1>2, <1>3

LEMMA FlagTimer == ASSUME FlagInv, TimerPass PROVE FlagInv'
<1>1. PICK s : s = SyncRecords
  OBVIOUS
<1>2. PICK e : e = Ticked(s)
  OBVIOUS
<1>3. Flagged(s, stateFile, account, entries)
  BY <1>1, FlaggedSync DEF TimerPass
<1>4. DOMAIN s = EaFields
  BY <1>3 DEF Flagged
<1>5. /\ DOMAIN e = EaFields /\ e.on = s.on /\ e.records = s.records /\ e.magic = s.magic
      /\ e.queued = s.queued /\ e.managed = s.managed /\ e.bars = s.bars
  BY <1>2, <1>4 DEF Ticked, EaFields
<1>6. Flagged(e, stateFile, account, entries)
  BY <1>3, <1>5, FlaggedSame
<1>7. UNCHANGED <<account, entries>> /\ (Save(e) \/ (ea' = e /\ UNCHANGED stateFile))
  BY <1>1, <1>2 DEF TimerPass
<1>8. CASE ea' = e /\ UNCHANGED stateFile
  BY <1>6, <1>7, <1>8 DEF FlagInv
<1>9. CASE stateFile' = {} /\ ea' = e
  BY <1>6, <1>7, <1>9, FlaggedSave DEF FlagInv
<1>10. CASE stateFile' = e.records /\ ea' = [e EXCEPT !.dirty = FALSE]
  <2>1. Flagged(e, stateFile', account, entries)
    BY <1>6, <1>10, FlaggedSave
  <2>2. /\ DOMAIN ea' = EaFields /\ ea'.on = e.on /\ ea'.records = e.records
        /\ ea'.magic = e.magic /\ ea'.queued = e.queued /\ ea'.managed = e.managed
        /\ ea'.bars = e.bars
    BY <1>5, <1>10 DEF EaFields
  <2> QED BY <1>7, <2>1, <2>2, FlaggedSame DEF FlagInv
<1> QED BY <1>7, <1>8, <1>9, <1>10 DEF Save

LEMMA FlagBar == ASSUME FlagInv, OnNewBar PROVE FlagInv' /\ Spared
<1>1. PICK e : e = SyncRecords
  OBVIOUS
<1>2. Flagged(e, stateFile, account, entries) /\ Tidy(e, account) /\ e.on
  BY <1>1, FlaggedSync DEF OnNewBar, SyncRecords, FlagInv, Flagged, EaFields
<1>3. UNCHANGED <<stateFile, entries>>
  BY DEF OnNewBar
<1>4. PICK due \in SUBSET e.records : \E shut \in SUBSET due :
        ManageOpenPositions(e, due, Remaining(shut))
  BY <1>1 DEF OnNewBar
<1>5. PICK left \in SUBSET account : ManageOpenPositions(e, due, left)
  BY <1>4 DEF Remaining
<1>6. ASSUME ea' = e, account' = left PROVE FlagInv' /\ Spared
  BY <1>2, <1>3, <1>6, FlaggedClose, SparedRest DEF FlagInv
<1>7. ASSUME NEW r \in Earliest(e.records),
             \/ ea' = Chosen(e, r) /\ account' = left
             \/ ea' = Reviewed(Chosen(e, r)) /\ account' = left
             \/ ScaleOut(Reviewed(Chosen(e, r)), r, left)
      PROVE  FlagInv' /\ Spared
  <2>1. CASE ea' \in {Chosen(e, r), Reviewed(Chosen(e, r))} /\ account' = left
    <3>1. Flagged(ea', stateFile, account, entries)
      BY <1>2, <2>1, FlaggedReview
    <3> QED BY <1>3, <2>1, <3>1, FlaggedClose, SparedRest DEF FlagInv
  <2>2. CASE ScaleOut(Reviewed(Chosen(e, r)), r, left)
    <3>1. PICK g : g = Reviewed(Chosen(e, r))
      OBVIOUS
    <3>2. /\ Flagged(g, stateFile, account, entries) /\ Tidy(g, account) /\ g.on
          /\ g.managed = r.ticket /\ r \in Earliest(g.records)
          /\ \A t \in g.queued : OpenIn(account, t) => g.bars = Disarmed
      BY <1>2, <3>1, FlaggedReview
    <3>3. /\ Flagged(ea', stateFile, account', entries)
          /\ Fresh(stateFile, account, r.ticket)
          /\ account' \in {left, Scaled(left, r.ticket)}
      BY <2>2, <3>1, <3>2, FlaggedScaleOut
    <3> QED BY <1>3, <3>3, SparedScale DEF FlagInv
  <2> QED BY <1>7, <2>1, <2>2
<1> QED BY <1>5, <1>6, <1>7 DEF ManageOpenPositions

LEMMA FlagQueue == ASSUME FlagInv, QueuedScaleOut PROVE FlagInv' /\ Spared
<1>1. PICK t \in ea.queued : /\ ea' = [ea EXCEPT !.queued = @ \ {t}]
                            /\ account' \in {account, Scaled(account, t)}
  BY DEF QueuedScaleOut
<1>2. UNCHANGED <<stateFile, entries>> /\ DOMAIN ea = EaFields
  BY DEF QueuedScaleOut, FlagInv, Flagged
<1>3. /\ DOMAIN ea' = EaFields /\ ea'.on = ea.on /\ ea'.records = ea.records
      /\ ea'.magic = ea.magic /\ ea'.queued \subseteq ea.queued
      /\ ea'.managed = ea.managed /\ ea'.bars = ea.bars
  BY <1>1, <1>2 DEF EaFields
<1>4. Flagged(ea', stateFile, account, entries)
  BY <1>3, FlaggedSame DEF FlagInv
<1>5. Fresh(stateFile, account, t)
  BY <1>1 DEF FlagInv, Flagged, QueuedApart, Fresh
<1> QED BY <1>1, <1>2, <1>4, <1>5, FlaggedScale, SparedScale DEF FlagInv

\* The new position has a ticket no record and no queued scale-out has.
LEMMA FlagFill == ASSUME FlagInv, Fill PROVE FlagInv' /\ Spared
<1>1. PICK o \in resting :
        /\ account' = account \cup {Filled(o)} /\ entries' = entries + 1
        /\ ea' = IF ea.on /\ o.magic = ea.magic
                 THEN [ea EXCEPT !.records = @ \cup {Adopted(Filled(o))}, !.dirty = TRUE] ELSE ea
  BY DEF Fill
<1>2. PICK new : new = Filled(o)
  OBVIOUS
<1>3. PICK rec : rec = Adopted(new)
  OBVIOUS
<1>4. /\ DOMAIN new = PositionFields /\ new.ticket = entries + 1 /\ new.scaled = 0
      /\ DOMAIN rec = RecordFields /\ rec.ticket = entries + 1 /\ ~rec.partialDone
  BY <1>2, <1>3 DEF Filled, Adopted, PositionFields, RecordFields
<1>5. /\ entries \in Nat
      /\ \A p \in account : p.ticket \in 1..entries
      /\ \A r \in ea.records \cup stateFile : r.ticket \in 1..entries
      /\ \A t \in ea.queued : t \in 1..entries
  BY DEF FlagInv, Flagged, Numbered
<1>6. stateFile' = stateFile /\ DOMAIN ea = EaFields
  BY DEF Fill, FlagInv, Flagged
<1>7. /\ DOMAIN ea' = EaFields /\ ea'.on = ea.on /\ ea'.magic = ea.magic
      /\ ea'.queued = ea.queued /\ ea'.managed = ea.managed /\ ea'.bars = ea.bars
      /\ ea'.records = ea.records \/ (ea.on /\ ea'.records = ea.records \cup {rec})
  BY <1>1, <1>2, <1>3, <1>6 DEF EaFields
<1>8. Numbered(ea', stateFile, account', entries')
  BY <1>1, <1>2, <1>4, <1>5, <1>7 DEF FlagInv, Flagged, Numbered
<1>9. Unique(ea'.records) /\ Unique(stateFile)
  BY <1>4, <1>5, <1>7 DEF FlagInv, Flagged, Unique
<1>10. FlagEarned(ea'.records \cup stateFile, account')
  BY <1>1, <1>2, <1>4, <1>5, <1>7 DEF FlagInv, Flagged, FlagEarned
<1>11. ea'.on => FileKnown(ea', stateFile, account')
  <2>1. ASSUME NEW r \in stateFile, OpenIn(account', r.ticket) PROVE OpenIn(account, r.ticket)
    BY <1>1, <1>2, <1>4, <1>5, <2>1 DEF OpenIn
  <2> QED BY <1>7, <2>1 DEF FlagInv, Flagged, FileKnown
<1>12. QueuedApart(ea', stateFile, account')
  <2>1. ASSUME NEW t \in ea.queued, OpenIn(account', t) PROVE Waiting(ea', account', t)
    <3>1. OpenIn(account, t)
      BY <1>1, <1>2, <1>4, <1>5, <2>1 DEF OpenIn
    <3>2. Waiting(ea, account, t)
      BY <3>1 DEF FlagInv, Flagged, QueuedApart
    <3>3. HasTicket(ea'.records, t)
      BY <1>7, <3>2 DEF Waiting, HasTicket
    <3>4. ASSUME NEW p \in account', p.ticket < t
          PROVE  p.magic # ea.magic /\ ~HasTicket(ea'.records, p.ticket)
      <4>1. p \in account
        BY <1>1, <1>2, <1>4, <1>5, <2>1, <3>4
      <4>2. p.magic # ea.magic /\ ~HasTicket(ea.records, p.ticket)
        BY <3>2, <3>4, <4>1 DEF Waiting
      <4>3. p.ticket # rec.ticket
        BY <1>4, <1>5, <4>1
      <4> QED BY <1>7, <4>2, <4>3 DEF HasTicket
    <3> QED BY <1>7, <3>2, <3>3, <3>4 DEF Waiting
  <2>2. \A t \in ea.queued, r \in ea'.records \cup stateFile : r.ticket = t => ~r.partialDone
    BY <1>4, <1>5, <1>7 DEF FlagInv, Flagged, QueuedApart
  <2> QED BY <1>7, <2>1, <2>2 DEF QueuedApart
<1>13. Spared
  BY <1>1, <1>2, <1>4, <1>5 DEF Spared, FlagInv, Flagged, Numbered
<1>14. ~ea'.on => ea'.records = {} /\ ea'.queued = {}
  BY <1>7 DEF FlagInv, Flagged
<1> QED BY <1>6, <1>7, <1>8, <1>9, <1>10, <1>11, <1>12, <1>13, <1>14 DEF FlagInv, Flagged

LEMMA FlagStart ==
    ASSUME FlagInv, NEW id \in StrategyIds, OnInit(id) \/ DieInInit(id)
    PROVE  FlagInv'
<1>1. UNCHANGED <<stateFile, account, entries>>
  BY DEF OnInit, DieInInit
<1>2. CASE DieInInit(id)
  BY <1>1, <1>2 DEF DieInInit, FlagInv
<1>3. CASE OnInit(id)
  <2>1. PICK magic : ea' = [Program EXCEPT !.on = TRUE, !.id = id, !.magic = magic,
                                           !.records = stateFile]
    BY <1>3 DEF OnInit
  <2>2. DOMAIN ea' = EaFields /\ ea'.on /\ ea'.records = stateFile /\ ea'.queued = {}
    BY <2>1 DEF Program, EaFields
  <2>3. Numbered(ea', stateFile, account, entries) /\ QueuedApart(ea', stateFile, account)
    BY <2>2 DEF FlagInv, Flagged, Numbered, QueuedApart
  <2>4. FileKnown(ea', stateFile, account) /\ FlagEarned(ea'.records \cup stateFile, account)
    BY <2>2 DEF FlagInv, Flagged, FileKnown, FlagEarned
  <2> QED BY <1>1, <2>2, <2>3, <2>4 DEF FlagInv, Flagged
<1> QED BY <1>2, <1>3

LEMMA FlagInit == RegInit => FlagInv
<1> SUFFICES ASSUME RegInit PROVE FlagInv
  OBVIOUS
<1>1. /\ ea = Program /\ stateFile = {} /\ account = {} /\ entries = 0
      /\ DOMAIN ea = EaFields /\ ~ea.on /\ ea.records = {} /\ ea.queued = {}
  BY DEF RegInit, Program, EaFields
<1> QED BY <1>1 DEF FlagInv, Flagged, Numbered, Unique, FlagEarned, QueuedApart

LEMMA FlagNext == FlagInv /\ [RegNext]_regVars => FlagInv' /\ Spared
<1> SUFFICES ASSUME FlagInv, [RegNext]_regVars PROVE FlagInv' /\ Spared
  OBVIOUS
<1>1. CASE UNCHANGED <<ea, stateFile, account, entries>>
  BY <1>1, SparedRest DEF FlagInv
<1>2. CASE \E id \in StrategyIds : OnInit(id) \/ DieInInit(id)
  <2>1. account' = account
    BY <1>2 DEF OnInit, DieInInit
  <2> QED BY <1>2, <2>1, FlagStart, SparedRest
<1>3. CASE OnDeinit \/ Die \/ DieWhileSaving
  <2>1. account' = account
    BY <1>3 DEF OnDeinit, Die, DieWhileSaving
  <2> QED BY <1>3, <2>1, FlagStop, SparedRest
<1>4. CASE TimerPass
  <2>1. account' = account
    BY <1>4 DEF TimerPass
  <2> QED BY <1>4, <2>1, FlagTimer, SparedRest
<1>5. CASE PositionCloses
  <2>1. account' \subseteq account /\ UNCHANGED <<ea, stateFile, entries>>
    BY <1>5 DEF PositionCloses
  <2> QED BY <2>1, FlaggedClose, SparedRest DEF FlagInv
<1>6. CASE PlaceEntry \/ Cancelled \/ UNCHANGED regVars
  BY <1>1, <1>6 DEF PlaceEntry, Cancelled, regVars
<1> QED BY <1>2, <1>3, <1>4, <1>5, <1>6, FlagBar, FlagQueue, FlagFill DEF RegNext

\* StateStore, SyncRecords, ManageOpenPositions and the retry queue: under any history of starts,
\* strategies, adoptions, queued closes, crashes and torn writes the flag of a scale-out stands for
\* one, and a position whose flag has reached the file is not scaled out again.
THEOREM FlagHolds == RegSpec => SavedFlagHolds
<1>1. FlagInv => \A r \in ea.records \cup stateFile, p \in account :
                    r.ticket = p.ticket /\ r.partialDone => p.scaled > 0
  BY DEF FlagInv, Flagged, FlagEarned
<1>2. Spared => \A r \in stateFile, p \in account, q \in account' :
                    r.ticket = p.ticket /\ p.ticket = q.ticket /\ r.partialDone => q.scaled = p.scaled
  BY DEF Spared
<1>3. RegSpec => []FlagInv
  BY FlagInit, FlagNext, PTL DEF RegSpec
<1>4. RegSpec => [][Spared]_regVars
  BY <1>3, FlagNext, PTL DEF RegSpec
<1> QED BY <1>1, <1>2, <1>3, <1>4, PTL DEF SavedFlagHolds

-----------------------------------------------------------------------------
(* SlGuard: what every step keeps. *)

HeldSound(h, n) ==
    /\ h \subseteq [ticket : GuardTicket, sl : Stop]
    /\ \A p, q \in h : p.ticket = q.ticket => p = q
    /\ \A p \in h : p.ticket <= n
\* An item is bound when it is past phase 0, and each phase has its share of the pumps.
ItemSound(i) ==
    /\ i \in GuardItem
    /\ i.phase > 0 => i.ticket # 0
    /\ i.phase = 0 => i.pumps <= DropPumps
    /\ i.phase = 1 => i.pumps <= ClosePumps
ItemsSound(f) == DOMAIN f = Slot /\ f = [s \in Slot |-> f[s]] /\ \A s \in Slot : ItemSound(f[s])
WorldSound == HeldSound(held, opened) /\ opened \in 0..MaxOpens /\ work \subseteq Work /\ guardClosed \subseteq GuardTicket
RestSound ==
    /\ engine \in {"NORMAL", "NO_NEW_TRADES", "HALT"}
    /\ step \in {"idle", "protect", "pump"}
    /\ uncovered \subseteq GuardTicket
    /\ cursor \in 1..Slots + 1 /\ processed \in 0..PerPass
    /\ closed \in BOOLEAN /\ escalated \in BOOLEAN
GuardInv == WorldSound /\ ItemsSound(items) /\ RestSound

LEMMA GuardNumbers ==
    /\ MaxOpens \in Nat \ {0} /\ Slots \in Nat \ {0} /\ PerPass \in Nat \ {0}
    /\ DropPumps \in Nat /\ ModifyPumps \in Nat /\ BarePumps \in Nat /\ ClosePumps \in Nat
    /\ DropPumps < ClosePumps /\ ModifyPumps <= ClosePumps /\ BarePumps <= ClosePumps
BY BoundsAssumption, PumpsAssumption

LEMMA FreeIsSound == ItemSound(Free)
<1>1. Free.active = FALSE /\ Free.ticket = 0 /\ Free.since = 0 /\ Free.desired = 0
      /\ Free.pumps = 0 /\ Free.phase = 0 /\ Free.issued = 0
  BY DEF Free
<1>2. Free \in GuardItem
  BY GuardNumbers DEF Free, GuardItem, Stop
<1> QED
  BY <1>1, <1>2, GuardNumbers DEF ItemSound

LEMMA ItemFields ==
    ASSUME NEW i \in GuardItem
    PROVE  /\ i.active \in BOOLEAN /\ i.ticket \in GuardTicket \union {0} /\ i.since \in 0..MaxOpens + 1
           /\ i.desired \in Stop /\ i.pumps \in 0..ClosePumps + 1 /\ i.phase \in 0..2 /\ i.issued \in 0..ClosePumps + 1
           /\ i.pumps \in Nat
           /\ i = [active |-> i.active, ticket |-> i.ticket, since |-> i.since, desired |-> i.desired,
                   pumps |-> i.pumps, phase |-> i.phase, issued |-> i.issued]
BY GuardNumbers DEF GuardItem

LEMMA MadeItem ==
    ASSUME NEW a \in BOOLEAN, NEW t \in GuardTicket \union {0}, NEW u \in 0..MaxOpens + 1, NEW d \in Stop,
           NEW n \in Nat, NEW ph \in 0..2, NEW k \in 0..ClosePumps + 1,
           ph > 0 => t # 0, ph = 0 => n <= DropPumps, ph = 1 => n <= ClosePumps, n <= ClosePumps + 1
    PROVE  ItemSound([active |-> a, ticket |-> t, since |-> u, desired |-> d, pumps |-> n, phase |-> ph, issued |-> k])
<1> DEFINE i == [active |-> a, ticket |-> t, since |-> u, desired |-> d, pumps |-> n, phase |-> ph, issued |-> k]
<1>1. n \in 0..ClosePumps + 1
  BY GuardNumbers
<1>2. i \in GuardItem
  BY <1>1 DEF GuardItem
<1>3. i.phase = ph /\ i.ticket = t /\ i.pumps = n
  OBVIOUS
<1> HIDE DEF i
<1>4. ItemSound(i)
  BY <1>2, <1>3 DEF ItemSound
<1> QED
  BY <1>4 DEF i

LEMMA SlotSet ==
    ASSUME ItemsSound(items), NEW s \in Slot, NEW i, ItemSound(i), items' = [items EXCEPT ![s] = i]
    PROVE  ItemsSound(items')
<1>1. DOMAIN items' = Slot /\ \A r \in Slot : items'[r] = IF r = s THEN i ELSE items[r]
  BY DEF ItemsSound
<1>2. items' = [r \in Slot |-> items'[r]]
  BY DEF ItemsSound
<1>3. \A r \in Slot : ItemSound(items'[r])
  BY <1>1 DEF ItemsSound
<1> QED
  BY <1>1, <1>2, <1>3 DEF ItemsSound

LEMMA EnqueueKeeps ==
    ASSUME ItemsSound(items), NEW t \in GuardTicket \union {0}, NEW u \in 0..MaxOpens + 1, NEW d \in Stop, Enqueue(t, u, d)
    PROVE  ItemsSound(items')
<1>1. CASE UNCHANGED items
  BY <1>1
<1>2. CASE \E s \in Slot :
             /\ FirstFree(s)
             /\ items' = [items EXCEPT ![s] =
                   [Free EXCEPT !.active = TRUE, !.ticket = t, !.since = u, !.desired = d]]
  <2>1. PICK s \in Slot : items' = [items EXCEPT ![s] =
                   [Free EXCEPT !.active = TRUE, !.ticket = t, !.since = u, !.desired = d]]
    BY <1>2
  <2> DEFINE i == [Free EXCEPT !.active = TRUE, !.ticket = t, !.since = u, !.desired = d]
  <2>2. Free \in GuardItem /\ Free.pumps = 0 /\ Free.phase = 0
    BY FreeIsSound DEF ItemSound, Free
  <2>3. ItemSound(i)
    <3>1. i \in GuardItem
      BY <2>2 DEF GuardItem
    <3>2. i.pumps = 0 /\ i.phase = 0
      BY <2>2 DEF GuardItem
    <3> HIDE DEF i
    <3> QED
      BY <3>1, <3>2, GuardNumbers DEF ItemSound
  <2> HIDE DEF i
  <2> QED
    BY <2>1, <2>3, SlotSet DEF i
<1> QED
  BY <1>1, <1>2 DEF Enqueue

\* What the requests of the guard leave open.
LEMMA MovedSound ==
    ASSUME HeldSound(held, opened), NEW t, NEW sl \in Stop PROVE HeldSound(Moved(t, sl), opened)
<1> DEFINE f(p) == IF p.ticket = t THEN [p EXCEPT !.sl = sl] ELSE p
<1>1. ASSUME NEW p \in held
      PROVE f(p) \in [ticket : GuardTicket, sl : Stop] /\ f(p).ticket = p.ticket
  BY DEF HeldSound
<1>2. Moved(t, sl) = {f(p) : p \in held}
  BY DEF Moved
<1> HIDE DEF f
<1>3. Moved(t, sl) \subseteq [ticket : GuardTicket, sl : Stop]
  BY <1>1, <1>2
<1>4. \A p \in Moved(t, sl) : p.ticket <= opened
  BY <1>1, <1>2 DEF HeldSound
<1>5. ASSUME NEW p \in Moved(t, sl), NEW q \in Moved(t, sl), p.ticket = q.ticket PROVE p = q
  <2>1. PICK x \in held : p = f(x)
    BY <1>2
  <2>2. PICK y \in held : q = f(y)
    BY <1>2
  <2>3. x = y
    BY <1>1, <1>5, <2>1, <2>2 DEF HeldSound
  <2> QED
    BY <2>1, <2>2, <2>3
<1> QED
  BY <1>3, <1>4, <1>5 DEF HeldSound

LEMMA FewerSound == ASSUME HeldSound(held, opened), NEW h \in SUBSET held PROVE HeldSound(h, opened)
BY DEF HeldSound

LEMMA WithoutSound == ASSUME HeldSound(held, opened), NEW t PROVE HeldSound(Without(t), opened)
BY FewerSound DEF Without

LEMMA OneMorePosition ==
    ASSUME HeldSound(held, opened), opened \in 0..MaxOpens, opened < MaxOpens, NEW sl \in Stop
    PROVE  /\ HeldSound(held \union {[ticket |-> opened + 1, sl |-> sl]}, opened + 1)
           /\ HeldSound({[ticket |-> opened + 1, sl |-> sl]}, opened + 1)
           /\ opened + 1 \in 0..MaxOpens
<1> DEFINE new == [ticket |-> opened + 1, sl |-> sl]
<1>1. new \in [ticket : GuardTicket, sl : Stop] /\ new.ticket = opened + 1 /\ opened + 1 \in 0..MaxOpens
  BY GuardNumbers DEF GuardTicket
<1>2. \A p \in held : p.ticket \in Int /\ p.ticket <= opened
  BY DEF HeldSound, GuardTicket
<1> HIDE DEF new
<1>3. \A p \in held : p.ticket <= opened + 1 /\ p.ticket # new.ticket
  BY <1>1, <1>2
<1> QED
  BY <1>1, <1>3 DEF HeldSound, new

LEMMA ModifySound ==
    ASSUME WorldSound, NEW t \in GuardTicket, NEW sl \in Stop, Modify(t, sl), UNCHANGED guardClosed, UNCHANGED opened
    PROVE  WorldSound'
<1>1. [kind |-> "MODIFY", ticket |-> t, sl |-> sl] \in Work
  BY DEF Work
<1>2. CASE held' = Moved(t, sl) /\ UNCHANGED work
  BY <1>2, MovedSound DEF WorldSound
<1>3. CASE work' = work \union {[kind |-> "MODIFY", ticket |-> t, sl |-> sl]} /\ UNCHANGED held
  BY <1>1, <1>3 DEF WorldSound
<1>4. CASE UNCHANGED <<held, work>>
  BY <1>4 DEF WorldSound
<1> QED
  BY <1>2, <1>3, <1>4 DEF Modify

LEMMA CloseSound ==
    ASSUME WorldSound, NEW t \in GuardTicket, Close(t), UNCHANGED opened
    PROVE  WorldSound'
<1>1. [kind |-> "CLOSE", ticket |-> t, sl |-> 0] \in Work
  BY DEF Work, Stop
<1>2. CASE held' = Without(t) /\ guardClosed' = guardClosed \union {t} /\ UNCHANGED work
  BY <1>2, WithoutSound DEF WorldSound
<1>3. CASE work' = work \union {[kind |-> "CLOSE", ticket |-> t, sl |-> 0]} /\ UNCHANGED <<held, guardClosed>>
  BY <1>1, <1>3 DEF WorldSound
<1>4. CASE UNCHANGED <<held, work, guardClosed>>
  BY <1>4 DEF WorldSound
<1> QED
  BY <1>2, <1>3, <1>4 DEF Close

-----------------------------------------------------------------------------
(* SlGuard: the ladder. *)

\* What a visit leaves of its item.
LEMMA StaySound ==
    ASSUME NEW i \in GuardItem, NEW t \in GuardTicket, NEW n \in Nat, NEW ph \in {1, 2}, NEW k \in 0..ClosePumps + 1,
           n <= ClosePumps + 1, ph = 1 => n <= ClosePumps
    PROVE  ItemSound([Bound(i, t, n) EXCEPT !.phase = ph, !.issued = k])
<1> DEFINE b == Bound(i, t, n)
           j == [b EXCEPT !.phase = ph, !.issued = k]
<1>1. n \in 0..ClosePumps + 1 /\ t # 0
  BY GuardNumbers DEF GuardTicket
<1>2. b \in GuardItem
  BY <1>1 DEF Bound, GuardItem
<1>3. b.ticket = t /\ b.pumps = n
  BY DEF Bound, GuardItem
<1> HIDE DEF b
<1>4. j \in GuardItem
  <2>1. ph \in 0..2 /\ k \in 0..ClosePumps + 1
    OBVIOUS
  <2>2. [b EXCEPT !.phase = ph] \in GuardItem
    BY <1>2, <2>1 DEF GuardItem
  <2>3. j = [[b EXCEPT !.phase = ph] EXCEPT !.issued = k]
    OBVIOUS
  <2> QED
    BY <2>1, <2>2, <2>3 DEF GuardItem
<1>5. j.ticket = t /\ j.pumps = n /\ j.phase = ph
  BY <1>2, <1>3 DEF GuardItem
<1> HIDE DEF j
<1>6. ItemSound(j)
  BY <1>1, <1>4, <1>5 DEF ItemSound
<1> QED
  BY <1>6 DEF j, b

LEMMA SlotSound == ASSUME ItemsSound(items), NEW s \in Slot PROVE ItemSound(items[s]) /\ items[s] \in GuardItem
BY DEF ItemsSound, ItemSound

LEMMA ReleaseKeeps == ASSUME ItemsSound(items), NEW s \in Slot, Release(s) PROVE ItemsSound(items')
BY SlotSet, FreeIsSound DEF Release

LEMMA PumpInvalidKeeps ==
    ASSUME GuardInv, NEW s \in Slot, NEW t \in GuardTicket, PumpInvalid(s, items[s], t), UNCHANGED opened
    PROVE  /\ WorldSound' /\ ItemsSound(items') /\ closed' = closed /\ escalated' \in BOOLEAN
           /\ escalated' # escalated => items[s].phase = 2
<1> DEFINE i == items[s]
           n == i.pumps + 1
           Stay(phase, issued) ==
             items' = [items EXCEPT ![s] = [Bound(i, t, n) EXCEPT !.phase = phase, !.issued = issued]]
<1>1. ItemSound(i) /\ i \in GuardItem /\ WorldSound /\ ItemsSound(items) /\ escalated \in BOOLEAN
  BY SlotSound DEF GuardInv, RestSound
<1>2. /\ i.desired \in Stop /\ i.pumps \in Nat /\ i.pumps <= ClosePumps + 1 /\ i.phase \in 0..2
      /\ i.issued \in 0..ClosePumps + 1 /\ i.issued \in Nat
  BY <1>1, ItemFields, GuardNumbers
<1>3. n \in Nat /\ (i.phase = 0 => n <= ClosePumps) /\ (i.phase = 1 => n <= ClosePumps + 1)
  BY <1>1, <1>2, GuardNumbers DEF ItemSound
<1>4. ASSUME NEW ph \in {1, 2}, NEW k \in 0..ClosePumps + 1, n <= ClosePumps + 1, ph = 1 => n <= ClosePumps, Stay(ph, k)
      PROVE  ItemsSound(items')
  <2> DEFINE j == [Bound(i, t, n) EXCEPT !.phase = ph, !.issued = k]
  <2>1. ItemSound(j)
    BY <1>1, <1>3, <1>4, StaySound
  <2>2. items' = [items EXCEPT ![s] = j]
    BY <1>4
  <2> HIDE DEF j
  <2> QED
    BY <1>1, <2>1, <2>2, SlotSet
<1>5. i.phase = 0 => n \in 0..ClosePumps + 1
  BY <1>3, GuardNumbers
<1> HIDE DEF n, Stay, i
<1>6. CASE i.phase = 0 /\ i.desired > 0 /\ Modify(t, i.desired) /\ UNCHANGED guardClosed
           /\ Stay(1, n) /\ UNCHANGED <<closed, escalated>>
  <2>1. WorldSound'
    BY <1>1, <1>2, <1>6, ModifySound
  <2>3. 1 \in {1, 2} /\ n <= ClosePumps /\ n <= ClosePumps + 1 /\ n \in 0..ClosePumps + 1 /\ Stay(1, n)
    BY <1>3, <1>5, <1>6, GuardNumbers
  <2>2. ItemsSound(items')
    BY <1>4, <2>3
  <2> QED
    BY <1>1, <1>6, <2>1, <2>2
<1>7. CASE i.phase = 0 /\ i.desired = 0 /\ Close(t) /\ Stay(2, n) /\ UNCHANGED <<closed, escalated>>
  <2>1. WorldSound'
    BY <1>1, <1>7, CloseSound
  <2>3. 2 \in {1, 2} /\ 2 # 1 /\ n <= ClosePumps + 1 /\ n \in 0..ClosePumps + 1 /\ Stay(2, n)
    BY <1>3, <1>5, <1>7, GuardNumbers
  <2>2. ItemsSound(items')
    BY <1>4, <2>3
  <2> QED
    BY <1>1, <1>7, <2>1, <2>2
<1>8. CASE i.phase = 1 /\ n >= ModifyPumps /\ Close(t) /\ Stay(2, i.issued) /\ UNCHANGED <<closed, escalated>>
  <2>1. WorldSound'
    BY <1>1, <1>8, CloseSound
  <2>3. 2 \in {1, 2} /\ 2 # 1 /\ n <= ClosePumps + 1 /\ i.issued \in 0..ClosePumps + 1 /\ Stay(2, i.issued)
    BY <1>2, <1>3, <1>8, GuardNumbers
  <2>2. ItemsSound(items')
    BY <1>4, <2>3
  <2> QED
    BY <1>1, <1>8, <2>1, <2>2
<1>9. CASE i.phase = 1 /\ n < ModifyPumps /\ Stay(1, i.issued) /\ UNCHANGED <<held, work, guardClosed, closed, escalated>>
  <2>1. WorldSound'
    BY <1>1, <1>9 DEF WorldSound
  <2>3. 1 \in {1, 2} /\ n <= ClosePumps /\ n <= ClosePumps + 1 /\ i.issued \in 0..ClosePumps + 1 /\ Stay(1, i.issued)
    BY <1>2, <1>3, <1>9, GuardNumbers
  <2>2. ItemsSound(items')
    BY <1>4, <2>3
  <2> QED
    BY <1>1, <1>9, <2>1, <2>2
<1>10. CASE i.phase = 2 /\ GivesUp(i, n) /\ Release(s) /\ escalated' = TRUE /\ UNCHANGED <<held, work, guardClosed, closed>>
  <2>1. WorldSound'
    BY <1>1, <1>10 DEF WorldSound
  <2>2. ItemsSound(items')
    BY <1>1, <1>10, ReleaseKeeps
  <2> QED
    BY <1>1, <1>10, <2>1, <2>2, TRUE \in BOOLEAN DEF i
<1>11. CASE i.phase = 2 /\ ~GivesUp(i, n) /\ Stay(2, i.issued) /\ UNCHANGED <<held, work, guardClosed, closed, escalated>>
  <2>1. WorldSound'
    BY <1>1, <1>11 DEF WorldSound
  <2>2. n <= ClosePumps
    BY <1>3, <1>11, GuardNumbers DEF GivesUp
  <2>4. 2 \in {1, 2} /\ 2 # 1 /\ n <= ClosePumps + 1 /\ i.issued \in 0..ClosePumps + 1 /\ Stay(2, i.issued)
    BY <1>2, <1>3, <1>11, <2>2, GuardNumbers
  <2>3. ItemsSound(items')
    BY <1>4, <2>4
  <2> QED
    BY <1>1, <1>11, <2>1, <2>3
<1> QED
  BY <1>6, <1>7, <1>8, <1>9, <1>10, <1>11, Zenon DEF PumpInvalid, i, n, Stay

LEMMA PumpUnboundKeeps ==
    ASSUME GuardInv, NEW s \in Slot, items[s].ticket = 0, PumpUnbound(s, items[s])
    PROVE  WorldSound' /\ ItemsSound(items') /\ UNCHANGED <<closed, escalated>>
<1> DEFINE i == items[s]
           n == i.pumps + 1
<1>1. ItemSound(i) /\ i \in GuardItem /\ WorldSound /\ ItemsSound(items)
  BY SlotSound DEF GuardInv
<1>2. i.pumps \in Nat /\ i.phase = 0
  BY <1>1, ItemFields DEF ItemSound
<1>3. UNCHANGED broker /\ UNCHANGED <<closed, escalated>>
  BY DEF PumpUnbound
<1>4. WorldSound'
  BY <1>1, <1>3 DEF broker, WorldSound
<1>5. CASE n > DropPumps
  BY <1>1, <1>3, <1>4, <1>5, ReleaseKeeps DEF PumpUnbound
<1>6. CASE ~(n > DropPumps)
  <2> DEFINE j == [i EXCEPT !.pumps = n]
  <2>1. n \in 0..ClosePumps + 1 /\ n <= DropPumps
    BY <1>2, <1>6, GuardNumbers
  <2>2. j \in GuardItem /\ j.pumps = n /\ j.phase = 0
    BY <1>1, <1>2, <2>1 DEF GuardItem
  <2>3. items' = [items EXCEPT ![s] = j]
    <3>1. items' = [items EXCEPT ![s].pumps = n]
      BY <1>6 DEF PumpUnbound
    <3> QED
      BY <3>1
  <2> HIDE DEF j
  <2>4. ItemSound(j)
    BY <2>1, <2>2 DEF ItemSound
  <2> QED
    BY <1>1, <1>3, <1>4, <2>3, <2>4, SlotSet
<1> QED
  BY <1>5, <1>6

\* A non-empty set of tickets has a newest one.
LEMMA NewestIs == ASSUME NEW ts \in SUBSET GuardTicket, ts # {} PROVE Newest(ts) \in ts
<1> DEFINE R == {ss \in Nat \X Nat : ss[1] < ss[2]}
           D == {d \in Nat : MaxOpens - d \in ts}
<1>1. IsWellFoundedOn(R, Nat)
  BY NatLessThanWellFounded DEF OpToRel
<1>2. \A x, y \in Nat : x < y => <<x, y>> \in R
  OBVIOUS
<1>3. \A t \in ts : t \in Nat /\ MaxOpens - t \in Nat /\ MaxOpens - (MaxOpens - t) = t
  BY GuardNumbers DEF GuardTicket
<1>4. \A t \in ts : MaxOpens - t \in D
  BY <1>3
<1> HIDE DEF R
<1>5. D # {} /\ D \subseteq Nat
  BY <1>4
<1>6. PICK d \in D : \A e \in D : ~(<<e, d>> \in R)
  <2> HIDE DEF D
  <2> QED
    BY <1>1, <1>5, WFMin
<1>7. d \in Nat /\ MaxOpens - d \in ts
  OBVIOUS
<1>8. ASSUME NEW u \in ts PROVE u <= MaxOpens - d
  <2>1. MaxOpens - u \in D /\ MaxOpens - u \in Nat
    BY <1>3, <1>4
  <2>2. ~(MaxOpens - u < d)
    BY <1>2, <1>6, <1>7, <2>1
  <2> QED
    BY <1>3, <1>7, <2>1, <2>2, GuardNumbers
<1> HIDE DEF D
<1> QED
  BY <1>7, <1>8 DEF Newest

LEMMA VisitKeeps ==
    ASSUME GuardInv, NEW s \in Slot, Visit(s)
    PROVE  /\ WorldSound' /\ ItemsSound(items') /\ closed' = closed /\ escalated' \in BOOLEAN
           /\ escalated' # escalated => items[s].phase = 2 /\ Unprotected(items[s].ticket)
<1> DEFINE i == items[s]
           t == IF i.ticket # 0 THEN i.ticket ELSE IF Candidates # {} THEN Newest(Candidates) ELSE 0
<1>1. ItemSound(i) /\ i \in GuardItem /\ WorldSound /\ ItemsSound(items) /\ escalated \in BOOLEAN
  BY SlotSound DEF GuardInv, RestSound
<1>2. i.ticket \in GuardTicket \union {0}
  BY <1>1, ItemFields
<1>3. Candidates \subseteq GuardTicket
  BY <1>1 DEF Candidates, WorldSound, HeldSound
<1>4. t # 0 => t \in GuardTicket
  BY <1>2, <1>3, NewestIs
<1>5. i.ticket # 0 => t = i.ticket
  OBVIOUS
<1>6. t = 0 => i.ticket = 0
  OBVIOUS
<1>7. IF t = 0 THEN PumpUnbound(s, i)
      ELSE IF Secured(t)
           THEN Release(s) /\ UNCHANGED <<broker, closed, escalated>>
           ELSE PumpInvalid(s, i, t) /\ UNCHANGED opened
  BY DEF Visit
<1> HIDE DEF t
<1>8. CASE t = 0
  BY <1>1, <1>6, <1>7, <1>8, PumpUnboundKeeps
<1>9. CASE t # 0 /\ Secured(t)
  <2>1. Release(s) /\ UNCHANGED <<broker, closed, escalated>>
    BY <1>7, <1>9
  <2>2. WorldSound'
    BY <1>1, <2>1 DEF broker, WorldSound
  <2> QED
    BY <1>1, <2>1, <2>2, ReleaseKeeps
<1>10. CASE t # 0 /\ ~Secured(t)
  <2>1. PumpInvalid(s, items[s], t) /\ UNCHANGED opened /\ t \in GuardTicket
    BY <1>4, <1>7, <1>10
  <2>2. /\ WorldSound' /\ ItemsSound(items') /\ closed' = closed /\ escalated' \in BOOLEAN
        /\ escalated' # escalated => items[s].phase = 2
    BY <2>1, PumpInvalidKeeps
  <2>3. items[s].phase = 2 => t = items[s].ticket
    BY <1>1, <1>5 DEF ItemSound
  <2>4. Unprotected(t)
    BY <1>10 DEF Secured, Unprotected
  <2> QED
    BY <2>2, <2>3, <2>4
<1> QED
  BY <1>8, <1>9, <1>10

-----------------------------------------------------------------------------
(* SlGuard: every step, and the theorems. *)

LEMMA EntrySound == ASSUME GuardInv, Entry PROVE GuardInv'
<1>1. WorldSound /\ ItemsSound(items) /\ RestSound /\ opened \in 0..MaxOpens /\ opened < MaxOpens
  BY DEF GuardInv, Entry, WorldSound
<1>2. RestSound'
  BY <1>1 DEF Entry, RestSound, pumping
<1>3. 0 \in GuardTicket \union {0} /\ opened + 1 \in 0..MaxOpens + 1 /\ opened + 2 \in 0..MaxOpens + 1
  BY <1>1, GuardNumbers
<1>4. \A d \in Desired \ {0} : d \in Stop
  BY StopsAssumption DEF Stop
<1>5. guardClosed' = guardClosed
  BY DEF Entry
<1>6. ASSUME NEW sl \in {0, 1}, NEW now \in {opened + 1, opened + 1 + 1}, NEW d \in Desired \ {0},
             held' = {[ticket |-> opened + 1, sl |-> sl]}, opened' = opened + 1, UNCHANGED work, Enqueue(0, now, d)
      PROVE  WorldSound' /\ ItemsSound(items')
  <2>1. sl \in Stop /\ now \in 0..MaxOpens + 1
    BY <1>1, <1>3 DEF Stop
  <2>2. ItemsSound(items')
    BY <1>1, <1>3, <1>4, <1>6, <2>1, EnqueueKeeps
  <2>3. HeldSound({[ticket |-> opened + 1, sl |-> sl]}, opened + 1) /\ opened + 1 \in 0..MaxOpens
    BY <1>1, <2>1, OneMorePosition DEF WorldSound
  <2> QED
    BY <1>1, <1>5, <1>6, <2>2, <2>3 DEF WorldSound
<1>7. ASSUME NEW d \in Desired \ {0}, work' = {[kind |-> "ENTRY", ticket |-> 0, sl |-> 0]},
             UNCHANGED <<held, opened>>, Enqueue(0, opened + 1, d)
      PROVE  WorldSound' /\ ItemsSound(items')
  <2>1. [kind |-> "ENTRY", ticket |-> 0, sl |-> 0] \in Work
    BY DEF Work, Stop
  <2>2. ItemsSound(items')
    BY <1>1, <1>3, <1>4, <1>7, EnqueueKeeps
  <2> QED
    BY <1>1, <1>5, <1>7, <2>1, <2>2 DEF WorldSound
<1>8. WorldSound' /\ ItemsSound(items')
  BY <1>6, <1>7 DEF Entry
<1> QED
  BY <1>2, <1>8 DEF GuardInv, ItemsSound

LEMMA TrailSound == ASSUME GuardInv, Trail PROVE GuardInv'
<1>1. PICK p \in held, sl \in 2..3 : held' = (held \ {p}) \union {[p EXCEPT !.sl = sl]}
  BY DEF Trail
<1>2. UNCHANGED <<opened, work, items, engine, step, uncovered, pumping, guardClosed>>
  BY DEF Trail
<1>3. HeldSound(held, opened)
  BY DEF GuardInv, WorldSound
<1> DEFINE q == [p EXCEPT !.sl = sl]
<1>4. q \in [ticket : GuardTicket, sl : Stop] /\ q.ticket = p.ticket
  BY <1>3 DEF HeldSound, Stop
<1>5. held' = (held \ {p}) \union {q}
  BY <1>1
<1> HIDE DEF q
<1>6. HeldSound(held', opened)
  BY <1>3, <1>4, <1>5 DEF HeldSound
<1> QED
  BY <1>2, <1>6 DEF GuardInv, WorldSound, ItemsSound, RestSound, pumping

LEMMA ProtectSound ==
    ASSUME GuardInv, TimerProtect \/ ProtectOne \/ PumpBegins PROVE GuardInv'
<1>1. CASE TimerProtect
  <2>1. {p.ticket : p \in held} \subseteq GuardTicket
    BY DEF GuardInv, WorldSound, HeldSound
  <2> QED
    BY <1>1, <2>1 DEF TimerProtect, GuardInv, WorldSound, ItemsSound, RestSound, broker, pumping
<1>2. CASE ProtectOne
  <2>1. PICK t \in uncovered : /\ uncovered' = uncovered \ {t}
                               /\ (\E d \in Desired : Enqueue(t, 0, d)) \/ UNCHANGED items
    BY <1>2 DEF ProtectOne
  <2>2. UNCHANGED <<broker, engine, step, pumping>>
    BY <1>2 DEF ProtectOne
  <2>3. t \in GuardTicket \union {0} /\ 0 \in 0..MaxOpens + 1 /\ Desired \subseteq Stop
    BY <2>1, GuardNumbers, StopsAssumption DEF GuardInv, RestSound, Stop
  <2>4. ItemsSound(items')
    BY <2>1, <2>3, EnqueueKeeps DEF GuardInv
  <2>5. WorldSound'
    BY <2>2 DEF GuardInv, WorldSound, broker
  <2>6. RestSound'
    BY <2>1, <2>2 DEF GuardInv, RestSound, pumping
  <2> QED
    BY <2>4, <2>5, <2>6 DEF GuardInv, ItemsSound
<1>3. CASE PumpBegins
  <2>1. 1 \in 1..Slots + 1 /\ 0 \in 0..PerPass
    BY GuardNumbers
  <2> QED
    BY <1>3, <2>1 DEF PumpBegins, GuardInv, WorldSound, ItemsSound, RestSound, broker
<1> QED
  BY <1>1, <1>2, <1>3

LEMMA PumpVisitSound ==
    ASSUME GuardInv, PumpVisit
    PROVE  /\ GuardInv'
           /\ escalated' # escalated => /\ items[cursor].active /\ items[cursor].phase = 2 /\ cursor \in Slot
                                        /\ Unprotected(items[cursor].ticket)
<1>1. cursor \in Slot /\ cursor + 1 \in 1..Slots + 1 /\ processed \in 0..PerPass /\ processed < PerPass
  BY GuardNumbers DEF PumpVisit, GuardInv, RestSound, Slot
<1>2. processed + 1 \in 0..PerPass
  BY <1>1, GuardNumbers
<1>3. cursor' = cursor + 1 /\ UNCHANGED <<engine, step, uncovered>>
  BY DEF PumpVisit
<1>4. CASE items[cursor].active
  <2>1. Visit(cursor) /\ processed' = processed + 1
    BY <1>4 DEF PumpVisit
  <2>2. /\ WorldSound' /\ ItemsSound(items') /\ closed' = closed /\ escalated' \in BOOLEAN
        /\ escalated' # escalated => items[cursor].phase = 2 /\ Unprotected(items[cursor].ticket)
    BY <1>1, <2>1, VisitKeeps
  <2>3. RestSound'
    BY <1>1, <1>2, <1>3, <2>1, <2>2 DEF GuardInv, RestSound
  <2> QED
    BY <1>1, <1>4, <2>2, <2>3 DEF GuardInv, ItemsSound
<1>5. CASE ~items[cursor].active
  <2>1. UNCHANGED <<broker, items, processed, closed, escalated>>
    BY <1>5 DEF PumpVisit
  <2> QED
    BY <1>1, <1>3, <2>1 DEF GuardInv, WorldSound, ItemsSound, RestSound, broker
<1> QED
  BY <1>4, <1>5

LEMMA PumpEndsSound == ASSUME GuardInv, PumpEnds PROVE GuardInv' /\ ~escalated'
<1>1. 1 \in 1..Slots + 1 /\ 0 \in 0..PerPass
  BY GuardNumbers
<1> QED
  BY <1>1 DEF PumpEnds, GuardInv, WorldSound, ItemsSound, RestSound, broker

LEMMA WorkDoneSound == ASSUME GuardInv, WorkDone PROVE GuardInv'
<1>1. PICK w \in work :
        /\ work' = work \ {w}
        /\ \/ UNCHANGED <<held, opened, guardClosed>>
           \/ /\ w.kind = "ENTRY" /\ opened < MaxOpens /\ opened' = opened + 1
              /\ \E sl \in {0, 1} : held' = held \union {[ticket |-> opened + 1, sl |-> sl]}
              /\ UNCHANGED guardClosed
           \/ /\ w.kind = "MODIFY" /\ held' = Moved(w.ticket, w.sl)
              /\ UNCHANGED <<opened, guardClosed>>
           \/ /\ w.kind = "CLOSE" /\ IsHeld(w.ticket)
              /\ held' = Without(w.ticket)
              /\ guardClosed' = guardClosed \union {w.ticket}
              /\ UNCHANGED opened
  BY DEF WorkDone
<1>2. HeldSound(held, opened) /\ opened \in 0..MaxOpens /\ work \subseteq Work /\ guardClosed \subseteq GuardTicket
  BY DEF GuardInv, WorldSound
<1>3. w.sl \in Stop /\ work' \subseteq Work
  BY <1>1, <1>2 DEF Work
<1>4. UNCHANGED <<items, engine, step, uncovered, pumping>>
  BY DEF WorkDone
<1>5. ASSUME UNCHANGED <<held, opened, guardClosed>> PROVE WorldSound'
  BY <1>2, <1>3, <1>5 DEF WorldSound
<1>6. ASSUME /\ w.kind = "ENTRY" /\ opened < MaxOpens /\ opened' = opened + 1
             /\ \E sl \in {0, 1} : held' = held \union {[ticket |-> opened + 1, sl |-> sl]}
             /\ UNCHANGED guardClosed
      PROVE WorldSound'
  <2>1. PICK sl \in {0, 1} : held' = held \union {[ticket |-> opened + 1, sl |-> sl]}
    BY <1>6
  <2>2. sl \in Stop
    BY DEF Stop
  <2>3. HeldSound(held', opened') /\ opened' \in 0..MaxOpens
    BY <1>2, <1>6, <2>1, <2>2, OneMorePosition
  <2> QED
    BY <1>2, <1>3, <1>6, <2>3 DEF WorldSound
<1>7. ASSUME w.kind = "MODIFY" /\ held' = Moved(w.ticket, w.sl) /\ UNCHANGED <<opened, guardClosed>>
      PROVE WorldSound'
  BY <1>2, <1>3, <1>7, MovedSound DEF WorldSound
<1>8. ASSUME /\ w.kind = "CLOSE" /\ IsHeld(w.ticket)
             /\ held' = Without(w.ticket)
             /\ guardClosed' = guardClosed \union {w.ticket}
             /\ UNCHANGED opened
      PROVE WorldSound'
  <2>1. w.ticket \in GuardTicket
    BY <1>2, <1>8 DEF HeldSound, IsHeld
  <2> QED
    BY <1>2, <1>3, <1>8, <2>1, WithoutSound DEF WorldSound
<1>9. WorldSound'
  BY <1>1, <1>5, <1>6, <1>7, <1>8
<1> QED
  BY <1>4, <1>9 DEF GuardInv, ItemsSound, RestSound, pumping

LEMMA OthersSound == ASSUME GuardInv, HeldEnds \/ StopRemoved PROVE GuardInv' /\ UNCHANGED escalated
<1>1. HeldSound(held, opened) /\ 0 \in Stop
  BY DEF GuardInv, WorldSound, Stop
<1>2. HeldSound(held', opened)
  BY <1>1, FewerSound, MovedSound DEF HeldEnds, StopRemoved
<1>3. UNCHANGED <<opened, work, items, engine, step, uncovered, pumping, guardClosed>>
  BY DEF HeldEnds, StopRemoved
<1> QED
  BY <1>2, <1>3 DEF GuardInv, WorldSound, ItemsSound, RestSound, pumping

LEMMA GuardStarts == GuardInit => GuardInv
<1> SUFFICES ASSUME GuardInit PROVE GuardInv
  OBVIOUS
<1>1. 1 \in 1..Slots + 1 /\ 0 \in 0..PerPass /\ 0 \in 0..MaxOpens
  BY GuardNumbers
<1>2. HeldSound({}, 0)
  BY DEF HeldSound
<1>3. WorldSound
  BY <1>1, <1>2 DEF GuardInit, WorldSound
<1>4. ItemsSound(items)
  BY FreeIsSound DEF GuardInit, ItemsSound
<1>5. RestSound
  BY <1>1 DEF GuardInit, RestSound
<1> QED
  BY <1>3, <1>4, <1>5 DEF GuardInv

EscalatesForOpen ==
    ~escalated /\ escalated' => \E s \in Slot : /\ items[s].active /\ items[s].phase = 2
                                                /\ Unprotected(items[s].ticket)

LEMMA GuardStep == ASSUME GuardInv, [GuardNext]_guardVars PROVE GuardInv' /\ EscalatesForOpen
<1>1. CASE UNCHANGED guardVars
  BY <1>1 DEF guardVars, GuardInv, WorldSound, ItemsSound, RestSound, EscalatesForOpen
<1>2. CASE Entry
  BY <1>2, EntrySound DEF EscalatesForOpen, Entry, pumping
<1>3. CASE Trail
  BY <1>3, TrailSound DEF EscalatesForOpen, Trail, pumping
<1>4. CASE WorkDone
  BY <1>4, WorkDoneSound DEF EscalatesForOpen, WorkDone, pumping
<1>5. CASE HeldEnds \/ StopRemoved
  BY <1>5, OthersSound DEF EscalatesForOpen
<1>6. CASE TimerProtect \/ ProtectOne \/ PumpBegins
  <2>1. GuardInv'
    BY <1>6, ProtectSound
  <2>2. ~(~escalated /\ escalated')
    <3>1. CASE PumpBegins
      BY <3>1 DEF PumpBegins
    <3>2. CASE TimerProtect \/ ProtectOne
      BY <3>2 DEF TimerProtect, ProtectOne, pumping
    <3> QED
      BY <1>6, <3>1, <3>2
  <2>3. EscalatesForOpen
    BY <2>2 DEF EscalatesForOpen
  <2> QED
    BY <2>1, <2>3
<1>7. CASE PumpVisit
  BY <1>7, PumpVisitSound DEF EscalatesForOpen
<1>8. CASE PumpEnds
  BY <1>8, PumpEndsSound DEF EscalatesForOpen
<1> QED
  BY <1>1, <1>2, <1>3, <1>4, <1>5, <1>6, <1>7, <1>8 DEF GuardNext, OnTimer

LEMMA SpecGuardInv == GuardSpec => []GuardInv
<1>1. GuardInit => GuardInv
  BY GuardStarts
<1>2. GuardInv /\ [GuardNext]_guardVars => GuardInv'
  BY GuardStep
<1> QED
  BY <1>1, <1>2, PTL DEF GuardSpec

\* CSlGuard: an item past its first visit is bound to a position, an unbound one is dropped after
\* its share of pumps, and no item is pumped beyond what the ladder allows; a ticket is one position.
THEOREM LadderTypeCorrect == GuardSpec => []GuardTypeOK
<1>1. GuardInv => GuardTypeOK
  <2> SUFFICES ASSUME GuardInv PROVE GuardTypeOK
    OBVIOUS
  <2>1. items \in [Slot -> GuardItem] /\ \A i \in Slot : items[i].phase > 0 => items[i].ticket # 0
    BY DEF GuardInv, ItemsSound, ItemSound
  <2>2. /\ held \subseteq [ticket : GuardTicket, sl : Stop] /\ opened \in 0..MaxOpens /\ work \subseteq Work
        /\ guardClosed \subseteq GuardTicket /\ \A p, q \in held : p.ticket = q.ticket => p = q
    BY DEF GuardInv, WorldSound, HeldSound
  <2>3. RestSound
    BY DEF GuardInv
  <2> QED
    BY <2>1, <2>2, <2>3 DEF GuardTypeOK, RestSound
<1> QED
  BY <1>1, SpecGuardInv, PTL

\* CSlGuard::Pump: the guard escalates, which halts the engine, only for a position that is open,
\* has no valid stop and that it asked to close.
THEOREM EscalatesWithCause == GuardSpec => EscalationJustified
<1>1. GuardInv /\ [GuardNext]_guardVars => [EscalatesForOpen]_guardVars
  BY GuardStep
<1> QED
  BY <1>1, SpecGuardInv, PTL DEF GuardSpec, EscalationJustified, EscalatesForOpen
=============================================================================
