-------------------------- MODULE EngineStateProofs --------------------------
(***************************************************************************)
(* Proofs about EngineState, for every set of equity levels, every pair of *)
(* limits and every number of days and restarts.                           *)
(*                                                                         *)
(* The inductive invariant says what the write queue is for: a hot field   *)
(* that the running handler no longer has to write already holds what the  *)
(* engine holds in memory, and one it still has to write is going to.      *)
(***************************************************************************)
EXTENDS EngineState, TLAPS

Follows(f) == IF Pending(f) THEN snap[f] = eng[f] ELSE gv[f] = eng[f]

\* State and reason follow memory in every run; the two baselines follow it
\* in a run that did not begin with the explicit reset.
Followed ==
    /\ pc # "down" => Follows("state") /\ Follows("reason")
    /\ pc # "down" /\ resetPeak = 0 => Follows("dayStart") /\ Follows("peak")
    /\ pc = "down" => todo = <<>>

IInv == TypeOK /\ Followed

-----------------------------------------------------------------------------
(* Type correctness                                                         *)

LEMMA SaveOrderType == SaveOrder \in Seq(HotFields)
BY DEF SaveOrder, HotFields

LEMMA WriteType ==
    ASSUME NEW g \in Hot, NEW s \in Hot, NEW h \in HotFields
    PROVE  [f \in HotFields |-> IF f = h THEN s[f] ELSE g[f]] \in Hot
BY DEF Hot, HotFields

LEMMA ValuesType ==
    ASSUME TypeOK, NEW e \in Engine
    PROVE  Values(e) \in Hot
BY DEF TypeOK, Values, Engine, Hot

LEMMA SetStateType ==
    ASSUME NEW e \in Engine, NEW s \in EngineStates, NEW r \in Reasons
    PROVE  /\ SetState(e, s, r) \in Engine
           /\ SetState(e, s, r).state = s
           /\ SetState(e, s, r).dayStart = e.dayStart
           /\ SetState(e, s, r).peak = e.peak
BY DEF SetState, Engine, Reasons

LEMMA RolledOverType ==
    ASSUME NEW e \in Engine
    PROVE  /\ RolledOver(e) \in Engine
           /\ RolledOver(e).peak = e.peak
BY SetStateType DEF RolledOver, EngineStates, Reasons

LEMMA SaveType ==
    ASSUME TypeOK, NEW e \in Engine, HotStateSave(e)
    PROVE  todo' \in Seq(HotFields) /\ snap' \in Hot
BY ValuesType, SaveOrderType DEF HotStateSave

LEMMA MoneyType ==
    ASSUME TypeOK
    PROVE  /\ eng.peak \in Nat /\ eng.dayStart \in Nat /\ resetPeak \in Nat
           /\ equity \in Nat /\ equity > 0
<1>1. /\ eng.peak \in Level /\ eng.dayStart \in Level /\ resetPeak \in Level
      /\ equity \in Equity
  BY DEF TypeOK, Engine
<1>2. Level \subseteq Nat /\ \A e \in Equity : e \in Nat /\ e > 0
  BY EquityAssumption DEF Level
<1> QED
  BY <1>1, <1>2

LEMMA StoredMoneyType ==
    ASSUME TypeOK
    PROVE  gv.dayStart \in Nat /\ gv.peak \in Nat
<1>1. gv.dayStart \in Level /\ gv.peak \in Level
  BY DEF TypeOK, Hot
<1>2. Level \subseteq Nat
  BY EquityAssumption DEF Level
<1> QED
  BY <1>1, <1>2

LEMMA HigherType ==
    ASSUME NEW a \in Level, NEW b \in Level
    PROVE  Higher(a, b) \in Level /\ (a > 0 => Higher(a, b) > 0)
BY EquityAssumption DEF Higher, Level

LEMMA BlankType == Blank \in Engine /\ NoHot \in Hot
BY DaysAssumption DEF Blank, NoHot, Engine, Hot, EngineStates, Reasons, Level, Day

LEMMA InitType == Init => TypeOK
<1> SUFFICES ASSUME Init PROVE TypeOK
  OBVIOUS
<1>1. 0 \in Day /\ 0 \in Level /\ 0 \in 0..MaxRestarts
  BY DaysAssumption, RestartsAssumption DEF Day, Level
<1>2. <<>> \in Seq(HotFields)
  OBVIOUS
<1> QED
  BY <1>1, <1>2, BlankType DEF Init, TypeOK

LEMMA OnInitType ==
    ASSUME TypeOK, NEW input \in BOOLEAN, OnInit(input)
    PROVE  TypeOK'
<1> DEFINE loaded == gv.state # "ABSENT"
           reset  == input /\ gv.ack = 0
           fresh  == [Blank EXCEPT !.dayStart = equity, !.peak = equity]
           base   == IF ~loaded \/ reset THEN fresh ELSE Blank
           stored == IF loaded /\ ~reset
                     THEN [base EXCEPT !.state = gv.state, !.reason = gv.reason]
                     ELSE base
           adopted ==
              [stored EXCEPT
                 !.dayStart = IF gv.dayStart > 0 THEN gv.dayStart ELSE @,
                 !.peak     = IF gv.peak > 0 THEN gv.peak ELSE @]
<1>1. fresh \in Engine /\ base \in Engine
  BY BlankType DEF TypeOK, Engine, Level
<1>2. stored \in Engine
  BY <1>1 DEF TypeOK, Engine, Hot
<1>3. adopted \in Engine
  BY <1>2 DEF TypeOK, Engine, Hot
<1>4. eng' \in Engine
  BY <1>2, <1>3 DEF OnInit
<1>5. todo' \in Seq(HotFields)
  <2>1. <<"ack">> \in Seq(HotFields) /\ <<>> \in Seq(HotFields)
    BY DEF HotFields
  <2>2. \A s, t \in Seq(HotFields) : s \o t \in Seq(HotFields)
    OBVIOUS
  <2> QED
    BY <2>1, <2>2, SaveOrderType DEF OnInit
<1>6. snap' \in Hot
  <2>1. Values(base) \in Hot
    BY <1>1, ValuesType
  <2>2. [Values(base) EXCEPT !.ack = IF input THEN 1 ELSE 0] \in Hot
    BY <2>1 DEF Hot
  <2> QED
    BY <2>2 DEF OnInit
<1>7. /\ dailyHit' \in BOOLEAN /\ pc' = "idle"
      /\ restarts' \in 0..MaxRestarts /\ resetPeak' \in Level
  BY RestartsAssumption DEF OnInit, TypeOK, Level
<1> QED
  BY <1>4, <1>5, <1>6, <1>7 DEF OnInit, TypeOK, world

LEMMA RolloverType ==
    ASSUME TypeOK, TimerRollover
    PROVE  TypeOK'
<1> DEFINE rebased == [eng EXCEPT !.dayStart = equity, !.peak = Higher(@, equity)]
           rolled == RolledOver(rebased)
<1>1. equity \in Level /\ Higher(eng.peak, equity) \in Level
      /\ Higher(resetPeak, equity) \in Level
  BY HigherType DEF TypeOK, Engine, Level
<1>2. rebased \in Engine
  BY <1>1 DEF TypeOK, Engine
<1>3. rolled \in Engine
  BY <1>2, RolledOverType
<1>4. CASE today = lastDay
  BY <1>4, <1>1 DEF TimerRollover, TypeOK, NoSave, memory, world
<1>5. CASE today # lastDay
  <2>1. eng' = rolled /\ HotStateSave(rolled) /\ pc' = "clear"
        /\ lastDay' = today /\ dailyHit' = FALSE
    BY <1>5 DEF TimerRollover, ClearDailyHit
  <2>2. todo' \in Seq(HotFields) /\ snap' \in Hot
    BY <2>1, <1>3, SaveType
  <2> QED
    BY <2>1, <2>2, <1>1, <1>3 DEF TimerRollover, TypeOK, world
<1> QED
  BY <1>4, <1>5

LEMMA ClearPauseType ==
    ASSUME TypeOK, NEW secured \in BOOLEAN, TimerClearPause(secured)
    PROVE  TypeOK'
<1>1. SetState(eng, "NORMAL", "NONE") \in Engine
  BY SetStateType DEF TypeOK, EngineStates, Reasons
<1>2. eng' \in Engine /\ todo' \in Seq(HotFields) /\ snap' \in Hot
  BY <1>1, SaveType DEF TimerClearPause, TypeOK, NoSave
<1> QED
  BY <1>2 DEF TimerClearPause, TypeOK, world, history

LEMMA LimitsType ==
    ASSUME TypeOK, TimerLimits
    PROVE  TypeOK'
<1> DEFINE daily    == DailyBreach(equity, eng.dayStart)
           drawdown == DrawdownBreach(equity, eng.peak)
           raised   == [eng EXCEPT !.peak = Higher(@, equity)]
           pause    == daily /\ ~drawdown /\ ~dailyHit /\ MayPause(eng)
           after    == IF drawdown THEN SetState(raised, "HALT", "MAX_DRAWDOWN")
                       ELSE IF pause
                       THEN SetState(raised, "NO_NEW_TRADES", "DAILY_LOSS")
                       ELSE raised
<1>1. equity \in Level /\ Higher(eng.peak, equity) \in Level
      /\ Higher(resetPeak, equity) \in Level
  BY HigherType DEF TypeOK, Engine, Level
<1>2. raised \in Engine
  BY <1>1 DEF TypeOK, Engine
<1>3. after \in Engine
  BY <1>2, SetStateType DEF EngineStates, Reasons
<1>4. eng' = after /\ pc' = "guard"
  BY DEF TimerLimits
<1>5. todo' \in Seq(HotFields) /\ snap' \in Hot
  BY <1>3, SaveType DEF TimerLimits, NoSave, TypeOK
<1>6. dailyHit' \in BOOLEAN /\ pauseDay' \in Day /\ resetPeak' \in Level
  BY <1>1 DEF TimerLimits, TypeOK, DailyBreach, Level
<1> QED
  BY <1>3, <1>4, <1>5, <1>6 DEF TimerLimits, TypeOK, world

LEMMA GuardType ==
    ASSUME TypeOK, NEW escalated \in BOOLEAN, NEW closed \in BOOLEAN,
           TimerGuard(escalated, closed)
    PROVE  TypeOK'
<1> DEFINE halted == IF escalated THEN SetState(eng, "HALT", "SL_GUARD") ELSE eng
           after  == IF closed /\ MayPause(halted)
                     THEN SetState(halted, "NO_NEW_TRADES", "SL_GUARD")
                     ELSE halted
<1>1. halted \in Engine
  BY SetStateType DEF TypeOK, EngineStates, Reasons
<1>2. after \in Engine
  BY <1>1, SetStateType DEF EngineStates, Reasons
<1>3. eng' = after /\ todo' \in Seq(HotFields) /\ snap' \in Hot
  BY <1>2, SaveType DEF TimerGuard, NoSave, TypeOK
<1> QED
  BY <1>2, <1>3 DEF TimerGuard, TypeOK, world, history

LEMMA NextType == TypeOK /\ [Next]_vars => TypeOK'
<1> SUFFICES ASSUME TypeOK, [Next]_vars PROVE TypeOK'
  OBVIOUS
<1>1. ASSUME NEW input \in BOOLEAN, OnInit(input) PROVE TypeOK'
  BY <1>1, OnInitType
<1>2. CASE OnDeinit
  BY <1>2, BlankType DEF OnDeinit, TypeOK, world, Level
<1>3. CASE TimerRollover
  BY <1>3, RolloverType
<1>4. ASSUME NEW secured \in BOOLEAN, TimerClearPause(secured) PROVE TypeOK'
  BY <1>4, ClearPauseType
<1>5. CASE TimerLimits
  BY <1>5, LimitsType
<1>6. ASSUME NEW escalated \in BOOLEAN, NEW closed \in BOOLEAN,
             TimerGuard(escalated, closed)
      PROVE TypeOK'
  BY <1>6, GuardType
<1>7. CASE TestTrip
  <2>1. SetState(eng, "HALT", "MANUAL") \in Engine
    BY SetStateType DEF TypeOK, EngineStates, Reasons
  <2> QED
    BY <1>7, <2>1, SaveType DEF TestTrip, TypeOK, world, history
<1>8. CASE WriteNext
  <2>1. Head(todo) \in HotFields /\ Tail(todo) \in Seq(HotFields)
    BY <1>8 DEF WriteNext, TypeOK
  <2>2. gv' \in Hot
    BY <1>8, <2>1, WriteType DEF WriteNext, TypeOK
  <2> QED
    BY <1>8, <2>1, <2>2 DEF WriteNext, TypeOK, memory, world, history
<1>9. CASE Flush
  BY <1>9 DEF Flush, TypeOK, memory, world, history
<1>10. CASE Kill
  <2>1. <<>> \in Seq(HotFields)
    OBVIOUS
  <2> QED
    BY <1>10, <2>1, BlankType DEF Kill, TypeOK, memory, world, Level
<1>11. CASE EquityMoves
  BY <1>11 DEF EquityMoves, TypeOK, memory, history
<1>12. CASE DayPasses
  <2>1. (today + 1) % Days \in Day
    BY DaysAssumption DEF TypeOK, Day
  <2> QED
    BY <1>12, <2>1 DEF DayPasses, TypeOK, memory, history
<1>13. CASE UNCHANGED vars
  BY <1>13 DEF vars, TypeOK
<1> QED
  BY <1>1, <1>2, <1>3, <1>4, <1>5, <1>6, <1>7, <1>8, <1>9, <1>10, <1>11,
     <1>12, <1>13 DEF Next, Timer

\* Every variable of the engine keeps its type: no handler, torn save or
\* restart leaves a state, a reason or a baseline outside its range.
THEOREM EngineTypeCorrect == Spec => []TypeOK
<1> QED
  BY InitType, NextType, PTL DEF Spec

-----------------------------------------------------------------------------
(* Memory and the hot variables                                             *)

\* Nothing is pending in an empty queue; each call of HotStateSave is in a
\* queue that ends with it.
LEMMA NothingPending == todo = <<>> => \A f : ~Pending(f)
BY DEF Pending

LEMMA SavePending ==
    ASSUME todo' = SaveOrder
    PROVE  /\ Pending("state")' /\ Pending("reason")'
           /\ Pending("dayStart")' /\ Pending("peak")'
<1>1. /\ DOMAIN SaveOrder = 1..5
      /\ SaveOrder[1] = "state" /\ SaveOrder[2] = "reason"
      /\ SaveOrder[4] = "dayStart" /\ SaveOrder[5] = "peak"
  BY DEF SaveOrder
<1> QED
  BY <1>1 DEF Pending

\* A handler that saves the engine it leaves behind keeps the invariant,
\* whatever it did before.
LEMMA SaveFollows ==
    ASSUME TypeOK, NEW e \in Engine, eng' = e, HotStateSave(e), pc' # "down"
    PROVE  Followed'
<1>1. todo' = SaveOrder /\ snap' = Values(e)
  BY DEF HotStateSave
<1>2. /\ Values(e).state = e.state /\ Values(e).reason = e.reason
      /\ Values(e).dayStart = e.dayStart /\ Values(e).peak = e.peak
  BY DEF Values
<1>3. /\ Follows("state")' /\ Follows("reason")'
      /\ Follows("dayStart")' /\ Follows("peak")'
  BY <1>1, <1>2, SavePending DEF Follows
<1> QED
  BY <1>3 DEF Followed

\* One that changes neither the engine nor the variables keeps it too.
LEMMA IdleFollows ==
    ASSUME Followed, UNCHANGED <<eng, gv, todo, snap, resetPeak>>,
           pc # "down", pc' # "down"
    PROVE  Followed'
BY DEF Followed, Follows, Pending

LEMMA RolloverFollows == IInv /\ TimerRollover => Followed'
<1> SUFFICES ASSUME IInv, TimerRollover PROVE Followed'
  OBVIOUS
<1> USE DEF IInv
<1> DEFINE rebased == [eng EXCEPT !.dayStart = equity, !.peak = Higher(@, equity)]
           rolled == RolledOver(rebased)
<1>1. pc # "down" /\ pc' # "down"
  BY DEF TimerRollover, Ready
<1>2. TypeOK'
  BY RolloverType
<1>3. CASE today = lastDay
  BY <1>1, <1>3, IdleFollows DEF TimerRollover, NoSave, memory
<1>4. CASE today # lastDay
  <2>1. eng' = rolled /\ HotStateSave(rolled)
    BY <1>4 DEF TimerRollover
  <2>2. rolled \in Engine
    BY <2>1, <1>2 DEF TypeOK
  <2> QED
    BY <1>1, <2>1, <2>2, SaveFollows
<1> QED
  BY <1>3, <1>4

LEMMA LimitsFollows == IInv /\ TimerLimits => Followed'
<1> SUFFICES ASSUME IInv, TimerLimits PROVE Followed'
  OBVIOUS
<1> USE DEF IInv
<1> DEFINE daily    == DailyBreach(equity, eng.dayStart)
           drawdown == DrawdownBreach(equity, eng.peak)
           raised   == [eng EXCEPT !.peak = Higher(@, equity)]
           pause    == daily /\ ~drawdown /\ ~dailyHit /\ MayPause(eng)
           after    == IF drawdown THEN SetState(raised, "HALT", "MAX_DRAWDOWN")
                       ELSE IF pause
                       THEN SetState(raised, "NO_NEW_TRADES", "DAILY_LOSS")
                       ELSE raised
<1>1. pc # "down" /\ pc' # "down" /\ TypeOK' /\ eng' = after
  BY LimitsType DEF TimerLimits, Ready
<1>2. CASE drawdown \/ pause \/ equity > eng.peak
  <2>1. HotStateSave(after)
    BY <1>2 DEF TimerLimits
  <2>2. after \in Engine
    BY <1>1 DEF TypeOK
  <2> QED
    BY <1>1, <2>1, <2>2, SaveFollows
<1>3. CASE ~(drawdown \/ pause \/ equity > eng.peak)
  <2>1. eng.peak \in Nat /\ resetPeak \in Nat /\ equity \in Nat /\ equity > 0
    BY MoneyType
  <2>2. Higher(eng.peak, equity) = eng.peak
    BY <1>3, <2>1 DEF Higher
  <2>3. eng' = eng /\ NoSave /\ gv' = gv
    BY <1>1, <1>3, <2>2 DEF TimerLimits, TypeOK, Engine
  <2>5. resetPeak = 0 => resetPeak' = 0
    BY DEF TimerLimits
  <2>6. resetPeak' = 0 => resetPeak = 0
    <3>1. resetPeak' = IF resetPeak > 0 THEN Higher(resetPeak, equity) ELSE 0
      BY DEF TimerLimits
    <3> QED
      BY <3>1, <2>1 DEF Higher
  <2> QED
    BY <1>1, <2>3, <2>5, <2>6 DEF Followed, Follows, Pending, NoSave
<1> QED
  BY <1>2, <1>3

LEMMA GuardFollows ==
    ASSUME IInv, NEW escalated \in BOOLEAN, NEW closed \in BOOLEAN,
           TimerGuard(escalated, closed)
    PROVE  Followed'
<1> USE DEF IInv
<1> DEFINE halted == IF escalated THEN SetState(eng, "HALT", "SL_GUARD") ELSE eng
           after  == IF closed /\ MayPause(halted)
                     THEN SetState(halted, "NO_NEW_TRADES", "SL_GUARD")
                     ELSE halted
<1>1. pc # "down" /\ pc' # "down" /\ TypeOK' /\ eng' = after
  BY GuardType DEF TimerGuard, Ready
<1>2. CASE escalated \/ after # eng
  <2>1. HotStateSave(after)
    BY <1>2 DEF TimerGuard
  <2>2. after \in Engine
    BY <1>1 DEF TypeOK
  <2> QED
    BY <1>1, <2>1, <2>2, SaveFollows
<1>3. CASE ~(escalated \/ after # eng)
  BY <1>1, <1>3, IdleFollows DEF TimerGuard, NoSave, history
<1> QED
  BY <1>2, <1>3

\* OnInit: what it adopts is what is stored, or it is about to be.
LEMMA OnInitFollows ==
    ASSUME IInv, NEW input \in BOOLEAN, OnInit(input)
    PROVE  Followed'
<1> USE DEF IInv
<1> DEFINE loaded == gv.state # "ABSENT"
           reset  == input /\ gv.ack = 0
           fresh  == [Blank EXCEPT !.dayStart = equity, !.peak = equity]
           base   == IF ~loaded \/ reset THEN fresh ELSE Blank
           ackPart == IF reset THEN <<"ack">> \o SaveOrder
                      ELSE IF ~input /\ gv.ack = 1 THEN <<"ack">> ELSE <<>>
<1>1. pc' # "down" /\ gv' = gv /\ pc' = "idle"
  BY DEF OnInit
<1>2. todo' = (IF loaded THEN <<>> ELSE SaveOrder) \o ackPart
  BY DEF OnInit
<1>3. snap'.state = base.state /\ snap'.reason = base.reason
      /\ snap'.dayStart = base.dayStart /\ snap'.peak = base.peak
  BY DEF OnInit, Values
<1>4. CASE loaded /\ ~reset
  <2>1. todo' = <<"ack">> \/ todo' = <<>>
    BY <1>2, <1>4
  <2>2. \A f \in {"state", "reason", "dayStart", "peak"} : ~Pending(f)'
    BY <2>1 DEF Pending
  <2>3. /\ eng'.state = gv.state /\ eng'.reason = gv.reason
    BY <1>4 DEF OnInit, Blank
  <2>4. /\ gv.dayStart \in Nat /\ gv.peak \in Nat
    BY StoredMoneyType
  <2>5. /\ eng'.dayStart = gv.dayStart /\ eng'.peak = gv.peak
    BY <1>4, <2>4 DEF OnInit, Blank
  <2> QED
    BY <1>1, <2>2, <2>3, <2>5 DEF Followed, Follows
<1>5. CASE ~loaded
  <2>1. eng' = base /\ base = fresh
    BY <1>5 DEF OnInit
  <2>2. todo' = SaveOrder \o ackPart
    BY <1>2, <1>5
  <2>3. ackPart \in Seq(HotFields)
    <3>1. <<"ack">> \in Seq(HotFields) /\ <<>> \in Seq(HotFields)
      BY DEF HotFields
    <3>2. <<"ack">> \o SaveOrder \in Seq(HotFields)
      BY <3>1, SaveOrderType
    <3> QED
      BY <3>1, <3>2
  <2>4. \A i \in 1..5 : i \in DOMAIN todo' /\ todo'[i] = SaveOrder[i]
    BY <2>2, <2>3, SaveOrderType DEF SaveOrder
  <2>5. /\ Pending("state")' /\ Pending("reason")'
        /\ Pending("dayStart")' /\ Pending("peak")'
    <3>1. SaveOrder[1] = "state" /\ SaveOrder[2] = "reason"
          /\ SaveOrder[4] = "dayStart" /\ SaveOrder[5] = "peak"
      BY DEF SaveOrder
    <3> QED
      BY <2>4, <3>1 DEF Pending
  <2> QED
    BY <1>1, <1>3, <2>1, <2>5 DEF Followed, Follows
<1>6. CASE loaded /\ reset
  <2>1. eng'.state = base.state /\ eng'.reason = base.reason
    BY <1>6 DEF OnInit
  <2>2. todo' = <<"ack">> \o SaveOrder
    BY <1>2, <1>6, SaveOrderType
  <2>3. /\ 2 \in DOMAIN todo' /\ todo'[2] = "state"
        /\ 3 \in DOMAIN todo' /\ todo'[3] = "reason"
    <3>1. <<"ack">> \in Seq(HotFields)
      BY DEF HotFields
    <3>2. \A i \in 1..5 : i + 1 \in DOMAIN todo' /\ todo'[i + 1] = SaveOrder[i]
      BY <2>2, <3>1, SaveOrderType DEF SaveOrder
    <3>3. SaveOrder[1] = "state" /\ SaveOrder[2] = "reason"
      BY DEF SaveOrder
    <3> QED
      BY <3>2, <3>3
  <2>4. Pending("state")' /\ Pending("reason")'
    BY <2>3 DEF Pending
  <2>5. resetPeak' # 0
    BY <1>6, MoneyType DEF OnInit
  <2> QED
    BY <1>1, <1>3, <2>1, <2>4, <2>5 DEF Followed, Follows
<1> QED
  BY <1>4, <1>5, <1>6

\* What a write takes off the queue is its head.
LEMMA PendingHead ==
    ASSUME todo \in Seq(HotFields), todo # <<>>, todo' = Tail(todo), NEW f
    PROVE  Pending(f) <=> f = Head(todo) \/ Pending(f)'
<1>1. ASSUME Pending(f) PROVE f = Head(todo) \/ Pending(f)'
  <2>1. PICK i \in DOMAIN todo : todo[i] = f
    BY <1>1 DEF Pending
  <2>2. CASE i = 1
    BY <2>1, <2>2
  <2>3. CASE i # 1
    <3>1. i - 1 \in DOMAIN Tail(todo) /\ Tail(todo)[i - 1] = f
      BY <2>1, <2>3
    <3> QED
      BY <3>1 DEF Pending
  <2> QED
    BY <2>2, <2>3
<1>2. ASSUME f = Head(todo) PROVE Pending(f)
  BY <1>2 DEF Pending
<1>3. ASSUME Pending(f)' PROVE Pending(f)
  <2>1. PICK i \in DOMAIN Tail(todo) : Tail(todo)[i] = f
    BY <1>3 DEF Pending
  <2>2. i + 1 \in DOMAIN todo /\ todo[i + 1] = f
    BY <2>1
  <2> QED
    BY <2>2 DEF Pending
<1> QED
  BY <1>1, <1>2, <1>3

\* A single write brings one variable to its snapshot value and leaves the
\* others alone.
LEMMA WriteFollows == IInv /\ WriteNext => Followed'
<1> SUFFICES ASSUME IInv, WriteNext PROVE Followed'
  OBVIOUS
<1> USE DEF IInv
<1>1. /\ todo # <<>> /\ todo' = Tail(todo) /\ todo \in Seq(HotFields)
      /\ UNCHANGED <<pc, eng, snap, resetPeak>>
  BY DEF WriteNext, TypeOK, memory, history
<1>2. \A f \in HotFields : gv'[f] = IF f = Head(todo) THEN snap[f] ELSE gv[f]
  BY DEF WriteNext
<1>3. \A f : Pending(f) <=> f = Head(todo) \/ Pending(f)'
  BY <1>1, PendingHead
<1>4. ASSUME NEW f \in {"state", "reason", "dayStart", "peak"}, Follows(f)
      PROVE  Follows(f)'
  <2>1. f \in HotFields
    BY DEF HotFields
  <2> QED
    BY <1>1, <1>2, <1>3, <1>4, <2>1 DEF Follows
<1>5. pc # "down"
  BY <1>1 DEF Followed
<1> QED
  BY <1>1, <1>4, <1>5 DEF Followed

LEMMA InitInv == Init => IInv
BY InitType DEF Init, IInv, Followed

LEMMA NextInv == IInv /\ [Next]_vars => IInv'
<1> SUFFICES ASSUME IInv, [Next]_vars PROVE Followed'
  BY NextType DEF IInv
<1>1. ASSUME NEW input \in BOOLEAN, OnInit(input) PROVE Followed'
  BY <1>1, OnInitFollows
<1>2. CASE OnDeinit
  BY <1>2 DEF OnDeinit, Ready, Followed
<1>3. CASE TimerRollover
  BY <1>3, RolloverFollows
<1>4. ASSUME NEW secured \in BOOLEAN, TimerClearPause(secured) PROVE Followed'
  <2>1. SetState(eng, "NORMAL", "NONE") \in Engine
    BY SetStateType DEF IInv, TypeOK, EngineStates, Reasons
  <2>2. pc # "down" /\ pc' # "down"
    BY <1>4 DEF TimerClearPause, Ready
  <2> QED
    BY <1>4, <2>1, <2>2, SaveFollows, IdleFollows
    DEF TimerClearPause, NoSave, IInv, history
<1>5. CASE TimerLimits
  BY <1>5, LimitsFollows
<1>6. ASSUME NEW escalated \in BOOLEAN, NEW closed \in BOOLEAN,
             TimerGuard(escalated, closed)
      PROVE Followed'
  BY <1>6, GuardFollows
<1>7. CASE TestTrip
  <2>1. SetState(eng, "HALT", "MANUAL") \in Engine
    BY SetStateType DEF IInv, TypeOK, EngineStates, Reasons
  <2>2. pc' # "down"
    BY <1>7 DEF TestTrip, Ready
  <2> QED
    BY <1>7, <2>1, <2>2, SaveFollows DEF TestTrip, IInv
<1>8. CASE WriteNext
  BY <1>8, WriteFollows
<1>9. CASE Flush
  BY <1>9 DEF Flush, memory, history, IInv, Followed, Follows, Pending
<1>10. CASE Kill
  BY <1>10 DEF Kill, Followed
<1>11. CASE EquityMoves
  BY <1>11 DEF EquityMoves, memory, history, IInv, Followed, Follows, Pending
<1>12. CASE DayPasses
  BY <1>12 DEF DayPasses, memory, history, IInv, Followed, Follows, Pending
<1>13. CASE UNCHANGED vars
  BY <1>13 DEF vars, IInv, Followed, Follows, Pending
<1> QED
  BY <1>1, <1>2, <1>3, <1>4, <1>5, <1>6, <1>7, <1>8, <1>9, <1>10, <1>11,
     <1>12, <1>13 DEF Next, Timer

LEMMA Invariance == Spec => []IInv
BY InitInv, NextInv, PTL DEF Spec

\* Between handlers the stored state, reason, day start and peak are the ones
\* in memory (StateStore.mqh:6-9), also when the terminal may die.
THEOREM NothingUnsaved == Spec => []MemoryPersisted
<1>1. IInv => MemoryPersisted
  BY NothingPending
  DEF IInv, Followed, Follows, MemoryPersisted, Ready
<1> QED
  BY <1>1, Invariance, PTL

-----------------------------------------------------------------------------
(* What a step may do to the current state, reason and acknowledgement      *)

\* Where the terminal does not die, a step that is none of the trips, pauses,
\* clearings, resets or disarmings keeps the triple.
Stands == CurState' = CurState /\ CurReason' = CurReason /\ CurAck' = CurAck

StateStep ==
    \/ Stands
    \/ FS!FailSafeNext /\ (CurState = "HALT" /\ CurState' # "HALT" =>
                             OnInit(TRUE) /\ gv.ack = 0)

\* HotStateSave does not touch the acknowledgement.
LEMMA SaveKeepsAck ==
    ASSUME todo = <<>>, gv' = gv, NEW e, HotStateSave(e) \/ NoSave
    PROVE  CurAck' = CurAck
<1>1. CurAck = gv.ack
  BY NothingPending DEF CurAck
<1>2. ~Pending("ack")'
  BY DEF HotStateSave, NoSave, SaveOrder, Pending
<1> QED
  BY <1>1, <1>2 DEF CurAck

LEMMA RunningPair ==
    ASSUME pc # "down", pc' # "down", CurAck' = CurAck,
           \/ UNCHANGED <<eng.state, eng.reason>>
           \/ /\ eng'.state = "HALT"
              /\ eng'.reason \in {"MAX_DRAWDOWN", "SL_GUARD", "MANUAL"}
           \/ /\ eng.state = "NORMAL" /\ eng'.state = "NO_NEW_TRADES"
              /\ eng'.reason \in {"DAILY_LOSS", "SL_GUARD"}
           \/ /\ eng.state = "NO_NEW_TRADES"
              /\ eng.reason \in {"DAILY_LOSS", "SL_GUARD"}
              /\ eng'.state = "NORMAL" /\ eng'.reason = "NONE"
    PROVE  StateStep
<1>1. CurState = eng.state /\ CurReason = eng.reason
      /\ CurState' = eng'.state /\ CurReason' = eng'.reason
  BY DEF CurState, CurReason
<1>2. CASE UNCHANGED <<eng.state, eng.reason>>
  BY <1>1, <1>2 DEF StateStep, Stands
<1>3. CASE /\ eng'.state = "HALT"
           /\ eng'.reason \in {"MAX_DRAWDOWN", "SL_GUARD", "MANUAL"}
  BY <1>1, <1>3 DEF StateStep, FS!FailSafeNext, FS!Trip, FS!Become
<1>4. CASE /\ eng.state = "NORMAL" /\ eng'.state = "NO_NEW_TRADES"
           /\ eng'.reason \in {"DAILY_LOSS", "SL_GUARD"}
  BY <1>1, <1>4
  DEF StateStep, FS!FailSafeNext, FS!PauseDaily, FS!PauseGuard, FS!Become
<1>5. CASE /\ eng.state = "NO_NEW_TRADES"
           /\ eng.reason \in {"DAILY_LOSS", "SL_GUARD"}
           /\ eng'.state = "NORMAL" /\ eng'.reason = "NONE"
  BY <1>1, <1>5 DEF StateStep, FS!FailSafeNext, FS!ClearPause, FS!Become
<1> QED
  BY <1>2, <1>3, <1>4, <1>5

LEMMA SetStateReason ==
    ASSUME NEW e \in Engine, NEW s, NEW r
    PROVE  /\ SetState(e, s, r).state = s
           /\ SetState(e, s, r).reason = IF s = "NORMAL" THEN "NONE" ELSE r
BY DEF SetState, Engine

LEMMA AppendedHead ==
    ASSUME NEW s \in Seq(HotFields), NEW t \in Seq(HotFields), Len(t) >= 1
    PROVE  Len(s) + 1 \in DOMAIN (s \o t) /\ (s \o t)[Len(s) + 1] = t[1]
OBVIOUS

LEMMA OnInitPair ==
    ASSUME IInv, NEW input \in BOOLEAN, OnInit(input)
    PROVE  StateStep
<1> USE DEF IInv
<1> DEFINE loaded == gv.state # "ABSENT"
           reset  == input /\ gv.ack = 0
           saves  == IF loaded THEN <<>> ELSE SaveOrder
<1>1. pc = "down" /\ pc' # "down" /\ gv' = gv /\ gv.ack \in {0, 1}
  BY DEF OnInit, TypeOK, Hot
<1>2. CurState' = eng'.state /\ CurReason' = eng'.reason
  BY <1>1 DEF CurState, CurReason
<1>3. CurAck = gv.ack
  BY <1>1, NothingPending DEF CurAck, Followed
<1>4. saves \in Seq(HotFields) /\ \A i \in DOMAIN saves : saves[i] # "ack"
  BY SaveOrderType DEF SaveOrder
<1>5. snap'.ack = IF input THEN 1 ELSE 0
  BY DEF OnInit, Values
<1>6. CASE reset
  <2>1. eng'.state = "NORMAL" /\ eng'.reason = "NONE"
    BY <1>6 DEF OnInit, Blank
  <2>2. Pending("ack")'
    <3>1. todo' = saves \o (<<"ack">> \o SaveOrder)
      BY <1>6 DEF OnInit
    <3>2. <<"ack">> \o SaveOrder \in Seq(HotFields)
          /\ (<<"ack">> \o SaveOrder)[1] = "ack"
          /\ Len(<<"ack">> \o SaveOrder) >= 1
      BY SaveOrderType DEF HotFields, SaveOrder
    <3>3. /\ Len(saves) + 1 \in DOMAIN todo'
          /\ todo'[Len(saves) + 1] = "ack"
      BY <1>4, <3>1, <3>2, AppendedHead
    <3> QED
      BY <3>3 DEF Pending
  <2>3. CurAck = 0 /\ CurAck' = 1
    BY <1>3, <1>5, <1>6, <2>2 DEF CurAck
  <2>4. OnInit(TRUE) /\ gv.ack = 0
    BY <1>6
  <2> QED
    BY <1>2, <2>1, <2>3, <2>4
    DEF StateStep, FS!FailSafeNext, FS!ExplicitReset, FS!Become
<1>7. CASE ~reset
  <2>1. CurState' = CurState /\ CurReason' = CurReason
    <3>1. CASE loaded
      <4>1. eng'.state = gv.state /\ eng'.reason = gv.reason
        BY <1>7, <3>1 DEF OnInit, Blank
      <4> QED
        BY <1>1, <1>2, <3>1, <4>1 DEF CurState, CurReason, StoredState
    <3>2. CASE ~loaded
      <4>1. eng'.state = "NORMAL" /\ eng'.reason = "NONE"
        BY <1>7, <3>2 DEF OnInit, Blank
      <4> QED
        BY <1>1, <1>2, <3>2, <4>1 DEF CurState, CurReason, StoredState
    <3> QED
      BY <3>1, <3>2
  <2>2. CASE ~input /\ gv.ack = 1
    <3>1. todo' = saves \o <<"ack">>
      BY <1>7, <2>2 DEF OnInit
    <3>2. /\ Len(saves) + 1 \in DOMAIN todo'
          /\ todo'[Len(saves) + 1] = "ack"
      <4>1. <<"ack">> \in Seq(HotFields) /\ Len(<<"ack">>) = 1
            /\ <<"ack">>[1] = "ack"
        BY DEF HotFields
      <4> QED
        BY <1>4, <3>1, <4>1
    <3>3. Pending("ack")'
      BY <3>2 DEF Pending
    <3>4. CurAck = 1 /\ CurAck' = 0
      BY <1>3, <1>5, <2>2, <3>3 DEF CurAck
    <3> QED
      BY <2>1, <3>4 DEF StateStep, FS!FailSafeNext, FS!Disarm
  <2>3. CASE ~(~input /\ gv.ack = 1)
    <3>1. todo' = saves \o <<>>
      BY <1>7, <2>3 DEF OnInit
    <3>2. todo' = saves
      BY <1>4, <3>1
    <3>3. CurAck' = CurAck
      BY <1>1, <1>3, <1>4, <3>2 DEF CurAck, Pending
    <3> QED
      BY <2>1, <3>3 DEF StateStep, Stands
  <2> QED
    BY <2>2, <2>3
<1> QED
  BY <1>6, <1>7

LEMMA NextPair ==
    ASSUME IInv, [Next]_vars, ~KillAllowed
    PROVE  StateStep
<1> USE DEF IInv
<1> eng \in Engine
  BY DEF TypeOK
<1>1. ASSUME NEW input \in BOOLEAN, OnInit(input) PROVE StateStep
  BY <1>1, OnInitPair
<1>2. CASE OnDeinit
  <2>1. gv.state = eng.state /\ gv.reason = eng.reason /\ gv.state # "ABSENT"
    BY <1>2, NothingPending
    DEF OnDeinit, Ready, Followed, Follows, TypeOK, Engine, EngineStates
  <2>2. CurAck' = CurAck
    BY <1>2 DEF OnDeinit, CurAck, Pending
  <2> QED
    BY <1>2, <2>1, <2>2
    DEF OnDeinit, Ready, StateStep, Stands, CurState, CurReason, StoredState
<1>3. CASE TimerRollover
  <2> DEFINE rebased == [eng EXCEPT !.dayStart = equity,
                                    !.peak = Higher(@, equity)]
  <2>1. pc # "down" /\ pc' # "down" /\ CurAck' = CurAck
    BY <1>3, SaveKeepsAck DEF TimerRollover, Ready
  <2>2. rebased.state = eng.state /\ rebased.reason = eng.reason
    BY DEF Engine
  <2>3. rebased \in Engine
    BY HigherType DEF TypeOK, Engine, Level
  <2>4. \/ UNCHANGED <<eng.state, eng.reason>>
        \/ /\ eng.state = "NO_NEW_TRADES" /\ eng.reason = "DAILY_LOSS"
           /\ eng' = SetState(rebased, "NORMAL", "NONE")
    BY <1>3, <2>2 DEF TimerRollover, RolledOver, memory
  <2> QED
    BY <2>1, <2>3, <2>4, SetStateReason, RunningPair
<1>4. ASSUME NEW secured \in BOOLEAN, TimerClearPause(secured) PROVE StateStep
  <2>1. pc # "down" /\ pc' # "down" /\ CurAck' = CurAck
    BY <1>4, SaveKeepsAck DEF TimerClearPause, Ready
  <2> QED
    BY <1>4, <2>1, SetStateReason, RunningPair
    DEF TimerClearPause, PauseMayClear
<1>5. CASE TimerLimits
  <2> DEFINE raised == [eng EXCEPT !.peak = Higher(@, equity)]
  <2>1. pc # "down" /\ pc' # "down" /\ CurAck' = CurAck
    BY <1>5, SaveKeepsAck DEF TimerLimits, Ready
  <2>2. raised.state = eng.state /\ raised.reason = eng.reason
    BY DEF Engine
  <2>3. raised \in Engine
    BY HigherType DEF TypeOK, Engine, Level
  <2>4. \/ UNCHANGED <<eng.state, eng.reason>>
        \/ eng' = SetState(raised, "HALT", "MAX_DRAWDOWN")
        \/ /\ eng.state = "NORMAL"
           /\ eng' = SetState(raised, "NO_NEW_TRADES", "DAILY_LOSS")
    BY <1>5, <2>2 DEF TimerLimits, MayPause
  <2> QED
    BY <2>1, <2>3, <2>4, SetStateReason, RunningPair
<1>6. ASSUME NEW escalated \in BOOLEAN, NEW closed \in BOOLEAN,
             TimerGuard(escalated, closed)
      PROVE StateStep
  <2>1. pc # "down" /\ pc' # "down" /\ CurAck' = CurAck
    BY <1>6, SaveKeepsAck DEF TimerGuard, Ready
  <2>2. \/ UNCHANGED eng
        \/ eng' = SetState(eng, "HALT", "SL_GUARD")
        \/ /\ eng.state = "NORMAL"
           /\ eng' = SetState(eng, "NO_NEW_TRADES", "SL_GUARD")
    <3>1. SetState(eng, "HALT", "SL_GUARD").state # "NORMAL"
      BY SetStateReason
    <3> QED
      BY <1>6, <3>1 DEF TimerGuard, MayPause
  <2> QED
    BY <2>1, <2>2, SetStateReason, RunningPair
<1>7. CASE TestTrip
  <2>1. pc # "down" /\ pc' # "down" /\ CurAck' = CurAck
    BY <1>7, SaveKeepsAck DEF TestTrip, Ready
  <2> QED
    BY <1>7, <2>1, SetStateReason, RunningPair DEF TestTrip
<1>8. CASE WriteNext
  <2>1. pc # "down" /\ pc' = pc /\ eng' = eng /\ snap' = snap
    BY <1>8 DEF WriteNext, Followed, memory
  <2>2. Pending("ack") <=> "ack" = Head(todo) \/ Pending("ack")'
    BY <1>8, PendingHead DEF WriteNext, TypeOK
  <2>3. gv'.ack = IF "ack" = Head(todo) THEN snap.ack ELSE gv.ack
    BY <1>8 DEF WriteNext, HotFields
  <2>4. CurAck' = CurAck
    BY <2>1, <2>2, <2>3 DEF CurAck
  <2> QED
    BY <2>1, <2>4, RunningPair
<1>9. CASE Flush \/ Kill
  BY <1>9 DEF Flush, Kill
<1>10. CASE EquityMoves \/ DayPasses \/ UNCHANGED vars
  BY <1>10
  DEF EquityMoves, DayPasses, vars, memory, StateStep, Stands, CurState,
      CurReason, CurAck, Pending, StoredState
<1> QED
  BY <1>1, <1>2, <1>3, <1>4, <1>5, <1>6, <1>7, <1>8, <1>9, <1>10
  DEF Next, Timer

\* In a terminal that does not die, HALT survives every handler, rollover and
\* restart; only the explicit reset on an unacknowledged edge leaves it.
THEOREM HaltSticky == ~KillAllowed => (Spec => HaltIsSticky)
<1> SUFFICES ASSUME ~KillAllowed PROVE Spec => HaltIsSticky
  OBVIOUS
<1>1. IInv /\ [Next]_vars =>
        [CurState = "HALT" /\ CurState' # "HALT" => OnInit(TRUE) /\ gv.ack = 0]_vars
  BY NextPair DEF StateStep, Stands
<1> QED
  BY <1>1, Invariance, PTL DEF Spec, HaltIsSticky

\* In a terminal that does not die, the EA implements the fail-safe state
\* machine of python/mql5bot/failsafe.py with its one-shot reset.
THEOREM Refinement == ~KillAllowed => (Spec => ImplementsFailSafe)
<1> SUFFICES ASSUME ~KillAllowed PROVE Spec => ImplementsFailSafe
  OBVIOUS
<1>1. Init => FS!FailSafeInit
  BY DEF Init, NoHot, FS!FailSafeInit, CurState, CurReason, CurAck, Pending,
         StoredState
<1>2. IInv /\ [Next]_vars => [FS!FailSafeNext]_FS!fsVars
  BY NextPair DEF StateStep, Stands, FS!fsVars
<1> QED
  BY <1>1, <1>2, Invariance, PTL
  DEF Spec, ImplementsFailSafe, FS!FailSafeSpec

-----------------------------------------------------------------------------
(* A breach stops the engine                                                *)

\* The daily limit is silenced only while the engine is stopped, and not when
\* a pause is about to clear.
Silenced ==
    /\ pc # "down" /\ dailyHit => eng.state # "NORMAL"
    /\ pc = "clear" => ~dailyHit

LEMMA OnInitSilences ==
    ASSUME TypeOK, NEW input \in BOOLEAN, OnInit(input)
    PROVE  Silenced'
<1> DEFINE loaded == gv.state # "ABSENT"
           reset  == input /\ gv.ack = 0
           fresh  == [Blank EXCEPT !.dayStart = equity, !.peak = equity]
           base   == IF ~loaded \/ reset THEN fresh ELSE Blank
           stored == IF loaded /\ ~reset
                     THEN [base EXCEPT !.state = gv.state, !.reason = gv.reason]
                     ELSE base
           adopted ==
              [stored EXCEPT
                 !.dayStart = IF gv.dayStart > 0 THEN gv.dayStart ELSE @,
                 !.peak     = IF gv.peak > 0 THEN gv.peak ELSE @]
<1>1. adopted.state = stored.state
  BY DEF Blank
<1>2. eng'.state = stored.state /\ dailyHit' = (stored.state = "NO_NEW_TRADES" /\
                                                stored.reason = "DAILY_LOSS")
  BY <1>1 DEF OnInit
<1>3. pc' = "idle"
  BY DEF OnInit
<1> HIDE DEF stored
<1> QED
  BY <1>2, <1>3 DEF Silenced

LEMMA LimitsStop ==
    ASSUME TypeOK, Silenced, TimerLimits
    PROVE  /\ Silenced'
           /\ DailyBreach(equity, eng.dayStart) \/ DrawdownBreach(equity, eng.peak) =>
                eng'.state # "NORMAL"
<1> DEFINE daily    == DailyBreach(equity, eng.dayStart)
           drawdown == DrawdownBreach(equity, eng.peak)
           raised   == [eng EXCEPT !.peak = Higher(@, equity)]
           pause    == daily /\ ~drawdown /\ ~dailyHit /\ MayPause(eng)
<1>1. raised \in Engine /\ raised.state = eng.state
  BY HigherType DEF TypeOK, Engine, Level
<1>2. /\ SetState(raised, "HALT", "MAX_DRAWDOWN").state = "HALT"
      /\ SetState(raised, "NO_NEW_TRADES", "DAILY_LOSS").state = "NO_NEW_TRADES"
  BY <1>1, SetStateReason
<1>3. eng'.state = IF drawdown THEN "HALT" ELSE IF pause THEN "NO_NEW_TRADES" ELSE eng.state
  BY <1>1, <1>2 DEF TimerLimits
<1>4. pc = "limits" /\ pc' = "guard" /\ dailyHit' = (dailyHit \/ pause)
  BY DEF TimerLimits, Ready
<1>5. daily \/ drawdown => eng'.state # "NORMAL"
  BY <1>3, <1>4 DEF Silenced, MayPause
<1>6. Silenced'
  BY <1>3, <1>4, <1>5 DEF Silenced
<1> QED
  BY <1>5, <1>6

LEMMA NextSilences == TypeOK /\ Silenced /\ [Next]_vars => Silenced'
<1> SUFFICES ASSUME TypeOK, Silenced, [Next]_vars PROVE Silenced'
  OBVIOUS
<1> USE DEF Silenced
<1>1. ASSUME NEW input \in BOOLEAN, OnInit(input) PROVE Silenced'
  BY <1>1, OnInitSilences
<1>2. CASE TimerRollover
  <2>1. pc' # "down" /\ (dailyHit' => dailyHit /\ eng' = eng /\ pc' = "limits")
    BY <1>2 DEF TimerRollover, ClearDailyHit, memory
  <2> QED
    BY <1>2, <2>1 DEF TimerRollover, Ready
<1>3. ASSUME NEW secured \in BOOLEAN, TimerClearPause(secured) PROVE Silenced'
  BY <1>3 DEF TimerClearPause, Ready
<1>4. CASE TimerLimits
  BY <1>4, LimitsStop
<1>5. ASSUME NEW escalated \in BOOLEAN, NEW closed \in BOOLEAN, TimerGuard(escalated, closed)
      PROVE  Silenced'
  <2>1. PICK halted : halted = IF escalated THEN SetState(eng, "HALT", "SL_GUARD") ELSE eng
    OBVIOUS
  <2>2. halted \in Engine /\ (eng.state # "NORMAL" => halted.state # "NORMAL")
    BY <2>1, SetStateType, SetStateReason DEF TypeOK, EngineStates, Reasons
  <2>3. eng' = IF closed /\ MayPause(halted) THEN SetState(halted, "NO_NEW_TRADES", "SL_GUARD") ELSE halted
    BY <1>5, <2>1 DEF TimerGuard
  <2>4. eng.state # "NORMAL" => eng'.state # "NORMAL"
    BY <2>2, <2>3, SetStateReason
  <2> QED
    BY <1>5, <2>4 DEF TimerGuard, Ready
<1>6. CASE TestTrip
  BY <1>6, SetStateReason DEF TestTrip, Ready, TypeOK
<1>7. CASE OnDeinit \/ Kill
  BY <1>7 DEF OnDeinit, Kill
<1>8. CASE WriteNext \/ Flush \/ EquityMoves \/ DayPasses \/ UNCHANGED vars
  BY <1>8 DEF WriteNext, Flush, EquityMoves, DayPasses, vars, memory
<1> QED
  BY <1>1, <1>2, <1>3, <1>4, <1>5, <1>6, <1>7, <1>8 DEF Next, Timer

\* TimerLimits of Mql5Bot.mq5: a pass that sees a breach of either limit leaves
\* the engine stopped, whatever resets, restarts and deaths of the terminal
\* came before.  The daily limit may have been silenced for the day, so this
\* needs that it is silenced only while the engine is stopped.
THEOREM BreachesStop == Spec => BreachStops
<1>1. Init => Silenced
  BY DEF Init, Silenced
<1>2. Spec => []TypeOK
  BY EngineTypeCorrect
<1>3. TypeOK /\ Silenced /\ [Next]_vars => Silenced'
  BY NextSilences
<1>4. TypeOK /\ Silenced /\ [Next]_vars =>
        [TimerLimits /\ (\/ DailyBreach(equity, eng.dayStart)
                         \/ DrawdownBreach(equity, eng.peak)) =>
           eng'.state # "NORMAL"]_vars
  BY LimitsStop
<1> QED
  BY <1>1, <1>2, <1>3, <1>4, PTL DEF Spec, BreachStops
=============================================================================
